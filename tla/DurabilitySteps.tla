--------------------------- MODULE DurabilitySteps ---------------------------
(***************************************************************************)
(* Facts that the proofs about Durability share: bounds and types, what an *)
(* append to the descriptor and its sync leave, file numbers that are not  *)
(* in use, and the parts of the invariant that say nothing in a phase.     *)
(* Then: creating a database, recovering one that exists, installing the   *)
(* new descriptor at the end of Open, writing, switching the memtable and  *)
(* reading preserve the invariant.                                         *)
(*                                                                         *)
(* A leaf with two time limits is tried again with the second.             *)
(***************************************************************************)
EXTENDS Durability, TLAPS

USE ZenonT(30), ZenonT(90) DEF logVars, tabVars, descVars, memVars, vsetVars, openVars,
                               writeVars, flushVars, compVars, gcVars, ackVars, bgVars

\* A part of the invariant: the types.
LEMMA HasTypes == DurabilityInv => TypeOK
  BY DEF DurabilityInv

\* A part of the invariant: CURRENT names a descriptor.
LEMMA HasCurrent == DurabilityInv => CurrentInv
  BY DEF DurabilityInv

\* A part of the invariant: the tables the descriptor lists are finished.
LEMMA HasDescTables == DurabilityInv => DescTablesInv
  BY DEF DurabilityInv

\* A part of the invariant: the file numbers in the descriptor.
LEMMA HasDescNumbers == DurabilityInv => DescNumbersInv
  BY DEF DurabilityInv

\* A part of the invariant: the sequence numbers in the descriptor.
LEMMA HasDescSeq == DurabilityInv => DescSeqInv
  BY DEF DurabilityInv

\* A part of the invariant: synced records are records; no append failed.
LEMMA HasLog == DurabilityInv => LogInv
  BY DEF DurabilityInv

\* A part of the invariant: acknowledgements.
LEMMA HasAck == DurabilityInv => AckInv
  BY DEF DurabilityInv

\* A part of the invariant: synced writes are found again.
LEMMA HasSyncedFound == DurabilityInv => SyncedFoundInv
  BY DEF DurabilityInv

\* A part of the invariant: acknowledged writes are found again.
LEMMA HasAckedFound == DurabilityInv => AckedFoundInv
  BY DEF DurabilityInv

\* A part of the invariant: what each phase leaves idle.
LEMMA HasPhase == DurabilityInv => PhaseInv
  BY DEF DurabilityInv

\* A part of the invariant: the descriptor of a new database.
LEMMA HasNewDB == DurabilityInv => NewDBInv
  BY DEF DurabilityInv

\* A part of the invariant: the recovered version.
LEMMA HasRecVersion == DurabilityInv => RecVersionInv
  BY DEF DurabilityInv

\* A part of the invariant: the tables recovery adds.
LEMMA HasRecEdit == DurabilityInv => RecEditInv
  BY DEF DurabilityInv

\* A part of the invariant: the logs to replay.
LEMMA HasRecLogs == DurabilityInv => RecLogsInv
  BY DEF DurabilityInv

\* A part of the invariant: acknowledged writes during recovery.
LEMMA HasRecAcked == DurabilityInv => RecAckedInv
  BY DEF DurabilityInv

\* A part of the invariant: the log DB::Open creates.
LEMMA HasRecNewLog == DurabilityInv => RecNewLogInv
  BY DEF DurabilityInv

\* A part of the invariant: the descriptor DB::Open writes.
LEMMA HasRecDesc == DurabilityInv => RecDescInv
  BY DEF DurabilityInv

\* A part of the invariant: sequence numbers during recovery.
LEMMA HasRecSeq == DurabilityInv => RecSeqInv
  BY DEF DurabilityInv

\* A part of the invariant: the numbers of an open database.
LEMMA HasNumbers == DurabilityInv => NumbersInv
  BY DEF DurabilityInv

\* A part of the invariant: acknowledged writes are in memory or in tables.
LEMMA HasAcked == DurabilityInv => AckedInv
  BY DEF DurabilityInv

\* A part of the invariant: memtables are in their logs.
LEMMA HasMem == DurabilityInv => MemInv
  BY DEF DurabilityInv

\* A part of the invariant: the tables of versions in use exist.
LEMMA HasVersion == DurabilityInv => VersionInv
  BY DEF DurabilityInv

\* A part of the invariant: LastSequence covers what is stored.
LEMMA HasSeq == DurabilityInv => SeqInv
  BY DEF DurabilityInv

\* A part of the invariant: LastSequence covers the logs.
LEMMA HasSeqLogs == DurabilityInv => SeqLogsInv
  BY DEF DurabilityInv

\* A part of the invariant: the write in progress.
LEMMA HasWrite == DurabilityInv => WriteInv
  BY DEF DurabilityInv

\* A part of the invariant: the steps of a flush.
LEMMA HasFlush == DurabilityInv => FlushInv
  BY DEF DurabilityInv

\* A part of the invariant: the output of a flush is nobody else's.
LEMMA HasFlushBuild == DurabilityInv => FlushBuildInv
  BY DEF DurabilityInv

\* A part of the invariant: the finished output of a flush.
LEMMA HasFlushBuilt == DurabilityInv => FlushBuiltInv
  BY DEF DurabilityInv

\* A part of the invariant: an idle compaction.
LEMMA HasCompactIdle == DurabilityInv => CompactIdleInv
  BY DEF DurabilityInv

\* A part of the invariant: the outputs of a compaction.
LEMMA HasCompactOuts == DurabilityInv => CompactOutsInv
  BY DEF DurabilityInv

\* A part of the invariant: the writes a compaction carries.
LEMMA HasCompactData == DurabilityInv => CompactDataInv
  BY DEF DurabilityInv

\* A part of the invariant: the open output of a compaction.
LEMMA HasCompactOut == DurabilityInv => CompactOutInv
  BY DEF DurabilityInv

\* A part of the invariant: the edit in flight.
LEMMA HasEdit == DurabilityInv => EditInv
  BY DEF DurabilityInv

\* A part of the invariant: files chosen for removal are not needed.
LEMMA HasGarbage == DurabilityInv => GarbageInv
  BY DEF DurabilityInv

\* File and sequence numbers are positive naturals.
LEMMA Bounds ==
  /\ 0 \in 0 .. MaxFile /\ 0 \in 0 .. MaxSeq
  /\ File \subseteq 0 .. MaxFile /\ File \subseteq Nat /\ Seqno \subseteq 0 .. MaxSeq
  /\ \A n \in 0 .. MaxSeq : n \in Nat
  /\ \A n \in 0 .. MaxFile : n \in Nat /\ (n # 0 => n \in File)
  /\ \A n \in Nat : n # 0 /\ n <= MaxFile => n \in File
  /\ 0 \notin File
  BY SMTT(30), SMTT(90), DurabilityAssumption DEF File, Seqno

\* CURRENT names a descriptor with a well-formed content.
LEMMA CurrentFacts ==
  ASSUME TypeOK, CurrentInv, current # 0
  PROVE  /\ current \in File
         /\ man[current].os \in Cuts
         /\ Cuts \subseteq Snapshot
  BY DEF TypeOK, CurrentInv, Cuts, Descriptor

\* The types of the fields of a snapshot.
LEMMA SnapshotFields ==
  ASSUME NEW m \in Snapshot
  PROVE  /\ m.files \subseteq File /\ m.log \in 0 .. MaxFile
         /\ m.next \in Nat /\ m.seq \in 0 .. MaxSeq
  BY DEF Snapshot

\* NewSnapshot builds a snapshot from its fields.
LEMMA NewSnapshotFields ==
  ASSUME NEW files \in SUBSET File, NEW log \in 0 .. MaxFile, NEW next \in Nat,
         NEW seq \in 0 .. MaxSeq
  PROVE  LET m == NewSnapshot(files, log, next, seq)
         IN  /\ m \in Snapshot
             /\ m.files = files /\ m.log = log /\ m.next = next /\ m.seq = seq
  BY DEF NewSnapshot, Snapshot

\* After a sync only one content of the descriptor is possible.
LEMMA SyncedDescriptor ==
  ASSUME NEW m \in Snapshot
  PROVE  /\ Synced(m) \in Descriptor
         /\ Synced(m).os = m /\ Synced(m).cuts = {m}
  BY DEF Synced, Descriptor

\* What appending an edit leaves: the new content of the descriptor, which is
\* also the one content added to those a crash may leave.
Appended(add, del, log) ==
  /\ man' \in [File -> Descriptor]
  /\ \E new \in Snapshot :
       /\ new.files = (man[current].os.files \ del) \cup add
       /\ new.log = log /\ new.next = nextFile /\ new.seq = lastSeq
       /\ man'[current].os = new
       /\ Cuts' = Cuts \cup {new}

\* Appending an edit (LogAndApply) adds one possible content.
LEMMA AppendEditCuts ==
  ASSUME TypeOK, CurrentInv, current # 0, current' = current,
         NEW add \in SUBSET File, NEW del, NEW log \in 0 .. MaxFile,
         AppendEdit(add, del, log)
  PROVE  Appended(add, del, log)
<1> DEFINE files == (man[current].os.files \ del) \cup add
           new == NewSnapshot(files, log, nextFile, lastSeq)
<1>1. /\ new \in Snapshot /\ new.files = files /\ new.log = log
      /\ new.next = nextFile /\ new.seq = lastSeq
  BY SMTT(30), SMTT(90), CurrentFacts, SnapshotFields, NewSnapshotFields DEF TypeOK
<1>2. man' = [man EXCEPT ![current] = [os |-> new, cuts |-> Cuts \cup {new}]]
  BY DEF AppendEdit, Cuts
<1>3. [os |-> new, cuts |-> Cuts \cup {new}] \in Descriptor
  BY <1>1, CurrentFacts DEF Descriptor
<1> HIDE DEF new
<1>4. /\ man' \in [File -> Descriptor]
      /\ man'[current] = [os |-> new, cuts |-> Cuts \cup {new}]
  BY <1>2, <1>3, CurrentFacts DEF TypeOK
<1> QED
  BY SMTT(30), SMTT(90), <1>1, <1>4 DEF Appended, Cuts

\* Syncing the descriptor leaves its full content only.
LEMMA SyncEditCuts ==
  ASSUME TypeOK, CurrentInv, current # 0, current' = current, SyncEdit
  PROVE  /\ man' \in [File -> Descriptor]
         /\ man'[current].os = man[current].os
         /\ Cuts' = {man[current].os}
<1>1. man[current].os \in Snapshot
  BY CurrentFacts
<1>2. man' \in [File -> Descriptor] /\ man'[current] = Synced(man[current].os)
  BY <1>1, CurrentFacts, SyncedDescriptor DEF SyncEdit, TypeOK
<1> QED
  BY <1>1, <1>2, SyncedDescriptor DEF Cuts

\* The database is open while a write, a flush, a compaction or a removal of
\* obsolete files is under way.
LEMMA StaysRunning ==
  ASSUME DurabilityInv, phase' = phase,
         \/ Running \/ fpc # "idle" \/ cpc # "idle" \/ wpc # "idle"
         \/ ~NothingToRemove
  PROVE  Running /\ phase' = phase /\ phase' \in {"gc", "up"}
  BY SMTT(30), SMTT(90), HasPhase DEF PhaseInv, Running

\* The only database without CURRENT is one that NewDB has not finished.
LEMMA CurrentByPhase ==
  ASSUME DurabilityInv
  PROVE  /\ phase \in {"none", "newdb"} => current = 0
         /\ phase \in {"down", "logs", "newlog", "desc"} => current # 0
         /\ phase # "up" => fpc = "idle"
  BY SMTT(30), SMTT(90), HasPhase DEF PhaseInv

\* What the numbers of an open database are.
LEMMA RunTypes ==
  ASSUME DurabilityInv, Running
  PROVE  /\ current # 0 /\ current \in File
         /\ logNum \in File /\ logNum \in Nat /\ vLog \in Nat /\ nextFile \in Nat
         /\ logFiles \cup version \cup cver \cup reader \cup couts \subseteq Nat
         /\ man[current].os \in Cuts
         /\ \A m \in Cuts : /\ m \in Snapshot /\ m.files \subseteq Nat
                            /\ m.log \in Nat /\ m.next \in Nat /\ m.seq \in Nat
         /\ lastSeq \in Nat
<1>1. current # 0
  BY HasNumbers DEF NumbersInv
<1>2. /\ current \in File /\ man[current].os \in Cuts
      /\ \A m \in Cuts : /\ m \in Snapshot /\ m.files \subseteq Nat
                         /\ m.log \in Nat /\ m.next \in Nat /\ m.seq \in Nat
  BY <1>1, CurrentFacts, SnapshotFields, Bounds, HasTypes, HasCurrent
<1>3. /\ logNum \in File /\ logNum \in Nat /\ vLog \in Nat
      /\ nextFile \in Nat /\ lastSeq \in Nat
  BY Bounds, HasTypes, HasNumbers DEF TypeOK, NumbersInv
<1>4. logFiles \cup version \cup cver \cup reader \cup couts \subseteq Nat
  BY Bounds, HasTypes DEF TypeOK
<1> QED
  BY <1>1, <1>2, <1>3, <1>4

\* The next file number of an open database is nobody's yet.
LEMMA NextFileFresh ==
  ASSUME DurabilityInv, Running, nextFile <= MaxFile
  PROVE  /\ nextFile \in File
         /\ nextFile \notin logFiles \cup version \cup cver \cup reader \cup couts
         /\ \A m \in Cuts : nextFile \notin m.files
<1>1. nextFile # 0 /\ nextFile \in File
  BY SMTT(30), SMTT(90), RunTypes, Bounds, HasNumbers DEF NumbersInv
<1>2. \A n \in logFiles \cup version \cup cver \cup reader \cup couts : n < nextFile
  BY SMTT(30), SMTT(90), RunTypes, HasNumbers, HasVersion, HasCompactOuts DEF NumbersInv,
     VersionInv, CompactOutsInv
<1>3. \A m \in Cuts : \A f \in m.files : f < nextFile
  BY SMTT(30), SMTT(90), RunTypes, HasDescNumbers, HasNumbers DEF NumbersInv,
     DescNumbersInv
<1> QED
  BY SMTT(30), SMTT(90), <1>1, <1>2, <1>3, RunTypes

\* While DB::Open recovers, every number in use by a table is below the next.
LEMMA RecoverTypes ==
  ASSUME DurabilityInv, Recovering
  PROVE  /\ current # 0 /\ current \in File /\ current \in Nat
         /\ vMan \in Nat /\ nextFile \in Nat /\ current < vMan /\ vMan < nextFile
         /\ man[current].os \in Cuts /\ version = man[current].os.files
         /\ logFiles \cup version \cup edit \subseteq File
         /\ \A f \in version \cup edit : f < nextFile
         /\ \A m \in Cuts : /\ m \in Snapshot /\ m.files \subseteq File
                            /\ m.log \in Nat /\ m.next \in Nat /\ m.seq \in Nat
                            /\ \A f \in m.files : f < nextFile
<1>1. current # 0
  BY HasPhase DEF PhaseInv, Recovering
<1>2. /\ current \in File /\ man[current].os \in Cuts
      /\ \A m \in Cuts : /\ m \in Snapshot /\ m.files \subseteq File
                         /\ m.log \in Nat /\ m.next \in Nat /\ m.seq \in Nat
  BY <1>1, CurrentFacts, SnapshotFields, Bounds, HasTypes, HasCurrent
<1>3. /\ vMan = man[current].os.next /\ vMan < nextFile
      /\ version = man[current].os.files /\ current \in Nat /\ nextFile \in Nat
  BY <1>2, Bounds, HasTypes, HasRecVersion DEF RecVersionInv, TypeOK
<1>4. current < vMan
  BY <1>1, <1>2, <1>3, HasDescNumbers DEF DescNumbersInv
<1>5. ASSUME NEW m \in Cuts, NEW f \in m.files
      PROVE  f < nextFile
  <2>1. f < m.next /\ m.next <= vMan
    BY <1>1, <1>3, HasDescNumbers DEF DescNumbersInv
  <2>2. f \in Nat /\ m.next \in Nat /\ vMan \in Nat
    BY <1>2, <1>3, Bounds
  <2> QED
    BY SMTT(30), SMTT(90), <1>3, <2>1, <2>2
<1>6. logFiles \cup version \cup edit \subseteq File
  BY HasTypes DEF TypeOK
<1> QED
  BY <1>1, <1>2, <1>3, <1>4, <1>5, <1>6 DEF DurabilityInv, RecEditInv

\* An edit that adds files below the next file number keeps the numbers of the
\* descriptor in order.
LEMMA AppendNumbers ==
  ASSUME DurabilityInv, Running, current' = current,
         NEW new \in Snapshot, new.next = nextFile, new.log <= logNum,
         \A f \in new.files \ man[current].os.files : f < nextFile,
         man'[current].os = new, Cuts' = Cuts \cup {new}
  PROVE  DescNumbersInv'
<1>1. /\ current # 0 /\ current \in Nat /\ nextFile \in Nat /\ logNum \in Nat
      /\ new.log \in Nat /\ new.files \subseteq Nat /\ man[current].os \in Cuts
  BY RunTypes, Bounds, SnapshotFields
<1>2. \A m \in Cuts : /\ m.next \in Nat /\ m.next <= nextFile /\ current < m.next
                      /\ m.log < m.next /\ \A f \in m.files : f < m.next
  BY <1>1, RunTypes, HasDescNumbers, HasNumbers DEF NumbersInv, DescNumbersInv
<1>3. current < nextFile /\ logNum < nextFile
  BY SMTT(30), SMTT(90), <1>1, <1>2, HasNumbers DEF NumbersInv
<1>4. \A f \in new.files : f < nextFile
  BY SMTT(30), SMTT(90), <1>1, <1>2
<1> QED
  BY SMTT(30), SMTT(90), <1>1, <1>2, <1>3, <1>4 DEF DescNumbersInv

\* An edit that adds tables whose writes are up to lastSeq records enough.
LEMMA AppendSeq ==
  ASSUME DurabilityInv, Running, current' = current, tabData' = tabData,
         NEW new \in Snapshot, new.seq = lastSeq,
         \A f \in new.files \ man[current].os.files :
           \A w \in tabData[f] : w <= lastSeq,
         Cuts' = Cuts \cup {new}
  PROVE  DescSeqInv'
<1>1. \A f \in File : tabData[f] \subseteq Nat
  BY Bounds, HasTypes DEF TypeOK
<1>2. \A f \in man[current].os.files : \A w \in tabData[f] : w <= lastSeq
  BY SMTT(30), SMTT(90), <1>1, RunTypes, SnapshotFields, Bounds, HasDescSeq, HasSeq DEF
     DescSeqInv, SeqInv
<1> QED
  BY <1>2, RunTypes, HasDescSeq DEF DescSeqInv

\* An open database: what is said about recovery is void.
LEMMA RunningVacuous ==
  ASSUME phase' \in {"gc", "up"}
  PROVE  /\ NewDBInv' /\ RecVersionInv' /\ RecEditInv' /\ RecLogsInv'
         /\ RecAckedInv' /\ RecNewLogInv' /\ RecDescInv' /\ RecSeqInv'
  BY DEF NewDBInv, RecVersionInv, RecEditInv, RecLogsInv, RecAckedInv,
         RecNewLogInv, RecDescInv, RecSeqInv, Recovering

\* A database that is not open: what is said about running it is void.
LEMMA RecoveringVacuous ==
  ASSUME phase' \notin {"gc", "up"}
  PROVE  /\ NumbersInv' /\ AckedInv' /\ MemInv' /\ VersionInv' /\ SeqInv'
         /\ SeqLogsInv' /\ EditInv'
  BY DEF NumbersInv, AckedInv, MemInv, VersionInv, SeqInv, SeqLogsInv, EditInv,
         Running

\* No memtable is being flushed.
LEMMA FlushIdleVacuous ==
  ASSUME fpc' = "idle"
  PROVE  FlushInv' /\ FlushBuildInv' /\ FlushBuiltInv'
  BY DEF FlushInv, FlushBuildInv, FlushBuiltInv

\* No compaction is running.
LEMMA CompactIdleVacuous ==
  ASSUME cpc' = "idle", cin' = {}, cver' = {}, couts' = {}, cout' = 0, crem' = {}
  PROVE  CompactIdleInv' /\ CompactOutsInv' /\ CompactDataInv' /\ CompactOutInv'
  BY DEF CompactIdleInv, CompactOutsInv, CompactDataInv, CompactOutInv

\* After a crash nothing is said about recovery, which has not begun.
LEMMA DownVacuous ==
  ASSUME phase' \in {"none", "down"}
  PROVE  /\ NewDBInv' /\ RecVersionInv' /\ RecEditInv' /\ RecLogsInv'
         /\ RecAckedInv' /\ RecNewLogInv' /\ RecDescInv' /\ RecSeqInv'
  BY DEF NewDBInv, RecVersionInv, RecEditInv, RecLogsInv, RecAckedInv,
         RecNewLogInv, RecDescInv, RecSeqInv, Recovering

\* Frame of CurrentInv: CURRENT names a descriptor that was synced.
LEMMA CurrentFrame ==
  ASSUME DurabilityInv, UNCHANGED <<current, descFiles, man>>
  PROVE  CurrentInv'
  BY HasCurrent DEF CurrentInv, Cuts

\* Frame of DescTablesInv: what readable prefixes of the descriptor list.
LEMMA DescTablesFrame ==
  ASSUME DurabilityInv, UNCHANGED <<current, man, tabDone>>
  PROVE  DescTablesInv'
  BY HasDescTables DEF DescTablesInv, Cuts

\* Frame of DescNumbersInv: the numbers in the descriptor.
LEMMA DescNumbersFrame ==
  ASSUME DurabilityInv, UNCHANGED <<current, man>>
  PROVE  DescNumbersInv'
  BY HasDescNumbers DEF DescNumbersInv, Cuts

\* Frame of DescSeqInv: the sequence numbers in the descriptor.
LEMMA DescSeqFrame ==
  ASSUME DurabilityInv, UNCHANGED <<current, man, tabData>>
  PROVE  DescSeqInv'
  BY HasDescSeq DEF DescSeqInv, Cuts

\* Frame of LogInv: the contents of logs.
LEMMA LogFrame ==
  ASSUME DurabilityInv, UNCHANGED <<logData, logSynced, logTorn>>
  PROVE  LogInv'
  BY HasLog DEF LogInv

\* Frame of AckInv: acknowledgements.
LEMMA AckFrame ==
  ASSUME DurabilityInv, UNCHANGED <<ackM, ackP, current>>
  PROVE  AckInv'
  BY HasAck DEF AckInv

\* Frame of SyncedFoundInv: where synced writes are found.
LEMMA SyncedFoundFrame ==
  ASSUME DurabilityInv, UNCHANGED <<ackM, current, logFiles, logSynced, man,
     tabData>>
  PROVE  SyncedFoundInv'
  BY HasSyncedFound DEF SyncedFoundInv, Cuts, InTables, InLogs

\* Frame of AckedFoundInv: where acknowledged writes are found.
LEMMA AckedFoundFrame ==
  ASSUME DurabilityInv, UNCHANGED <<ackP, current, logData, logFiles, man,
     tabData>>
  PROVE  AckedFoundInv'
  BY HasAckedFound DEF AckedFoundInv, Cuts, InTables, InLogs

\* Frame of PhaseInv: the phases.
LEMMA PhaseFrame ==
  ASSUME DurabilityInv, UNCHANGED <<cpc, current, edit, fpc, gcDesc, gcLog, gcTab,
     pending, phase, reader, rem, rlog, version, wpc>>
  PROVE  PhaseInv'
  BY HasPhase DEF PhaseInv, NothingToRemove

\* Frame of NewDBInv: NewDB.
LEMMA NewDBFrame ==
  ASSUME DurabilityInv, UNCHANGED <<descFiles, man, phase>>
  PROVE  NewDBInv'
  BY HasNewDB DEF NewDBInv, Synced, NewSnapshot

\* Frame of RecVersionInv: the recovered version.
LEMMA RecVersionFrame ==
  ASSUME DurabilityInv, UNCHANGED <<current, man, nextFile, phase, vLog, vMan,
     version>>
  PROVE  RecVersionInv'
  BY HasRecVersion DEF RecVersionInv, Recovering

\* Frame of RecEditInv: the tables of the recovery.
LEMMA RecEditFrame ==
  ASSUME DurabilityInv, UNCHANGED <<edit, nextFile, phase, tabDone>>
  PROVE  RecEditInv'
  BY HasRecEdit DEF RecEditInv, Recovering

\* Frame of RecLogsInv: the logs to replay.
LEMMA RecLogsFrame ==
  ASSUME DurabilityInv, UNCHANGED <<logFiles, nextFile, phase, rem, rlog, todo>>
  PROVE  RecLogsInv'
  BY HasRecLogs DEF RecLogsInv

\* Frame of RecAckedInv: acknowledged writes during recovery.
LEMMA RecAckedFrame ==
  ASSUME DurabilityInv, UNCHANGED <<ackP, edit, logData, phase, rem, rlog,
     tabData, todo, version>>
  PROVE  RecAckedInv'
  BY HasRecAcked DEF RecAckedInv, InTables

\* Frame of RecNewLogInv: the log that DB::Open creates.
LEMMA RecNewLogFrame ==
  ASSUME DurabilityInv, UNCHANGED <<hasImm, imm, logData, logFiles, logNum, mem,
     nextFile, phase>>
  PROVE  RecNewLogInv'
  BY HasRecNewLog DEF RecNewLogInv

\* Frame of RecDescInv: the descriptor that DB::Open writes.
LEMMA RecDescFrame ==
  ASSUME DurabilityInv, UNCHANGED <<descFiles, edit, lastSeq, logNum, man,
     nextFile, phase, vMan, version>>
  PROVE  RecDescInv'
  BY HasRecDesc DEF RecDescInv, Synced, NewSnapshot

\* Frame of RecSeqInv: sequence numbers during recovery.
LEMMA RecSeqFrame ==
  ASSUME DurabilityInv, UNCHANGED <<edit, lastSeq, phase, rem, tabData, version>>
  PROVE  RecSeqInv'
  BY HasRecSeq DEF RecSeqInv, Recovering

\* Frame of NumbersInv: the numbers of the version set.
LEMMA NumbersFrame ==
  ASSUME DurabilityInv, UNCHANGED <<current, logFiles, logNum, man, nextFile,
     phase, vLog, vMan>>
  PROVE  NumbersInv'
  BY HasNumbers DEF NumbersInv, Cuts, Running

\* Frame of AckedInv: acknowledged writes in memory and tables.
LEMMA AckedFrame ==
  ASSUME DurabilityInv, UNCHANGED <<ackP, current, imm, man, mem, phase, tabData,
     version>>
  PROVE  AckedInv'
  BY HasAcked DEF AckedInv, Cuts, Running, InTables

\* Frame of MemInv: the memtables and their logs.
LEMMA MemFrame ==
  ASSUME DurabilityInv, UNCHANGED <<ackM, hasImm, imm, logData, logNum, logSynced,
     mem, phase>>
  PROVE  MemInv'
  BY HasMem DEF MemInv, Running

\* Frame of VersionInv: the tables of versions in use.
LEMMA VersionFrame ==
  ASSUME DurabilityInv, UNCHANGED <<cver, nextFile, phase, reader, tabDone,
     version>>
  PROVE  VersionInv'
  BY HasVersion DEF VersionInv, Running

\* Frame of SeqInv: sequence numbers of an open database.
LEMMA SeqFrame ==
  ASSUME DurabilityInv, UNCHANGED <<ackP, cout, couts, crem, current, imm, lastSeq,
     man, mem, phase, tabData, version>>
  PROVE  SeqInv'
  BY HasSeq DEF SeqInv, Cuts, Running

\* Frame of SeqLogsInv: sequence numbers in logs.
LEMMA SeqLogsFrame ==
  ASSUME DurabilityInv, UNCHANGED <<gcLog, lastSeq, logData, logFiles, logNum,
     phase, wpc>>
  PROVE  SeqLogsInv'
  BY HasSeqLogs DEF SeqLogsInv, Running

\* Frame of WriteInv: the write in progress.
LEMMA WriteFrame ==
  ASSUME DurabilityInv, UNCHANGED <<lastSeq, logData, logNum, logSynced, wpc,
     wsync>>
  PROVE  WriteInv'
  BY HasWrite DEF WriteInv

\* Frame of FlushInv: the steps of a flush.
LEMMA FlushFrame ==
  ASSUME DurabilityInv, UNCHANGED <<couts, cpc, fout, fpc, gcDesc, gcLog, gcTab,
     hasImm, nextFile>>
  PROVE  FlushInv'
  BY HasFlush DEF FlushInv, NothingToRemove

\* Frame of FlushBuildInv: the output of a flush.
LEMMA FlushBuildFrame ==
  ASSUME DurabilityInv, UNCHANGED <<current, cver, fout, fpc, man, reader,
     version>>
  PROVE  FlushBuildInv'
  BY HasFlushBuild DEF FlushBuildInv, Cuts

\* Frame of FlushBuiltInv: the finished output of a flush.
LEMMA FlushBuiltFrame ==
  ASSUME DurabilityInv, UNCHANGED <<current, fout, fpc, imm, logNum, man,
     tabData, tabDone>>
  PROVE  FlushBuiltInv'
  BY HasFlushBuilt DEF FlushBuiltInv

\* Frame of CompactIdleInv: an idle compaction.
LEMMA CompactIdleFrame ==
  ASSUME DurabilityInv, UNCHANGED <<cin, cout, couts, cpc, crem, cver, fpc,
     gcDesc, gcLog, gcTab>>
  PROVE  CompactIdleInv'
  BY HasCompactIdle DEF CompactIdleInv, NothingToRemove

\* Frame of CompactOutsInv: the outputs of a compaction.
LEMMA CompactOutsFrame ==
  ASSUME DurabilityInv, UNCHANGED <<cin, cout, couts, cver, nextFile, pending,
     tabDone>>
  PROVE  CompactOutsInv'
  BY HasCompactOuts DEF CompactOutsInv

\* Frame of CompactDataInv: the writes a compaction carries.
LEMMA CompactDataFrame ==
  ASSUME DurabilityInv, UNCHANGED <<cin, cout, couts, crem, tabData>>
  PROVE  CompactDataInv'
  BY HasCompactData DEF CompactDataInv, InTables

\* Frame of CompactOutInv: the open output of a compaction.
LEMMA CompactOutFrame ==
  ASSUME DurabilityInv, UNCHANGED <<cout, couts, current, cver, man, reader,
     tabFiles, version>>
  PROVE  CompactOutInv'
  BY HasCompactOut DEF CompactOutInv, Cuts

\* Frame of EditInv: the edit being logged.
LEMMA EditFrame ==
  ASSUME DurabilityInv, UNCHANGED <<bgError, cin, couts, cpc, current, fout, fpc,
     man, phase, version>>
  PROVE  EditInv'
  BY HasEdit DEF EditInv, Cuts, Running

\* Frame of GarbageInv: files chosen for removal.
LEMMA GarbageFrame ==
  ASSUME DurabilityInv, UNCHANGED <<couts, current, cver, gcDesc, gcLog, gcTab,
     man, reader, vLog, version>>
  PROVE  GarbageInv'
  BY HasGarbage DEF GarbageInv, Cuts

-----------------------------------------------------------------------------
(* Creating a database and recovering one.                                *)

\* NewDB writes MANIFEST-1; no acknowledged write exists and CURRENT still
\* names nothing.
LEMMA NewDBDescriptorStep ==
  ASSUME DurabilityInv, NewDBDescriptor
  PROVE  DurabilityInv'
<1>1. phase' \notin {"gc", "up"} /\ fpc' = "idle" /\ current = 0
  <2>1. phase = "none" /\ phase' = "newdb" /\ fpc' = fpc
    BY DEF NewDBDescriptor
  <2> QED
    BY SMTT(30), SMTT(90), <2>1, CurrentByPhase
<1>2. /\ cpc' = "idle" /\ cin' = {} /\ cver' = {} /\ couts' = {}
      /\ cout' = 0 /\ crem' = {}
  BY HasPhase, HasCompactIdle DEF PhaseInv, CompactIdleInv, NewDBDescriptor
<1>3. 1 \in File
  BY SMTT(30), SMTT(90), DurabilityAssumption DEF File
<1>4. NumbersInv' /\ AckedInv' /\ MemInv' /\ VersionInv' /\ SeqInv' /\
      SeqLogsInv' /\ FlushInv' /\ FlushBuildInv' /\ FlushBuiltInv' /\
      CompactIdleInv' /\ CompactOutsInv' /\ CompactDataInv' /\ CompactOutInv'
      /\ EditInv'
  BY <1>1, <1>2, RecoveringVacuous, FlushIdleVacuous, CompactIdleVacuous
<1>5. LogInv' /\ AckInv' /\ WriteInv'
  BY LogFrame, AckFrame, WriteFrame DEF NewDBDescriptor
<1>6. TypeOK'
  <2>1. NewSnapshot({}, 0, 2, 0) \in Snapshot
    BY Bounds, NewSnapshotFields
  <2>2. man' \in [File -> Descriptor]
    BY <1>3, <2>1, SyncedDescriptor, HasTypes DEF TypeOK, NewDBDescriptor
  <2> QED
    BY SMTT(30), SMTT(90), <2>2, HasTypes DEF TypeOK, NewDBDescriptor
<1>7. CurrentInv'
  <2>1. /\ descFiles' = descFiles \cup {1}
        /\ man' = [man EXCEPT ![1] = Synced(NewSnapshot({}, 0, 2, 0))]
        /\ current' = current
    BY DEF NewDBDescriptor
  <2> QED
    BY SMTT(30), SMTT(90), HasCurrent, <2>1 DEF CurrentInv, Cuts, Synced
<1>8. DescTablesInv'
  <2>1. /\ man' = [man EXCEPT ![1] = Synced(NewSnapshot({}, 0, 2, 0))]
        /\ tabDone' = tabDone /\ current' = current
    BY DEF NewDBDescriptor
  <2> QED
    BY SMTT(30), SMTT(90), HasDescTables, <2>1 DEF DescTablesInv, Cuts, NewSnapshot,
       Synced
<1>9. DescNumbersInv'
  <2>1. /\ man' = [man EXCEPT ![1] = Synced(NewSnapshot({}, 0, 2, 0))]
        /\ current' = current
    BY DEF NewDBDescriptor
  <2> QED
    BY SMTT(30), SMTT(90), HasDescNumbers, <2>1 DEF DescNumbersInv, Cuts, NewSnapshot,
       Synced
<1>10. DescSeqInv'
  <2>1. /\ man' = [man EXCEPT ![1] = Synced(NewSnapshot({}, 0, 2, 0))]
        /\ tabData' = tabData /\ current' = current
    BY DEF NewDBDescriptor
  <2> QED
    BY SMTT(30), SMTT(90), HasDescSeq, <2>1 DEF DescSeqInv, Cuts, NewSnapshot, Synced
<1>11. SyncedFoundInv'
  BY <1>1, HasSyncedFound DEF SyncedFoundInv, NewDBDescriptor
<1>12. AckedFoundInv'
  BY <1>1, HasAckedFound DEF AckedFoundInv, NewDBDescriptor
<1>13. PhaseInv'
  BY HasPhase DEF PhaseInv, NothingToRemove, NewDBDescriptor
<1>14. NewDBInv'
  BY <1>3, HasTypes, HasNewDB DEF NewDBInv, TypeOK, NewDBDescriptor
<1>15. RecVersionInv'
  BY HasRecVersion DEF RecVersionInv, Recovering, NewDBDescriptor
<1>16. RecEditInv'
  BY HasRecEdit DEF RecEditInv, Recovering, NewDBDescriptor
<1>17. RecLogsInv'
  BY HasRecLogs DEF RecLogsInv, NewDBDescriptor
<1>18. RecAckedInv'
  BY HasRecAcked DEF RecAckedInv, NewDBDescriptor
<1>19. RecNewLogInv'
  BY HasRecNewLog DEF RecNewLogInv, NewDBDescriptor
<1>20. RecDescInv'
  BY HasRecDesc DEF RecDescInv, NewDBDescriptor
<1>21. RecSeqInv'
  BY HasRecSeq DEF RecSeqInv, Recovering, NewDBDescriptor
<1>22. GarbageInv'
  <2>1. /\ man' = [man EXCEPT ![1] = Synced(NewSnapshot({}, 0, 2, 0))]
        /\ current' = current /\ version' = version /\ vLog' = vLog
        /\ reader' = reader /\ cver' = cver /\ couts' = couts
        /\ gcLog' = gcLog /\ gcTab' = gcTab /\ gcDesc' = gcDesc
    BY DEF NewDBDescriptor
  <2> QED
    BY SMTT(30), SMTT(90), HasGarbage, <2>1 DEF GarbageInv, Cuts, NewSnapshot, Synced
<1> QED
  BY <1>4, <1>5, <1>6, <1>7, <1>8, <1>9, <1>10, <1>11, <1>12, <1>13, <1>14,
     <1>15, <1>16, <1>17, <1>18, <1>19, <1>20, <1>21, <1>22 DEF DurabilityInv

\* NewDB points CURRENT to MANIFEST-1, which is synced and empty.
LEMMA NewDBCurrentStep ==
  ASSUME DurabilityInv, NewDBCurrent
  PROVE  DurabilityInv'
<1>1. phase' \notin {"gc", "up"} /\ fpc' = "idle" /\ current = 0
  <2>1. phase = "newdb" /\ phase' = "down" /\ fpc' = fpc
    BY DEF NewDBCurrent
  <2> QED
    BY SMTT(30), SMTT(90), <2>1, CurrentByPhase
<1>2. /\ cpc' = "idle" /\ cin' = {} /\ cver' = {} /\ couts' = {}
      /\ cout' = 0 /\ crem' = {}
  BY HasPhase, HasCompactIdle DEF PhaseInv, CompactIdleInv, NewDBCurrent
<1>3. 1 \in File
  BY SMTT(30), SMTT(90), DurabilityAssumption DEF File
<1>4. /\ Cuts' = {man'[current'].os} /\ man'[current'].os \in Snapshot /\ current' = 1
      /\ man'[current'].os.files = {} /\ man'[current'].os.log = 0 /\ man'[current'].os.next = 2
  <2>1. LET m == NewSnapshot({}, 0, 2, 0)
        IN  m \in Snapshot /\ m.files = {} /\ m.log = 0 /\ m.next = 2
    BY SMTT(30), SMTT(90), Bounds, NewSnapshotFields
  <2>2. man[1] = Synced(NewSnapshot({}, 0, 2, 0))
    BY HasNewDB DEF NewDBInv, NewDBCurrent
  <2> QED
    BY <2>1, <2>2, SyncedDescriptor DEF NewDBCurrent, Cuts
<1>5. NumbersInv' /\ AckedInv' /\ MemInv' /\ VersionInv' /\ SeqInv' /\
      SeqLogsInv' /\ FlushInv' /\ FlushBuildInv' /\ FlushBuiltInv' /\
      CompactIdleInv' /\ CompactOutsInv' /\ CompactDataInv' /\ CompactOutInv'
      /\ EditInv'
  BY <1>1, <1>2, RecoveringVacuous, FlushIdleVacuous, CompactIdleVacuous
<1>6. LogInv' /\ WriteInv'
  BY LogFrame, WriteFrame DEF NewDBCurrent
<1>7. TypeOK'
  BY SMTT(30), SMTT(90), <1>1, <1>3, Bounds, HasTypes DEF TypeOK, NewDBCurrent
<1>8. CurrentInv'
  BY <1>4, HasCurrent, HasNewDB DEF CurrentInv, NewDBInv, NewDBCurrent
<1>9. DescTablesInv'
  BY <1>4, HasDescTables DEF DescTablesInv, NewDBCurrent
<1>10. DescNumbersInv'
  <2>1. current' = 1 /\ man' = man
    BY DEF NewDBCurrent
  <2> QED
    BY SMTT(30), SMTT(90), <1>4, HasDescNumbers, <2>1 DEF DescNumbersInv
<1>11. DescSeqInv'
  BY <1>4, HasDescSeq DEF DescSeqInv, NewDBCurrent
<1>12. AckInv'
  <2>1. current' = 1 /\ ackP' = ackP /\ ackM' = ackM
    BY DEF NewDBCurrent
  <2> QED
    BY SMTT(30), SMTT(90), HasAck, <2>1 DEF AckInv
<1>13. SyncedFoundInv'
  BY <1>1, HasAck, HasSyncedFound DEF SyncedFoundInv, AckInv, NewDBCurrent
<1>14. AckedFoundInv'
  BY <1>1, HasAck, HasAckedFound DEF AckedFoundInv, AckInv, NewDBCurrent
<1>15. PhaseInv'
  <2>1. /\ phase = "newdb" /\ phase' = "down" /\ current' = 1
        /\ version' = version /\ pending' = pending /\ rlog' = rlog
        /\ rem' = rem /\ edit' = edit /\ wpc' = wpc /\ reader' = reader
        /\ fpc' = fpc /\ cpc' = cpc /\ gcLog' = gcLog /\ gcTab' = gcTab
        /\ gcDesc' = gcDesc
    BY DEF NewDBCurrent
  <2> QED
    BY SMTT(30), SMTT(90), HasPhase, <2>1 DEF PhaseInv, NothingToRemove
<1>16. NewDBInv'
  BY HasNewDB DEF NewDBInv, NewDBCurrent
<1>17. RecVersionInv'
  BY HasRecVersion DEF RecVersionInv, Recovering, NewDBCurrent
<1>18. RecEditInv'
  BY HasRecEdit DEF RecEditInv, Recovering, NewDBCurrent
<1>19. RecLogsInv'
  BY HasRecLogs DEF RecLogsInv, NewDBCurrent
<1>20. RecAckedInv'
  BY HasRecAcked DEF RecAckedInv, NewDBCurrent
<1>21. RecNewLogInv'
  BY HasRecNewLog DEF RecNewLogInv, NewDBCurrent
<1>22. RecDescInv'
  BY HasRecDesc DEF RecDescInv, NewDBCurrent
<1>23. RecSeqInv'
  BY HasRecSeq DEF RecSeqInv, Recovering, NewDBCurrent
<1>24. GarbageInv'
  BY HasPhase, HasGarbage DEF GarbageInv, PhaseInv, NothingToRemove,
     NewDBCurrent
<1> QED
  BY <1>5, <1>6, <1>7, <1>8, <1>9, <1>10, <1>11, <1>12, <1>13, <1>14, <1>15,
     <1>16, <1>17, <1>18, <1>19, <1>20, <1>21, <1>22, <1>23, <1>24 DEF
     DurabilityInv

\* VersionSet::Recover reads what CURRENT leads to.  All tables it lists exist,
\* so the check for missing files passes, and each acknowledged write is in one of
\* them or in a log that will be replayed.
LEMMA RecoverVersionStep ==
  ASSUME DurabilityInv, RecoverVersion
  PROVE  DurabilityInv'
<1>1. fpc' = "idle" /\ current # 0
  <2>1. phase = "down" /\ fpc' = fpc
    BY DEF RecoverVersion
  <2> QED
    BY SMTT(30), SMTT(90), <2>1, CurrentByPhase
<1>2. /\ cpc' = "idle" /\ cin' = {} /\ cver' = {} /\ couts' = {}
      /\ cout' = 0 /\ crem' = {}
  BY HasPhase, HasCompactIdle DEF PhaseInv, CompactIdleInv, RecoverVersion
<1>3. /\ man[current].os \in Cuts /\ man[current].os \in Snapshot
  BY <1>1, CurrentFacts, HasTypes, HasCurrent
<1>4. /\ man[current].os.files \subseteq File /\ man[current].os.log \in 0 .. MaxFile
      /\ man[current].os.next \in Nat /\ man[current].os.seq \in 0 .. MaxSeq
      /\ man[current].os.log \in Nat /\ logFiles \subseteq Nat
  BY <1>3, SnapshotFields, Bounds, HasTypes DEF TypeOK
<1>5. phase' = "logs"
  BY <1>1, <1>3, HasTypes, HasDescTables DEF TypeOK, DescTablesInv,
     RecoverVersion, Children
<1>6. phase' \notin {"gc", "up"}
  BY <1>5
<1>7. NumbersInv' /\ AckedInv' /\ MemInv' /\ VersionInv' /\ SeqInv' /\
      SeqLogsInv' /\ FlushInv' /\ FlushBuildInv' /\ FlushBuiltInv' /\
      CompactIdleInv' /\ CompactOutsInv' /\ CompactDataInv' /\ CompactOutInv'
      /\ EditInv'
  BY <1>1, <1>2, <1>6, RecoveringVacuous, FlushIdleVacuous, CompactIdleVacuous
<1>8. CurrentInv' /\ DescTablesInv' /\ DescNumbersInv' /\ DescSeqInv' /\
      LogInv' /\ AckInv' /\ SyncedFoundInv' /\ AckedFoundInv'
  BY CurrentFrame, DescTablesFrame, DescNumbersFrame, DescSeqFrame, LogFrame,
     AckFrame, SyncedFoundFrame, AckedFoundFrame DEF RecoverVersion
<1>9. TypeOK'
  <2>1. /\ version' \subseteq File /\ vLog' \in 0 .. MaxFile /\ vMan' \in Nat
        /\ nextFile' \in Nat /\ lastSeq' \in 0 .. MaxSeq /\ todo' \subseteq File
    <3>1. todo' \subseteq File
      BY HasTypes DEF TypeOK, RecoverVersion
    <3>2. /\ version' = man[current].os.files /\ vLog' = man[current].os.log
          /\ vMan' = man[current].os.next /\ nextFile' = man[current].os.next + 1
          /\ lastSeq' = man[current].os.seq
      BY DEF RecoverVersion
    <3> QED
      BY SMTT(30), SMTT(90), <1>4, <3>1, <3>2
  <2> QED
    BY SMTT(30), SMTT(90), <2>1, HasTypes DEF TypeOK, RecoverVersion
<1>10. PhaseInv'
  BY <1>5, HasPhase DEF PhaseInv, NothingToRemove, RecoverVersion
<1>11. NewDBInv'
  BY <1>5 DEF NewDBInv
<1>12. RecVersionInv'
  <2>1. /\ vMan' = man[current].os.next /\ nextFile' = man[current].os.next + 1
        /\ version' = man[current].os.files /\ vLog' = man[current].os.log
        /\ man' = man /\ current' = current
    BY DEF RecoverVersion
  <2>2. vMan' < nextFile'
    BY SMTT(30), SMTT(90), <1>4, <2>1
  <2> QED
    BY <2>1, <2>2 DEF RecVersionInv
<1>13. RecEditInv'
  BY HasPhase, HasRecEdit DEF RecEditInv, PhaseInv, RecoverVersion
<1>14. RecLogsInv'
  <2>1. /\ todo' = {n \in logFiles : n >= man[current].os.log}
        /\ nextFile' = man[current].os.next + 1 /\ logFiles' = logFiles
        /\ rem' = {}
    BY HasPhase DEF PhaseInv, RecoverVersion
  <2>2. man[current].os.log < man[current].os.next
    BY <1>1, <1>3, HasDescNumbers DEF DescNumbersInv
  <2>3. \A a, b, n \in Nat : a < b => n < b + 1 \/ n >= a
    BY SMTT(30), SMTT(90)
  <2>4. \A n \in logFiles : n < man[current].os.next + 1 \/ n >= man[current].os.log
    BY <1>4, <2>2, <2>3
  <2> QED
    BY <2>1, <2>4 DEF RecLogsInv
<1>15. RecAckedInv'
  <2>1. version' \cup edit' = man[current].os.files /\ rlog' = 0 /\ 0 \notin todo'
    BY Bounds, HasTypes, HasPhase DEF TypeOK, PhaseInv, RecoverVersion
  <2>2. NoTornAppend =>
          \A w \in ackP : \/ InTables(w, man[current].os.files)
                         \/ InLogs(w, man[current].os.log, logData)
    BY <1>1, <1>3, HasAckedFound DEF AckedFoundInv
  <2>3. NoTornAppend =>
          \A w \in ackP : \/ InTables(w, version \cup edit)'
                         \/ \E n \in todo' \ {rlog'} : w \in logData'[n]
    BY <2>1, <2>2 DEF InTables, InLogs, RecoverVersion
  <2> QED
    BY <2>3 DEF RecAckedInv, InTables, RecoverVersion
<1>16. RecNewLogInv'
  BY <1>5 DEF RecNewLogInv
<1>17. RecDescInv'
  BY <1>5 DEF RecDescInv
<1>18. RecSeqInv'
  BY <1>3, HasDescSeq, HasPhase, HasRecSeq DEF RecSeqInv, PhaseInv, DescSeqInv,
     RecoverVersion
<1>19. WriteInv'
  BY HasPhase, HasWrite DEF WriteInv, PhaseInv, RecoverVersion
<1>20. GarbageInv'
  BY HasPhase, HasGarbage DEF GarbageInv, PhaseInv, NothingToRemove,
     RecoverVersion
<1> QED
  BY <1>7, <1>8, <1>9, <1>10, <1>11, <1>12, <1>13, <1>14, <1>15, <1>16, <1>17,
     <1>18, <1>19, <1>20 DEF DurabilityInv

\* RecoverLogFile reads a log; all of it is delivered unless a record is torn.
LEMMA RecoverLogFileStep ==
  ASSUME DurabilityInv, RecoverLogFile
  PROVE  DurabilityInv'
<1>1. phase' \notin {"gc", "up"} /\ fpc' = "idle" /\ current # 0
  <2>1. phase = "logs" /\ phase' = "logs" /\ fpc' = fpc
    BY DEF RecoverLogFile
  <2> QED
    BY SMTT(30), SMTT(90), <2>1, CurrentByPhase
<1>2. /\ cpc' = "idle" /\ cin' = {} /\ cver' = {} /\ couts' = {}
      /\ cout' = 0 /\ crem' = {}
  BY HasPhase, HasCompactIdle DEF PhaseInv, CompactIdleInv, RecoverLogFile
<1>3. phase = "logs" /\ phase' = phase /\ Recovering
  BY DEF RecoverLogFile, Recovering
<1>4. rlog' \in todo /\ rlog' \in File /\ rlog' # 0
  BY Bounds, HasTypes DEF TypeOK, RecoverLogFile
<1>5. /\ rem' \subseteq logData[rlog'] /\ rem' \subseteq Seqno
      /\ NoTornAppend => rem' = logData[rlog']
  BY <1>4, HasTypes, HasLog DEF TypeOK, LogInv, RecoverLogFile, Replayed,
     Doubtful
<1>6. /\ lastSeq' \in rem' \cup {lastSeq} /\ lastSeq <= lastSeq' /\ \A w \in rem' : w <= lastSeq'
      /\ lastSeq' \in 0 .. MaxSeq /\ lastSeq \in Nat /\ lastSeq' \in Nat
  <2>1. /\ lastSeq' \in rem' \cup {lastSeq} /\ lastSeq <= lastSeq'
        /\ \A w \in rem' : w <= lastSeq'
    BY DEF RecoverLogFile, MaxSequence
  <2> QED
    BY <1>5, <2>1, Bounds, HasTypes DEF TypeOK
<1>7. NumbersInv' /\ AckedInv' /\ MemInv' /\ VersionInv' /\ SeqInv' /\
      SeqLogsInv' /\ FlushInv' /\ FlushBuildInv' /\ FlushBuiltInv' /\
      CompactIdleInv' /\ CompactOutsInv' /\ CompactDataInv' /\ CompactOutInv'
      /\ EditInv'
  BY <1>1, <1>2, RecoveringVacuous, FlushIdleVacuous, CompactIdleVacuous
<1>8. CurrentInv' /\ DescTablesInv' /\ DescNumbersInv' /\ DescSeqInv' /\
      LogInv' /\ AckInv' /\ SyncedFoundInv' /\ AckedFoundInv' /\ NewDBInv' /\
      RecVersionInv' /\ RecEditInv' /\ RecNewLogInv' /\ GarbageInv'
  BY CurrentFrame, DescTablesFrame, DescNumbersFrame, DescSeqFrame,
     LogFrame, AckFrame, SyncedFoundFrame, AckedFoundFrame, NewDBFrame,
     RecVersionFrame, RecEditFrame, RecNewLogFrame, GarbageFrame DEF
     RecoverLogFile
<1>9. TypeOK'
  BY ZenonT(60), ZenonT(120), <1>2, <1>5, <1>6, Bounds, HasTypes DEF TypeOK, RecoverLogFile
<1>10. PhaseInv'
  BY HasPhase DEF PhaseInv, NothingToRemove, RecoverLogFile
<1>11. RecLogsInv'
  BY <1>4, HasRecLogs DEF RecLogsInv, RecoverLogFile
<1>12. RecAckedInv'
  BY <1>5, HasRecLogs, HasRecAcked DEF RecAckedInv, RecLogsInv, InTables,
     RecoverLogFile
<1>13. RecDescInv'
  BY HasRecDesc DEF RecDescInv, RecoverLogFile
<1>14. RecSeqInv'
  <2>1. \A f \in version \cup edit : tabData[f] \subseteq Nat
    BY Bounds, HasTypes DEF TypeOK
  <2>2. \A f \in version \cup edit : \A w \in tabData[f] : w <= lastSeq
    BY <1>3, HasRecSeq DEF RecSeqInv
  <2>3. \A f \in version \cup edit : \A w \in tabData[f] : w <= lastSeq'
    BY SMTT(30), SMTT(90), <1>6, <2>1, <2>2
  <2>4. version' = version /\ edit' = edit /\ tabData' = tabData
    BY DEF RecoverLogFile
  <2> QED
    BY <1>6, <2>3, <2>4 DEF RecSeqInv
<1>15. WriteInv'
  BY HasPhase, HasWrite DEF WriteInv, PhaseInv, RecoverLogFile
<1> QED
  BY <1>7, <1>8, <1>9, <1>10, <1>11, <1>12, <1>13, <1>14, <1>15 DEF
     DurabilityInv

\* WriteLevel0Table during recovery: the number of the new table is used by no
\* file that the descriptor lists, and its writes leave the memtable.
LEMMA RecoverTableStep ==
  ASSUME DurabilityInv, NEW n \in Seqno, RecoverTable(n)
  PROVE  DurabilityInv'
<1>1. phase' \notin {"gc", "up"} /\ fpc' = "idle" /\ current # 0
  <2>1. phase = "logs" /\ phase' = "logs" /\ fpc' = fpc
    BY DEF RecoverTable
  <2> QED
    BY SMTT(30), SMTT(90), <2>1, CurrentByPhase
<1>2. /\ cpc' = "idle" /\ cin' = {} /\ cver' = {} /\ couts' = {}
      /\ cout' = 0 /\ crem' = {}
  BY HasPhase, HasCompactIdle DEF PhaseInv, CompactIdleInv, RecoverTable
<1>3. phase = "logs" /\ phase' = phase /\ Recovering
  BY DEF RecoverTable, Recovering
<1>4. /\ nextFile \in File /\ nextFile \notin version \cup edit
      /\ \A m \in Cuts : m.files \subseteq File /\ nextFile \notin m.files
  <2>1. nextFile \in File /\ nextFile \in Nat
    <3>1. nextFile <= MaxFile
      BY DEF RecoverTable
    <3>2. nextFile \in Nat /\ vMan \in Nat /\ vMan < nextFile
      BY <1>3, RecoverTypes
    <3> QED
      BY SMTT(30), SMTT(90), <3>1, <3>2, Bounds
  <2>2. \A f \in version \cup edit : f < nextFile
    BY <1>3, RecoverTypes
  <2>3. \A m \in Cuts : m.files \subseteq File /\ \A f \in m.files : f < nextFile
    BY <1>3, RecoverTypes
  <2>4. ~(nextFile < nextFile)
    BY SMTT(30), SMTT(90), <2>1
  <2> QED
    BY <2>1, <2>2, <2>3, <2>4
<1>5. /\ \A f \in File : f # nextFile => tabData'[f] = tabData[f]
      /\ tabData'[nextFile] = {s \in rem : s <= n}
  BY <1>4, HasTypes DEF TypeOK, RecoverTable
<1>6. NumbersInv' /\ AckedInv' /\ MemInv' /\ VersionInv' /\ SeqInv' /\
      SeqLogsInv' /\ FlushInv' /\ FlushBuildInv' /\ FlushBuiltInv' /\
      CompactIdleInv' /\ CompactOutsInv' /\ CompactDataInv' /\ CompactOutInv'
      /\ EditInv'
  BY <1>1, <1>2, RecoveringVacuous, FlushIdleVacuous, CompactIdleVacuous
<1>7. CurrentInv' /\ DescNumbersInv' /\ LogInv' /\ AckInv' /\ NewDBInv' /\
      WriteInv' /\ GarbageInv'
  BY CurrentFrame, DescNumbersFrame, LogFrame, AckFrame, NewDBFrame, WriteFrame,
     GarbageFrame DEF RecoverTable
<1>8. TypeOK'
  <2>1. tabData' \in [File -> SUBSET Seqno] /\ nextFile' \in Nat
    BY SMTT(30), SMTT(90), <1>4, HasTypes DEF TypeOK, RecoverTable
  <2> QED
    BY SMTT(30), SMTT(90), <2>1, HasTypes DEF TypeOK, RecoverTable
<1>9. DescTablesInv'
  BY HasDescTables DEF DescTablesInv, Cuts, RecoverTable
<1>10. DescSeqInv'
  <2>1. Cuts' = Cuts /\ current' = current
    BY DEF Cuts, RecoverTable
  <2>2. \A m \in Cuts : \A f \in m.files : tabData'[f] = tabData[f]
    BY <1>4, <1>5
  <2> QED
    BY <2>1, <2>2, HasDescSeq DEF DescSeqInv
<1>11. SyncedFoundInv'
  <2>1. /\ tabData' = [tabData EXCEPT ![nextFile] = {s \in rem : s <= n}]
        /\ Cuts' = Cuts /\ logFiles' = logFiles /\ logSynced' = logSynced
        /\ man' = man /\ current' = current /\ ackM' = ackM
    BY DEF RecoverTable, Cuts
  <2> QED
    BY SMTT(30), SMTT(90), <1>4, HasSyncedFound, <2>1 DEF SyncedFoundInv, InTables, InLogs
<1>12. AckedFoundInv'
  <2>1. /\ tabData' = [tabData EXCEPT ![nextFile] = {s \in rem : s <= n}]
        /\ Cuts' = Cuts /\ logFiles' = logFiles /\ logData' = logData
        /\ man' = man /\ current' = current /\ ackP' = ackP
    BY DEF RecoverTable, Cuts
  <2> QED
    BY SMTT(30), SMTT(90), <1>4, HasAckedFound, <2>1 DEF AckedFoundInv, InTables, InLogs
<1>13. PhaseInv'
  BY HasPhase DEF PhaseInv, NothingToRemove, RecoverTable
<1>14. RecVersionInv'
  <2>1. /\ phase = "logs" /\ n \in rem /\ nextFile <= MaxFile
        /\ nextFile' = nextFile + 1 /\ man' = man /\ current' = current
        /\ phase' = phase /\ version' = version /\ vLog' = vLog
        /\ vMan' = vMan
    BY DEF RecoverTable
  <2> QED
    BY SMTT(30), SMTT(90), RecoverTypes, HasRecVersion, <2>1 DEF RecVersionInv, Recovering
<1>15. RecEditInv'
  <2>1. edit \subseteq Nat /\ nextFile \in Nat /\ \A f \in edit : f < nextFile
    BY <1>3, RecoverTypes, Bounds
  <2> QED
    <3>1. /\ phase = "logs" /\ n \in rem /\ nextFile <= MaxFile
          /\ tabDone' = tabDone \cup {nextFile}
          /\ edit' = edit \cup {nextFile} /\ nextFile' = nextFile + 1
          /\ phase' = phase
      BY DEF RecoverTable
    <3> QED
      BY SMTT(30), SMTT(90), <2>1, HasRecEdit, <3>1 DEF RecEditInv, Recovering
<1>16. RecLogsInv'
  <2>1. logFiles \subseteq Nat /\ nextFile \in Nat
    BY <1>3, RecoverTypes, Bounds
  <2> QED
    <3>1. /\ phase = "logs" /\ n \in rem /\ nextFile <= MaxFile
          /\ nextFile' = nextFile + 1 /\ rem' = rem \ {s \in rem : s <= n}
          /\ logFiles' = logFiles /\ phase' = phase /\ todo' = todo
          /\ rlog' = rlog
      BY DEF RecoverTable
    <3> QED
      BY SMTT(30), SMTT(90), <2>1, HasRecLogs, <3>1 DEF RecLogsInv
<1>17. RecAckedInv'
  <2>1. ASSUME NoTornAppend, NEW w \in ackP
        PROVE  \/ InTables(w, version \cup edit)' \/ w \in rem'
               \/ \E k \in todo \ {rlog} : w \in logData[k]
    <3>1. CASE InTables(w, version \cup edit)
      <4>1. /\ tabData' = [tabData EXCEPT ![nextFile] = {s \in rem : s <= n}]
            /\ edit' = edit \cup {nextFile} /\ version' = version
        BY DEF RecoverTable
      <4> QED
        BY SMTT(30), SMTT(90), <1>4, <3>1, <4>1 DEF InTables
    <3>2. CASE w \in rem /\ w <= n
      BY <1>5, <3>2 DEF InTables, RecoverTable
    <3>3. CASE w \in rem /\ ~(w <= n)
      BY <3>3 DEF RecoverTable
    <3> QED
      BY <1>3, <2>1, <3>1, <3>2, <3>3, HasRecAcked DEF RecAckedInv
  <2> QED
    BY <2>1 DEF RecAckedInv, InTables, RecoverTable
<1>18. RecNewLogInv'
  BY HasRecNewLog DEF RecNewLogInv, RecoverTable
<1>19. RecDescInv'
  BY HasRecDesc DEF RecDescInv, RecoverTable
<1>20. RecSeqInv'
  <2>1. /\ phase = "logs" /\ n \in rem
        /\ tabData' = [tabData EXCEPT ![nextFile] = {s \in rem : s <= n}]
        /\ edit' = edit \cup {nextFile} /\ rem' = rem \ {s \in rem : s <= n}
        /\ phase' = phase /\ version' = version /\ lastSeq' = lastSeq
    BY DEF RecoverTable
  <2> QED
    BY SMTT(30), SMTT(90), <1>5, HasRecSeq, <2>1 DEF RecSeqInv, Recovering
<1> QED
  BY <1>6, <1>7, <1>8, <1>9, <1>10, <1>11, <1>12, <1>13, <1>14, <1>15, <1>16,
     <1>17, <1>18, <1>19, <1>20 DEF DurabilityInv

\* The end of a log: its number is marked as used before the next is handed out.
LEMMA RecoverLogDoneStep ==
  ASSUME DurabilityInv, RecoverLogDone
  PROVE  DurabilityInv'
<1>1. phase' \notin {"gc", "up"} /\ fpc' = "idle" /\ current # 0
  <2>1. phase = "logs" /\ phase' = "logs" /\ fpc' = fpc
    BY DEF RecoverLogDone
  <2> QED
    BY SMTT(30), SMTT(90), <2>1, CurrentByPhase
<1>2. /\ cpc' = "idle" /\ cin' = {} /\ cver' = {} /\ couts' = {}
      /\ cout' = 0 /\ crem' = {}
  BY HasPhase, HasCompactIdle DEF PhaseInv, CompactIdleInv, RecoverLogDone
<1>3. phase = "logs" /\ phase' = phase /\ Recovering
  BY DEF RecoverLogDone, Recovering
<1>4. rlog \in Nat /\ rlog < nextFile' /\ nextFile <= nextFile' /\ nextFile' \in Nat /\ nextFile \in Nat
  BY SMTT(30), SMTT(90), HasTypes DEF TypeOK, RecoverLogDone
<1>5. NumbersInv' /\ AckedInv' /\ MemInv' /\ VersionInv' /\ SeqInv' /\
      SeqLogsInv' /\ FlushInv' /\ FlushBuildInv' /\ FlushBuiltInv' /\
      CompactIdleInv' /\ CompactOutsInv' /\ CompactDataInv' /\ CompactOutInv'
      /\ EditInv'
  BY <1>1, <1>2, RecoveringVacuous, FlushIdleVacuous, CompactIdleVacuous
<1>6. CurrentInv' /\ DescTablesInv' /\ DescNumbersInv' /\ DescSeqInv' /\
      LogInv' /\ AckInv' /\ SyncedFoundInv' /\ AckedFoundInv' /\ NewDBInv' /\
      RecSeqInv' /\ WriteInv' /\ GarbageInv'
  BY CurrentFrame, DescTablesFrame, DescNumbersFrame, DescSeqFrame, LogFrame,
     AckFrame, SyncedFoundFrame, AckedFoundFrame, NewDBFrame, RecSeqFrame,
     WriteFrame, GarbageFrame DEF RecoverLogDone
<1>7. TypeOK'
  BY SMTT(30), SMTT(90), Bounds, HasTypes DEF TypeOK, RecoverLogDone
<1>8. PhaseInv'
  BY HasPhase DEF PhaseInv, NothingToRemove, RecoverLogDone
<1>9. RecVersionInv'
  <2>1. /\ phase = "logs" /\ rlog # 0 /\ rem = {}
        /\ nextFile' = IF nextFile <= rlog THEN rlog + 1 ELSE nextFile
        /\ man' = man /\ current' = current /\ phase' = phase
        /\ version' = version /\ vLog' = vLog /\ vMan' = vMan
    BY DEF RecoverLogDone
  <2> QED
    BY SMTT(30), SMTT(90), <1>4, RecoverTypes, HasRecVersion, <2>1 DEF RecVersionInv,
       Recovering
<1>10. RecEditInv'
  <2>1. edit \subseteq Nat /\ nextFile \in Nat /\ \A f \in edit : f < nextFile
    BY <1>3, RecoverTypes, Bounds
  <2> QED
    <3>1. /\ phase = "logs" /\ rlog # 0 /\ rem = {}
          /\ nextFile' = IF nextFile <= rlog THEN rlog + 1 ELSE nextFile
          /\ tabDone' = tabDone /\ phase' = phase /\ edit' = edit
      BY DEF RecoverLogDone
    <3> QED
      BY SMTT(30), SMTT(90), <1>3, <1>4, <2>1, HasRecEdit, <3>1 DEF RecEditInv
<1>11. RecLogsInv'
  <2>1. logFiles \subseteq Nat /\ nextFile \in Nat
    BY <1>3, RecoverTypes, Bounds
  <2> QED
    <3>1. /\ phase = "logs" /\ rlog # 0 /\ rem = {} /\ todo' = todo \ {rlog}
          /\ rlog' = 0
          /\ nextFile' = IF nextFile <= rlog THEN rlog + 1 ELSE nextFile
          /\ logFiles' = logFiles /\ phase' = phase /\ rem' = rem
      BY DEF RecoverLogDone
    <3> QED
      BY SMTT(30), SMTT(90), <1>4, <2>1, HasRecLogs, <3>1 DEF RecLogsInv
<1>12. RecAckedInv'
  <2>1. todo' \ {rlog'} = todo \ {rlog} /\ rem = {}
    BY SMTT(30), SMTT(90), Bounds, HasTypes DEF TypeOK, RecoverLogDone
  <2> QED
    BY <2>1, HasRecAcked DEF RecAckedInv, InTables, RecoverLogDone
<1>13. RecNewLogInv'
  BY HasRecNewLog DEF RecNewLogInv, RecoverLogDone
<1>14. RecDescInv'
  BY HasRecDesc DEF RecDescInv, RecoverLogDone
<1> QED
  BY <1>5, <1>6, <1>7, <1>8, <1>9, <1>10, <1>11, <1>12, <1>13, <1>14 DEF
     DurabilityInv

\* DB::Open creates a log under a number above all logs that were replayed.
LEMMA OpenNewLogStep ==
  ASSUME DurabilityInv, OpenNewLog
  PROVE  DurabilityInv'
<1>1. phase' \notin {"gc", "up"} /\ fpc' = "idle" /\ current # 0
  <2>1. phase = "logs" /\ phase' = "newlog" /\ fpc' = fpc
    BY DEF OpenNewLog
  <2> QED
    BY SMTT(30), SMTT(90), <2>1, CurrentByPhase
<1>2. /\ cpc' = "idle" /\ cin' = {} /\ cver' = {} /\ couts' = {}
      /\ cout' = 0 /\ crem' = {}
  BY HasPhase, HasCompactIdle DEF PhaseInv, CompactIdleInv, OpenNewLog
<1>3. phase = "logs" /\ phase' = "newlog" /\ Recovering
  BY DEF OpenNewLog, Recovering
<1>4. nextFile \in File /\ nextFile \in Nat
  <2>1. nextFile <= MaxFile /\ nextFile' = nextFile + 1
    BY DEF OpenNewLog
  <2> QED
    BY SMTT(30), SMTT(90), <1>3, RecoverTypes, Bounds, <2>1
<1>5. \A k \in logFiles : k \in File /\ k \in Nat /\ k < nextFile
  BY <1>3, RecoverTypes, Bounds, HasRecLogs DEF RecLogsInv, OpenNewLog
<1>6. /\ \A k \in logFiles : logData'[k] = logData[k] /\ logSynced'[k] = logSynced[k]
      /\ logData'[nextFile] = {}
  BY SMTT(30), SMTT(90), <1>4, <1>5, HasTypes DEF TypeOK, OpenNewLog
<1>7. NumbersInv' /\ AckedInv' /\ MemInv' /\ VersionInv' /\ SeqInv' /\
      SeqLogsInv' /\ FlushInv' /\ FlushBuildInv' /\ FlushBuiltInv' /\
      CompactIdleInv' /\ CompactOutsInv' /\ CompactDataInv' /\ CompactOutInv'
      /\ EditInv'
  BY <1>1, <1>2, RecoveringVacuous, FlushIdleVacuous, CompactIdleVacuous
<1>8. CurrentInv' /\ DescTablesInv' /\ DescNumbersInv' /\ DescSeqInv' /\
      AckInv' /\ GarbageInv'
  BY CurrentFrame, DescTablesFrame, DescNumbersFrame, DescSeqFrame, AckFrame,
     GarbageFrame DEF OpenNewLog
<1>9. TypeOK'
  <2>1. /\ logData' \in [File -> SUBSET Seqno] /\ logSynced' \in [File -> SUBSET Seqno]
        /\ logTorn' \in [File -> 0 .. MaxSeq]
    BY <1>4, Bounds, HasTypes DEF TypeOK, OpenNewLog
  <2>2. logNum' \in 0 .. MaxFile /\ nextFile' \in Nat
    <3>1. /\ nextFile <= MaxFile /\ logNum' = nextFile
          /\ nextFile' = nextFile + 1
      BY DEF OpenNewLog
    <3> QED
      BY SMTT(30), SMTT(90), <1>4, <3>1
  <2> QED
    BY ZenonT(60), ZenonT(120), <1>4, <2>1, <2>2, HasTypes DEF TypeOK, OpenNewLog
<1>10. LogInv'
  BY HasTypes, HasLog DEF LogInv, TypeOK, OpenNewLog
<1>11. SyncedFoundInv'
  <2>1. /\ logFiles' = logFiles \cup {nextFile}
        /\ logSynced' = [logSynced EXCEPT ![nextFile] = {}] /\ Cuts' = Cuts
        /\ tabData' = tabData /\ man' = man /\ current' = current
        /\ ackM' = ackM
    BY DEF OpenNewLog, Cuts
  <2> QED
    BY SMTT(30), SMTT(90), <1>6, HasSyncedFound, <2>1 DEF SyncedFoundInv, InTables, InLogs
<1>12. AckedFoundInv'
  <2>1. /\ logFiles' = logFiles \cup {nextFile}
        /\ logData' = [logData EXCEPT ![nextFile] = {}] /\ Cuts' = Cuts
        /\ tabData' = tabData /\ man' = man /\ current' = current
        /\ ackP' = ackP
    BY DEF OpenNewLog, Cuts
  <2> QED
    BY SMTT(30), SMTT(90), <1>6, HasAckedFound, <2>1 DEF AckedFoundInv, InTables, InLogs
<1>13. PhaseInv'
  BY HasPhase, HasRecLogs DEF PhaseInv, RecLogsInv, NothingToRemove, OpenNewLog
<1>14. NewDBInv'
  BY <1>3 DEF NewDBInv
<1>15. RecVersionInv'
  <2>1. /\ phase = "logs" /\ rlog = 0 /\ todo = {} /\ nextFile <= MaxFile
        /\ phase' = "newlog" /\ nextFile' = nextFile + 1 /\ man' = man
        /\ current' = current /\ version' = version /\ vLog' = vLog
        /\ vMan' = vMan
    BY DEF OpenNewLog
  <2> QED
    BY SMTT(30), SMTT(90), RecoverTypes, HasRecVersion, <2>1 DEF RecVersionInv, Recovering
<1>16. RecEditInv'
  <2>1. edit \subseteq Nat /\ nextFile \in Nat /\ \A f \in edit : f < nextFile
    BY <1>3, RecoverTypes, Bounds
  <2> QED
    <3>1. /\ phase = "logs" /\ rlog = 0 /\ todo = {} /\ nextFile <= MaxFile
          /\ phase' = "newlog" /\ nextFile' = nextFile + 1
          /\ tabDone' = tabDone /\ edit' = edit
      BY DEF OpenNewLog
    <3> QED
      BY SMTT(30), SMTT(90), <2>1, HasRecEdit, <3>1 DEF RecEditInv, Recovering
<1>17. RecLogsInv'
  BY <1>3 DEF RecLogsInv
<1>18. RecAckedInv'
  BY HasRecLogs, HasRecAcked DEF RecAckedInv, RecLogsInv, InTables, OpenNewLog
<1>19. RecNewLogInv'
  <2>1. /\ phase = "logs" /\ rlog = 0 /\ todo = {} /\ nextFile <= MaxFile
        /\ phase' = "newlog" /\ logFiles' = logFiles \cup {nextFile}
        /\ logData' = [logData EXCEPT ![nextFile] = {}] /\ logNum' = nextFile
        /\ nextFile' = nextFile + 1 /\ mem' = {} /\ imm' = {}
        /\ hasImm' = FALSE
    BY DEF OpenNewLog
  <2> QED
    BY SMTT(30), SMTT(90), <1>4, <1>5, <1>6, HasRecNewLog, <2>1 DEF RecNewLogInv
<1>20. RecDescInv'
  BY <1>3 DEF RecDescInv
<1>21. RecSeqInv'
  BY HasRecSeq DEF RecSeqInv, Recovering, OpenNewLog
<1>22. WriteInv'
  BY HasPhase, HasWrite DEF WriteInv, PhaseInv, OpenNewLog
<1> QED
  BY <1>7, <1>8, <1>9, <1>10, <1>11, <1>12, <1>13, <1>14, <1>15, <1>16, <1>17,
     <1>18, <1>19, <1>20, <1>21, <1>22 DEF DurabilityInv

-----------------------------------------------------------------------------
(* The new descriptor at the end of Open, writing, switching the memtable, *)
(* reading.                                                                *)

\* LogAndApply writes a new descriptor; CURRENT names another one until it is
\* synced.
LEMMA OpenDescriptorStep ==
  ASSUME DurabilityInv, OpenDescriptor
  PROVE  DurabilityInv'
<1>1. phase' \notin {"gc", "up"} /\ fpc' = "idle" /\ current # 0
  <2>1. phase = "newlog" /\ phase' = "desc" /\ fpc' = fpc
    BY DEF OpenDescriptor
  <2> QED
    BY SMTT(30), SMTT(90), <2>1, CurrentByPhase
<1>2. /\ cpc' = "idle" /\ cin' = {} /\ cver' = {} /\ couts' = {}
      /\ cout' = 0 /\ crem' = {}
  BY HasPhase, HasCompactIdle DEF PhaseInv, CompactIdleInv, OpenDescriptor
<1>3. phase = "newlog" /\ phase' = "desc" /\ Recovering
  BY DEF OpenDescriptor, Recovering
<1>4. vMan \in File /\ vMan # current
  <2>1. vMan <= MaxFile /\ current' = current /\ vMan' = vMan
    BY DEF OpenDescriptor
  <2> QED
    BY SMTT(30), SMTT(90), <1>3, RecoverTypes, Bounds, <2>1
<1>5. /\ man' \in [File -> Descriptor] /\ man'[current] = man[current] /\ Cuts' = Cuts
      /\ man'[vMan] = Synced(NewSnapshot(version \cup edit, logNum, nextFile, lastSeq))
  <2>1. NewSnapshot(version \cup edit, logNum, nextFile, lastSeq) \in Snapshot
    BY NewSnapshotFields, HasTypes DEF TypeOK
  <2>2. /\ man' \in [File -> Descriptor] /\ man'[current] = man[current]
        /\ man'[vMan] = Synced(NewSnapshot(version \cup edit, logNum, nextFile, lastSeq))
    BY <1>3, <1>4, <2>1, RecoverTypes, SyncedDescriptor, HasTypes DEF
       TypeOK, OpenDescriptor
  <2> QED
    BY <2>2 DEF Cuts, OpenDescriptor
<1>6. NumbersInv' /\ AckedInv' /\ MemInv' /\ VersionInv' /\ SeqInv' /\
      SeqLogsInv' /\ FlushInv' /\ FlushBuildInv' /\ FlushBuiltInv' /\
      CompactIdleInv' /\ CompactOutsInv' /\ CompactDataInv' /\ CompactOutInv'
      /\ EditInv'
  BY <1>1, <1>2, RecoveringVacuous, FlushIdleVacuous, CompactIdleVacuous
<1>7. LogInv' /\ AckInv' /\ WriteInv'
  BY LogFrame, AckFrame, WriteFrame DEF OpenDescriptor
<1>8. TypeOK'
  BY SMTT(30), SMTT(90), <1>5, HasTypes DEF TypeOK, OpenDescriptor
<1>9. CurrentInv'
  <2>1. /\ descFiles' = descFiles \cup {vMan}
        /\ man' = [man EXCEPT ![vMan] = Synced(NewSnapshot(version \cup edit, logNum, nextFile, lastSeq))]
        /\ current' = current
    BY DEF OpenDescriptor
  <2> QED
    BY SMTT(30), SMTT(90), <1>5, HasCurrent, <2>1 DEF CurrentInv
<1>10. DescTablesInv'
  BY <1>5, HasDescTables DEF DescTablesInv, OpenDescriptor
<1>11. DescNumbersInv'
  BY <1>5, HasDescNumbers DEF DescNumbersInv, OpenDescriptor
<1>12. DescSeqInv'
  BY <1>5, HasDescSeq DEF DescSeqInv, OpenDescriptor
<1>13. SyncedFoundInv'
  BY <1>5, HasSyncedFound DEF SyncedFoundInv, InTables, InLogs, OpenDescriptor
<1>14. AckedFoundInv'
  BY <1>5, HasAckedFound DEF AckedFoundInv, InTables, InLogs, OpenDescriptor
<1>15. PhaseInv'
  BY HasPhase DEF PhaseInv, NothingToRemove, OpenDescriptor
<1>16. NewDBInv'
  BY <1>3 DEF NewDBInv
<1>17. RecVersionInv'
  BY <1>5, HasRecVersion DEF RecVersionInv, Recovering, OpenDescriptor
<1>18. RecEditInv'
  BY HasRecEdit DEF RecEditInv, Recovering, OpenDescriptor
<1>19. RecLogsInv'
  BY <1>3 DEF RecLogsInv
<1>20. RecAckedInv'
  BY HasRecAcked DEF RecAckedInv, InTables, OpenDescriptor
<1>21. RecNewLogInv'
  BY HasRecNewLog DEF RecNewLogInv, OpenDescriptor
<1>22. RecDescInv'
  BY <1>5, HasRecDesc DEF RecDescInv, OpenDescriptor
<1>23. RecSeqInv'
  BY HasRecSeq DEF RecSeqInv, Recovering, OpenDescriptor
<1>24. GarbageInv'
  BY <1>5, HasGarbage DEF GarbageInv, OpenDescriptor
<1> QED
  BY <1>6, <1>7, <1>8, <1>9, <1>10, <1>11, <1>12, <1>13, <1>14, <1>15, <1>16,
     <1>17, <1>18, <1>19, <1>20, <1>21, <1>22, <1>23, <1>24 DEF DurabilityInv

\* SetCurrentFile installs a descriptor that lists every recovered table, so the
\* logs that were replayed may go.
LEMMA OpenCurrentStep ==
  ASSUME DurabilityInv, OpenCurrent
  PROVE  DurabilityInv'
<1>1. phase = "desc" /\ phase' = "gc" /\ phase' \in {"gc", "up"} /\ Recovering
  BY DEF OpenCurrent, Recovering
<1>2. fpc' = "idle" /\ reader = {} /\ pending = {} /\ wpc = "idle"
  BY HasPhase DEF PhaseInv, OpenCurrent
<1>3. /\ cpc' = "idle" /\ cin' = {} /\ cver' = {} /\ couts' = {}
      /\ cout' = 0 /\ crem' = {}
  BY HasPhase, HasCompactIdle DEF PhaseInv, CompactIdleInv, OpenCurrent
<1>4. vMan \in File /\ vMan # 0 /\ current' = vMan /\ man' = man /\ vMan \in descFiles
  BY Bounds, HasTypes, HasRecDesc DEF TypeOK, RecDescInv, OpenCurrent
<1>5. PICK new \in Snapshot :
           /\ new.files = version \cup edit /\ new.log = logNum
           /\ new.next = nextFile /\ new.seq = lastSeq
           /\ man'[current'].os = new /\ Cuts' = {new}
  <2> DEFINE new == NewSnapshot(version \cup edit, logNum, nextFile, lastSeq)
  <2>1. /\ new \in Snapshot /\ new.files = version \cup edit /\ new.log = logNum
        /\ new.next = nextFile /\ new.seq = lastSeq
    BY SMTT(30), SMTT(90), NewSnapshotFields, HasTypes DEF TypeOK
  <2>2. man[vMan] = Synced(new)
    BY <1>1, HasRecDesc DEF RecDescInv
  <2> HIDE DEF new
  <2> QED
    BY SMTT(30), SMTT(90), <1>4, <2>1, <2>2, SyncedDescriptor DEF Cuts
<1>6. /\ version' = version \cup edit /\ version' \subseteq File /\ version' \subseteq tabDone
      /\ \A f \in version' : f < nextFile
  <2>1. version' = version \cup edit
    BY DEF OpenCurrent
  <2>2. version \subseteq tabDone
    BY <1>1, RecoverTypes, HasDescTables DEF DescTablesInv
  <2> QED
    BY <1>1, <2>1, <2>2, RecoverTypes, HasRecEdit DEF RecEditInv
<1>7. NoTornAppend => \A w \in ackP : InTables(w, version')
  BY <1>1, <1>6, HasRecAcked DEF RecAckedInv
<1>8. /\ logNum \in Nat /\ logNum \in File /\ nextFile \in Nat /\ lastSeq \in Nat /\ vMan \in Nat
      /\ vMan < nextFile /\ logNum < nextFile
  BY <1>1, RecoverTypes, Bounds, HasTypes, HasRecNewLog DEF TypeOK,
     RecNewLogInv
<1>9. \A f \in version' : \A w \in tabData[f] : w <= lastSeq
  BY <1>1, <1>6, HasRecSeq DEF RecSeqInv
<1>10. NewDBInv' /\ RecVersionInv' /\ RecEditInv' /\ RecLogsInv' /\
      RecAckedInv' /\ RecNewLogInv' /\ RecDescInv' /\ RecSeqInv' /\ FlushInv'
      /\ FlushBuildInv' /\ FlushBuiltInv' /\ CompactIdleInv' /\ CompactOutsInv'
      /\ CompactDataInv' /\ CompactOutInv'
  BY <1>1, <1>2, <1>3, RunningVacuous, FlushIdleVacuous, CompactIdleVacuous
<1>11. LogInv' /\ WriteInv'
  BY LogFrame, WriteFrame DEF OpenCurrent
<1>12. TypeOK'
  <2>1. gcLog' \subseteq File /\ gcTab' \subseteq File /\ gcDesc' \subseteq File
    BY HasTypes DEF TypeOK, OpenCurrent, RemoveObsoleteFiles
  <2>2. vLog' \in 0 .. MaxFile /\ current' \in 0 .. MaxFile
    BY <1>4, Bounds, HasTypes DEF TypeOK, OpenCurrent
  <2> QED
    BY SMTT(30), SMTT(90), <2>1, <2>2, HasTypes DEF TypeOK, OpenCurrent
<1>13. CurrentInv'
  BY <1>4, <1>5, HasCurrent DEF CurrentInv, OpenCurrent
<1>14. DescTablesInv'
  BY <1>5, <1>6, HasDescTables DEF DescTablesInv, OpenCurrent
<1>15. DescNumbersInv'
  <2>1. \A f \in new.files : f < new.next
    BY <1>5, <1>6
  <2>2. current' < new.next /\ new.log < new.next /\ new.next <= new.next
    BY SMTT(30), SMTT(90), <1>4, <1>5, <1>8
  <2> QED
    BY <1>5, <2>1, <2>2 DEF DescNumbersInv
<1>16. DescSeqInv'
  BY <1>5, <1>9, HasDescSeq DEF DescSeqInv, OpenCurrent
<1>17. AckInv'
  BY <1>4, HasAck DEF AckInv, OpenCurrent
<1>18. SyncedFoundInv'
  BY <1>5, <1>7, HasAck, HasSyncedFound DEF AckInv, SyncedFoundInv, InTables,
     OpenCurrent
<1>19. AckedFoundInv'
  BY <1>5, <1>7 DEF AckedFoundInv, InTables, OpenCurrent
<1>20. PhaseInv'
  BY <1>4, HasPhase DEF PhaseInv, OpenCurrent
<1>21. NumbersInv'
  <2>1. logNum' = logNum /\ vLog' = logNum /\ vMan' = vMan
        /\ nextFile' = nextFile /\ logFiles' = logFiles
    BY DEF OpenCurrent
  <2>2. logNum \in logFiles /\ \A n \in logFiles : n <= logNum
    BY <1>1, HasRecNewLog DEF RecNewLogInv
  <2>3. logNum <= logNum /\ nextFile <= nextFile
    BY SMTT(30), SMTT(90), <1>8
  <2> QED
    BY <1>4, <1>5, <1>8, <2>1, <2>2, <2>3 DEF NumbersInv
<1>22. AckedInv'
  BY <1>5, <1>7, HasAcked DEF AckedInv, InTables, OpenCurrent
<1>23. MemInv'
  BY HasRecNewLog, HasMem DEF MemInv, RecNewLogInv, OpenCurrent
<1>24. VersionInv'
  BY <1>2, <1>3, <1>6, HasVersion DEF VersionInv, OpenCurrent
<1>25. SeqInv'
  <2>1. mem \cup imm \cup crem' = {}
    BY <1>1, <1>3, HasRecNewLog DEF RecNewLogInv
  <2>2. NoTornAppend => \A w \in ackP : w <= lastSeq
    BY <1>7, <1>9 DEF InTables
  <2> QED
    <3>1. /\ mem' = mem /\ imm' = imm /\ ackP' = ackP /\ lastSeq' = lastSeq
          /\ tabData' = tabData /\ lastSeq <= lastSeq
      <4>1. /\ tabData' = tabData /\ mem' = mem /\ imm' = imm
            /\ lastSeq' = lastSeq /\ ackP' = ackP
        BY DEF OpenCurrent
      <4> QED
        BY SMTT(30), SMTT(90), <1>8, <4>1
    <3> QED
      BY <1>3, <1>5, <1>9, <2>1, <2>2, <3>1 DEF SeqInv
<1>26. SeqLogsInv'
  <2>1. \A k \in logFiles : k \in gcLog' \/ k = logNum
    <3>1. \A k \in logFiles : k \in Nat /\ k <= logNum
      BY <1>1, RecoverTypes, Bounds, HasRecNewLog DEF RecNewLogInv
    <3> QED
      <4>1. gcLog' = {k \in logFiles : ~KeepLog(k, logNum)}
        BY DEF OpenCurrent, RemoveObsoleteFiles
      <4> QED
        BY SMTT(30), SMTT(90), <1>8, <3>1, <4>1 DEF KeepLog
  <2> QED
    BY <2>1, HasRecNewLog, HasSeqLogs DEF RecNewLogInv, SeqLogsInv, OpenCurrent
<1>27. EditInv'
  BY <1>3, <1>5, HasEdit DEF EditInv, OpenCurrent
<1>28. GarbageInv'
  <2>1. \A k \in gcLog' : k < vLog'
    <3>1. logFiles \subseteq Nat
      BY <1>1, RecoverTypes, Bounds
    <3> QED
      <4>1. vLog' = logNum /\ gcLog' = {k \in logFiles : ~KeepLog(k, logNum)}
        BY DEF OpenCurrent, RemoveObsoleteFiles
      <4> QED
        BY SMTT(30), SMTT(90), <1>8, <3>1, <4>1 DEF KeepLog
  <2>2. current' \notin gcDesc'
    <3>1. current' = vMan /\ gcDesc' = {k \in descFiles : ~KeepDesc(k)}
      BY DEF OpenCurrent, RemoveObsoleteFiles
    <3> QED
      BY SMTT(30), SMTT(90), <1>8, <3>1 DEF KeepDesc
  <2>3. \A k \in gcTab' : k \notin version'
    BY DEF OpenCurrent, RemoveObsoleteFiles, KeepTable
  <2>4. cver' \cup reader' \cup couts' = {}
    BY <1>2, <1>3 DEF OpenCurrent
  <2> QED
    BY <1>5, <1>6, <2>1, <2>2, <2>3, <2>4 DEF GarbageInv
<1> QED
  BY <1>10, <1>11, <1>12, <1>13, <1>14, <1>15, <1>16, <1>17, <1>18, <1>19,
     <1>20, <1>21, <1>22, <1>23, <1>24, <1>25, <1>26, <1>27, <1>28 DEF
     DurabilityInv

\* DB::Open returns.
LEMMA OpenDoneStep ==
  ASSUME DurabilityInv, OpenDone
  PROVE  DurabilityInv'
<1>1. phase = "gc" /\ phase' = "up" /\ phase' \in {"gc", "up"} /\ Running
  BY DEF OpenDone, Running
<1>2. fpc' = "idle"
  BY HasPhase DEF PhaseInv, OpenDone
<1>3. /\ cpc' = "idle" /\ cin' = {} /\ cver' = {} /\ couts' = {}
      /\ cout' = 0 /\ crem' = {}
  BY HasPhase, HasCompactIdle DEF PhaseInv, CompactIdleInv, OpenDone
<1>4. NewDBInv' /\ RecVersionInv' /\ RecEditInv' /\ RecLogsInv' /\ RecAckedInv'
      /\ RecNewLogInv' /\ RecDescInv' /\ RecSeqInv' /\ FlushInv' /\
      FlushBuildInv' /\ FlushBuiltInv' /\ CompactIdleInv' /\ CompactOutsInv' /\
      CompactDataInv' /\ CompactOutInv'
  BY <1>1, <1>2, <1>3, RunningVacuous, FlushIdleVacuous, CompactIdleVacuous
<1>5. CurrentInv' /\ DescTablesInv' /\ DescNumbersInv' /\ DescSeqInv' /\
      LogInv' /\ AckInv' /\ SyncedFoundInv' /\ AckedFoundInv' /\ WriteInv' /\
      GarbageInv'
  BY CurrentFrame, DescTablesFrame, DescNumbersFrame, DescSeqFrame,
     LogFrame, AckFrame, SyncedFoundFrame, AckedFoundFrame, WriteFrame,
     GarbageFrame DEF OpenDone
<1>6. TypeOK'
  BY SMTT(30), SMTT(90), HasTypes DEF TypeOK, OpenDone, NothingToRemove
<1>7. PhaseInv'
  BY HasPhase DEF PhaseInv, OpenDone
<1>8. NumbersInv'
  BY HasNumbers DEF NumbersInv, Cuts, Running, OpenDone
<1>9. AckedInv'
  BY HasAcked DEF AckedInv, Cuts, Running, InTables, OpenDone
<1>10. MemInv'
  BY HasMem DEF MemInv, Running, OpenDone
<1>11. VersionInv'
  BY HasVersion DEF VersionInv, Running, OpenDone
<1>12. SeqInv'
  BY HasSeq DEF SeqInv, Cuts, Running, OpenDone
<1>13. SeqLogsInv'
  BY HasSeqLogs DEF SeqLogsInv, Running, OpenDone, NothingToRemove
<1>14. EditInv'
  BY HasEdit DEF EditInv, Cuts, Running, OpenDone
<1> QED
  BY <1>4, <1>5, <1>6, <1>7, <1>8, <1>9, <1>10, <1>11, <1>12, <1>13, <1>14 DEF
     DurabilityInv

\* A write gets past MakeRoomForWrite.
LEMMA WriteBeginStep ==
  ASSUME DurabilityInv, NEW sync \in BOOLEAN, WriteBegin(sync)
  PROVE  DurabilityInv'
<1>1. Running /\ phase' = phase /\ phase' \in {"gc", "up"}
  BY DEF WriteBegin, Running
<1>2. NewDBInv' /\ RecVersionInv' /\ RecEditInv' /\ RecLogsInv' /\ RecAckedInv'
      /\ RecNewLogInv' /\ RecDescInv' /\ RecSeqInv'
  BY <1>1, RunningVacuous
<1>3. CurrentInv' /\ DescTablesInv' /\ DescNumbersInv' /\ DescSeqInv' /\
      LogInv' /\ AckInv' /\ SyncedFoundInv' /\ AckedFoundInv' /\ NumbersInv' /\
      AckedInv' /\ MemInv' /\ VersionInv' /\ SeqInv' /\ FlushInv' /\
      FlushBuildInv' /\ FlushBuiltInv' /\ CompactIdleInv' /\ CompactOutsInv' /\
      CompactDataInv' /\ CompactOutInv' /\ EditInv' /\ GarbageInv'
  BY CurrentFrame, DescTablesFrame, DescNumbersFrame, DescSeqFrame,
     LogFrame, AckFrame, SyncedFoundFrame, AckedFoundFrame, NumbersFrame,
     AckedFrame, MemFrame, VersionFrame, SeqFrame, FlushFrame, FlushBuildFrame,
     FlushBuiltFrame, CompactIdleFrame, CompactOutsFrame, CompactDataFrame,
     CompactOutFrame, EditFrame, GarbageFrame DEF WriteBegin
<1>4. TypeOK'
  BY SMTT(30), SMTT(90), HasTypes DEF TypeOK, WriteBegin
<1>5. PhaseInv'
  BY HasPhase DEF PhaseInv, WriteBegin
<1>6. SeqLogsInv'
  BY HasSeqLogs DEF SeqLogsInv, Running, WriteBegin
<1>7. WriteInv'
  BY HasWrite DEF WriteInv, WriteBegin
<1> QED
  BY <1>2, <1>3, <1>4, <1>5, <1>6, <1>7 DEF DurabilityInv

\* AddRecord adds the record of the write in progress to the current log.
LEMMA WriteAppendStep ==
  ASSUME DurabilityInv, WriteAppend
  PROVE  DurabilityInv'
<1>1. Running /\ phase' = phase /\ phase' \in {"gc", "up"}
  <2>1. /\ wpc = "log" /\ wpc' = IF wsync THEN "sync" ELSE "insert"
        /\ current' = current /\ phase' = phase /\ version' = version
        /\ pending' = pending /\ rlog' = rlog /\ rem' = rem /\ edit' = edit
        /\ reader' = reader /\ fpc' = fpc /\ cpc' = cpc /\ gcLog' = gcLog
        /\ gcTab' = gcTab /\ gcDesc' = gcDesc
    BY DEF WriteAppend
  <2> QED
    BY SMTT(30), SMTT(90), HasPhase, <2>1 DEF PhaseInv, Running
<1>2. NewDBInv' /\ RecVersionInv' /\ RecEditInv' /\ RecLogsInv' /\ RecAckedInv'
      /\ RecNewLogInv' /\ RecDescInv' /\ RecSeqInv'
  BY <1>1, RunningVacuous
<1>3. CurrentInv' /\ DescTablesInv' /\ DescNumbersInv' /\ DescSeqInv' /\
      AckInv' /\ SyncedFoundInv' /\ NumbersInv' /\ AckedInv' /\ VersionInv' /\
      SeqInv' /\ FlushInv' /\ FlushBuildInv' /\ FlushBuiltInv' /\
      CompactIdleInv' /\ CompactOutsInv' /\ CompactDataInv' /\ CompactOutInv'
      /\ EditInv' /\ GarbageInv'
  BY CurrentFrame, DescTablesFrame, DescNumbersFrame, DescSeqFrame,
     AckFrame, SyncedFoundFrame, NumbersFrame, AckedFrame, VersionFrame,
     SeqFrame, FlushFrame, FlushBuildFrame, FlushBuiltFrame, CompactIdleFrame,
     CompactOutsFrame, CompactDataFrame, CompactOutFrame, EditFrame,
     GarbageFrame DEF WriteAppend
<1>4. TypeOK'
  <2>1. lastSeq + 1 \in Seqno
    BY SMTT(30), SMTT(90), DurabilityAssumption, HasTypes, HasWrite DEF TypeOK, WriteInv,
       WriteAppend, Seqno
  <2>2. logData' \in [File -> SUBSET Seqno]
    BY <2>1, HasTypes DEF TypeOK, WriteAppend
  <2> QED
    BY SMTT(30), SMTT(90), <2>2, HasTypes DEF TypeOK, WriteAppend
<1>5. LogInv'
  <2>1. /\ logData' = [logData EXCEPT ![logNum] = @ \cup {lastSeq + 1}]
        /\ logSynced' = logSynced /\ logTorn' = logTorn
    BY DEF WriteAppend
  <2> QED
    BY SMTT(30), SMTT(90), HasLog, <2>1 DEF LogInv
<1>6. AckedFoundInv'
  <2>1. /\ logData' = [logData EXCEPT ![logNum] = @ \cup {lastSeq + 1}]
        /\ Cuts' = Cuts /\ logFiles' = logFiles /\ tabData' = tabData
        /\ man' = man /\ current' = current /\ ackP' = ackP
    BY DEF WriteAppend, Cuts
  <2> QED
    BY SMTT(30), SMTT(90), HasAckedFound, <2>1 DEF AckedFoundInv, InTables, InLogs
<1>7. PhaseInv'
  BY HasPhase DEF PhaseInv, WriteAppend
<1>8. MemInv'
  <2>1. /\ logData' = [logData EXCEPT ![logNum] = @ \cup {lastSeq + 1}]
        /\ logSynced' = logSynced /\ phase' = phase /\ mem' = mem
        /\ imm' = imm /\ hasImm' = hasImm /\ logNum' = logNum /\ ackM' = ackM
    BY DEF WriteAppend
  <2> QED
    BY SMTT(30), SMTT(90), HasMem, <2>1 DEF MemInv, Running
<1>9. SeqLogsInv'
  <2>1. /\ wpc = "log"
        /\ logData' = [logData EXCEPT ![logNum] = @ \cup {lastSeq + 1}]
        /\ wpc' \in {"sync", "insert"} /\ logFiles' = logFiles
        /\ phase' = phase /\ logNum' = logNum /\ lastSeq' = lastSeq
        /\ gcLog' = gcLog
    BY DEF WriteAppend
  <2> QED
    BY SMTT(30), SMTT(90), HasSeqLogs, <2>1 DEF SeqLogsInv, Running
<1>10. WriteInv'
  BY <1>1, RunTypes, HasTypes, HasWrite DEF WriteInv, TypeOK, WriteAppend
<1> QED
  BY <1>2, <1>3, <1>4, <1>5, <1>6, <1>7, <1>8, <1>9, <1>10 DEF DurabilityInv

\* Sync covers all of the current log.
LEMMA WriteSyncStep ==
  ASSUME DurabilityInv, WriteSync
  PROVE  DurabilityInv'
<1>1. Running /\ phase' = phase /\ phase' \in {"gc", "up"}
  <2>1. /\ wpc = "sync" /\ wpc' = "insert" /\ current' = current
        /\ phase' = phase /\ version' = version /\ pending' = pending
        /\ rlog' = rlog /\ rem' = rem /\ edit' = edit /\ reader' = reader
        /\ fpc' = fpc /\ cpc' = cpc /\ gcLog' = gcLog /\ gcTab' = gcTab
        /\ gcDesc' = gcDesc
    BY DEF WriteSync
  <2> QED
    BY SMTT(30), SMTT(90), HasPhase, <2>1 DEF PhaseInv, Running
<1>2. NewDBInv' /\ RecVersionInv' /\ RecEditInv' /\ RecLogsInv' /\ RecAckedInv'
      /\ RecNewLogInv' /\ RecDescInv' /\ RecSeqInv'
  BY <1>1, RunningVacuous
<1>3. CurrentInv' /\ DescTablesInv' /\ DescNumbersInv' /\ DescSeqInv' /\
      AckInv' /\ AckedFoundInv' /\ NumbersInv' /\ AckedInv' /\ VersionInv' /\
      SeqInv' /\ FlushInv' /\ FlushBuildInv' /\ FlushBuiltInv' /\
      CompactIdleInv' /\ CompactOutsInv' /\ CompactDataInv' /\ CompactOutInv'
      /\ EditInv' /\ GarbageInv'
  BY CurrentFrame, DescTablesFrame, DescNumbersFrame, DescSeqFrame,
     AckFrame, AckedFoundFrame, NumbersFrame, AckedFrame, VersionFrame,
     SeqFrame, FlushFrame, FlushBuildFrame, FlushBuiltFrame, CompactIdleFrame,
     CompactOutsFrame, CompactDataFrame, CompactOutFrame, EditFrame,
     GarbageFrame DEF WriteSync
<1>4. TypeOK'
  <2>1. logSynced' \in [File -> SUBSET Seqno]
    BY HasTypes DEF TypeOK, WriteSync
  <2> QED
    BY SMTT(30), SMTT(90), <2>1, HasTypes DEF TypeOK, WriteSync
<1>5. LogInv'
  <2>1. /\ logSynced' = [logSynced EXCEPT ![logNum] = logData[logNum]]
        /\ logData' = logData /\ logTorn' = logTorn
    BY DEF WriteSync
  <2> QED
    BY SMTT(30), SMTT(90), HasLog, <2>1 DEF LogInv
<1>6. SyncedFoundInv'
  <2>1. \A n \in logFiles : logSynced[n] \subseteq logSynced'[n]
    BY HasTypes, HasLog DEF TypeOK, LogInv, WriteSync
  <2> QED
    <3>1. /\ logSynced' = [logSynced EXCEPT ![logNum] = logData[logNum]]
          /\ Cuts' = Cuts /\ logFiles' = logFiles /\ tabData' = tabData
          /\ man' = man /\ current' = current /\ ackM' = ackM
      BY DEF WriteSync, Cuts
    <3> QED
      BY SMTT(30), SMTT(90), <2>1, HasSyncedFound, <3>1 DEF SyncedFoundInv, InTables,
         InLogs
<1>7. PhaseInv'
  BY HasPhase DEF PhaseInv, WriteSync
<1>8. MemInv'
  <2>1. /\ logSynced' = [logSynced EXCEPT ![logNum] = logData[logNum]]
        /\ logData' = logData /\ phase' = phase /\ mem' = mem /\ imm' = imm
        /\ hasImm' = hasImm /\ logNum' = logNum /\ ackM' = ackM
    BY DEF WriteSync
  <2> QED
    BY SMTT(30), SMTT(90), HasMem, <2>1 DEF MemInv, Running
<1>9. SeqLogsInv'
  BY HasSeqLogs DEF SeqLogsInv, Running, WriteSync
<1>10. WriteInv'
  BY <1>1, RunTypes, HasTypes, HasWrite DEF WriteInv, TypeOK, WriteSync
<1> QED
  BY <1>2, <1>3, <1>4, <1>5, <1>6, <1>7, <1>8, <1>9, <1>10 DEF DurabilityInv

\* An append fails half-way: the current log now has a torn record, which only
\* matters to what is said of acknowledged writes, and one sequence number is
\* not used.
LEMMA WriteAppendFailsStep ==
  ASSUME DurabilityInv, WriteAppendFails
  PROVE  DurabilityInv'
<1>1. Running /\ phase' = phase /\ phase' \in {"gc", "up"}
  BY HasPhase DEF PhaseInv, WriteAppendFails, Running
<1>2. NewDBInv' /\ RecVersionInv' /\ RecEditInv' /\ RecLogsInv' /\ RecAckedInv'
      /\ RecNewLogInv' /\ RecDescInv' /\ RecSeqInv'
  BY <1>1, RunningVacuous
<1>3. CurrentInv' /\ DescTablesInv' /\ DescNumbersInv' /\ DescSeqInv' /\
      AckInv' /\ SyncedFoundInv' /\ AckedFoundInv' /\ NumbersInv' /\
      AckedInv' /\ MemInv' /\ VersionInv' /\ FlushInv' /\ FlushBuildInv' /\
      FlushBuiltInv' /\ CompactIdleInv' /\ CompactOutsInv' /\ CompactDataInv'
      /\ CompactOutInv' /\ GarbageInv'
  BY CurrentFrame, DescTablesFrame, DescNumbersFrame, DescSeqFrame,
     AckFrame, SyncedFoundFrame, AckedFoundFrame, NumbersFrame,
     AckedFrame, MemFrame, VersionFrame, FlushFrame, FlushBuildFrame,
     FlushBuiltFrame, CompactIdleFrame, CompactOutsFrame, CompactDataFrame,
     CompactOutFrame, GarbageFrame DEF WriteAppendFails
<1>4. TypeOK'
  <2>1. lastSeq + 1 \in 0 .. MaxSeq
    BY SMTT(30), SMTT(90), DurabilityAssumption, HasTypes, HasWrite DEF TypeOK, WriteInv,
       WriteAppendFails
  <2> QED
    <3>1. logTorn' \in [File -> 0 .. MaxSeq]
      <4>1. logTorn \in [File -> 0 .. MaxSeq]
        BY HasTypes DEF TypeOK
      <4>2. logTorn' = [logTorn EXCEPT ![logNum] = IF @ = 0 THEN lastSeq + 1 ELSE @]
        BY DEF WriteAppendFails
      <4>3. ASSUME NEW n \in File
            PROVE  logTorn'[n] \in 0 .. MaxSeq
        <5>1. logTorn'[n] \in {lastSeq + 1, logTorn[n]}
          BY <4>1, <4>2
        <5> QED
          BY <2>1, <4>1, <5>1
      <4> QED
        BY <4>1, <4>2, <4>3
    <3> QED
      BY SMTT(30), SMTT(90), <2>1, <3>1, HasTypes DEF TypeOK, WriteAppendFails
<1>5. PhaseInv'
  BY HasPhase DEF PhaseInv, WriteAppendFails
<1>6. SeqInv'
  <2>1. mem \cup imm \cup ackP \cup crem \subseteq Nat
    BY Bounds, HasTypes DEF TypeOK
  <2>2. \A f \in version \cup (couts \ {cout}) : tabData[f] \subseteq Nat
    BY Bounds, HasTypes DEF TypeOK
  <2> QED
    <3>1. /\ lastSeq' = lastSeq + 1 /\ Cuts' = Cuts /\ tabData' = tabData
          /\ man' = man /\ current' = current /\ phase' = phase /\ mem' = mem
          /\ imm' = imm /\ version' = version /\ couts' = couts
          /\ cout' = cout /\ crem' = crem /\ ackP' = ackP
      BY DEF WriteAppendFails, Cuts
    <3> QED
      BY SMTT(30), SMTT(90), <1>1, <2>1, <2>2, RunTypes, HasSeq, <3>1 DEF SeqInv
<1>7. SeqLogsInv'
  <2>1. \A k \in logFiles : logData[k] \subseteq Nat
    BY Bounds, HasTypes DEF TypeOK
  <2> QED
    <3>1. /\ wpc = "log" /\ wpc' = "idle"
          /\ lastSeq' = lastSeq + 1 /\ logFiles' = logFiles
          /\ logData' = logData /\ phase' = phase /\ logNum' = logNum
          /\ gcLog' = gcLog
      BY DEF WriteAppendFails
    <3> QED
      BY SMTT(30), SMTT(90), <1>1, <2>1, RunTypes, HasSeqLogs, <3>1 DEF SeqLogsInv
<1>8. WriteInv'
  BY HasWrite DEF WriteInv, WriteAppendFails
<1>9. EditInv'
  BY EditFrame DEF WriteAppendFails
<1>10. LogInv'
  <2>1. ~NoTornAppend
    BY DEF NoTornAppend, WriteAppendFails
  <2>2. ~NoTornAppend'
    BY DEF NoTornAppend, WriteAppendFails
  <2> QED
    BY <2>1, <2>2, HasLog DEF LogInv, WriteAppendFails
<1> QED
  BY <1>2, <1>3, <1>4, <1>5, <1>6, <1>7, <1>8, <1>9, <1>10 DEF DurabilityInv

\* A failed Sync sets bg_error_ and uses up the sequence number.
LEMMA WriteSyncFailsStep ==
  ASSUME DurabilityInv, WriteSyncFails
  PROVE  DurabilityInv'
<1>1. Running /\ phase' = phase /\ phase' \in {"gc", "up"}
  BY HasPhase DEF PhaseInv, WriteSyncFails, Running
<1>2. NewDBInv' /\ RecVersionInv' /\ RecEditInv' /\ RecLogsInv' /\ RecAckedInv'
      /\ RecNewLogInv' /\ RecDescInv' /\ RecSeqInv'
  BY <1>1, RunningVacuous
<1>3. CurrentInv' /\ DescTablesInv' /\ DescNumbersInv' /\ DescSeqInv' /\
      LogInv' /\ AckInv' /\ SyncedFoundInv' /\ AckedFoundInv' /\ NumbersInv' /\
      AckedInv' /\ MemInv' /\ VersionInv' /\ FlushInv' /\ FlushBuildInv' /\
      FlushBuiltInv' /\ CompactIdleInv' /\ CompactOutsInv' /\ CompactDataInv'
      /\ CompactOutInv' /\ GarbageInv'
  BY CurrentFrame, DescTablesFrame, DescNumbersFrame, DescSeqFrame,
     LogFrame, AckFrame, SyncedFoundFrame, AckedFoundFrame, NumbersFrame,
     AckedFrame, MemFrame, VersionFrame, FlushFrame, FlushBuildFrame,
     FlushBuiltFrame, CompactIdleFrame, CompactOutsFrame, CompactDataFrame,
     CompactOutFrame, GarbageFrame DEF WriteSyncFails
<1>4. TypeOK'
  <2>1. lastSeq + 1 \in 0 .. MaxSeq
    BY SMTT(30), SMTT(90), DurabilityAssumption, HasTypes, HasWrite DEF TypeOK, WriteInv,
       WriteSyncFails
  <2> QED
    BY SMTT(30), SMTT(90), <2>1, HasTypes DEF TypeOK, WriteSyncFails
<1>5. PhaseInv'
  BY HasPhase DEF PhaseInv, WriteSyncFails
<1>6. SeqInv'
  <2>1. mem \cup imm \cup ackP \cup crem \subseteq Nat
    BY Bounds, HasTypes DEF TypeOK
  <2>2. \A f \in version \cup (couts \ {cout}) : tabData[f] \subseteq Nat
    BY Bounds, HasTypes DEF TypeOK
  <2> QED
    <3>1. /\ lastSeq' = lastSeq + 1 /\ Cuts' = Cuts /\ tabData' = tabData
          /\ man' = man /\ current' = current /\ phase' = phase /\ mem' = mem
          /\ imm' = imm /\ version' = version /\ couts' = couts
          /\ cout' = cout /\ crem' = crem /\ ackP' = ackP
      BY DEF WriteSyncFails, Cuts
    <3> QED
      BY SMTT(30), SMTT(90), <1>1, <2>1, <2>2, RunTypes, HasSeq, <3>1 DEF SeqInv
<1>7. SeqLogsInv'
  <2>1. \A k \in logFiles : logData[k] \subseteq Nat
    BY Bounds, HasTypes DEF TypeOK
  <2> QED
    <3>1. /\ wpc = "sync" /\ "sync" \in Faults /\ wpc' = "idle"
          /\ lastSeq' = lastSeq + 1 /\ logFiles' = logFiles
          /\ logData' = logData /\ phase' = phase /\ logNum' = logNum
          /\ gcLog' = gcLog
      BY DEF WriteSyncFails
    <3> QED
      BY SMTT(30), SMTT(90), <1>1, <2>1, RunTypes, HasSeqLogs, <3>1 DEF SeqLogsInv
<1>8. WriteInv'
  BY HasWrite DEF WriteInv, WriteSyncFails
<1>9. EditInv'
  BY HasEdit DEF EditInv, WriteSyncFails
<1> QED
  BY <1>2, <1>3, <1>4, <1>5, <1>6, <1>7, <1>8, <1>9 DEF DurabilityInv

\* A write is acknowledged: its record is in the current log, and synced if that
\* was asked for.  Its sequence number is new.
LEMMA WriteDoneStep ==
  ASSUME DurabilityInv, WriteDone
  PROVE  DurabilityInv'
<1>1. Running /\ phase' = phase /\ phase' \in {"gc", "up"}
  <2>1. wpc = "insert" /\ phase' = phase
    BY DEF WriteDone
  <2> QED
    BY SMTT(30), SMTT(90), <2>1, StaysRunning
<1>2. current # 0
  BY <1>1, RunTypes
<1>3. NewDBInv' /\ RecVersionInv' /\ RecEditInv' /\ RecLogsInv' /\ RecAckedInv'
      /\ RecNewLogInv' /\ RecDescInv' /\ RecSeqInv'
  BY <1>1, RunningVacuous
<1>4. CurrentInv' /\ DescTablesInv' /\ DescNumbersInv' /\ DescSeqInv' /\
      LogInv' /\ NumbersInv' /\ VersionInv' /\ FlushInv' /\ FlushBuildInv' /\
      FlushBuiltInv' /\ CompactIdleInv' /\ CompactOutsInv' /\ CompactDataInv'
      /\ CompactOutInv' /\ EditInv' /\ GarbageInv'
  BY CurrentFrame, DescTablesFrame, DescNumbersFrame, DescSeqFrame,
     LogFrame, NumbersFrame, VersionFrame, FlushFrame, FlushBuildFrame,
     FlushBuiltFrame, CompactIdleFrame, CompactOutsFrame, CompactDataFrame,
     CompactOutFrame, EditFrame, GarbageFrame DEF WriteDone
<1>5. TypeOK'
  <2>1. lastSeq + 1 \in 0 .. MaxSeq /\ lastSeq + 1 \in Seqno
    BY SMTT(30), SMTT(90), DurabilityAssumption, HasTypes, HasWrite DEF TypeOK, WriteInv,
       WriteDone, Seqno
  <2> QED
    BY SMTT(30), SMTT(90), <2>1, HasTypes DEF TypeOK, WriteDone
<1>6. AckInv'
  BY <1>2, HasAck DEF AckInv, WriteDone
<1>7. SyncedFoundInv'
  BY <1>1, HasSyncedFound, HasNumbers, HasWrite DEF SyncedFoundInv, NumbersInv,
     WriteInv, Cuts, InTables, InLogs, WriteDone
<1>8. AckedFoundInv'
  BY <1>1, HasAckedFound, HasNumbers, HasWrite DEF AckedFoundInv, NumbersInv,
     WriteInv, Cuts, InTables, InLogs, WriteDone
<1>9. PhaseInv'
  BY HasPhase DEF PhaseInv, WriteDone
<1>10. AckedInv'
  BY HasAcked DEF AckedInv, Cuts, Running, InTables, WriteDone
<1>11. MemInv'
  <2>1. NoTornAppend => lastSeq + 1 \notin ackM
    BY SMTT(30), SMTT(90), <1>1, RunTypes, HasAck, HasSeq DEF SeqInv, AckInv
  <2> QED
    BY <1>1, <2>1, HasMem, HasWrite DEF MemInv, WriteInv, WriteDone
<1>12. SeqInv'
  <2>1. mem \cup imm \cup ackP \cup crem \subseteq Nat
    BY Bounds, HasTypes DEF TypeOK
  <2>2. \A f \in version \cup (couts \ {cout}) : tabData[f] \subseteq Nat
    BY Bounds, HasTypes DEF TypeOK
  <2> QED
    <3>1. /\ mem' = mem \cup {lastSeq + 1} /\ lastSeq' = lastSeq + 1
          /\ ackP' = ackP \cup {lastSeq + 1} /\ Cuts' = Cuts
          /\ tabData' = tabData /\ man' = man /\ current' = current
          /\ phase' = phase /\ imm' = imm /\ version' = version
          /\ couts' = couts /\ cout' = cout /\ crem' = crem
      BY DEF WriteDone, Cuts
    <3> QED
      BY SMTT(30), SMTT(90), <1>1, <2>1, <2>2, RunTypes, HasSeq, <3>1 DEF SeqInv
<1>13. SeqLogsInv'
  <2>1. \A k \in logFiles : logData[k] \subseteq Nat
    BY Bounds, HasTypes DEF TypeOK
  <2> QED
    <3>1. /\ wpc = "insert" /\ wpc' = "idle" /\ lastSeq' = lastSeq + 1
          /\ logFiles' = logFiles /\ logData' = logData /\ phase' = phase
          /\ logNum' = logNum /\ gcLog' = gcLog
      BY DEF WriteDone
    <3> QED
      BY SMTT(30), SMTT(90), <1>1, <2>1, RunTypes, HasSeqLogs, <3>1 DEF SeqLogsInv
<1>14. WriteInv'
  BY HasWrite DEF WriteInv, WriteDone
<1> QED
  BY <1>3, <1>4, <1>5, <1>6, <1>7, <1>8, <1>9, <1>10, <1>11, <1>12, <1>13,
     <1>14 DEF DurabilityInv

\* MakeRoomForWrite switches to a new log; imm_ takes over mem_.
LEMMA SwitchMemTableStep ==
  ASSUME DurabilityInv, SwitchMemTable
  PROVE  DurabilityInv'
<1>1. Running /\ phase' = phase /\ phase' \in {"gc", "up"}
  <2>1. Running /\ phase' = phase
    BY DEF SwitchMemTable, Running
  <2> QED
    BY SMTT(30), SMTT(90), <2>1, StaysRunning
<1>2. /\ nextFile \in File
      /\ nextFile \notin logFiles \cup version \cup cver \cup reader \cup couts
      /\ \A m \in Cuts : nextFile \notin m.files
  <2>1. /\ nextFile + Slack <= MaxFile /\ logFiles' = logFiles \cup {nextFile}
        /\ nextFile' = nextFile + 1 /\ version' = version /\ reader' = reader
        /\ cver' = cver /\ couts' = couts
    BY DEF SwitchMemTable
  <2> QED
    BY SMTT(30), SMTT(90), <1>1, RunTypes, NextFileFresh, DurabilityAssumption, <2>1
<1>3. \A n \in logFiles : n \in File /\ logData'[n] = logData[n] /\ logSynced'[n] = logSynced[n]
  BY <1>2, HasTypes DEF TypeOK, SwitchMemTable
<1>4. NewDBInv' /\ RecVersionInv' /\ RecEditInv' /\ RecLogsInv' /\ RecAckedInv'
      /\ RecNewLogInv' /\ RecDescInv' /\ RecSeqInv'
  BY <1>1, RunningVacuous
<1>5. CurrentInv' /\ DescTablesInv' /\ DescNumbersInv' /\ DescSeqInv' /\
      AckInv' /\ PhaseInv' /\ FlushBuildInv' /\ CompactIdleInv' /\
      CompactDataInv' /\ CompactOutInv' /\ GarbageInv'
  BY CurrentFrame, DescTablesFrame, DescNumbersFrame, DescSeqFrame,
     AckFrame, PhaseFrame, FlushBuildFrame, CompactIdleFrame, CompactDataFrame,
     CompactOutFrame, GarbageFrame DEF SwitchMemTable
<1>6. TypeOK'
  <2>1. /\ logData' \in [File -> SUBSET Seqno] /\ logSynced' \in [File -> SUBSET Seqno]
        /\ logTorn' \in [File -> 0 .. MaxSeq]
    BY <1>2, Bounds, HasTypes DEF TypeOK, SwitchMemTable
  <2>2. logNum' \in 0 .. MaxFile /\ nextFile' \in Nat
    <3>1. /\ nextFile + Slack <= MaxFile /\ logNum' = nextFile
          /\ nextFile' = nextFile + 1
      BY DEF SwitchMemTable
    <3> QED
      BY SMTT(30), SMTT(90), <1>2, Bounds, <3>1
  <2>3. bgError' \in BOOLEAN
    BY DEF SwitchMemTable
  <2> QED
    BY <1>2, <2>1, <2>2, HasTypes DEF TypeOK, SwitchMemTable
<1>7. LogInv'
  BY HasTypes, HasLog DEF LogInv, TypeOK, SwitchMemTable
<1>8. SyncedFoundInv'
  <2>1. /\ logFiles' = logFiles \cup {nextFile}
        /\ logSynced' = [logSynced EXCEPT ![nextFile] = {}] /\ Cuts' = Cuts
        /\ tabData' = tabData /\ man' = man /\ current' = current
        /\ ackM' = ackM
    BY DEF SwitchMemTable, Cuts
  <2> QED
    BY SMTT(30), SMTT(90), <1>3, HasSyncedFound, <2>1 DEF SyncedFoundInv, InTables, InLogs
<1>9. AckedFoundInv'
  <2>1. /\ logFiles' = logFiles \cup {nextFile}
        /\ logData' = [logData EXCEPT ![nextFile] = {}] /\ Cuts' = Cuts
        /\ tabData' = tabData /\ man' = man /\ current' = current
        /\ ackP' = ackP
    BY DEF SwitchMemTable, Cuts
  <2> QED
    BY SMTT(30), SMTT(90), <1>3, HasAckedFound, <2>1 DEF AckedFoundInv, InTables, InLogs
<1>10. NumbersInv'
  <2>1. /\ phase = "up" /\ wpc = "idle" /\ ~bgError /\ ~hasImm
        /\ nextFile + Slack <= MaxFile /\ logFiles' = logFiles \cup {nextFile}
        /\ logNum' = nextFile /\ nextFile' = nextFile + 1 /\ Cuts' = Cuts
        /\ man' = man /\ current' = current /\ phase' = phase /\ vLog' = vLog
        /\ vMan' = vMan
    BY DEF SwitchMemTable, Cuts
  <2> QED
    BY SMTT(30), SMTT(90), RunTypes, HasNumbers, <2>1 DEF NumbersInv, Running
<1>11. AckedInv'
  BY HasAcked, HasMem DEF AckedInv, MemInv, Cuts, Running, InTables,
     SwitchMemTable
<1>12. MemInv'
  BY HasMem DEF MemInv, SwitchMemTable
<1>13. VersionInv'
  <2>1. /\ phase = "up" /\ wpc = "idle" /\ ~bgError /\ ~hasImm
        /\ nextFile + Slack <= MaxFile /\ nextFile' = nextFile + 1
        /\ tabDone' = tabDone /\ phase' = phase /\ version' = version
        /\ reader' = reader /\ cver' = cver
    BY DEF SwitchMemTable
  <2> QED
    BY SMTT(30), SMTT(90), RunTypes, HasVersion, <2>1 DEF VersionInv, Running
<1>14. SeqInv'
  BY HasSeq DEF SeqInv, Cuts, Running, SwitchMemTable
<1>15. SeqLogsInv'
  <2>1. logData'[nextFile] = {}
    BY <1>2, HasTypes DEF TypeOK, SwitchMemTable
  <2> QED
    <3>1. /\ phase = "up" /\ wpc = "idle" /\ ~bgError /\ ~hasImm
          /\ logFiles' = logFiles \cup {nextFile}
          /\ logData' = [logData EXCEPT ![nextFile] = {}]
          /\ logNum' = nextFile /\ phase' = phase /\ lastSeq' = lastSeq
          /\ wpc' = wpc /\ gcLog' = gcLog
      BY DEF SwitchMemTable
    <3> QED
      BY SMTT(30), SMTT(90), <2>1, HasSeqLogs, <3>1 DEF SeqLogsInv, Running
<1>16. WriteInv'
  BY HasWrite DEF WriteInv, SwitchMemTable
<1>17. FlushInv'
  BY HasFlush DEF FlushInv, SwitchMemTable
<1>18. FlushBuiltInv'
  BY HasFlush, HasFlushBuilt DEF FlushBuiltInv, FlushInv, SwitchMemTable
<1>19. CompactOutsInv'
  <2>1. /\ nextFile + Slack <= MaxFile /\ nextFile' = nextFile + 1
        /\ tabDone' = tabDone /\ pending' = pending /\ cin' = cin
        /\ cver' = cver /\ couts' = couts /\ cout' = cout
    BY DEF SwitchMemTable
  <2> QED
    BY SMTT(30), SMTT(90), <1>1, RunTypes, HasCompactOuts, <2>1 DEF CompactOutsInv
<1>20. EditInv'
  BY HasEdit DEF EditInv, Cuts, Running, SwitchMemTable
<1> QED
  BY <1>4, <1>5, <1>6, <1>7, <1>8, <1>9, <1>10, <1>11, <1>12, <1>13, <1>14,
     <1>15, <1>16, <1>17, <1>18, <1>19, <1>20 DEF DurabilityInv

\* A reader takes a reference to the current version.
LEMMA ReadBeginStep ==
  ASSUME DurabilityInv, ReadBegin
  PROVE  DurabilityInv'
<1>1. Running /\ phase' = phase /\ phase' \in {"gc", "up"}
  BY DEF ReadBegin, Running
<1>2. NewDBInv' /\ RecVersionInv' /\ RecEditInv' /\ RecLogsInv' /\ RecAckedInv'
      /\ RecNewLogInv' /\ RecDescInv' /\ RecSeqInv'
  BY <1>1, RunningVacuous
<1>3. CurrentInv' /\ DescTablesInv' /\ DescNumbersInv' /\ DescSeqInv' /\
      LogInv' /\ AckInv' /\ SyncedFoundInv' /\ AckedFoundInv' /\ NumbersInv' /\
      AckedInv' /\ MemInv' /\ SeqInv' /\ SeqLogsInv' /\ WriteInv' /\ FlushInv'
      /\ FlushBuiltInv' /\ CompactIdleInv' /\ CompactOutsInv' /\
      CompactDataInv' /\ EditInv'
  BY CurrentFrame, DescTablesFrame, DescNumbersFrame, DescSeqFrame,
     LogFrame, AckFrame, SyncedFoundFrame, AckedFoundFrame, NumbersFrame,
     AckedFrame, MemFrame, SeqFrame, SeqLogsFrame, WriteFrame, FlushFrame,
     FlushBuiltFrame, CompactIdleFrame, CompactOutsFrame, CompactDataFrame,
     EditFrame DEF ReadBegin
<1>4. TypeOK'
  BY SMTT(30), SMTT(90), HasTypes DEF TypeOK, ReadBegin
<1>5. PhaseInv'
  BY HasPhase DEF PhaseInv, ReadBegin
<1>6. VersionInv'
  BY HasVersion DEF VersionInv, Running, ReadBegin
<1>7. FlushBuildInv'
  BY HasFlushBuild DEF FlushBuildInv, Cuts, ReadBegin
<1>8. CompactOutInv'
  BY HasCompactOut DEF CompactOutInv, Cuts, ReadBegin
<1>9. GarbageInv'
  BY HasGarbage DEF GarbageInv, Cuts, ReadBegin
<1> QED
  BY <1>2, <1>3, <1>4, <1>5, <1>6, <1>7, <1>8, <1>9 DEF DurabilityInv

\* A reader drops its reference.
LEMMA ReadEndStep ==
  ASSUME DurabilityInv, ReadEnd
  PROVE  DurabilityInv'
<1>1. Running /\ phase' = phase /\ phase' \in {"gc", "up"}
  BY DEF ReadEnd, Running
<1>2. NewDBInv' /\ RecVersionInv' /\ RecEditInv' /\ RecLogsInv' /\ RecAckedInv'
      /\ RecNewLogInv' /\ RecDescInv' /\ RecSeqInv'
  BY <1>1, RunningVacuous
<1>3. CurrentInv' /\ DescTablesInv' /\ DescNumbersInv' /\ DescSeqInv' /\
      LogInv' /\ AckInv' /\ SyncedFoundInv' /\ AckedFoundInv' /\ NumbersInv' /\
      AckedInv' /\ MemInv' /\ SeqInv' /\ SeqLogsInv' /\ WriteInv' /\ FlushInv'
      /\ FlushBuiltInv' /\ CompactIdleInv' /\ CompactOutsInv' /\
      CompactDataInv' /\ EditInv'
  BY CurrentFrame, DescTablesFrame, DescNumbersFrame, DescSeqFrame,
     LogFrame, AckFrame, SyncedFoundFrame, AckedFoundFrame, NumbersFrame,
     AckedFrame, MemFrame, SeqFrame, SeqLogsFrame, WriteFrame, FlushFrame,
     FlushBuiltFrame, CompactIdleFrame, CompactOutsFrame, CompactDataFrame,
     EditFrame DEF ReadEnd
<1>4. TypeOK'
  BY SMTT(30), SMTT(90), HasTypes DEF TypeOK, ReadEnd
<1>5. PhaseInv'
  BY HasPhase DEF PhaseInv, ReadEnd
<1>6. VersionInv'
  BY HasVersion DEF VersionInv, Running, ReadEnd
<1>7. FlushBuildInv'
  BY HasFlushBuild DEF FlushBuildInv, Cuts, ReadEnd
<1>8. CompactOutInv'
  BY HasCompactOut DEF CompactOutInv, Cuts, ReadEnd
<1>9. GarbageInv'
  BY HasGarbage DEF GarbageInv, Cuts, ReadEnd
<1> QED
  BY <1>2, <1>3, <1>4, <1>5, <1>6, <1>7, <1>8, <1>9 DEF DurabilityInv
=============================================================================
