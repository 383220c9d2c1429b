-------------------------- MODULE DurabilityProofs --------------------------
(***************************************************************************)
(* Flushing the memtable, removing obsolete files, compacting tables and   *)
(* crashes preserve the invariant of Durability, and with the lemmas on    *)
(* the other steps it holds always, with every kind of error.  The         *)
(* theorems, for every number of writes, files and crashes: recovery finds *)
(* its files and gives out no sequence number twice, no file in use is     *)
(* removed, a background error is final; and no acknowledged write is lost *)
(* unless an append to a log fails half-way (then it may be, see the run   *)
(* failed_append).                                                         *)
(***************************************************************************)
EXTENDS DurabilitySteps

USE ZenonT(30), ZenonT(90) DEF logVars, tabVars, descVars, memVars, vsetVars, openVars,
                               writeVars, flushVars, compVars, gcVars, ackVars, bgVars

-----------------------------------------------------------------------------
(* Flushing the memtable and removing obsolete files.                      *)

\* CompactMemTable takes a new file number.
LEMMA FlushBeginStep ==
  ASSUME DurabilityInv, FlushBegin
  PROVE  DurabilityInv'
<1>1. Running /\ phase' = phase /\ phase' \in {"gc", "up"}
  <2>1. Running /\ phase' = phase
    BY DEF FlushBegin, BackgroundReady, Running
  <2> QED
    BY SMTT(30), SMTT(90), <2>1, StaysRunning
<1>2. /\ nextFile \in File
      /\ nextFile \notin logFiles \cup version \cup cver \cup reader \cup couts
      /\ \A m \in Cuts : nextFile \notin m.files
  BY <1>1, NextFileFresh DEF FlushBegin
<1>3. NewDBInv' /\ RecVersionInv' /\ RecEditInv' /\ RecLogsInv' /\ RecAckedInv'
      /\ RecNewLogInv' /\ RecDescInv' /\ RecSeqInv'
  BY <1>1, RunningVacuous
<1>4. CurrentInv' /\ DescTablesInv' /\ DescNumbersInv' /\ DescSeqInv' /\
      LogInv' /\ AckInv' /\ SyncedFoundInv' /\ AckedFoundInv' /\ AckedInv' /\
      MemInv' /\ SeqInv' /\ SeqLogsInv' /\ WriteInv' /\ CompactDataInv' /\
      CompactOutInv' /\ GarbageInv'
  BY CurrentFrame, DescTablesFrame, DescNumbersFrame, DescSeqFrame,
     LogFrame, AckFrame, SyncedFoundFrame, AckedFoundFrame, AckedFrame,
     MemFrame, SeqFrame, SeqLogsFrame, WriteFrame, CompactDataFrame,
     CompactOutFrame, GarbageFrame DEF FlushBegin
<1>5. TypeOK'
  <2>1. fout' \in 0 .. MaxFile /\ nextFile' \in Nat
    <3>1. /\ nextFile <= MaxFile /\ (bgError => nextFile + Slack <= MaxFile)
          /\ fout' = nextFile /\ nextFile' = nextFile + 1
      BY DEF FlushBegin
    <3> QED
      BY SMTT(30), SMTT(90), <1>2, Bounds, <3>1
  <2> QED
    BY ZenonT(60), ZenonT(120), <1>2, <2>1, HasTypes DEF TypeOK, FlushBegin
<1>6. PhaseInv'
  BY HasPhase DEF PhaseInv, FlushBegin, BackgroundReady
<1>7. NumbersInv'
  <2>1. /\ nextFile <= MaxFile /\ (bgError => nextFile + Slack <= MaxFile)
        /\ nextFile' = nextFile + 1 /\ Cuts' = Cuts /\ logFiles' = logFiles
        /\ man' = man /\ current' = current /\ phase' = phase
        /\ logNum' = logNum /\ vLog' = vLog /\ vMan' = vMan
    BY DEF FlushBegin, Cuts
  <2> QED
    BY SMTT(30), SMTT(90), RunTypes, HasNumbers, <2>1 DEF NumbersInv, Running
<1>8. VersionInv'
  <2>1. /\ nextFile <= MaxFile /\ (bgError => nextFile + Slack <= MaxFile)
        /\ nextFile' = nextFile + 1 /\ tabDone' = tabDone /\ phase' = phase
        /\ version' = version /\ reader' = reader /\ cver' = cver
    BY DEF FlushBegin
  <2> QED
    BY SMTT(30), SMTT(90), <1>1, RunTypes, HasVersion, <2>1 DEF VersionInv
<1>9. FlushInv'
  <2>1. /\ NothingToRemove' /\ hasImm' /\ cpc' \in {"idle", "work"}
        /\ fout' = nextFile /\ nextFile' = nextFile + 1 /\ couts' = couts
    BY DEF FlushBegin, BackgroundReady, NothingToRemove
  <2>2. nextFile # 0 /\ nextFile < nextFile + 1
    BY SMTT(30), SMTT(90), <1>2, Bounds
  <2> QED
    BY <1>2, <2>1, <2>2 DEF FlushInv
<1>10. FlushBuildInv'
  BY <1>2, HasFlushBuild DEF FlushBuildInv, Cuts, FlushBegin
<1>11. FlushBuiltInv'
  BY HasFlushBuilt DEF FlushBuiltInv, FlushBegin
<1>12. CompactIdleInv'
  BY HasCompactIdle DEF CompactIdleInv, FlushBegin
<1>13. CompactOutsInv'
  <2>1. /\ nextFile <= MaxFile /\ (bgError => nextFile + Slack <= MaxFile)
        /\ nextFile' = nextFile + 1 /\ pending' = pending \cup {nextFile}
        /\ tabDone' = tabDone /\ cin' = cin /\ cver' = cver /\ couts' = couts
        /\ cout' = cout
    BY DEF FlushBegin
  <2> QED
    BY SMTT(30), SMTT(90), <1>1, RunTypes, HasCompactOuts, <2>1 DEF CompactOutsInv
<1>14. EditInv'
  BY HasEdit DEF EditInv, Cuts, Running, FlushBegin
<1> QED
  BY <1>3, <1>4, <1>5, <1>6, <1>7, <1>8, <1>9, <1>10, <1>11, <1>12, <1>13,
     <1>14 DEF DurabilityInv

\* BuildTable writes imm_ to a file that nobody refers to.
LEMMA FlushBuildStep ==
  ASSUME DurabilityInv, FlushBuild
  PROVE  DurabilityInv'
<1>1. Running /\ phase' = phase /\ phase' \in {"gc", "up"}
  <2>1. fpc = "build" /\ phase' = phase
    BY DEF FlushBuild
  <2> QED
    BY SMTT(30), SMTT(90), <2>1, StaysRunning
<1>2. current # 0
  BY <1>1, RunTypes
<1>3. \A f \in File : f # fout => tabData'[f] = tabData[f]
  BY HasTypes DEF TypeOK, FlushBuild
<1>4. /\ fout \in File /\ fout \notin version \cup cver \cup reader \cup couts
      /\ \A m \in Cuts : m.files \subseteq File /\ fout \notin m.files
  BY <1>2, Bounds, CurrentFacts, SnapshotFields, HasTypes, HasCurrent,
     HasFlush, HasFlushBuild DEF TypeOK, FlushInv, FlushBuildInv, FlushBuild
<1>5. version \cup cver \cup couts \cup cin \subseteq File
  BY HasTypes DEF TypeOK
<1>6. NewDBInv' /\ RecVersionInv' /\ RecEditInv' /\ RecLogsInv' /\ RecAckedInv'
      /\ RecNewLogInv' /\ RecDescInv' /\ RecSeqInv'
  BY <1>1, RunningVacuous
<1>7. CurrentInv' /\ DescNumbersInv' /\ LogInv' /\ AckInv' /\ NumbersInv' /\
      MemInv' /\ SeqLogsInv' /\ WriteInv' /\ GarbageInv'
  BY CurrentFrame, DescNumbersFrame, LogFrame, AckFrame, NumbersFrame, MemFrame,
     SeqLogsFrame, WriteFrame, GarbageFrame DEF FlushBuild
<1>8. TypeOK'
  <2>1. /\ tabFiles' \subseteq File /\ tabDone' \subseteq tabFiles'
        /\ pending' \subseteq File /\ fpc' = "built" /\ fout' \in 0 .. MaxFile
    BY <1>4, Bounds, HasTypes DEF TypeOK, FlushBuild
  <2>2. tabData' \in [File -> SUBSET Seqno]
    <3>1. CASE imm = {}
      BY SMTT(30), SMTT(90), HasTypes DEF TypeOK, FlushBuild
    <3>2. CASE imm # {}
      BY SMTT(30), SMTT(90), HasTypes DEF TypeOK, FlushBuild
    <3> QED
      BY <3>1, <3>2
  <2> QED
    BY SMTT(30), SMTT(90), <2>1, <2>2, HasTypes DEF TypeOK, FlushBuild
<1>9. DescTablesInv'
  BY HasDescTables DEF DescTablesInv, Cuts, FlushBuild
<1>10. DescSeqInv'
  <2>1. Cuts' = Cuts /\ man' = man /\ current' = current
    BY DEF FlushBuild, Cuts
  <2> QED
    BY SMTT(30), SMTT(90), <1>3, <1>4, HasDescSeq, <2>1 DEF DescSeqInv
<1>11. SyncedFoundInv'
  <2>1. /\ Cuts' = Cuts /\ logFiles' = logFiles /\ logSynced' = logSynced
        /\ man' = man /\ current' = current /\ ackM' = ackM
    BY DEF FlushBuild, Cuts
  <2> QED
    BY SMTT(30), SMTT(90), <1>3, <1>4, HasSyncedFound, <2>1 DEF SyncedFoundInv, InTables,
       InLogs
<1>12. AckedFoundInv'
  <2>1. /\ Cuts' = Cuts /\ logFiles' = logFiles /\ logData' = logData
        /\ man' = man /\ current' = current /\ ackP' = ackP
    BY DEF FlushBuild, Cuts
  <2> QED
    BY SMTT(30), SMTT(90), <1>3, <1>4, HasAckedFound, <2>1 DEF AckedFoundInv, InTables,
       InLogs
<1>13. PhaseInv'
  BY HasPhase DEF PhaseInv, FlushBuild
<1>14. AckedInv'
  <2>1. /\ Cuts' = Cuts /\ man' = man /\ current' = current /\ phase' = phase
        /\ mem' = mem /\ imm' = imm /\ version' = version /\ ackP' = ackP
    BY DEF FlushBuild, Cuts
  <2> QED
    BY SMTT(30), SMTT(90), <1>3, <1>4, <1>5, HasAcked, <2>1 DEF AckedInv, Running,
       InTables
<1>15. VersionInv'
  BY HasVersion DEF VersionInv, Running, FlushBuild
<1>16. SeqInv'
  BY <1>3, <1>4, <1>5, HasSeq DEF SeqInv, Cuts, Running, FlushBuild
<1>17. FlushInv'
  <2>1. /\ NothingToRemove' /\ hasImm' /\ cpc' \in {"idle", "work"}
        /\ fout < nextFile /\ fout \notin couts
    BY HasFlush DEF FlushInv, FlushBuild, NothingToRemove
  <2>2. /\ fpc' = "built" /\ fout' \in {0, fout} /\ nextFile' = nextFile
        /\ couts' = couts
    BY DEF FlushBuild
  <2>3. 0 < nextFile /\ 0 \notin couts
    <3>1. fout \in Nat /\ nextFile \in Nat /\ 0 \notin couts
      BY <1>1, <1>4, <1>5, RunTypes, Bounds
    <3> QED
      BY SMTT(30), SMTT(90), <2>1, <3>1
  <2> QED
    BY <2>1, <2>2, <2>3 DEF FlushInv
<1>18. FlushBuildInv'
  BY HasFlushBuild DEF FlushBuildInv, FlushBuild
<1>19. FlushBuiltInv'
  BY SMTT(30), SMTT(90), <1>4, <1>5, HasTypes, HasFlushBuilt DEF FlushBuiltInv, TypeOK,
     FlushBuild
<1>20. CompactIdleInv'
  BY HasCompactIdle DEF CompactIdleInv, FlushBuild
<1>21. CompactOutsInv'
  BY HasFlush, HasCompactOuts DEF CompactOutsInv, FlushInv, FlushBuild
<1>22. CompactDataInv'
  <2>1. /\ pending' = pending \ {fout} /\ nextFile' = nextFile /\ cin' = cin
        /\ cver' = cver /\ couts' = couts /\ cout' = cout /\ crem' = crem
    BY DEF FlushBuild
  <2> QED
    BY SMTT(30), SMTT(90), <1>3, <1>4, <1>5, HasCompactOuts, HasCompactData, <2>1 DEF
       CompactDataInv, CompactOutsInv, InTables
<1>23. CompactOutInv'
  BY HasCompactOut DEF CompactOutInv, Cuts, FlushBuild
<1>24. EditInv'
  BY HasEdit DEF EditInv, Cuts, Running, FlushBuild
<1> QED
  BY <1>6, <1>7, <1>8, <1>9, <1>10, <1>11, <1>12, <1>13, <1>14, <1>15, <1>16,
     <1>17, <1>18, <1>19, <1>20, <1>21, <1>22, <1>23, <1>24 DEF DurabilityInv

\* The edit of a flush moves the log number up to the current log: each
\* acknowledged write is in the new table, in an older one, or in the current log.
LEMMA FlushAppendStep ==
  ASSUME DurabilityInv, FlushAppend
  PROVE  DurabilityInv'
<1>1. Running /\ phase' = phase /\ phase' \in {"gc", "up"}
  <2>1. fpc = "built" /\ phase' = phase
    BY DEF FlushAppend
  <2> QED
    BY SMTT(30), SMTT(90), <2>1, StaysRunning
<1>2. current # 0
  BY <1>1, RunTypes
<1>3. PICK new \in Snapshot :
           /\ new.files = (man[current].os.files \ {}) \cup ({fout} \ {0})
           /\ new.log = logNum /\ new.next = nextFile /\ new.seq = lastSeq
           /\ man'[current].os = new /\ Cuts' = Cuts \cup {new}
           /\ man' \in [File -> Descriptor]
  <2>1. {fout} \ {0} \in SUBSET File /\ logNum \in 0 .. MaxFile
    BY Bounds, HasTypes DEF TypeOK
  <2>2. AppendEdit({fout} \ {0}, {}, logNum) /\ current' = current
    BY DEF FlushAppend
  <2>3. TypeOK /\ CurrentInv
    BY HasTypes, HasCurrent
  <2>4. Appended({fout} \ {0}, {}, logNum)
    BY <1>2, <2>1, <2>2, <2>3, AppendEditCuts
  <2> QED
    BY <2>4 DEF Appended
<1>4. ASSUME NoTornAppend, NEW w \in ackP
      PROVE  w \in mem \/ InTables(w, new.files)
  <2>1. CASE w \in imm
    BY <1>3, <2>1, Bounds, HasTypes, HasFlushBuilt DEF TypeOK, FlushBuiltInv,
       FlushAppend, InTables
  <2>2. CASE w \notin mem \cup imm
    BY <1>1, <1>3, <1>4, <2>2, RunTypes, HasAcked DEF AckedInv, InTables
  <2> QED
    BY <2>1, <2>2
<1>5. NewDBInv' /\ RecVersionInv' /\ RecEditInv' /\ RecLogsInv' /\ RecAckedInv'
      /\ RecNewLogInv' /\ RecDescInv' /\ RecSeqInv'
  BY <1>1, RunningVacuous
<1>6. LogInv' /\ AckInv' /\ MemInv' /\ VersionInv' /\ SeqLogsInv' /\ WriteInv'
      /\ CompactOutsInv' /\ CompactDataInv'
  BY LogFrame, AckFrame, MemFrame, VersionFrame, SeqLogsFrame, WriteFrame,
     CompactOutsFrame, CompactDataFrame DEF FlushAppend
<1>7. TypeOK'
  BY SMTT(30), SMTT(90), <1>3, HasTypes DEF TypeOK, FlushAppend
<1>8. CurrentInv'
  BY <1>3, HasCurrent DEF CurrentInv, FlushAppend
<1>9. DescTablesInv'
  BY <1>3, HasCurrent, HasDescTables, HasFlushBuilt DEF DescTablesInv,
     FlushBuiltInv, CurrentInv, FlushAppend
<1>10. DescNumbersInv'
  <2>1. fout < nextFile /\ current' = current
    BY HasFlush DEF FlushInv, FlushAppend
  <2>2. logNum <= logNum
    BY SMTT(30), SMTT(90), <1>1, RunTypes
  <2> QED
    BY <1>1, <1>3, <2>1, <2>2, AppendNumbers
<1>11. DescSeqInv'
  <2>1. \A f \in {fout} \ {0} : \A w \in tabData[f] : w <= lastSeq
    BY <1>1, HasSeq, HasFlushBuilt DEF FlushBuiltInv, SeqInv, FlushAppend
  <2> QED
    BY <1>1, <1>3, <2>1, AppendSeq DEF FlushAppend
<1>12. SyncedFoundInv'
  BY ZenonT(60), ZenonT(120), <1>1, <1>3, <1>4, HasAck, HasSyncedFound, HasNumbers, HasMem
     DEF SyncedFoundInv, MemInv, NumbersInv, AckInv, InTables, InLogs,
     FlushAppend
<1>13. AckedFoundInv'
  BY ZenonT(60), ZenonT(120), <1>1, <1>3, <1>4, HasAckedFound, HasNumbers, HasMem DEF
     AckedFoundInv, MemInv, NumbersInv, InTables, InLogs, FlushAppend
<1>14. PhaseInv'
  BY HasPhase DEF PhaseInv, FlushAppend
<1>15. NumbersInv'
  <2>1. /\ AppendEdit({fout} \ {0}, {}, logNum) /\ logFiles' = logFiles
        /\ current' = current /\ phase' = phase /\ logNum' = logNum
        /\ vLog' = vLog /\ vMan' = vMan /\ nextFile' = nextFile
    BY DEF FlushAppend
  <2> QED
    BY SMTT(30), SMTT(90), <1>3, RunTypes, HasNumbers, <2>1 DEF NumbersInv, Running
<1>16. AckedInv'
  BY <1>3, RunTypes, HasAcked DEF AckedInv, Running, InTables, FlushAppend
<1>17. SeqInv'
  <2>1. /\ tabData' = tabData /\ current' = current /\ phase' = phase
        /\ mem' = mem /\ imm' = imm /\ version' = version
        /\ lastSeq' = lastSeq /\ couts' = couts /\ cout' = cout
        /\ crem' = crem /\ ackP' = ackP
    BY DEF FlushAppend
  <2> QED
    BY SMTT(30), SMTT(90), <1>3, RunTypes, HasSeq, <2>1 DEF SeqInv, Running
<1>18. FlushInv'
  BY HasFlush DEF FlushInv, NothingToRemove, FlushAppend
<1>19. FlushBuildInv'
  BY HasFlushBuild DEF FlushBuildInv, FlushAppend
<1>20. FlushBuiltInv'
  BY <1>3, HasFlushBuilt DEF FlushBuiltInv, FlushAppend
<1>21. CompactIdleInv'
  BY HasCompactIdle DEF CompactIdleInv, FlushAppend
<1>22. CompactOutInv'
  BY <1>1, <1>3, RunTypes, HasFlush, HasCompactOut DEF CompactOutInv, FlushInv,
     FlushAppend
<1>23. EditInv'
  BY <1>1, <1>3, RunTypes, HasFlush, HasEdit DEF EditInv, FlushInv,
     FlushAppend
<1>24. GarbageInv'
  BY HasFlush, HasGarbage DEF GarbageInv, FlushInv, NothingToRemove, FlushAppend
<1> QED
  BY <1>5, <1>6, <1>7, <1>8, <1>9, <1>10, <1>11, <1>12, <1>13, <1>14, <1>15,
     <1>16, <1>17, <1>18, <1>19, <1>20, <1>21, <1>22, <1>23, <1>24 DEF
     DurabilityInv

\* The flush is installed and imm_ dropped; logs below the current one are chosen
\* for removal, since no readable prefix of the descriptor needs them any more.
LEMMA FlushCommitStep ==
  ASSUME DurabilityInv, FlushCommit
  PROVE  DurabilityInv'
<1>1. Running /\ phase' = phase /\ phase' \in {"gc", "up"}
  <2>1. fpc = "logged" /\ phase' = phase
    BY DEF FlushCommit
  <2> QED
    BY SMTT(30), SMTT(90), <2>1, StaysRunning
<1>2. current # 0
  BY <1>1, RunTypes
<1>3. /\ man' \in [File -> Descriptor] /\ man'[current].os = man[current].os
      /\ Cuts' = {man[current].os} /\ current' = current
  <2>1. SyncEdit /\ current' = current /\ TypeOK /\ CurrentInv
    BY HasTypes, HasCurrent DEF FlushCommit
  <2> QED
    BY <1>2, <2>1, SyncEditCuts
<1>4. fpc' = "idle"
  BY DEF FlushCommit
<1>5. NewDBInv' /\ RecVersionInv' /\ RecEditInv' /\ RecLogsInv' /\ RecAckedInv'
      /\ RecNewLogInv' /\ RecDescInv' /\ RecSeqInv' /\ FlushInv' /\
      FlushBuildInv' /\ FlushBuiltInv'
  BY <1>1, <1>4, RunningVacuous, FlushIdleVacuous
<1>6. LogInv' /\ AckInv' /\ WriteInv' /\ CompactOutsInv' /\ CompactDataInv'
  BY LogFrame, AckFrame, WriteFrame, CompactOutsFrame, CompactDataFrame DEF
     FlushCommit
<1>7. TypeOK'
  <2>1. gcLog' \subseteq File /\ gcTab' \subseteq File /\ gcDesc' \subseteq File
    BY HasTypes DEF TypeOK, FlushCommit, CollectGarbage, RemoveObsoleteFiles
  <2>2. version' \subseteq File /\ fout' \in 0 .. MaxFile
    BY Bounds, HasTypes DEF TypeOK, FlushCommit
  <2> QED
    BY ZenonT(60), ZenonT(120), <1>3, <2>1, <2>2, HasTypes DEF TypeOK, FlushCommit
<1>8. CurrentInv'
  BY <1>3, HasCurrent DEF CurrentInv, FlushCommit
<1>9. DescTablesInv'
  BY <1>1, <1>3, RunTypes, HasDescTables DEF DescTablesInv, FlushCommit
<1>10. DescNumbersInv'
  BY <1>1, <1>2, <1>3, RunTypes, HasDescNumbers DEF DescNumbersInv, FlushCommit
<1>11. DescSeqInv'
  BY <1>1, <1>2, <1>3, RunTypes, HasDescSeq DEF DescSeqInv, FlushCommit
<1>12. SyncedFoundInv'
  BY <1>1, <1>3, RunTypes, HasSyncedFound DEF SyncedFoundInv, InTables, InLogs,
     FlushCommit
<1>13. AckedFoundInv'
  BY <1>1, <1>3, RunTypes, HasAckedFound DEF AckedFoundInv, InTables, InLogs,
     FlushCommit
<1>14. PhaseInv'
  BY HasPhase DEF PhaseInv, FlushCommit
<1>15. NumbersInv'
  BY <1>1, <1>3, RunTypes, HasNumbers, HasFlushBuilt DEF NumbersInv,
     FlushBuiltInv, FlushCommit
<1>16. AckedInv'
  <2>1. ASSUME NoTornAppend, NEW w \in ackP, w \notin mem
        PROVE  InTables(w, version') /\ InTables(w, man[current].os.files)
    <3>1. CASE w \in imm
      BY SMTT(30), SMTT(90), <3>1, Bounds, HasTypes, HasFlushBuilt DEF TypeOK,
         FlushBuiltInv, FlushCommit, InTables
    <3>2. CASE w \notin imm
      BY <1>1, <2>1, <3>2, RunTypes, HasAcked DEF AckedInv, InTables,
         FlushCommit
    <3> QED
      BY <3>1, <3>2
  <2> QED
    BY <1>3, <2>1 DEF AckedInv, InTables, FlushCommit
<1>17. MemInv'
  BY HasMem DEF MemInv, Running, FlushCommit
<1>18. VersionInv'
  BY HasVersion, HasFlush, HasFlushBuilt DEF VersionInv, FlushBuiltInv,
     FlushInv, Running, FlushCommit
<1>19. SeqInv'
  BY <1>3, RunTypes, HasSeq, HasFlushBuilt DEF SeqInv, FlushBuiltInv,
     Running, FlushCommit
<1>20. SeqLogsInv'
  BY <1>1, HasPhase, HasSeqLogs DEF SeqLogsInv, PhaseInv, FlushCommit
<1>21. CompactIdleInv'
  BY HasCompactIdle DEF CompactIdleInv, FlushCommit
<1>22. CompactOutInv'
  BY <1>1, <1>3, RunTypes, HasFlush, HasCompactOut DEF CompactOutInv, FlushInv,
     FlushCommit
<1>23. EditInv'
  <2>1. ~bgError => man[current].os.files \subseteq version'
    BY <1>1, RunTypes, Bounds, SnapshotFields, HasFlush, HasEdit DEF EditInv,
       FlushInv, FlushCommit
  <2> QED
    BY <1>3, <2>1, HasFlush, HasEdit DEF EditInv, FlushInv, FlushCommit
<1>24. GarbageInv'
  <2>1. CASE bgError
    BY <2>1, HasFlush, HasGarbage DEF GarbageInv, NothingToRemove,
       FlushInv, FlushCommit, CollectGarbage
  <2>2. CASE ~bgError
    <3>1. man[current].os.files \subseteq version'
      BY <1>1, <2>2, RunTypes, Bounds, SnapshotFields, HasFlush, HasEdit DEF
         EditInv, FlushInv, FlushCommit
    <3>2. gcTab' \cap (version' \cup cver' \cup reader' \cup couts') = {}
      BY <2>2, HasCompactOuts DEF CompactOutsInv, FlushCommit, CollectGarbage,
         RemoveObsoleteFiles, KeepTable
    <3>3. (\A k \in gcLog' : k < vLog') /\ current \notin gcDesc'
      <4>1. current = vMan /\ vMan \in Nat /\ logFiles \subseteq Nat
        BY <1>1, RunTypes, HasTypes, HasNumbers DEF NumbersInv, TypeOK
      <4>2. /\ gcLog' = {k \in logFiles : ~KeepLog(k, logNum)} /\ vLog' = logNum
            /\ gcDesc' = {k \in descFiles : ~KeepDesc(k)}
        BY <2>2 DEF FlushCommit, CollectGarbage, RemoveObsoleteFiles
      <4> QED
        BY SMTT(30), SMTT(90), <1>1, <4>1, <4>2, RunTypes DEF KeepLog, KeepDesc
    <3>4. \A k \in gcTab' : k \notin version'
      BY <3>2
    <3> QED
      BY <1>3, <3>1, <3>2, <3>3 DEF GarbageInv
  <2> QED
    BY <2>1, <2>2
<1> QED
  BY <1>5, <1>6, <1>7, <1>8, <1>9, <1>10, <1>11, <1>12, <1>13, <1>14, <1>15,
     <1>16, <1>17, <1>18, <1>19, <1>20, <1>21, <1>22, <1>23, <1>24 DEF
     DurabilityInv

\* A failed flush keeps imm_ and sets bg_error_.
LEMMA FlushFailsStep ==
  ASSUME DurabilityInv, FlushFails
  PROVE  DurabilityInv'
<1>1. Running /\ phase' = phase /\ phase' \in {"gc", "up"}
  <2>1. fpc \in {"build", "built", "logged"} /\ phase' = phase
    BY DEF FlushFails
  <2> QED
    BY SMTT(30), SMTT(90), <2>1, StaysRunning
<1>2. fpc' = "idle"
  BY DEF FlushFails
<1>3. NewDBInv' /\ RecVersionInv' /\ RecEditInv' /\ RecLogsInv' /\ RecAckedInv'
      /\ RecNewLogInv' /\ RecDescInv' /\ RecSeqInv' /\ FlushInv' /\
      FlushBuildInv' /\ FlushBuiltInv'
  BY <1>1, <1>2, RunningVacuous, FlushIdleVacuous
<1>4. CurrentInv' /\ DescNumbersInv' /\ DescSeqInv' /\ LogInv' /\ AckInv' /\
      SyncedFoundInv' /\ AckedFoundInv' /\ NumbersInv' /\ AckedInv' /\ MemInv'
      /\ SeqInv' /\ SeqLogsInv' /\ WriteInv' /\ CompactDataInv' /\ GarbageInv'
  BY CurrentFrame, DescNumbersFrame, DescSeqFrame, LogFrame, AckFrame,
     SyncedFoundFrame, AckedFoundFrame, NumbersFrame, AckedFrame, MemFrame,
     SeqFrame, SeqLogsFrame, WriteFrame, CompactDataFrame, GarbageFrame DEF
     FlushFails
<1>5. TypeOK'
  <2>1. fout' \in 0 .. MaxFile
    BY Bounds DEF FlushFails
  <2> QED
    BY SMTT(30), SMTT(90), <2>1, HasTypes DEF TypeOK, FlushFails
<1>6. DescTablesInv'
  BY HasDescTables, HasFlushBuild DEF DescTablesInv, FlushBuildInv, Cuts,
     FlushFails
<1>7. PhaseInv'
  BY HasPhase DEF PhaseInv, FlushFails
<1>8. VersionInv'
  BY HasVersion, HasFlushBuild DEF VersionInv, FlushBuildInv, Running,
     FlushFails
<1>9. CompactIdleInv'
  BY HasCompactIdle DEF CompactIdleInv, FlushFails
<1>10. CompactOutsInv'
  BY HasFlush, HasCompactOuts DEF CompactOutsInv, FlushInv, FlushFails
<1>11. CompactOutInv'
  BY HasFlush, HasCompactOut DEF CompactOutInv, FlushInv, Cuts, FlushFails
<1>12. EditInv'
  BY HasEdit DEF EditInv, FlushFails
<1> QED
  BY <1>3, <1>4, <1>5, <1>6, <1>7, <1>8, <1>9, <1>10, <1>11, <1>12 DEF
     DurabilityInv

\* A log is removed: it is below the log number of every readable prefix of the
\* descriptor.
LEMMA RemoveLogStep ==
  ASSUME DurabilityInv, NEW n \in File, RemoveLog(n)
  PROVE  DurabilityInv'
<1>1. Running /\ phase' = phase /\ phase' \in {"gc", "up"}
  <2>1. ~NothingToRemove /\ phase' = phase
    BY DEF NothingToRemove, RemoveLog
  <2> QED
    BY SMTT(30), SMTT(90), <2>1, StaysRunning
<1>2. n \in Nat /\ n < vLog /\ vLog <= logNum /\ \A m \in Cuts : vLog <= m.log
  BY <1>1, Bounds, HasNumbers, HasGarbage DEF GarbageInv, NumbersInv, RemoveLog
<1>3. NewDBInv' /\ RecVersionInv' /\ RecEditInv' /\ RecLogsInv' /\ RecAckedInv'
      /\ RecNewLogInv' /\ RecDescInv' /\ RecSeqInv'
  BY <1>1, RunningVacuous
<1>4. CurrentInv' /\ DescTablesInv' /\ DescNumbersInv' /\ DescSeqInv' /\
      LogInv' /\ AckInv' /\ AckedInv' /\ MemInv' /\ VersionInv' /\ SeqInv' /\
      WriteInv' /\ FlushBuildInv' /\ FlushBuiltInv' /\ CompactOutsInv' /\
      CompactDataInv' /\ CompactOutInv' /\ EditInv'
  BY CurrentFrame, DescTablesFrame, DescNumbersFrame, DescSeqFrame,
     LogFrame, AckFrame, AckedFrame, MemFrame, VersionFrame, SeqFrame,
     WriteFrame, FlushBuildFrame, FlushBuiltFrame, CompactOutsFrame,
     CompactDataFrame, CompactOutFrame, EditFrame DEF RemoveLog
<1>5. TypeOK'
  BY SMTT(30), SMTT(90), HasTypes DEF TypeOK, RemoveLog
<1>6. SyncedFoundInv'
  <2>1. /\ logFiles' = logFiles \ {n} /\ Cuts' = Cuts
        /\ logSynced' = logSynced /\ tabData' = tabData /\ man' = man
        /\ current' = current /\ ackM' = ackM
    BY DEF RemoveLog, Cuts
  <2> QED
    BY SMTT(30), SMTT(90), <1>1, <1>2, RunTypes, HasSyncedFound, <2>1 DEF SyncedFoundInv,
       InTables, InLogs
<1>7. AckedFoundInv'
  <2>1. /\ logFiles' = logFiles \ {n} /\ Cuts' = Cuts /\ logData' = logData
        /\ tabData' = tabData /\ man' = man /\ current' = current
        /\ ackP' = ackP
    BY DEF RemoveLog, Cuts
  <2> QED
    BY SMTT(30), SMTT(90), <1>1, <1>2, RunTypes, HasAckedFound, <2>1 DEF AckedFoundInv,
       InTables, InLogs
<1>8. PhaseInv'
  BY HasPhase DEF PhaseInv, NothingToRemove, RemoveLog
<1>9. NumbersInv'
  <2>1. /\ logFiles' = logFiles \ {n} /\ Cuts' = Cuts /\ man' = man
        /\ current' = current /\ phase' = phase /\ logNum' = logNum
        /\ vLog' = vLog /\ vMan' = vMan /\ nextFile' = nextFile
    BY DEF RemoveLog, Cuts
  <2> QED
    BY SMTT(30), SMTT(90), <1>2, RunTypes, HasNumbers, <2>1 DEF NumbersInv, Running
<1>10. SeqLogsInv'
  BY HasSeqLogs DEF SeqLogsInv, Running, RemoveLog
<1>11. FlushInv'
  BY HasFlush DEF FlushInv, NothingToRemove, RemoveLog
<1>12. CompactIdleInv'
  BY HasCompactIdle DEF CompactIdleInv, NothingToRemove, RemoveLog
<1>13. GarbageInv'
  BY HasGarbage DEF GarbageInv, Cuts, RemoveLog
<1> QED
  BY <1>3, <1>4, <1>5, <1>6, <1>7, <1>8, <1>9, <1>10, <1>11, <1>12, <1>13 DEF
     DurabilityInv

\* A table is removed: nothing refers to it.
LEMMA RemoveTableStep ==
  ASSUME DurabilityInv, NEW n \in File, RemoveTable(n)
  PROVE  DurabilityInv'
<1>1. Running /\ phase' = phase /\ phase' \in {"gc", "up"}
  <2>1. ~NothingToRemove /\ phase' = phase
    BY DEF NothingToRemove, RemoveTable
  <2> QED
    BY SMTT(30), SMTT(90), <2>1, StaysRunning
<1>2. NewDBInv' /\ RecVersionInv' /\ RecEditInv' /\ RecLogsInv' /\ RecAckedInv'
      /\ RecNewLogInv' /\ RecDescInv' /\ RecSeqInv'
  BY <1>1, RunningVacuous
<1>3. CurrentInv' /\ DescNumbersInv' /\ DescSeqInv' /\ LogInv' /\ AckInv' /\
      SyncedFoundInv' /\ AckedFoundInv' /\ NumbersInv' /\ AckedInv' /\ MemInv'
      /\ SeqInv' /\ SeqLogsInv' /\ WriteInv' /\ FlushBuildInv' /\
      CompactDataInv' /\ EditInv'
  BY CurrentFrame, DescNumbersFrame, DescSeqFrame, LogFrame, AckFrame,
     SyncedFoundFrame, AckedFoundFrame, NumbersFrame, AckedFrame, MemFrame,
     SeqFrame, SeqLogsFrame, WriteFrame, FlushBuildFrame, CompactDataFrame,
     EditFrame DEF RemoveTable
<1>4. TypeOK'
  BY SMTT(30), SMTT(90), HasTypes DEF TypeOK, RemoveTable
<1>5. DescTablesInv'
  BY HasDescTables, HasGarbage DEF DescTablesInv, GarbageInv, Cuts, RemoveTable
<1>6. PhaseInv'
  BY HasPhase DEF PhaseInv, NothingToRemove, RemoveTable
<1>7. VersionInv'
  BY <1>1, HasVersion, HasGarbage DEF VersionInv, GarbageInv, RemoveTable
<1>8. FlushInv'
  BY HasFlush DEF FlushInv, NothingToRemove, RemoveTable
<1>9. FlushBuiltInv'
  BY HasFlush, HasFlushBuilt DEF FlushBuiltInv, FlushInv, NothingToRemove,
     RemoveTable
<1>10. CompactIdleInv'
  BY HasCompactIdle DEF CompactIdleInv, NothingToRemove, RemoveTable
<1>11. CompactOutsInv'
  BY HasCompactOuts, HasGarbage DEF CompactOutsInv, GarbageInv, RemoveTable
<1>12. CompactOutInv'
  BY HasCompactOut, HasGarbage DEF CompactOutInv, GarbageInv, Cuts, RemoveTable
<1>13. GarbageInv'
  BY HasGarbage DEF GarbageInv, Cuts, RemoveTable
<1> QED
  BY <1>2, <1>3, <1>4, <1>5, <1>6, <1>7, <1>8, <1>9, <1>10, <1>11, <1>12,
     <1>13 DEF DurabilityInv

\* A descriptor is removed: it is not the one that CURRENT names.
LEMMA RemoveDescriptorStep ==
  ASSUME DurabilityInv, NEW n \in File, RemoveDescriptor(n)
  PROVE  DurabilityInv'
<1>1. Running /\ phase' = phase /\ phase' \in {"gc", "up"}
  <2>1. ~NothingToRemove /\ phase' = phase
    BY DEF NothingToRemove, RemoveDescriptor
  <2> QED
    BY SMTT(30), SMTT(90), <2>1, StaysRunning
<1>2. NewDBInv' /\ RecVersionInv' /\ RecEditInv' /\ RecLogsInv' /\ RecAckedInv'
      /\ RecNewLogInv' /\ RecDescInv' /\ RecSeqInv'
  BY <1>1, RunningVacuous
<1>3. DescTablesInv' /\ DescNumbersInv' /\ DescSeqInv' /\ LogInv' /\ AckInv' /\
      SyncedFoundInv' /\ AckedFoundInv' /\ NumbersInv' /\ AckedInv' /\ MemInv'
      /\ VersionInv' /\ SeqInv' /\ SeqLogsInv' /\ WriteInv' /\ FlushBuildInv'
      /\ FlushBuiltInv' /\ CompactOutsInv' /\ CompactDataInv' /\ CompactOutInv'
      /\ EditInv'
  BY DescTablesFrame, DescNumbersFrame, DescSeqFrame, LogFrame, AckFrame,
     SyncedFoundFrame, AckedFoundFrame, NumbersFrame, AckedFrame, MemFrame,
     VersionFrame, SeqFrame, SeqLogsFrame, WriteFrame, FlushBuildFrame,
     FlushBuiltFrame, CompactOutsFrame, CompactDataFrame, CompactOutFrame,
     EditFrame DEF RemoveDescriptor
<1>4. TypeOK'
  BY SMTT(30), SMTT(90), HasTypes DEF TypeOK, RemoveDescriptor
<1>5. CurrentInv'
  BY HasCurrent, HasGarbage DEF CurrentInv, GarbageInv, Cuts, RemoveDescriptor
<1>6. PhaseInv'
  BY HasPhase DEF PhaseInv, NothingToRemove, RemoveDescriptor
<1>7. FlushInv'
  BY HasFlush DEF FlushInv, NothingToRemove, RemoveDescriptor
<1>8. CompactIdleInv'
  BY HasCompactIdle DEF CompactIdleInv, NothingToRemove, RemoveDescriptor
<1>9. GarbageInv'
  BY HasGarbage DEF GarbageInv, Cuts, RemoveDescriptor
<1> QED
  BY <1>2, <1>3, <1>4, <1>5, <1>6, <1>7, <1>8, <1>9 DEF DurabilityInv

-----------------------------------------------------------------------------
(* Compacting tables.                                                      *)

\* A compaction takes its inputs and a reference to their version.
LEMMA CompactBeginStep ==
  ASSUME DurabilityInv, NEW inputs \in SUBSET version, CompactBegin(inputs)
  PROVE  DurabilityInv'
<1>1. Running /\ phase' = phase /\ phase' \in {"gc", "up"}
  <2>1. Running /\ phase' = phase
    BY DEF CompactBegin, MayCompact, BackgroundReady, Running
  <2> QED
    BY SMTT(30), SMTT(90), <2>1, StaysRunning
<1>2. fpc' = "idle"
  BY DEF CompactBegin, MayCompact
<1>3. NewDBInv' /\ RecVersionInv' /\ RecEditInv' /\ RecLogsInv' /\ RecAckedInv'
      /\ RecNewLogInv' /\ RecDescInv' /\ RecSeqInv' /\ FlushInv' /\
      FlushBuildInv' /\ FlushBuiltInv'
  BY <1>1, <1>2, RunningVacuous, FlushIdleVacuous
<1>4. CurrentInv' /\ DescTablesInv' /\ DescNumbersInv' /\ DescSeqInv' /\
      LogInv' /\ AckInv' /\ SyncedFoundInv' /\ AckedFoundInv' /\ NumbersInv' /\
      AckedInv' /\ MemInv' /\ SeqLogsInv' /\ WriteInv'
  BY CurrentFrame, DescTablesFrame, DescNumbersFrame, DescSeqFrame,
     LogFrame, AckFrame, SyncedFoundFrame, AckedFoundFrame, NumbersFrame,
     AckedFrame, MemFrame, SeqLogsFrame, WriteFrame DEF CompactBegin
<1>5. TypeOK'
  BY SMTT(30), SMTT(90), HasTypes DEF TypeOK, CompactBegin
<1>6. PhaseInv'
  BY HasPhase DEF PhaseInv, CompactBegin, MayCompact, BackgroundReady
<1>7. VersionInv'
  BY HasVersion DEF VersionInv, Running, CompactBegin
<1>8. SeqInv'
  BY HasSeq DEF SeqInv, Cuts, Running, CompactBegin
<1>9. CompactIdleInv'
  BY HasCompactIdle DEF CompactIdleInv, CompactBegin
<1>10. CompactOutsInv'
  BY HasCompactOuts DEF CompactOutsInv, CompactBegin
<1>11. CompactDataInv'
  BY HasCompactData DEF CompactDataInv, CompactBegin
<1>12. CompactOutInv'
  BY HasCompactOut DEF CompactOutInv, Cuts, CompactBegin
<1>13. EditInv'
  BY HasEdit DEF EditInv, Cuts, Running, CompactBegin, MayCompact
<1>14. GarbageInv'
  BY HasGarbage DEF GarbageInv, CompactBegin, MayCompact, BackgroundReady,
     NothingToRemove
<1> QED
  BY <1>3, <1>4, <1>5, <1>6, <1>7, <1>8, <1>9, <1>10, <1>11, <1>12, <1>13,
     <1>14 DEF DurabilityInv

\* A compaction opens an output under a new number.
LEMMA OpenCompactionOutputFileStep ==
  ASSUME DurabilityInv, OpenCompactionOutputFile
  PROVE  DurabilityInv'
<1>1. Running /\ phase' = phase /\ phase' \in {"gc", "up"}
  <2>1. cpc = "work" /\ phase' = phase
    BY DEF OpenCompactionOutputFile, InLoop
  <2> QED
    BY SMTT(30), SMTT(90), <2>1, StaysRunning
<1>2. /\ nextFile \in File
      /\ nextFile \notin logFiles \cup version \cup cver \cup reader \cup couts
      /\ \A m \in Cuts : nextFile \notin m.files
  BY <1>1, NextFileFresh DEF OpenCompactionOutputFile
<1>3. fpc' = "idle"
  BY DEF OpenCompactionOutputFile, InLoop
<1>4. couts' \ {cout'} = couts /\ couts \ {cout} = couts
  BY SMTT(30), SMTT(90), <1>2, Bounds, HasTypes DEF TypeOK, OpenCompactionOutputFile
<1>5. NewDBInv' /\ RecVersionInv' /\ RecEditInv' /\ RecLogsInv' /\ RecAckedInv'
      /\ RecNewLogInv' /\ RecDescInv' /\ RecSeqInv' /\ FlushInv' /\
      FlushBuildInv' /\ FlushBuiltInv'
  BY <1>1, <1>3, RunningVacuous, FlushIdleVacuous
<1>6. CurrentInv' /\ DescNumbersInv' /\ DescSeqInv' /\ LogInv' /\ AckInv' /\
      SyncedFoundInv' /\ AckedFoundInv' /\ AckedInv' /\ MemInv' /\ SeqLogsInv'
      /\ WriteInv'
  BY CurrentFrame, DescNumbersFrame, DescSeqFrame, LogFrame, AckFrame,
     SyncedFoundFrame, AckedFoundFrame, AckedFrame, MemFrame, SeqLogsFrame,
     WriteFrame DEF OpenCompactionOutputFile
<1>7. TypeOK'
  <2>1. cout' \in 0 .. MaxFile /\ nextFile' \in Nat
    <3>1. /\ InLoop /\ cout = 0 /\ crem # {} /\ nextFile <= MaxFile
          /\ cout' = nextFile /\ nextFile' = nextFile + 1
      BY DEF OpenCompactionOutputFile
    <3> QED
      BY SMTT(30), SMTT(90), <1>2, Bounds, <3>1
  <2> QED
    BY SMTT(30), SMTT(90), <1>2, HasTypes DEF TypeOK, OpenCompactionOutputFile
<1>8. DescTablesInv'
  BY <1>2, HasDescTables DEF DescTablesInv, Cuts, OpenCompactionOutputFile
<1>9. PhaseInv'
  BY HasPhase DEF PhaseInv, OpenCompactionOutputFile, InLoop
<1>10. NumbersInv'
  <2>1. /\ nextFile <= MaxFile /\ nextFile' = nextFile + 1 /\ Cuts' = Cuts
        /\ logFiles' = logFiles /\ man' = man /\ current' = current
        /\ phase' = phase /\ logNum' = logNum /\ vLog' = vLog /\ vMan' = vMan
    BY DEF OpenCompactionOutputFile, Cuts
  <2> QED
    BY SMTT(30), SMTT(90), RunTypes, HasNumbers, <2>1 DEF NumbersInv, Running
<1>11. VersionInv'
  <2>1. /\ nextFile <= MaxFile /\ nextFile' = nextFile + 1
        /\ tabDone' = tabDone \ {nextFile} /\ phase' = phase
        /\ version' = version /\ reader' = reader /\ cver' = cver
    BY DEF OpenCompactionOutputFile
  <2> QED
    BY SMTT(30), SMTT(90), RunTypes, HasVersion, <2>1 DEF VersionInv, Running
<1>12. SeqInv'
  BY <1>4, HasSeq DEF SeqInv, Cuts, Running, OpenCompactionOutputFile
<1>13. CompactIdleInv'
  BY HasCompactIdle DEF CompactIdleInv, OpenCompactionOutputFile
<1>14. CompactOutsInv'
  <2>1. /\ InLoop /\ cout = 0 /\ crem # {} /\ nextFile <= MaxFile
        /\ cout' = nextFile /\ couts' = couts \cup {nextFile}
        /\ pending' = pending \cup {nextFile} /\ nextFile' = nextFile + 1
        /\ tabDone' = tabDone \ {nextFile} /\ cin' = cin /\ cver' = cver
    BY DEF OpenCompactionOutputFile
  <2> QED
    BY SMTT(30), SMTT(90), <1>1, <1>4, RunTypes, HasCompactOuts, <2>1 DEF CompactOutsInv
<1>15. CompactDataInv'
  BY <1>4, HasCompactData DEF CompactDataInv, InTables, OpenCompactionOutputFile
<1>16. CompactOutInv'
  BY <1>2, HasCompactOut DEF CompactOutInv, Cuts, OpenCompactionOutputFile
<1>17. EditInv'
  BY HasEdit DEF EditInv, Cuts, Running, OpenCompactionOutputFile
<1>18. GarbageInv'
  BY HasGarbage DEF GarbageInv, NothingToRemove, OpenCompactionOutputFile,
     InLoop, BackgroundReady
<1> QED
  BY <1>5, <1>6, <1>7, <1>8, <1>9, <1>10, <1>11, <1>12, <1>13, <1>14, <1>15,
     <1>16, <1>17, <1>18 DEF DurabilityInv

\* A compaction output is finished and synced.
LEMMA FinishCompactionOutputFileStep ==
  ASSUME DurabilityInv, NEW chunk \in SUBSET crem, FinishCompactionOutputFile(chunk)
  PROVE  DurabilityInv'
<1>1. Running /\ phase' = phase /\ phase' \in {"gc", "up"}
  <2>1. cpc = "work" /\ phase' = phase
    BY DEF FinishCompactionOutputFile, InLoop
  <2> QED
    BY SMTT(30), SMTT(90), <2>1, StaysRunning
<1>2. fpc' = "idle"
  BY DEF FinishCompactionOutputFile, InLoop
<1>3. /\ cout \in File /\ cout \in couts /\ cout \notin version \cup cver \cup reader
      /\ \A m \in Cuts : cout \notin m.files
  BY HasTypes, HasCompactOut DEF TypeOK, CompactOutInv,
     FinishCompactionOutputFile
<1>4. tabData'[cout] = chunk /\ \A f \in File : f # cout => tabData'[f] = tabData[f]
  BY <1>3, HasTypes DEF TypeOK, FinishCompactionOutputFile
<1>5. /\ version \cup cin \cup couts \subseteq File /\ cin \subseteq cver /\ couts \ {cout'} = couts
  BY SMTT(30), SMTT(90), Bounds, HasTypes, HasCompactOuts DEF TypeOK, CompactOutsInv,
     FinishCompactionOutputFile
<1>6. NewDBInv' /\ RecVersionInv' /\ RecEditInv' /\ RecLogsInv' /\ RecAckedInv'
      /\ RecNewLogInv' /\ RecDescInv' /\ RecSeqInv' /\ FlushInv' /\
      FlushBuildInv' /\ FlushBuiltInv'
  BY <1>1, <1>2, RunningVacuous, FlushIdleVacuous
<1>7. CurrentInv' /\ DescNumbersInv' /\ LogInv' /\ AckInv' /\ PhaseInv' /\
      NumbersInv' /\ MemInv' /\ SeqLogsInv' /\ WriteInv' /\ EditInv' /\
      GarbageInv'
  BY CurrentFrame, DescNumbersFrame, LogFrame, AckFrame, PhaseFrame,
     NumbersFrame, MemFrame, SeqLogsFrame, WriteFrame, EditFrame, GarbageFrame
     DEF FinishCompactionOutputFile
<1>8. TypeOK'
  <2>1. tabData' \in [File -> SUBSET Seqno] /\ crem' \subseteq Seqno /\ cout' \in 0 .. MaxFile
    BY Bounds, HasTypes DEF TypeOK, FinishCompactionOutputFile
  <2> QED
    BY SMTT(30), SMTT(90), <2>1, HasTypes, HasCompactOut DEF TypeOK, CompactOutInv,
       FinishCompactionOutputFile
<1>9. DescTablesInv'
  BY HasDescTables DEF DescTablesInv, Cuts, FinishCompactionOutputFile
<1>10. DescSeqInv'
  <2>1. /\ tabData' = [tabData EXCEPT ![cout] = chunk] /\ Cuts' = Cuts
        /\ man' = man /\ current' = current
    BY DEF FinishCompactionOutputFile, Cuts
  <2> QED
    BY SMTT(30), SMTT(90), <1>3, HasDescSeq, <2>1 DEF DescSeqInv
<1>11. SyncedFoundInv'
  <2>1. /\ tabData' = [tabData EXCEPT ![cout] = chunk] /\ Cuts' = Cuts
        /\ logFiles' = logFiles /\ logSynced' = logSynced /\ man' = man
        /\ current' = current /\ ackM' = ackM
    BY DEF FinishCompactionOutputFile, Cuts
  <2> QED
    BY SMTT(30), SMTT(90), <1>3, HasSyncedFound, <2>1 DEF SyncedFoundInv, InTables, InLogs
<1>12. AckedFoundInv'
  <2>1. /\ tabData' = [tabData EXCEPT ![cout] = chunk] /\ Cuts' = Cuts
        /\ logFiles' = logFiles /\ logData' = logData /\ man' = man
        /\ current' = current /\ ackP' = ackP
    BY DEF FinishCompactionOutputFile, Cuts
  <2> QED
    BY SMTT(30), SMTT(90), <1>3, HasAckedFound, <2>1 DEF AckedFoundInv, InTables, InLogs
<1>13. AckedInv'
  <2>1. /\ tabData' = [tabData EXCEPT ![cout] = chunk] /\ Cuts' = Cuts
        /\ man' = man /\ current' = current /\ phase' = phase /\ mem' = mem
        /\ imm' = imm /\ version' = version /\ ackP' = ackP
    BY DEF FinishCompactionOutputFile, Cuts
  <2> QED
    BY SMTT(30), SMTT(90), <1>3, HasAcked, <2>1 DEF AckedInv, Running, InTables
<1>14. VersionInv'
  BY HasVersion DEF VersionInv, Running, FinishCompactionOutputFile
<1>15. SeqInv'
  <2>1. /\ InLoop /\ cout # 0 /\ tabData' = [tabData EXCEPT ![cout] = chunk]
        /\ crem' = crem \ chunk /\ cout' = 0 /\ Cuts' = Cuts /\ man' = man
        /\ current' = current /\ phase' = phase /\ mem' = mem /\ imm' = imm
        /\ version' = version /\ lastSeq' = lastSeq /\ couts' = couts
        /\ ackP' = ackP
    BY DEF FinishCompactionOutputFile, Cuts
  <2> QED
    BY SMTT(30), SMTT(90), <1>4, HasSeq, <2>1 DEF SeqInv, Running
<1>16. CompactIdleInv'
  BY HasCompactIdle DEF CompactIdleInv, FinishCompactionOutputFile
<1>17. CompactOutsInv'
  BY HasCompactOuts DEF CompactOutsInv, FinishCompactionOutputFile
<1>18. CompactDataInv'
  <2>1. ASSUME NEW f \in cin, NEW w \in tabData'[f]
        PROVE  w \in crem' \/ InTables(w, couts)'
    <3>1. tabData'[f] = tabData[f]
      BY <1>3, <1>4, <1>5
    <3>2. CASE w \in chunk
      BY <1>3, <1>4, <3>2 DEF InTables, FinishCompactionOutputFile
    <3>3. CASE w \in crem \ chunk
      BY <3>3 DEF FinishCompactionOutputFile
    <3>4. CASE InTables(w, couts \ {cout})
      <4>1. /\ InLoop /\ cout # 0
            /\ tabData' = [tabData EXCEPT ![cout] = chunk] /\ cout' = 0
            /\ couts' = couts
        BY DEF FinishCompactionOutputFile
      <4> QED
        BY SMTT(30), SMTT(90), <3>4, <4>1 DEF InTables
    <3> QED
      BY <3>1, <3>2, <3>3, <3>4, HasCompactData DEF CompactDataInv
  <2> QED
    BY <1>5, <2>1 DEF CompactDataInv, FinishCompactionOutputFile
<1>19. CompactOutInv'
  BY HasCompactOut DEF CompactOutInv, FinishCompactionOutputFile
<1> QED
  BY <1>6, <1>7, <1>8, <1>9, <1>10, <1>11, <1>12, <1>13, <1>14, <1>15, <1>16,
     <1>17, <1>18, <1>19 DEF DurabilityInv

\* The edit of a compaction replaces inputs by outputs that hold the same writes
\* and keeps the log number of the version set.
LEMMA CompactAppendStep ==
  ASSUME DurabilityInv, CompactAppend
  PROVE  DurabilityInv'
<1>1. Running /\ phase' = phase /\ phase' \in {"gc", "up"}
  <2>1. cpc = "work" /\ phase' = phase
    BY DEF CompactAppend, InLoop
  <2> QED
    BY SMTT(30), SMTT(90), <2>1, StaysRunning
<1>2. current # 0
  BY <1>1, RunTypes
<1>3. PICK new \in Snapshot :
           /\ new.files = (man[current].os.files \ cin) \cup couts
           /\ new.log = vLog /\ new.next = nextFile /\ new.seq = lastSeq
           /\ man'[current].os = new /\ Cuts' = Cuts \cup {new}
           /\ man' \in [File -> Descriptor]
  <2>1. couts \in SUBSET File /\ vLog \in 0 .. MaxFile
    BY HasTypes DEF TypeOK
  <2>2. AppendEdit(couts, cin, vLog) /\ current' = current
    BY DEF CompactAppend
  <2>3. TypeOK /\ CurrentInv
    BY HasTypes, HasCurrent
  <2>4. Appended(couts, cin, vLog)
    BY <1>2, <2>1, <2>2, <2>3, AppendEditCuts
  <2> QED
    BY <2>4 DEF Appended
<1>4. fpc' = "idle"
  BY DEF CompactAppend, InLoop
<1>5. /\ couts \ {cout} = couts /\ couts \subseteq tabDone
      /\ \A w : InTables(w, cin) => InTables(w, couts)
  <2>1. cout = 0 /\ crem = {} /\ 0 \notin couts
    BY Bounds, HasTypes DEF TypeOK, CompactAppend
  <2>2. couts \ {cout} = couts /\ couts \subseteq tabDone
    BY <2>1, HasCompactOuts DEF CompactOutsInv
  <2> QED
    BY <2>1, <2>2, HasCompactData DEF CompactDataInv, InTables
<1>6. \A w : InTables(w, man[current].os.files) => InTables(w, new.files)
  BY <1>3, <1>5 DEF InTables
<1>7. NewDBInv' /\ RecVersionInv' /\ RecEditInv' /\ RecLogsInv' /\ RecAckedInv'
      /\ RecNewLogInv' /\ RecDescInv' /\ RecSeqInv' /\ FlushInv' /\
      FlushBuildInv' /\ FlushBuiltInv'
  BY <1>1, <1>4, RunningVacuous, FlushIdleVacuous
<1>8. LogInv' /\ AckInv' /\ MemInv' /\ VersionInv' /\ SeqLogsInv' /\ WriteInv'
      /\ CompactOutsInv' /\ CompactDataInv'
  BY LogFrame, AckFrame, MemFrame, VersionFrame, SeqLogsFrame, WriteFrame,
     CompactOutsFrame, CompactDataFrame DEF CompactAppend
<1>9. TypeOK'
  BY SMTT(30), SMTT(90), <1>3, HasTypes DEF TypeOK, CompactAppend
<1>10. CurrentInv'
  BY <1>3, HasCurrent DEF CurrentInv, CompactAppend
<1>11. DescTablesInv'
  BY <1>1, <1>3, <1>5, RunTypes, HasDescTables DEF DescTablesInv, CompactAppend
<1>12. DescNumbersInv'
  <2>1. \A f \in couts : f < nextFile
    BY HasCompactOuts DEF CompactOutsInv
  <2>2. vLog <= logNum /\ current' = current
    BY <1>1, HasNumbers DEF NumbersInv, CompactAppend
  <2> QED
    BY <1>1, <1>3, <2>1, <2>2, AppendNumbers
<1>13. DescSeqInv'
  <2>1. \A f \in couts : \A w \in tabData[f] : w <= lastSeq
    BY <1>1, <1>5, HasSeq DEF SeqInv
  <2> QED
    BY <1>1, <1>3, <2>1, AppendSeq DEF CompactAppend
<1>14. SyncedFoundInv'
  <2>1. NoTornAppend =>
          \A w \in ackM : \/ InTables(w, man[current].os.files)
                         \/ InLogs(w, man[current].os.log, logSynced)
    BY <1>1, RunTypes, HasSyncedFound DEF SyncedFoundInv
  <2>2. vLog <= man[current].os.log /\ man[current].os.log \in Nat
    BY <1>1, RunTypes, HasNumbers DEF NumbersInv
  <2>3. ASSUME NoTornAppend, NEW w \in ackM
        PROVE  InTables(w, new.files) \/ InLogs(w, new.log, logSynced)
    <3>1. CASE InTables(w, man[current].os.files)
      BY <1>6, <3>1
    <3>2. CASE InLogs(w, man[current].os.log, logSynced)
      BY SMTT(30), SMTT(90), <1>1, <1>3, <2>2, <3>2, RunTypes DEF InLogs
    <3> QED
      BY <2>1, <2>3, <3>1, <3>2
  <2> QED
    BY <1>3, <2>3, HasSyncedFound DEF SyncedFoundInv, InTables, InLogs,
       CompactAppend
<1>15. AckedFoundInv'
  <2>1. NoTornAppend =>
          \A w \in ackP : \/ InTables(w, man[current].os.files)
                         \/ InLogs(w, man[current].os.log, logData)
    BY <1>1, RunTypes, HasAckedFound DEF AckedFoundInv
  <2>2. vLog <= man[current].os.log /\ man[current].os.log \in Nat
    BY <1>1, RunTypes, HasNumbers DEF NumbersInv
  <2>3. ASSUME NoTornAppend, NEW w \in ackP
        PROVE  InTables(w, new.files) \/ InLogs(w, new.log, logData)
    <3>1. CASE InTables(w, man[current].os.files)
      BY <1>6, <3>1
    <3>2. CASE InLogs(w, man[current].os.log, logData)
      BY SMTT(30), SMTT(90), <1>1, <1>3, <2>2, <3>2, RunTypes DEF InLogs
    <3> QED
      BY <2>1, <2>3, <3>1, <3>2
  <2> QED
    BY <1>3, <2>3, HasAckedFound DEF AckedFoundInv, InTables, InLogs,
       CompactAppend
<1>16. PhaseInv'
  BY HasPhase DEF PhaseInv, CompactAppend, InLoop
<1>17. NumbersInv'
  <2>1. /\ AppendEdit(couts, cin, vLog) /\ logFiles' = logFiles
        /\ current' = current /\ phase' = phase /\ logNum' = logNum
        /\ vLog' = vLog /\ vMan' = vMan /\ nextFile' = nextFile
    BY DEF CompactAppend
  <2> QED
    BY SMTT(30), SMTT(90), <1>3, RunTypes, HasNumbers, <2>1 DEF NumbersInv, Running
<1>18. AckedInv'
  BY <1>3, <1>6, RunTypes, HasAcked DEF AckedInv, Running, InTables,
     CompactAppend
<1>19. SeqInv'
  <2>1. /\ InLoop /\ cout = 0 /\ crem = {} /\ AppendEdit(couts, cin, vLog)
        /\ tabData' = tabData /\ current' = current /\ phase' = phase
        /\ mem' = mem /\ imm' = imm /\ version' = version
        /\ lastSeq' = lastSeq /\ couts' = couts /\ cout' = cout
        /\ crem' = crem /\ ackP' = ackP
    BY DEF CompactAppend
  <2> QED
    BY SMTT(30), SMTT(90), <1>3, RunTypes, HasSeq, <2>1 DEF SeqInv, Running
<1>20. CompactIdleInv'
  BY HasCompactIdle DEF CompactIdleInv, NothingToRemove, CompactAppend, InLoop,
     BackgroundReady
<1>21. CompactOutInv'
  BY HasCompactOut DEF CompactOutInv, CompactAppend
<1>22. EditInv'
  BY <1>3, RunTypes, HasEdit DEF EditInv, Running, CompactAppend, InLoop
<1>23. GarbageInv'
  BY HasGarbage DEF GarbageInv, CompactAppend, InLoop, BackgroundReady,
     NothingToRemove
<1> QED
  BY <1>7, <1>8, <1>9, <1>10, <1>11, <1>12, <1>13, <1>14, <1>15, <1>16, <1>17,
     <1>18, <1>19, <1>20, <1>21, <1>22, <1>23 DEF DurabilityInv

\* The results of a compaction are installed; its inputs are chosen for removal
\* unless a reader still has them.
LEMMA CompactCommitStep ==
  ASSUME DurabilityInv, CompactCommit
  PROVE  DurabilityInv'
<1>1. Running /\ phase' = phase /\ phase' \in {"gc", "up"}
  <2>1. cpc = "logged" /\ phase' = phase
    BY DEF CompactCommit
  <2> QED
    BY SMTT(30), SMTT(90), <2>1, StaysRunning
<1>2. current # 0
  BY <1>1, RunTypes
<1>3. /\ man' \in [File -> Descriptor] /\ man'[current].os = man[current].os
      /\ Cuts' = {man[current].os} /\ current' = current
  <2>1. SyncEdit /\ current' = current /\ TypeOK /\ CurrentInv
    BY HasTypes, HasCurrent DEF CompactCommit
  <2> QED
    BY <1>2, <2>1, SyncEditCuts
<1>4. fpc' = "idle"
  BY HasCompactIdle DEF CompactIdleInv, CompactCommit
<1>5. /\ cpc' = "idle" /\ cin' = {} /\ cver' = {} /\ couts' = {}
      /\ cout' = 0 /\ crem' = {}
  BY DEF CompactCommit, CleanupCompaction
<1>6. /\ couts \ {cout} = couts /\ couts \subseteq tabDone
      /\ \A w : InTables(w, cin) => InTables(w, couts)
  <2>1. cout = 0 /\ crem = {} /\ 0 \notin couts
    BY Bounds, HasTypes, HasCompactIdle DEF TypeOK, CompactIdleInv,
       CompactCommit
  <2>2. couts \ {cout} = couts /\ couts \subseteq tabDone
    BY <2>1, HasCompactOuts DEF CompactOutsInv
  <2> QED
    BY <2>1, <2>2, HasCompactData DEF CompactDataInv, InTables
<1>7. NewDBInv' /\ RecVersionInv' /\ RecEditInv' /\ RecLogsInv' /\ RecAckedInv'
      /\ RecNewLogInv' /\ RecDescInv' /\ RecSeqInv' /\ FlushInv' /\
      FlushBuildInv' /\ FlushBuiltInv' /\ CompactIdleInv' /\ CompactOutsInv' /\
      CompactDataInv' /\ CompactOutInv'
  BY <1>1, <1>4, <1>5, RunningVacuous, FlushIdleVacuous, CompactIdleVacuous
<1>8. LogInv' /\ AckInv' /\ MemInv' /\ WriteInv'
  BY LogFrame, AckFrame, MemFrame, WriteFrame DEF CompactCommit
<1>9. TypeOK'
  <2>1. gcLog' \subseteq File /\ gcTab' \subseteq File /\ gcDesc' \subseteq File
    BY HasTypes DEF TypeOK, CompactCommit, CollectGarbage, RemoveObsoleteFiles
  <2>2. version' \subseteq File /\ cout' \in 0 .. MaxFile /\ pending' \subseteq File
    BY Bounds, HasTypes DEF TypeOK, CompactCommit, CleanupCompaction
  <2> QED
    BY SMTT(30), SMTT(90), <1>3, <1>5, <2>1, <2>2, HasTypes DEF TypeOK, CompactCommit
<1>10. CurrentInv'
  BY <1>3, HasCurrent DEF CurrentInv, CompactCommit
<1>11. DescTablesInv'
  BY <1>1, <1>3, RunTypes, HasDescTables DEF DescTablesInv, CompactCommit
<1>12. DescNumbersInv'
  BY <1>1, <1>3, RunTypes, HasDescNumbers DEF DescNumbersInv, CompactCommit
<1>13. DescSeqInv'
  BY <1>1, <1>3, RunTypes, HasDescSeq DEF DescSeqInv, CompactCommit
<1>14. SyncedFoundInv'
  BY <1>1, <1>3, RunTypes, HasSyncedFound DEF SyncedFoundInv, InTables, InLogs,
     CompactCommit
<1>15. AckedFoundInv'
  BY <1>1, <1>2, <1>3, RunTypes, HasAckedFound DEF AckedFoundInv, InTables,
     InLogs, CompactCommit
<1>16. PhaseInv'
  BY HasPhase DEF PhaseInv, CompactCommit
<1>17. NumbersInv'
  BY <1>3, RunTypes, HasNumbers DEF NumbersInv, Running, CompactCommit
<1>18. AckedInv'
  <2>1. \A w : InTables(w, version) => InTables(w, version')
    BY <1>6 DEF InTables, CompactCommit
  <2> QED
    BY <1>1, <1>3, <2>1, RunTypes, HasAcked DEF AckedInv, InTables,
       CompactCommit
<1>19. VersionInv'
  BY <1>1, <1>5, <1>6, HasVersion, HasCompactOuts DEF VersionInv,
     CompactOutsInv, CompactCommit
<1>20. SeqInv'
  BY <1>3, <1>5, <1>6, RunTypes, HasSeq DEF SeqInv, Running, CompactCommit
<1>21. SeqLogsInv'
  BY HasPhase, HasSeqLogs DEF SeqLogsInv, PhaseInv, Running, CompactCommit
<1>22. EditInv'
  BY <1>1, <1>3, <1>5, HasEdit DEF EditInv, CompactCommit
<1>23. GarbageInv'
  <2>1. CASE bgError
    BY <2>1, HasCompactIdle, HasGarbage DEF GarbageInv, NothingToRemove,
       CompactIdleInv, CompactCommit, CollectGarbage
  <2>2. CASE ~bgError
    <3>1. man[current].os.files \subseteq version'
      BY <1>1, <2>2, HasEdit DEF EditInv, CompactCommit
    <3>2. gcTab' \cap (version' \cup cver' \cup reader' \cup couts') = {}
      BY <2>2 DEF DurabilityInv, CompactCommit, CollectGarbage,
         RemoveObsoleteFiles, KeepTable, CleanupCompaction
    <3>3. (\A k \in gcLog' : k < vLog') /\ current \notin gcDesc'
      <4>1. current = vMan /\ vMan \in Nat /\ logFiles \subseteq Nat
        BY <1>1, RunTypes, HasTypes, HasNumbers DEF NumbersInv, TypeOK
      <4>2. /\ gcLog' = {k \in logFiles : ~KeepLog(k, vLog)} /\ vLog' = vLog
            /\ gcDesc' = {k \in descFiles : ~KeepDesc(k)}
        BY <2>2 DEF CompactCommit, CollectGarbage, RemoveObsoleteFiles
      <4> QED
        BY SMTT(30), SMTT(90), <1>1, <4>1, <4>2, RunTypes DEF KeepLog, KeepDesc
    <3>4. \A k \in gcTab' : k \notin version'
      BY <3>2
    <3> QED
      BY <1>3, <3>1, <3>2, <3>3 DEF GarbageInv
  <2> QED
    BY <2>1, <2>2
<1> QED
  BY <1>7, <1>8, <1>9, <1>10, <1>11, <1>12, <1>13, <1>14, <1>15, <1>16, <1>17,
     <1>18, <1>19, <1>20, <1>21, <1>22, <1>23 DEF DurabilityInv

\* A failed compaction leaves the version as it was.
LEMMA CompactFailsStep ==
  ASSUME DurabilityInv, CompactFails
  PROVE  DurabilityInv'
<1>1. /\ cpc' = "idle" /\ cin' = {} /\ cver' = {} /\ couts' = {}
      /\ cout' = 0 /\ crem' = {} /\ pending' = pending \ couts
  BY DEF CompactFails, CleanupCompaction
<1>2. phase' = phase /\ phase = "up" /\ fpc' = fpc /\ fpc = "idle"
  BY HasPhase, HasCompactIdle DEF PhaseInv, CompactIdleInv, CompactFails, InLoop
<1>3. NewDBInv' /\ RecVersionInv' /\ RecEditInv' /\ RecLogsInv' /\ RecAckedInv'
      /\ RecNewLogInv' /\ RecDescInv' /\ RecSeqInv' /\ FlushInv' /\
      FlushBuildInv' /\ FlushBuiltInv' /\ CompactIdleInv' /\ CompactOutsInv' /\
      CompactDataInv' /\ CompactOutInv'
  BY <1>1, <1>2, RunningVacuous, FlushIdleVacuous, CompactIdleVacuous
<1>4. CurrentInv' /\ DescTablesInv' /\ DescNumbersInv' /\ DescSeqInv' /\
      LogInv' /\ AckInv' /\ SyncedFoundInv' /\ AckedFoundInv' /\ NumbersInv' /\
      AckedInv' /\ MemInv' /\ SeqLogsInv' /\ WriteInv'
  BY CurrentFrame, DescTablesFrame, DescNumbersFrame, DescSeqFrame,
     LogFrame, AckFrame, SyncedFoundFrame, AckedFoundFrame, NumbersFrame,
     AckedFrame, MemFrame, SeqLogsFrame, WriteFrame DEF CompactFails
<1>5. TypeOK'
  <2>1. cout' \in 0 .. MaxFile /\ pending' \subseteq File
    BY <1>1, Bounds, HasTypes DEF TypeOK
  <2> QED
    BY SMTT(30), SMTT(90), <1>1, <2>1, HasTypes DEF TypeOK, CompactFails
<1>6. PhaseInv'
  BY <1>1, <1>2, HasPhase DEF PhaseInv, CompactFails, NothingToRemove
<1>7. VersionInv'
  BY <1>1, HasVersion DEF VersionInv, CompactFails, Running
<1>8. SeqInv'
  BY <1>1, HasSeq DEF SeqInv, CompactFails, Running, Cuts
<1>9. EditInv'
  BY DEF EditInv, CompactFails
<1>10. GarbageInv'
  BY <1>1, HasGarbage DEF GarbageInv, CompactFails, Cuts
<1> QED
  BY <1>3, <1>4, <1>5, <1>6, <1>7, <1>8, <1>9, <1>10 DEF DurabilityInv

\* The edit of a trivial move keeps the set of files.
LEMMA MoveAppendStep ==
  ASSUME DurabilityInv, MoveAppend
  PROVE  DurabilityInv'
<1>1. Running /\ phase' = phase /\ phase' \in {"gc", "up"}
  <2>1. Running /\ phase' = phase
    BY DEF MoveAppend, MayCompact, BackgroundReady, Running
  <2> QED
    BY SMTT(30), SMTT(90), <2>1, StaysRunning
<1>2. current # 0
  BY <1>1, RunTypes
<1>3. PICK new \in Snapshot :
           /\ new.files = (man[current].os.files \ {}) \cup {}
           /\ new.log = vLog /\ new.next = nextFile /\ new.seq = lastSeq
           /\ man'[current].os = new /\ Cuts' = Cuts \cup {new}
           /\ man' \in [File -> Descriptor]
  <2>1. {} \in SUBSET File /\ vLog \in 0 .. MaxFile
    BY HasTypes DEF TypeOK
  <2>2. AppendEdit({}, {}, vLog) /\ current' = current
    BY DEF MoveAppend
  <2>3. TypeOK /\ CurrentInv
    BY HasTypes, HasCurrent
  <2>4. Appended({}, {}, vLog)
    BY <1>2, <2>1, <2>2, <2>3, AppendEditCuts
  <2> QED
    BY <2>4 DEF Appended
<1>4. fpc' = "idle"
  BY DEF MoveAppend, MayCompact
<1>5. new.files = man[current].os.files
  BY <1>3
<1>6. NewDBInv' /\ RecVersionInv' /\ RecEditInv' /\ RecLogsInv' /\ RecAckedInv'
      /\ RecNewLogInv' /\ RecDescInv' /\ RecSeqInv' /\ FlushInv' /\
      FlushBuildInv' /\ FlushBuiltInv'
  BY <1>1, <1>4, RunningVacuous, FlushIdleVacuous
<1>7. LogInv' /\ AckInv' /\ MemInv' /\ VersionInv' /\ SeqLogsInv' /\ WriteInv'
      /\ CompactOutsInv' /\ CompactDataInv'
  BY LogFrame, AckFrame, MemFrame, VersionFrame, SeqLogsFrame, WriteFrame,
     CompactOutsFrame, CompactDataFrame DEF MoveAppend
<1>8. TypeOK'
  BY SMTT(30), SMTT(90), <1>3, HasTypes DEF TypeOK, MoveAppend
<1>9. CurrentInv'
  BY <1>3, HasCurrent DEF CurrentInv, MoveAppend
<1>10. DescTablesInv'
  BY <1>1, <1>2, <1>3, <1>4, <1>5, RunTypes, HasDescTables DEF DescTablesInv,
     MoveAppend
<1>11. DescNumbersInv'
  <2>1. vLog <= logNum /\ current' = current
    BY <1>1, HasNumbers DEF NumbersInv, MoveAppend
  <2> QED
    BY <1>1, <1>3, <2>1, AppendNumbers
<1>12. DescSeqInv'
  BY <1>1, <1>3, AppendSeq DEF MoveAppend
<1>13. SyncedFoundInv'
  <2>1. NoTornAppend =>
          \A w \in ackM : InTables(w, new.files) \/ InLogs(w, new.log, logSynced)
    BY SMTT(30), SMTT(90), <1>1, <1>3, RunTypes, HasSyncedFound, HasNumbers DEF
       SyncedFoundInv, NumbersInv, InLogs
  <2> QED
    BY <1>3, <2>1, HasSyncedFound DEF SyncedFoundInv, InTables, InLogs,
       MoveAppend
<1>14. AckedFoundInv'
  <2>1. NoTornAppend =>
          \A w \in ackP : InTables(w, new.files) \/ InLogs(w, new.log, logData)
    BY SMTT(30), SMTT(90), <1>1, <1>3, RunTypes, HasAckedFound, HasNumbers DEF
       AckedFoundInv, NumbersInv, InLogs
  <2> QED
    BY <1>3, <2>1, HasAckedFound DEF AckedFoundInv, InTables, InLogs, MoveAppend
<1>15. PhaseInv'
  BY HasPhase DEF PhaseInv, MoveAppend, MayCompact, BackgroundReady
<1>16. NumbersInv'
  <2>1. /\ AppendEdit({}, {}, vLog) /\ logFiles' = logFiles
        /\ current' = current /\ phase' = phase /\ logNum' = logNum
        /\ vLog' = vLog /\ vMan' = vMan /\ nextFile' = nextFile
    BY DEF MoveAppend
  <2> QED
    BY SMTT(30), SMTT(90), <1>1, <1>2, <1>3, <1>4, RunTypes, HasNumbers, <2>1 DEF
       NumbersInv
<1>17. AckedInv'
  BY <1>3, <1>5, RunTypes, HasAcked DEF AckedInv, Running, InTables, MoveAppend
<1>18. SeqInv'
  <2>1. /\ MayCompact /\ version # {} /\ tabData' = tabData
        /\ current' = current /\ phase' = phase /\ mem' = mem /\ imm' = imm
        /\ version' = version /\ lastSeq' = lastSeq /\ couts' = couts
        /\ cout' = cout /\ crem' = crem /\ ackP' = ackP
    BY DEF MoveAppend
  <2> QED
    BY SMTT(30), SMTT(90), <1>3, <1>4, RunTypes, HasSeq, <2>1 DEF SeqInv, Running
<1>19. CompactIdleInv'
  BY HasCompactIdle DEF CompactIdleInv, NothingToRemove, MoveAppend, MayCompact,
     BackgroundReady
<1>20. CompactOutInv'
  BY HasCompactIdle, HasCompactOut DEF CompactOutInv, CompactIdleInv,
     MoveAppend, MayCompact
<1>21. EditInv'
  BY <1>3, RunTypes, HasEdit DEF EditInv, Running, MoveAppend, MayCompact
<1>22. GarbageInv'
  BY HasGarbage DEF GarbageInv, MoveAppend, MayCompact, BackgroundReady,
     NothingToRemove
<1> QED
  BY <1>6, <1>7, <1>8, <1>9, <1>10, <1>11, <1>12, <1>13, <1>14, <1>15, <1>16,
     <1>17, <1>18, <1>19, <1>20, <1>21, <1>22 DEF DurabilityInv

\* A trivial move ends, or fails.
LEMMA MoveEndStep ==
  ASSUME DurabilityInv, MoveEnd
  PROVE  DurabilityInv'
<1>1. Running /\ phase' = phase /\ phase' \in {"gc", "up"}
  <2>1. cpc = "moved" /\ phase' = phase
    BY DEF MoveEnd
  <2> QED
    BY SMTT(30), SMTT(90), <2>1, StaysRunning
<1>2. current # 0
  BY <1>1, RunTypes
<1>3. /\ man' \in [File -> Descriptor] /\ man'[current].os = man[current].os
      /\ Cuts' \in {Cuts, {man[current].os}} /\ current' = current
  <2>1. current' = current /\ TypeOK /\ CurrentInv
    BY HasTypes, HasCurrent DEF MoveEnd
  <2>2. CASE SyncEdit
    BY <1>2, <2>1, <2>2, SyncEditCuts
  <2>3. CASE UNCHANGED man
    BY <2>1, <2>3 DEF TypeOK, Cuts
  <2> QED
    BY <2>2, <2>3 DEF MoveEnd
<1>4. fpc' = "idle"
  BY HasCompactIdle DEF CompactIdleInv, MoveEnd
<1>5. /\ cpc' = "idle" /\ cin' = {} /\ cver' = {} /\ couts' = {}
      /\ cout' = 0 /\ crem' = {}
  BY HasCompactIdle DEF CompactIdleInv, MoveEnd
<1>6. Cuts' \subseteq Cuts
  BY <1>1, <1>3, RunTypes
<1>7. NewDBInv' /\ RecVersionInv' /\ RecEditInv' /\ RecLogsInv' /\ RecAckedInv'
      /\ RecNewLogInv' /\ RecDescInv' /\ RecSeqInv' /\ FlushInv' /\
      FlushBuildInv' /\ FlushBuiltInv' /\ CompactIdleInv' /\ CompactOutsInv' /\
      CompactDataInv' /\ CompactOutInv'
  BY <1>1, <1>4, <1>5, RunningVacuous, FlushIdleVacuous, CompactIdleVacuous
<1>8. LogInv' /\ AckInv' /\ MemInv' /\ VersionInv' /\ SeqLogsInv' /\ WriteInv'
  BY LogFrame, AckFrame, MemFrame, VersionFrame, SeqLogsFrame, WriteFrame DEF
     MoveEnd
<1>9. TypeOK'
  <2>1. bgError' \in BOOLEAN
    BY HasTypes DEF TypeOK, MoveEnd
  <2> QED
    BY SMTT(30), SMTT(90), <1>3, <1>5, <2>1, HasTypes DEF TypeOK, MoveEnd
<1>10. CurrentInv'
  BY <1>3, HasCurrent DEF CurrentInv, MoveEnd
<1>11. DescTablesInv'
  BY <1>6, HasDescTables DEF DescTablesInv, MoveEnd
<1>12. DescNumbersInv'
  BY <1>1, <1>2, <1>3, <1>4, RunTypes, HasDescNumbers DEF DescNumbersInv,
     MoveEnd
<1>13. DescSeqInv'
  BY <1>6, HasDescSeq DEF DescSeqInv, MoveEnd
<1>14. SyncedFoundInv'
  BY <1>6, HasSyncedFound DEF SyncedFoundInv, InTables, InLogs, MoveEnd
<1>15. AckedFoundInv'
  BY <1>6, HasAckedFound DEF AckedFoundInv, InTables, InLogs, MoveEnd
<1>16. PhaseInv'
  BY HasPhase DEF PhaseInv, MoveEnd
<1>17. NumbersInv'
  BY <1>6, HasNumbers DEF NumbersInv, Running, MoveEnd
<1>18. AckedInv'
  BY <1>6, HasAcked DEF AckedInv, Running, InTables, MoveEnd
<1>19. SeqInv'
  BY <1>6, HasSeq DEF SeqInv, Running, MoveEnd
<1>20. EditInv'
  <2>1. /\ cpc = "moved" /\ cpc' = "idle" /\ current' = current
        /\ phase' = phase /\ version' = version /\ fpc' = fpc /\ fout' = fout
        /\ cin' = cin /\ couts' = couts /\ (bgError' = TRUE \/ bgError' = bgError)
    BY DEF MoveEnd
  <2>2. Running' /\ ~bgError' => Running /\ ~bgError
    BY <2>1 DEF Running
  <2>3. cpc # "logged" /\ cpc' # "logged"
    BY <2>1
  <2>4. EditInv
    BY HasEdit
  <2>5. ASSUME Running', ~bgError', NEW m \in Cuts'
        PROVE  m.files \subseteq version \cup (IF fpc = "logged" THEN {fout} ELSE {})
    BY SMTT(30), SMTT(90), <1>6, <2>2, <2>3, <2>4, <2>5 DEF EditInv
  <2>6. ASSUME Running', ~bgError', NEW m \in Cuts'
        PROVE  m.files \subseteq version' \cup (IF fpc' = "logged" THEN {fout'} ELSE {})
                                         \cup (IF cpc' = "logged" THEN couts' ELSE {})
    BY SMTT(30), SMTT(90), <2>1, <2>5, <2>6
  <2> QED
    BY <2>3, <2>6 DEF EditInv
<1>21. GarbageInv'
  BY <1>6, HasGarbage DEF GarbageInv, MoveEnd
<1> QED
  BY <1>7, <1>8, <1>9, <1>10, <1>11, <1>12, <1>13, <1>14, <1>15, <1>16, <1>17,
     <1>18, <1>19, <1>20, <1>21 DEF DurabilityInv

-----------------------------------------------------------------------------
(* Crashes, and all steps together.                                        *)

\* An empty directory satisfies the invariant.
LEMMA InitInv ==
  ASSUME Init
  PROVE  DurabilityInv
<1>1. NewSnapshot({}, 0, 0, 0) \in Snapshot
  BY SMTT(30), SMTT(90), Bounds, NewSnapshotFields
<1>2. man \in [File -> Descriptor]
  BY <1>1, SyncedDescriptor DEF Init
<1>3. TypeOK
  BY <1>2, Bounds DEF Init, EmptyFiles, TypeOK
<1>4. CurrentInv /\ DescTablesInv /\ DescNumbersInv /\ DescSeqInv /\ AckInv
      /\ SyncedFoundInv /\ AckedFoundInv
  BY DEF Init, CurrentInv, DescTablesInv, DescNumbersInv, DescSeqInv, AckInv,
     SyncedFoundInv, AckedFoundInv
<1>5. LogInv
  BY DEF Init, EmptyFiles, LogInv
<1>6. PhaseInv /\ NewDBInv /\ RecVersionInv /\ RecEditInv /\ RecLogsInv
      /\ RecAckedInv /\ RecNewLogInv /\ RecDescInv /\ RecSeqInv
  BY DEF Init, PhaseInv, NothingToRemove, NewDBInv, RecVersionInv, RecEditInv,
     RecLogsInv, RecAckedInv, RecNewLogInv, RecDescInv, RecSeqInv, Recovering
<1>7. NumbersInv /\ AckedInv /\ MemInv /\ VersionInv /\ SeqInv /\ SeqLogsInv
      /\ WriteInv /\ FlushInv /\ FlushBuildInv /\ FlushBuiltInv /\ EditInv
  BY DEF Init, NumbersInv, AckedInv, MemInv, VersionInv, SeqInv, SeqLogsInv,
     WriteInv, FlushInv, FlushBuildInv, FlushBuiltInv, EditInv, Running
<1>8. CompactIdleInv /\ CompactOutsInv /\ CompactDataInv /\ CompactOutInv
      /\ GarbageInv
  BY DEF Init, CompactIdleInv, CompactOutsInv, CompactDataInv, CompactOutInv,
     GarbageInv
<1> QED
  BY <1>3, <1>4, <1>5, <1>6, <1>7, <1>8 DEF DurabilityInv

\* A step that changes nothing preserves the invariant.
LEMMA StutterStep ==
  ASSUME DurabilityInv, UNCHANGED vars
  PROVE  DurabilityInv'
<1>1. TypeOK'
  BY SMTT(30), SMTT(90), HasTypes DEF TypeOK, vars
<1>2. CurrentInv' /\ DescTablesInv' /\ DescNumbersInv' /\ DescSeqInv' /\ LogInv'
      /\ AckInv' /\ SyncedFoundInv' /\ AckedFoundInv' /\ PhaseInv' /\ NewDBInv'
  BY CurrentFrame, DescTablesFrame, DescNumbersFrame, DescSeqFrame, LogFrame,
     AckFrame, SyncedFoundFrame, AckedFoundFrame, PhaseFrame, NewDBFrame DEF
     vars
<1>3. RecVersionInv' /\ RecEditInv' /\ RecLogsInv' /\ RecAckedInv'
      /\ RecNewLogInv' /\ RecDescInv' /\ RecSeqInv'
  BY RecVersionFrame, RecEditFrame, RecLogsFrame, RecAckedFrame,
     RecNewLogFrame, RecDescFrame, RecSeqFrame DEF vars
<1>4. NumbersInv' /\ AckedInv' /\ MemInv' /\ VersionInv' /\ SeqInv'
      /\ SeqLogsInv' /\ WriteInv' /\ FlushInv' /\ FlushBuildInv'
      /\ FlushBuiltInv'
  BY NumbersFrame, AckedFrame, MemFrame, VersionFrame, SeqFrame, SeqLogsFrame,
     WriteFrame, FlushFrame, FlushBuildFrame, FlushBuiltFrame DEF vars
<1>5. CompactIdleInv' /\ CompactOutsInv' /\ CompactDataInv' /\ CompactOutInv'
      /\ EditInv' /\ GarbageInv'
  BY CompactIdleFrame, CompactOutsFrame, CompactDataFrame, CompactOutFrame,
     EditFrame, GarbageFrame DEF vars
<1> QED
  BY <1>1, <1>2, <1>3, <1>4, <1>5 DEF DurabilityInv

\* A crash of the process loses memory only.
LEMMA ProcessCrashStep ==
  ASSUME DurabilityInv, ProcessCrash
  PROVE  DurabilityInv'
<1>1. phase' \in {"none", "down"} /\ phase' \notin {"gc", "up"} /\ fpc' = "idle"
  BY DEF ProcessCrash, LoseMemory
<1>2. /\ cpc' = "idle" /\ cin' = {} /\ cver' = {} /\ couts' = {}
      /\ cout' = 0 /\ crem' = {}
  BY DEF ProcessCrash, LoseMemory
<1>3. NewDBInv' /\ RecVersionInv' /\ RecEditInv' /\ RecLogsInv' /\ RecAckedInv'
      /\ RecNewLogInv' /\ RecDescInv' /\ RecSeqInv' /\ NumbersInv' /\ AckedInv'
      /\ MemInv' /\ VersionInv' /\ SeqInv' /\ SeqLogsInv' /\ FlushInv' /\
      FlushBuildInv' /\ FlushBuiltInv' /\ CompactIdleInv' /\ CompactOutsInv' /\
      CompactDataInv' /\ CompactOutInv' /\ EditInv'
  BY <1>1, <1>2, DownVacuous, RecoveringVacuous, FlushIdleVacuous,
     CompactIdleVacuous
<1>4. CurrentInv' /\ DescTablesInv' /\ DescNumbersInv' /\ DescSeqInv' /\
      LogInv' /\ AckInv' /\ SyncedFoundInv' /\ AckedFoundInv'
  BY CurrentFrame, DescTablesFrame, DescNumbersFrame, DescSeqFrame, LogFrame,
     AckFrame, SyncedFoundFrame, AckedFoundFrame DEF ProcessCrash
<1>5. TypeOK'
  <2>1. /\ logNum' \in 0 .. MaxFile /\ vLog' \in 0 .. MaxFile /\ vMan' \in Nat /\ nextFile' \in Nat
        /\ lastSeq' \in 0 .. MaxSeq /\ rlog' \in 0 .. MaxFile /\ fout' \in 0 .. MaxFile
        /\ cout' \in 0 .. MaxFile /\ crashes' \in Nat
    BY SMTT(30), SMTT(90), Bounds, HasTypes DEF TypeOK, ProcessCrash, LoseMemory
  <2> QED
    BY <2>1, HasTypes DEF TypeOK, ProcessCrash, LoseMemory
<1>6. PhaseInv'
  BY HasPhase DEF PhaseInv, NothingToRemove, ProcessCrash, LoseMemory
<1>7. WriteInv'
  BY HasWrite DEF WriteInv, ProcessCrash, LoseMemory
<1>8. GarbageInv'
  BY HasGarbage DEF GarbageInv, ProcessCrash, LoseMemory
<1> QED
  BY <1>3, <1>4, <1>5, <1>6, <1>7, <1>8 DEF DurabilityInv

\* A crash of the machine leaves a prefix of the descriptor and of each log that
\* covers what was synced.
LEMMA MachineCrashStep ==
  ASSUME DurabilityInv, MachineCrash
  PROVE  DurabilityInv'
<1>1. phase' \in {"none", "down"} /\ phase' \notin {"gc", "up"} /\ fpc' = "idle"
  <2>1. phase' = (IF current = 0 THEN "none" ELSE "down") /\ fpc' = "idle"
    BY DEF MachineCrash, LoseMemory
  <2> QED
    BY SMTT(30), SMTT(90), <2>1
<1>2. /\ cpc' = "idle" /\ cin' = {} /\ cver' = {} /\ couts' = {}
      /\ cout' = 0 /\ crem' = {}
  BY DEF MachineCrash, LoseMemory
<1>3. /\ logData' \in [File -> SUBSET Seqno] /\ logSynced' = logData'
      /\ \A k \in logFiles : logSynced[k] \subseteq logSynced'[k]
  <2>1. \A k \in logFiles : k \in File /\ logSynced[k] \subseteq logData[k]
    BY HasTypes, HasLog DEF TypeOK, LogInv
  <2>2. PICK last \in [logFiles -> 0 .. MaxSeq] :
          /\ \A k \in logFiles : \A s \in logSynced[k] : s <= last[k]
          /\ logData' = [k \in File |-> IF k \in logFiles
                                        THEN {s \in logData[k] : s <= last[k]}
                                        ELSE {}]
    BY DEF MachineCrash
  <2>3. logSynced' = logData'
    BY DEF MachineCrash
  <2>4. logData' \in [File -> SUBSET Seqno]
    BY <2>2, HasTypes DEF TypeOK
  <2> QED
    BY <2>1, <2>2, <2>3, <2>4
<1>4. /\ man' \in [File -> Descriptor] /\ current' = current
      /\ current # 0 => Cuts' \subseteq Cuts /\ Cuts' = {man'[current].os}
  <2>1. CASE current = 0
    BY <2>1, HasTypes DEF TypeOK, MachineCrash
  <2>2. CASE current # 0
    <3>1. PICK s \in Cuts : man' = [man EXCEPT ![current] = Synced(s)]
      BY <2>2 DEF MachineCrash, Cuts
    <3>2. s \in Snapshot /\ current \in File
      BY <2>2, CurrentFacts, HasTypes, HasCurrent
    <3>3. man' \in [File -> Descriptor] /\ man'[current] = Synced(s)
      BY <3>1, <3>2, SyncedDescriptor, HasTypes DEF TypeOK
    <3> QED
      <4>1. current' = current
        BY DEF MachineCrash
      <4> QED
        BY SMTT(30), SMTT(90), <3>2, <3>3, SyncedDescriptor, <4>1 DEF Cuts
  <2> QED
    BY <2>1, <2>2
<1>5. NewDBInv' /\ RecVersionInv' /\ RecEditInv' /\ RecLogsInv' /\ RecAckedInv'
      /\ RecNewLogInv' /\ RecDescInv' /\ RecSeqInv' /\ NumbersInv' /\ AckedInv'
      /\ MemInv' /\ VersionInv' /\ SeqInv' /\ SeqLogsInv' /\ FlushInv' /\
      FlushBuildInv' /\ FlushBuiltInv' /\ CompactIdleInv' /\ CompactOutsInv' /\
      CompactDataInv' /\ CompactOutInv' /\ EditInv'
  BY <1>1, <1>2, DownVacuous, RecoveringVacuous, FlushIdleVacuous,
     CompactIdleVacuous
<1>6. TypeOK'
  <2>1. /\ logNum' \in 0 .. MaxFile /\ vLog' \in 0 .. MaxFile /\ vMan' \in Nat /\ nextFile' \in Nat
        /\ lastSeq' \in 0 .. MaxSeq /\ rlog' \in 0 .. MaxFile /\ fout' \in 0 .. MaxFile
        /\ cout' \in 0 .. MaxFile /\ crashes' \in Nat
    BY SMTT(30), SMTT(90), Bounds, HasTypes DEF TypeOK, MachineCrash, LoseMemory
  <2> QED
    BY <1>3, <1>4, <2>1, HasTypes DEF TypeOK, MachineCrash, LoseMemory
<1>7. CurrentInv'
  <2>1. UNCHANGED <<logFiles, tabVars, descFiles, current, ackM>> /\ ackP' = ackM
    BY DEF MachineCrash
  <2> QED
    BY <1>4, <2>1, HasCurrent DEF CurrentInv
<1>8. DescTablesInv'
  <2>1. UNCHANGED <<logFiles, tabVars, descFiles, current, ackM>> /\ ackP' = ackM
    BY DEF MachineCrash
  <2> QED
    BY <1>4, <2>1, HasDescTables DEF DescTablesInv
<1>9. DescNumbersInv'
  <2>1. UNCHANGED <<logFiles, tabVars, descFiles, current, ackM>> /\ ackP' = ackM
    BY DEF MachineCrash
  <2>2. current # 0 => \A m \in Cuts : m.next \in Nat
    BY CurrentFacts, SnapshotFields, HasTypes, HasCurrent
  <2> QED
    BY SMTT(30), SMTT(90), <1>4, <2>2, HasDescNumbers DEF DescNumbersInv
<1>10. DescSeqInv'
  <2>1. UNCHANGED <<logFiles, tabVars, descFiles, current, ackM>> /\ ackP' = ackM
    BY DEF MachineCrash
  <2> QED
    BY <1>4, <2>1, HasDescSeq DEF DescSeqInv
<1>11. LogInv'
  BY HasLog DEF LogInv, MachineCrash
<1>12. AckInv'
  <2>1. UNCHANGED <<logFiles, tabVars, descFiles, current, ackM>> /\ ackP' = ackM
    BY DEF MachineCrash
  <2> QED
    BY <2>1, HasAck DEF AckInv
<1>13. SyncedFoundInv'
  <2>1. UNCHANGED <<logFiles, tabVars, descFiles, current, ackM>> /\ ackP' = ackM
    BY DEF MachineCrash
  <2> QED
    BY <1>3, <1>4, <2>1, HasSyncedFound DEF SyncedFoundInv, InTables, InLogs
<1>14. AckedFoundInv'
  <2>1. UNCHANGED <<logFiles, tabVars, descFiles, current, ackM>> /\ ackP' = ackM
    BY DEF MachineCrash
  <2> QED
    BY <1>3, <1>4, <2>1, HasSyncedFound, HasAckedFound DEF AckedFoundInv,
       SyncedFoundInv, InTables, InLogs
<1>15. PhaseInv'
  BY HasPhase DEF PhaseInv, NothingToRemove, MachineCrash, LoseMemory
<1>16. WriteInv'
  BY HasWrite DEF WriteInv, MachineCrash, LoseMemory
<1>17. GarbageInv'
  <2>1. gcLog' = {} /\ gcTab' = {} /\ gcDesc' = {}
    BY DEF MachineCrash, LoseMemory
  <2> QED
    BY <2>1 DEF GarbageInv
<1> QED
  BY <1>5, <1>6, <1>7, <1>8, <1>9, <1>10, <1>11, <1>12, <1>13, <1>14, <1>15,
     <1>16, <1>17 DEF DurabilityInv

\* Every step preserves the invariant.
LEMMA NextInv ==
  ASSUME DurabilityInv, [Next]_vars
  PROVE  DurabilityInv'
<1>1. CASE Open
  BY <1>1, NewDBDescriptorStep, NewDBCurrentStep, RecoverVersionStep,
     RecoverLogFileStep, RecoverTableStep, RecoverLogDoneStep, OpenNewLogStep,
     OpenDescriptorStep, OpenCurrentStep, OpenDoneStep DEF Open
<1>2. CASE Collect
  BY <1>2, RemoveLogStep, RemoveTableStep, RemoveDescriptorStep DEF Collect
<1>3. CASE Write
  BY <1>3, WriteAppendStep, WriteAppendFailsStep, WriteSyncStep,
     WriteSyncFailsStep, WriteDoneStep DEF Write
<1>4. CASE Flush
  BY <1>4, FlushBeginStep, FlushBuildStep, FlushAppendStep, FlushCommitStep,
     FlushFailsStep DEF Flush
<1>5. CASE Compact
  BY <1>5, OpenCompactionOutputFileStep, CompactAppendStep, CompactCommitStep,
     CompactFailsStep, MoveEndStep, FinishCompactionOutputFileStep DEF Compact
<1>6. CASE \E sync \in BOOLEAN : WriteBegin(sync)
  BY <1>6, WriteBeginStep
<1>7. CASE SwitchMemTable \/ ReadBegin \/ ReadEnd \/ MoveAppend
  BY <1>7, SwitchMemTableStep, ReadBeginStep, ReadEndStep, MoveAppendStep
<1>8. CASE \E inputs \in SUBSET version : CompactBegin(inputs)
  BY <1>8, CompactBeginStep
<1>9. CASE ProcessCrash \/ MachineCrash
  BY <1>9, ProcessCrashStep, MachineCrashStep
<1>10. CASE UNCHANGED vars
  BY <1>10, StutterStep
<1> QED
  BY <1>1, <1>2, <1>3, <1>4, <1>5, <1>6, <1>7, <1>8, <1>9, <1>10 DEF Next

\* DurabilityInv holds in every reachable state.
THEOREM Invariance == Spec => []DurabilityInv
<1>1. Init => DurabilityInv
  BY InitInv
<1>2. DurabilityInv /\ [Next]_vars => DurabilityInv'
  BY NextInv
<1> QED
  BY <1>1, <1>2, PTL DEF Spec

-----------------------------------------------------------------------------
(* What the invariant says about the code.                                 *)

\* Without a torn record nothing in a log is doubtful.
LEMMA NothingDoubtful ==
  ASSUME NoTornAppend, DurabilityInv, NEW n \in logFiles
  PROVE  Doubtful(n) = {}
  BY SMTT(30), SMTT(90) DEF DurabilityInv, TypeOK, LogInv, Doubtful

\* Every variable keeps its type: numbers stay below the bounds and a finished
\* table is a table.
THEOREM TypeCorrect == Spec => []TypeOK
<1>1. DurabilityInv => TypeOK
  BY DEF DurabilityInv
<1> QED
  BY <1>1, Invariance, PTL

\* A write acknowledged with sync = true is found again after a crash of the
\* machine at any instant (Write, LogAndApply, CompactMemTable,
\* RemoveObsoleteFiles, DB::Open).
THEOREM SyncDurability ==
  ASSUME NoTornAppend
  PROVE  Spec => []SyncedWritesDurable
<1>1. DurabilityInv => SyncedWritesDurable
  BY NothingDoubtful DEF DurabilityInv, SyncedFoundInv, SyncedWritesDurable,
     Recoverable, InTables, InLogs, Cuts
<1> QED
  BY <1>1, Invariance, PTL

\* An acknowledged write, sync or not, is found again after a crash of the
\* process at any instant.
THEOREM ProcessDurability ==
  ASSUME NoTornAppend
  PROVE  Spec => []AckedWritesSurviveProcessCrash
<1>1. DurabilityInv => AckedWritesSurviveProcessCrash
  BY NothingDoubtful DEF DurabilityInv, CurrentInv, AckedFoundInv,
     AckedWritesSurviveProcessCrash, Recoverable, InTables, InLogs, Cuts
<1> QED
  BY <1>1, Invariance, PTL

\* Every table that any readable prefix of the descriptor lists exists and is
\* complete, so DB::Open never reports missing files.
THEOREM NoMissingFiles == Spec => []DescriptorFilesExist
<1>1. DurabilityInv => DescriptorFilesExist
  BY DEF DurabilityInv, PhaseInv, CurrentInv, DescTablesInv,
     DescriptorFilesExist, Cuts
<1> QED
  BY <1>1, Invariance, PTL

\* RemoveObsoleteFiles never deletes a table that a reader, a compaction or the
\* current version uses.
THEOREM ReferencesSafe == Spec => []ReferencedFilesExist
<1>1. ASSUME DurabilityInv
      PROVE  ReferencedFilesExist
  <2>1. CASE Running
    BY <1>1, <2>1, HasTypes, HasVersion, HasCompactOuts DEF TypeOK, VersionInv,
       CompactOutsInv, ReferencedFilesExist
  <2>2. CASE Recovering
    <3>1. reader = {} /\ cin = {}
      BY <1>1, <2>2, HasPhase, HasCompactIdle DEF PhaseInv, CompactIdleInv,
         Recovering
    <3>2. version \subseteq tabFiles
      BY <1>1, <2>2, RecoverTypes, HasTypes, HasDescTables DEF TypeOK,
         DescTablesInv
    <3> QED
      BY <3>1, <3>2 DEF ReferencedFilesExist
  <2>3. CASE ~Running /\ ~Recovering
    BY <1>1, <2>3, HasTypes, HasPhase, HasCompactIdle DEF TypeOK, PhaseInv,
       CompactIdleInv, Running, Recovering, ReferencedFilesExist
  <2> QED
    BY <2>1, <2>2, <2>3
<1> QED
  BY <1>1, Invariance, PTL

\* Every acknowledged write is readable while the database is open: it is in
\* mem_, in imm_ or in a table of the current version.
THEOREM Readability ==
  ASSUME NoTornAppend
  PROVE  Spec => []AckedWritesReadable
<1>1. DurabilityInv => AckedWritesReadable
  BY DEF DurabilityInv, AckedInv, AckedWritesReadable, InTables, Running
<1> QED
  BY <1>1, Invariance, PTL

\* The next sequence number is larger than that of every write in a log or in a
\* table, whatever DB::Open recovered.
THEOREM SequenceFreshness == Spec => []SequenceFresh
<1>1. DurabilityInv => SequenceFresh
  BY DEF DurabilityInv, SeqInv, SeqLogsInv, SequenceFresh, Running
<1> QED
  BY <1>1, Invariance, PTL

\* Recovery is safe for every kind of error and with crashes inside DB::Open:
\* it finds the files it needs and gives out no sequence number twice.
THEOREM RecoverySafety == Spec => []RecoveryIsSafe
  BY NoMissingFiles, SequenceFreshness, PTL DEF RecoveryIsSafe

-----------------------------------------------------------------------------
(* Background errors, with every kind of fault.                            *)

\* Before DB::Open returns nothing runs and no error is recorded; each crash
\* is counted.
ErrorInv ==
  /\ phase # "up" => fpc = "idle" /\ cpc = "idle" /\ wpc = "idle" /\ ~bgError
  /\ crashes \in Nat

\* What BackgroundErrorIsFinal says of one step.
ErrorStays ==
  bgError /\ crashes' = crashes =>
    /\ bgError'
    /\ (wpc = "idle" => wpc' = "idle") /\ (cpc = "idle" => cpc' = "idle")
    /\ logNum' = logNum
    /\ gcLog' \subseteq gcLog /\ gcTab' \subseteq gcTab /\ gcDesc' \subseteq gcDesc

\* A crash is counted, so that the process after it is another one.
LEMMA CrashIsCounted ==
  ASSUME ErrorInv, LoseMemory
  PROVE  ErrorInv' /\ ErrorStays
<1>1. crashes' \in Nat /\ crashes' # crashes
  BY SMTT(30), SMTT(90) DEF ErrorInv, LoseMemory
<1>2. fpc' = "idle" /\ cpc' = "idle" /\ wpc' = "idle" /\ ~bgError'
  BY DEF LoseMemory
<1> QED
  BY <1>1, <1>2 DEF ErrorInv, ErrorStays

\* Every step keeps ErrorInv and does what BackgroundErrorIsFinal says.
LEMMA ErrorStep ==
  ASSUME ErrorInv, [Next]_vars
  PROVE  ErrorInv' /\ ErrorStays
<1> USE DEF ErrorInv, ErrorStays
<1>1. CASE Open
  <2>1. CASE NewDBDescriptor \/ NewDBCurrent
    BY SMTT(30), SMTT(90), <2>1 DEF NewDBDescriptor, NewDBCurrent
  <2>2. CASE RecoverVersion \/ RecoverLogFile \/ RecoverLogDone
    BY SMTT(30), SMTT(90), <2>2 DEF RecoverVersion, RecoverLogFile, RecoverLogDone
  <2>3. ASSUME NEW s \in Seqno, RecoverTable(s)
        PROVE  ErrorInv' /\ ErrorStays
    BY <2>3 DEF RecoverTable
  <2>4. CASE OpenNewLog \/ OpenDescriptor
    BY SMTT(30), SMTT(90), <2>4 DEF OpenNewLog, OpenDescriptor
  <2>5. CASE OpenCurrent
    BY <2>5 DEF OpenCurrent
  <2>6. CASE OpenDone
    BY <2>6 DEF OpenDone
  <2> QED
    BY <1>1, <2>1, <2>2, <2>3, <2>4, <2>5, <2>6 DEF Open
<1>2. CASE Collect
  <2>1. ASSUME NEW n \in File, RemoveLog(n) \/ RemoveTable(n) \/ RemoveDescriptor(n)
        PROVE  ErrorInv' /\ ErrorStays
    BY SMTT(30), SMTT(90), <2>1 DEF RemoveLog, RemoveTable, RemoveDescriptor
  <2> QED
    BY <1>2, <2>1 DEF Collect
<1>3. CASE Write
  <2>1. CASE WriteAppend \/ WriteAppendFails
    BY SMTT(30), SMTT(90), <2>1 DEF WriteAppend, WriteAppendFails
  <2>2. CASE WriteSync \/ WriteSyncFails
    BY SMTT(30), SMTT(90), <2>2 DEF WriteSync, WriteSyncFails
  <2>3. CASE WriteDone
    BY <2>3 DEF WriteDone
  <2> QED
    BY <1>3, <2>1, <2>2, <2>3 DEF Write
<1>4. CASE Flush
  <2>1. CASE FlushBegin
    BY <2>1 DEF FlushBegin, BackgroundReady
  <2>2. CASE FlushBuild \/ FlushAppend
    BY SMTT(30), SMTT(90), <2>2 DEF FlushBuild, FlushAppend
  <2>3. CASE FlushCommit
    BY <2>3 DEF FlushCommit, CollectGarbage
  <2>4. CASE FlushFails
    BY <2>4 DEF FlushFails
  <2> QED
    BY <1>4, <2>1, <2>2, <2>3, <2>4 DEF Flush
<1>5. CASE Compact
  <2>1. CASE OpenCompactionOutputFile \/ CompactAppend
    BY SMTT(30), SMTT(90), <2>1 DEF OpenCompactionOutputFile, CompactAppend, InLoop, BackgroundReady
  <2>2. CASE CompactCommit
    BY <2>2 DEF CompactCommit, CleanupCompaction, CollectGarbage
  <2>3. CASE CompactFails
    <3>1. phase = "up" /\ phase' = phase
      BY <2>3 DEF CompactFails, InLoop, BackgroundReady
    <3> QED
      BY <2>3, <3>1 DEF CompactFails, CleanupCompaction
  <2>4. CASE MoveEnd
    BY SMTT(30), SMTT(90), <2>4 DEF MoveEnd
  <2>5. ASSUME NEW chunk \in SUBSET crem, FinishCompactionOutputFile(chunk)
        PROVE  ErrorInv' /\ ErrorStays
    BY <2>5 DEF FinishCompactionOutputFile
  <2> QED
    BY <1>5, <2>1, <2>2, <2>3, <2>4, <2>5 DEF Compact
<1>6. ASSUME NEW sync \in BOOLEAN, WriteBegin(sync)
      PROVE  ErrorInv' /\ ErrorStays
  BY <1>6 DEF WriteBegin
<1>7. CASE SwitchMemTable \/ ReadBegin \/ ReadEnd
  <2>1. CASE SwitchMemTable
    BY <2>1 DEF SwitchMemTable
  <2>2. CASE ReadBegin
    BY <2>2 DEF ReadBegin
  <2>3. CASE ReadEnd
    BY <2>3 DEF ReadEnd
  <2> QED
    BY <1>7, <2>1, <2>2, <2>3
<1>8. CASE MoveAppend
  BY <1>8 DEF MoveAppend, MayCompact, BackgroundReady
<1>9. ASSUME NEW inputs \in SUBSET version, CompactBegin(inputs)
      PROVE  ErrorInv' /\ ErrorStays
  BY <1>9 DEF CompactBegin, MayCompact, BackgroundReady
<1>10. CASE ProcessCrash \/ MachineCrash
  BY <1>10, CrashIsCounted DEF ProcessCrash, MachineCrash
<1>11. CASE UNCHANGED vars
  BY <1>11 DEF vars
<1> HIDE DEF ErrorInv, ErrorStays
<1> QED
  BY <1>1, <1>2, <1>3, <1>4, <1>5, <1>6, <1>7, <1>8, <1>9, <1>10, <1>11 DEF Next

\* Whatever fails, an append to a log included: a background error lasts until
\* the process ends, and meanwhile no write and no compaction begins, the
\* memtable is not switched and no file is chosen for removal.
THEOREM ErrorIsFinal == Spec => BackgroundErrorIsFinal
<1>1. Init => ErrorInv
  BY SMTT(30), SMTT(90) DEF Init, ErrorInv
<1>2. ErrorInv /\ [Next]_vars => ErrorInv'
  BY ErrorStep
<1>3. ErrorInv /\ [Next]_vars => [ErrorStays]_vars
  BY ErrorStep
<1> QED
  BY <1>1, <1>2, <1>3, PTL DEF Spec, BackgroundErrorIsFinal, ErrorStays

=============================================================================
