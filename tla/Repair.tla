------------------------------- MODULE Repair -------------------------------
(***************************************************************************)
(* RepairDB (db/repair.cc): logs are converted to tables, every table is   *)
(* scanned, a damaged one is copied, and a descriptor listing them all at  *)
(* level 0 is installed.  The process may be killed between any two file   *)
(* operations and repair run again; at most MaxFailures file operations    *)
(* return an error.                                                        *)
(*                                                                         *)
(* A file is named <<type, number>>.  Its data are the sequence numbers of *)
(* the entries a reader gets out of it; it is sound if reading it reports  *)
(* no error.  live is the database directory, lost its subdirectory "lost".*)
(***************************************************************************)
EXTENDS Integers, FiniteSets, FiniteSetsExt, Functions, Sequences, SequencesExt

CONSTANTS Entries,                \* sequence numbers of the entries
          TableNumbers, LogNumbers,
          MaxCrashes, MaxFailures \* bounds

VARIABLES live, lost, pc, logs, table_numbers, tables, next_file_number,
          copy, crashes, failures, base
vars == <<live, lost, pc, logs, table_numbers, tables, next_file_number,
          copy, crashes, failures, base>>

-----------------------------------------------------------------------------
(* db/filename.cc                                                          *)

LogFileName(n) == <<"log", n>>
TableFileName(n) == <<"table", n>>
DescriptorFileName(n) == <<"manifest", n>>
TempFileName(n) == <<"temp", n>>
CurrentFileName == <<"current", 0>>

Without(f, name) == Restrict(f, DOMAIN f \ {name})
With(f, name, file) == [x \in DOMAIN f \cup {name} |->
                          IF x = name THEN file ELSE f[x]]

File(sound, data) == [sound |-> sound, data |-> data]

\* ArchiveFile: the rename replaces a file of the same name archived earlier.
ArchiveFile(name) ==
    /\ lost' = With(lost, name, live[name])
    /\ live' = Without(live, name)

\* Faulty variant: the log is deleted, not archived.
RemoveIt(name) ==
    /\ lost' = lost
    /\ live' = Without(live, name)

ArchiveLog(name) == ArchiveFile(name)

EntriesIn(dir) == UNION {dir[n].data : n \in {x \in DOMAIN dir :
                                               x[1] \in {"log", "table"}}}

MayFail(fails) == fails => failures < MaxFailures
Failed(fails) == failures' = IF fails THEN failures + 1 ELSE failures

-----------------------------------------------------------------------------
\* A directory a database left behind: each table and log holds some entries,
\* all of them readable or not.
Init ==
    /\ \E t \in [TableNumbers -> {File(s, d) : s \in BOOLEAN, d \in SUBSET Entries}],
          l \in [LogNumbers -> {File(TRUE, d) : d \in SUBSET Entries}] :
         live = [n \in {TableFileName(i) : i \in TableNumbers}
                         \cup {LogFileName(i) : i \in LogNumbers}
                         \cup {CurrentFileName, DescriptorFileName(2)} |->
                   IF n[1] = "table" THEN t[n[2]]
                   ELSE IF n[1] = "log" THEN l[n[2]] ELSE File(TRUE, {2})]
    /\ lost = <<>>
    /\ pc = "idle" /\ logs = <<>> /\ table_numbers = <<>> /\ tables = <<>>
    /\ next_file_number = 1 /\ copy = 0 /\ crashes = 0 /\ failures = 0
    /\ base = EntriesIn(live)

Sorted(S) == SetToSortSeq(S, <)
NumbersOf(type) == {n[2] : n \in {x \in DOMAIN live : x[1] = type}}

NextAfter(numbers) == Max(numbers \cup {0}) + 1

FindFiles ==
    /\ pc = "idle"
    /\ pc' = "logs"
    /\ logs' = Sorted(NumbersOf("log"))
    /\ table_numbers' = Sorted(NumbersOf("table"))
    /\ tables' = <<>>
    /\ next_file_number' =
         NextAfter({n[2] : n \in {x \in DOMAIN live : x[1] # "manifest"}})
    /\ base' = EntriesIn(live)
    /\ UNCHANGED <<live, lost, copy, crashes, failures>>

\* ConvertLogToTable with BuildTable, which removes the file on an error.
ConvertLogToTable(fails) ==
    LET data == live[LogFileName(Head(logs))].data
        built == data # {} /\ ~fails
    IN /\ pc = "logs" /\ logs # <<>> /\ copy = 0
       /\ MayFail(fails) /\ Failed(fails)
       /\ live' = IF built THEN With(live, TableFileName(next_file_number),
                                     File(TRUE, data))
                           ELSE live
       /\ table_numbers' = IF built THEN Append(table_numbers, next_file_number)
                                    ELSE table_numbers
       /\ next_file_number' = next_file_number + 1
       /\ copy' = next_file_number
       /\ base' = IF fails THEN base \ data ELSE base
       /\ UNCHANGED <<lost, pc, logs, tables, crashes>>

\* ConvertLogFilesToTables archives the log whether it was converted or not.
ArchiveConvertedLog ==
    /\ pc = "logs" /\ logs # <<>> /\ copy # 0
    /\ ArchiveLog(LogFileName(Head(logs)))
    /\ logs' = Tail(logs) /\ copy' = 0
    /\ UNCHANGED <<pc, table_numbers, tables, next_file_number, crashes,
                   failures, base>>

LogsConverted ==
    /\ pc = "logs" /\ logs = <<>>
    /\ pc' = "scan"
    /\ UNCHANGED <<live, lost, logs, table_numbers, tables, next_file_number,
                   copy, crashes, failures, base>>

Table(number, data) ==
    [number |-> number, max_sequence |-> Max(data \cup {0})]

Source == TableFileName(Head(table_numbers))

\* ScanTable of a sound table.
ScanTable ==
    /\ pc = "scan" /\ table_numbers # <<>> /\ live[Source].sound
    /\ tables' = Append(tables, Table(Head(table_numbers), live[Source].data))
    /\ table_numbers' = Tail(table_numbers)
    /\ UNCHANGED <<live, lost, pc, logs, next_file_number, copy, crashes,
                   failures, base>>

\* RepairTable: NewWritableFile for the copy, unreadable until it is finished.
RepairTable(fails) ==
    /\ pc = "scan" /\ table_numbers # <<>> /\ ~live[Source].sound
    /\ MayFail(fails) /\ Failed(fails)
    /\ next_file_number' = next_file_number + 1
    /\ IF fails
       THEN /\ table_numbers' = Tail(table_numbers)
            /\ base' = base \ live[Source].data
            /\ UNCHANGED <<live, copy, pc>>
       ELSE /\ live' = With(live, TableFileName(next_file_number), File(FALSE, {}))
            /\ copy' = next_file_number
            /\ pc' = "archive"
            /\ UNCHANGED <<table_numbers, base>>
    /\ UNCHANGED <<lost, logs, tables, crashes>>

ArchiveSource ==
    /\ pc = "archive"
    /\ ArchiveFile(Source)
    /\ pc' = "finish"
    /\ UNCHANGED <<logs, table_numbers, tables, next_file_number, copy, crashes,
                   failures, base>>

\* Finish and Close of the copy, or Abandon when nothing was copied; a copy
\* with an error is removed.
FinishCopy(fails) ==
    LET data == lost[Source].data
        to == TableFileName(copy)
    IN /\ pc = "finish"
       /\ MayFail(fails) /\ Failed(fails)
       /\ pc' = IF data # {} /\ ~fails THEN "rename" ELSE "scan"
       /\ live' = IF fails THEN Without(live, to)
                  ELSE IF data = {} THEN live ELSE With(live, to, File(TRUE, data))
       /\ copy' = IF pc' = "scan" THEN 0 ELSE copy
       /\ table_numbers' = IF pc' = "scan" THEN Tail(table_numbers)
                                           ELSE table_numbers
       /\ base' = IF fails THEN base \ data ELSE base
       /\ UNCHANGED <<lost, logs, tables, next_file_number, crashes>>

RenameCopy(fails) ==
    LET from == TableFileName(copy)
        data == live[from].data
    IN /\ pc = "rename"
       /\ MayFail(fails) /\ Failed(fails)
       /\ live' = IF fails THEN Without(live, from)
                  ELSE With(Without(live, from), Source, live[from])
       /\ tables' = IF fails THEN tables
                    ELSE Append(tables, Table(Head(table_numbers), data))
       /\ base' = IF fails THEN base \ data ELSE base
       /\ table_numbers' = Tail(table_numbers)
       /\ copy' = 0 /\ pc' = "scan"
       /\ UNCHANGED <<lost, logs, next_file_number, crashes>>

\* Faulty variant: last-sequence is taken from the table scanned last.
DescriptorOfLast ==
    [files |-> {tables[i].number : i \in DOMAIN tables},
     next |-> next_file_number,
     last_sequence |-> IF tables = <<>> THEN 0 ELSE Last(tables).max_sequence]

Descriptor ==
    [files |-> {tables[i].number : i \in DOMAIN tables},
     next |-> next_file_number,
     last_sequence |-> Max({tables[i].max_sequence : i \in DOMAIN tables} \cup {0})]

\* WriteDescriptor: the new descriptor under a temporary name.
WriteDescriptor(fails) ==
    /\ pc = "scan" /\ table_numbers = <<>>
    /\ MayFail(fails) /\ Failed(fails)
    /\ pc' = IF fails THEN "failed" ELSE "manifests"
    /\ live' = IF fails THEN live ELSE With(live, TempFileName(1), File(TRUE, Descriptor))
    /\ UNCHANGED <<lost, logs, table_numbers, tables, next_file_number, copy,
                   crashes, base>>

\* Every manifest that FindFiles listed.
ArchiveManifest ==
    /\ pc = "manifests"
    /\ \E n \in NumbersOf("manifest") : ArchiveFile(DescriptorFileName(n))
    /\ UNCHANGED <<pc, logs, table_numbers, tables, next_file_number, copy,
                   crashes, failures, base>>

InstallManifest(fails) ==
    /\ pc = "manifests" /\ NumbersOf("manifest") = {}
    /\ MayFail(fails) /\ Failed(fails)
    /\ pc' = IF fails THEN "failed" ELSE "current"
    /\ live' = IF fails THEN Without(live, TempFileName(1))
               ELSE With(Without(live, TempFileName(1)), DescriptorFileName(1),
                         live[TempFileName(1)])
    /\ UNCHANGED <<lost, logs, table_numbers, tables, next_file_number, copy,
                   crashes, base>>

SetCurrentFile(fails) ==
    /\ pc = "current"
    /\ MayFail(fails) /\ Failed(fails)
    /\ pc' = IF fails THEN "failed" ELSE "done"
    /\ live' = IF fails THEN live ELSE With(live, CurrentFileName, File(TRUE, {1}))
    /\ UNCHANGED <<lost, logs, table_numbers, tables, next_file_number, copy,
                   crashes, base>>

\* The process is killed, or repair has failed; it is run again.
RunAgain ==
    /\ pc # "idle" /\ crashes < MaxCrashes
    /\ crashes' = crashes + 1
    /\ pc' = "idle" /\ copy' = 0
    /\ UNCHANGED <<live, lost, logs, table_numbers, tables, next_file_number,
                   failures, base>>

Next ==
    \/ FindFiles \/ ArchiveConvertedLog \/ LogsConverted \/ ScanTable
    \/ ArchiveSource \/ ArchiveManifest \/ RunAgain
    \/ \E fails \in BOOLEAN :
         \/ ConvertLogToTable(fails) \/ RepairTable(fails) \/ FinishCopy(fails)
         \/ RenameCopy(fails) \/ WriteDescriptor(fails) \/ InstallManifest(fails)
         \/ SetCurrentFile(fails)

Spec == Init /\ [][Next]_vars

-----------------------------------------------------------------------------
\* Whatever fails, and wherever repair is killed and however often it is run
\* again, an entry that could be read once can still be read, in the database
\* directory or under "lost".
EntriesSurvive == [][EntriesIn(live) \cup EntriesIn(lost)
                       \subseteq EntriesIn(live') \cup EntriesIn(lost')]_vars

\* When RepairDB returns OK, CURRENT names the new descriptor; every table it
\* lists is there and sound; last-sequence is not below an entry, and the next
\* file number is above every file; and every entry that was readable when this
\* run of repair began is in a listed table, but for the tables and logs whose
\* conversion reported an error.
RepairedIsComplete ==
    pc = "done" =>
      LET d == live[DescriptorFileName(1)].data
          listed == {TableFileName(n) : n \in d.files}
      IN /\ live[CurrentFileName].data = {1}
         /\ listed \subseteq DOMAIN live
         /\ \A n \in listed : live[n].sound /\ n[2] < d.next
         /\ base \subseteq EntriesIn(Restrict(live, listed))
         /\ \A n \in listed : \A e \in live[n].data : e <= d.last_sequence
=============================================================================
