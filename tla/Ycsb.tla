-------------------------------- MODULE Ycsb --------------------------------
(***************************************************************************)
(* The benchmark that drives the database (ycsb-cpp): main's load and      *)
(* transaction phase, the client threads with their latch and the status   *)
(* thread (core/ycsbc.cc, core/client.h, utils/countdown_latch.h), the     *)
(* workload's key generators (core/core_workload.cc,                       *)
(* core/acknowledged_counter_generator.cc), the counters of DBWrapper and  *)
(* the binding to the database (leveldb/leveldb_db.cc).                    *)
(*                                                                         *)
(* The database itself is a map of names to values whose operations are    *)
(* atomic: what the other modules are about.  A name is a sequence of      *)
(* digits, a colon and the number of a field, ordered as bytes are.        *)
(***************************************************************************)
EXTENDS Integers, Sequences, FiniteSets, SequencesExt, FiniteSetsExt

CONSTANTS
  Phases,            \* the possible command lines: sets of "load" and "run"
  Formats,           \* subset of {"single", "row", "column"}
  num_threads,
  record_count_, operation_count,
  fieldcount_,
  kWindowSize,
  MaxKeys,           \* bound on the number of keys of a run
  KeyName,           \* number of a record -> the digits of its key
  Operations,        \* operations with a positive proportion
  zero_lookup_rate   \* 0, or 1 for a rate above 0

VARIABLES
  opts,     \* [phases, format]: properties given on the command line
  phase,    \* "start", "load", "reset", "run", "end", "exit" or "undefined"
  c,        \* the client threads
  latch, status,
  ref_cnt_, db_,
  store,    \* the contents of the database
  insert_key_sequence_,
  counter_, limit_, ack_window_,  \* transaction_insert_key_sequence_
  count_,   \* operations reported to the measurements
  shown,    \* the count in the last status message
  hist      \* history: [last, clash, overrun, late]

vars == <<opts, phase, c, latch, status, ref_cnt_, db_, store, insert_key_sequence_,
          counter_, limit_, ack_window_, count_, shown, hist>>
generators == <<insert_key_sequence_, counter_, limit_, ack_window_>>

Threads == 0 .. num_threads - 1
Keys == 0 .. MaxKeys - 1
Fields == 0 .. fieldcount_ - 1
-----------------------------------------------------------------------------
(* Rows as data, and names.                                                *)

SerializeRow(values) == FlattenSeq([i \in DOMAIN values |-> <<values[i].name, values[i].value>>])

DeserializeRow(data) ==
  [i \in 1 .. Len(data) \div 2 |-> [name |-> data[2 * i - 1], value |-> data[2 * i]]]

\* The scan for the names wanted goes over the row once.
RECURSIVE Filtered(_, _)
Filtered(row, fields) ==
  IF row = <<>> \/ fields = <<>> THEN <<>>
  ELSE IF Head(row).name = Head(fields) THEN <<Head(row)>> \o Filtered(Tail(row), Tail(fields))
  ELSE Filtered(Tail(row), fields)

DeserializeRowFilter(data, fields) == Filtered(DeserializeRow(data), fields)

Colon == 10          \* above the digits 0 .. 9
FieldName(f) == 11 + f

BuildCompKey(format, k, f) ==
  IF format = "row" THEN KeyName[k] \o <<Colon, FieldName(f)>> ELSE <<FieldName(f), Colon>> \o KeyName[k]

KeyFromCompKey(name) == SelectSeq(name, LAMBDA b : b < Colon)
FieldFromCompKey(name) == Last(name) - 11

Less(a, b) ==
  \E n \in 0 .. Len(b) - 1 :
    /\ n <= Len(a) /\ \A i \in 1 .. n : a[i] = b[i]
    /\ n = Len(a) \/ a[n + 1] < b[n + 1]

RECURSIVE InOrder(_)
InOrder(S) ==
  IF S = {} THEN <<>>
  ELSE LET first == CHOOSE a \in S : \A b \in S : ~Less(b, a) IN <<first>> \o InOrder(S \ {first})

\* A new iterator after Seek(target): the names from there on.
Seek(s, target) == InOrder({n \in DOMAIN s : ~Less(n, target)})

Put(s, name, data) == [n \in DOMAIN s \cup {name} |-> IF n = name THEN data ELSE s[n]]
-----------------------------------------------------------------------------
(* The database binding: LeveldbDB::Read, Scan, Insert and Update.         *)

Result(s, row) == [status |-> s, row |-> row]

ReadSingleEntry(s, k, fields, missing) ==
  IF missing THEN Result("kOK", <<>>)
  ELSE IF KeyName[k] \notin DOMAIN s THEN Result("kNotFound", <<>>)
  ELSE Result("kOK", DeserializeRowFilter(s[KeyName[k]], fields))

ScanSingleEntry(s, k, len, fields) ==
  LET names == Seek(s, KeyName[k])
  IN  [i \in 1 .. Min({len, Len(names)}) |-> DeserializeRowFilter(s[names[i]], fields)]

\* The fields of one row, from where the iterator stands.
FieldsAt(s, names, fields) ==
  Filtered([i \in 1 .. Min({fieldcount_, Len(names)}) |->
              [name |-> FieldFromCompKey(names[i]), value |-> s[names[i]]]], fields)

ReadCompKeyRM(s, k, fields) ==
  LET names == Seek(s, KeyName[k])
  IN  IF names = <<>> THEN Result("kNotFound", <<>>)
      ELSE IF KeyFromCompKey(names[1]) # KeyName[k] THEN Result("kNotFound", <<>>)
      ELSE Result("kOK", FieldsAt(s, names, fields))

\* Steps over fieldcount_ entries, or up to the last field that is wanted.
RECURSIVE ScanRows(_, _, _, _)
ScanRows(s, names, len, fields) ==
  IF len = 0 \/ names = <<>> THEN <<>>
  ELSE LET row == FieldsAt(s, names, fields)
           used == IF Len(row) = Len(fields)
                   THEN Min({i \in DOMAIN names : FieldFromCompKey(names[i]) = Last(fields)})
                   ELSE Min({fieldcount_, Len(names)})
       IN  <<row>> \o ScanRows(s, SubSeq(names, used + 1, Len(names)), len - 1, fields)

ScanCompKeyRM(s, k, len, fields) == ScanRows(s, Seek(s, KeyName[k]), len, fields)

Read(s, k, fields, missing) ==
  CASE opts.format = "single" -> ReadSingleEntry(s, k, fields, missing)
    [] opts.format = "row" -> ReadCompKeyRM(s, k, fields)
    [] opts.format = "column" -> Result("kNotImplemented", <<>>)

InsertCompKey(s, k, values) ==
  FoldLeft(LAMBDA st, v : Put(st, BuildCompKey(opts.format, k, v.name), v.value), s, values)

Insert(s, k, values) ==
  IF opts.format = "single" THEN Put(s, KeyName[k], SerializeRow(values))
                            ELSE InsertCompKey(s, k, values)

ModifiedFirst(row, v) == [row EXCEPT ![1].value = v.value]

\* The loop of UpdateSingleEntry over the fields of the row that was read.
Modified(row, v) == [i \in DOMAIN row |-> IF row[i].name = v.name THEN v ELSE row[i]]

\* IsExistedKey answers TRUE when the random number is not below the rate, and
\* ReadSingleEntry then looks for a key that is missing.
IsExistedKey == IF zero_lookup_rate = 0 THEN {TRUE} ELSE BOOLEAN
-----------------------------------------------------------------------------
(* The acknowledged counter: limit_ is the last key up to which all are    *)
(* inserted.                                                               *)

Slot(i) == i % kWindowSize

AcknowledgedTo(w, limit, value) == value

\* The first i in limit + 1 .. limit + kWindowSize - 1 that is not acknowledged, less 1.
NewLimit(w, limit, value) ==
  LET until == limit + kWindowSize
  IN  Min({until} \cup {i \in limit + 1 .. until - 1 : ~w[Slot(i)]}) - 1

Acknowledge(value) ==
  LET w == [ack_window_ EXCEPT ![Slot(value)] = TRUE]
      limit == NewLimit(w, limit_, value)
  IN  /\ limit_' = limit
      /\ ack_window_' = [s \in DOMAIN w |-> w[s] /\ \A i \in limit_ + 1 .. limit : Slot(i) # s]
-----------------------------------------------------------------------------
(* main.                                                                   *)

RowOf(value) == [i \in 1 .. fieldcount_ |-> [name |-> i - 1, value |-> value]]
Loaded == 0 .. record_count_ - 1
Idle == [pc |-> "idle", left |-> 0, key |-> 0, field |-> 0, row |-> <<>>, rmw |-> FALSE]
OldValue == 100  \* what an earlier run of the load phase wrote

Init ==
  /\ opts \in [phases : Phases, format : Formats]
  /\ phase = "start"
  /\ c = [t \in Threads |-> Idle]
  /\ latch = 0 /\ status = "none"
  /\ ref_cnt_ = 0 /\ db_ = "null"
  /\ store = IF "load" \in opts.phases THEN <<>>
             ELSE FoldLeft(LAMBDA s, k : Insert(s, k, RowOf(OldValue)), <<>>, SetToSeq(Loaded))
  /\ insert_key_sequence_ = 0
  /\ counter_ = record_count_ /\ limit_ = record_count_ - 1
  /\ ack_window_ = [s \in 0 .. kWindowSize - 1 |-> FALSE]
  /\ count_ = [ok |-> 0, failed |-> 0] /\ shown = 0
  /\ hist = [last |-> [k \in Keys |-> [f \in Fields |->
                         IF k \in Loaded /\ "load" \notin opts.phases THEN OldValue ELSE 0]],
             clash |-> {}, overrun |-> FALSE, late |-> FALSE]

thread_ops(total_ops, t) ==
  (total_ops \div num_threads) + (IF t < total_ops % num_threads THEN 1 ELSE 0)

StartClients(p, total_ops, init_db) ==
  /\ phase' = p
  /\ latch' = num_threads
  /\ status' = "report"
  /\ c' = [t \in Threads |-> [Idle EXCEPT !.pc = IF init_db THEN "init" ELSE "loop",
                                          !.left = thread_ops(total_ops, t)]]

StartLoad ==
  /\ phase = "start" /\ "load" \in opts.phases
  /\ StartClients("load", record_count_, TRUE)
  /\ UNCHANGED <<opts, ref_cnt_, db_, store, generators, count_, shown, hist>>

\* All futures are ready: the clients', then the status thread's.
Joined == status = "done" /\ \A t \in Threads : c[t].pc = "idle"

\* measurements->Reset() between the phases, or before the only one.
ResetMeasurements ==
  /\ \/ phase = "load" /\ Joined
     \/ phase = "start" /\ "load" \notin opts.phases
  /\ phase' = "reset" /\ count_' = [ok |-> 0, failed |-> 0] /\ shown' = 0
  /\ UNCHANGED <<opts, c, latch, status, ref_cnt_, db_, store, generators, hist>>

StartRun ==
  /\ phase = "reset" /\ "run" \in opts.phases
  /\ StartClients("run", operation_count, "load" \notin opts.phases)
  /\ UNCHANGED <<opts, ref_cnt_, db_, store, generators, count_, shown, hist>>

End ==
  /\ \/ phase = "run" /\ Joined
     \/ phase = "reset" /\ "run" \notin opts.phases
  /\ phase' = "end"
  /\ UNCHANGED <<opts, c, latch, status, ref_cnt_, db_, store, generators, count_, shown, hist>>
-----------------------------------------------------------------------------
(* StatusThread.                                                           *)

Running == phase \in {"load", "run"}

GetStatusMsg ==
  /\ Running /\ status \in {"report", "last"}
  /\ shown' = count_.ok + count_.failed
  /\ status' = IF status = "last" THEN "done" ELSE "wait"
  /\ UNCHANGED <<opts, phase, c, latch, ref_cnt_, db_, store, generators, count_, hist>>

DoneAnyway == TRUE
\* What AwaitFor returns, after a notification or the timeout.
AwaitFor == latch <= 0

AwaitReturns ==
  /\ Running /\ status = "wait"
  /\ status' = IF AwaitFor THEN "last" ELSE "report"
  /\ UNCHANGED <<opts, phase, c, latch, ref_cnt_, db_, store, generators, count_, shown, hist>>
-----------------------------------------------------------------------------
(* ClientThread.                                                           *)

At(t, pc) == Running /\ c[t].pc = pc
Client(t, r) == c' = [c EXCEPT ![t] = r]
Goto(t, pc) == Client(t, [c[t] EXCEPT !.pc = pc])
NextOp(t) == Client(t, [Idle EXCEPT !.pc = "loop", !.left = c[t].left - 1])

\* An exception that ClientThread catches: exit(1).
Throw ==
  /\ phase' = "exit"
  /\ UNCHANGED <<opts, c, latch, status, ref_cnt_, db_, store, generators, count_, shown, hist>>

\* LeveldbDB::Init: the first opens the database.
InitDB(t) ==
  /\ At(t, "init")
  /\ \/ Throw
     \/ /\ ref_cnt_' = ref_cnt_ + 1
        /\ db_' = IF db_ = "null" THEN "open" ELSE db_
        /\ hist' = [hist EXCEPT !.late = @ \/ db_ = "deleted"]
        /\ Goto(t, "loop")
        /\ UNCHANGED <<opts, phase, latch, status, store, generators, count_, shown>>

AnyOut(n) == TRUE
LastOut(n) == n = 0

\* LeveldbDB::Cleanup: the last deletes the database; the pointer stays.
Cleanup(t) ==
  /\ At(t, "loop") /\ c[t].left = 0
  /\ phase = "run" \/ "run" \notin opts.phases
  /\ ref_cnt_' = ref_cnt_ - 1
  /\ db_' = IF LastOut(ref_cnt_ - 1) THEN "deleted" ELSE db_
  /\ Goto(t, "countdown")
  /\ UNCHANGED <<opts, phase, latch, status, store, generators, count_, shown, hist>>

SkipCleanup(t) ==
  /\ At(t, "loop") /\ c[t].left = 0
  /\ phase = "load" /\ "run" \in opts.phases
  /\ Goto(t, "countdown")
  /\ UNCHANGED <<opts, phase, latch, status, ref_cnt_, db_, store, generators, count_, shown, hist>>

CountDown(t) ==
  /\ At(t, "countdown")
  /\ latch' = latch - 1
  /\ Goto(t, "idle")
  /\ UNCHANGED <<opts, phase, status, ref_cnt_, db_, store, generators, count_, shown, hist>>
-----------------------------------------------------------------------------
(* The operations of CoreWorkload.                                         *)

Begins(t, p) == At(t, "loop") /\ c[t].left > 0 /\ phase = p

\* DoInsert, until the key is taken.
DoInsert(t) ==
  /\ Begins(t, "load")
  /\ insert_key_sequence_' = insert_key_sequence_ + 1
  /\ Client(t, [c[t] EXCEPT !.pc = "insert", !.key = insert_key_sequence_])
  /\ UNCHANGED <<opts, phase, latch, status, ref_cnt_, db_, store, counter_, limit_, ack_window_,
                 count_, shown, hist>>

TransactionInsert(t) ==
  /\ Begins(t, "run") /\ "INSERT" \in Operations
  /\ counter_ < MaxKeys
  /\ counter_' = counter_ + 1
  /\ Client(t, [c[t] EXCEPT !.pc = "insert", !.key = counter_])
  /\ UNCHANGED <<opts, phase, latch, status, ref_cnt_, db_, store, insert_key_sequence_, limit_,
                 ack_window_, count_, shown, hist>>

\* NextTransactionKeyNum repeats until the key is not above the last acknowledged one.
NextTransactionKeyNum == {k \in Keys : k <= limit_}

TransactionStart(t) ==
  /\ Begins(t, "run")
  /\ \E op \in Operations \cap {"READ", "SCAN", "UPDATE", "READMODIFYWRITE"},
        k \in NextTransactionKeyNum, f \in Fields :
       Client(t, [c[t] EXCEPT !.key = k, !.field = f, !.rmw = op = "READMODIFYWRITE",
                              !.pc = CASE op = "SCAN" -> "scan" [] op = "UPDATE" -> "update"
                                       [] OTHER -> "read"])
  /\ UNCHANGED <<opts, phase, latch, status, ref_cnt_, db_, store, generators, count_, shown, hist>>

\* A call on the database object, which may no longer be there.
UseDB(t, pc) == At(t, pc) /\ db_ = "open"

UseDeletedDB(t) ==
  /\ Running /\ c[t].pc \in {"insert", "read", "scan", "update", "put"} /\ db_ # "open"
  /\ phase' = "undefined"
  /\ UNCHANGED <<opts, c, latch, status, ref_cnt_, db_, store, generators, count_, shown, hist>>

\* DBWrapper: every call is counted, under its name or as failed.
Report(s) == IF s = "kOK" THEN [count_ EXCEPT !.ok = @ + 1] ELSE [count_ EXCEPT !.failed = @ + 1]

DoInsertCall(t) ==
  /\ UseDB(t, "insert")
  /\ \/ Throw
     \/ /\ store' = Insert(store, c[t].key, RowOf(t + 1))
        /\ hist' = [hist EXCEPT !.last[c[t].key] = [f \in Fields |-> t + 1]]
        /\ count_' = Report("kOK")
        /\ IF phase = "load" THEN NextOp(t) ELSE Goto(t, "ack")
        /\ UNCHANGED <<opts, phase, latch, status, ref_cnt_, db_, generators, shown>>

DoAcknowledge(t) ==
  /\ At(t, "ack")
  /\ IF ack_window_[Slot(c[t].key)] THEN Throw
     ELSE /\ Acknowledge(c[t].key)
          /\ hist' = [hist EXCEPT !.overrun = @ \/ c[t].key > limit_ + kWindowSize]
          /\ NextOp(t)
          /\ UNCHANGED <<opts, phase, latch, status, ref_cnt_, db_, store, insert_key_sequence_,
                         counter_, count_, shown>>

DoRead(t) ==
  /\ UseDB(t, "read")
  /\ \E missing \in IsExistedKey : count_' = Report(Read(store, c[t].key, <<c[t].field>>, missing).status)
  /\ IF c[t].rmw THEN Goto(t, "update") ELSE NextOp(t)
  /\ UNCHANGED <<opts, phase, latch, status, ref_cnt_, db_, store, generators, shown, hist>>

DoScan(t) ==
  /\ UseDB(t, "scan")
  /\ count_' = Report(IF opts.format = "column" THEN "kNotImplemented" ELSE "kOK")
  /\ NextOp(t)
  /\ UNCHANGED <<opts, phase, latch, status, ref_cnt_, db_, store, generators, shown, hist>>

NewField(t) == [name |-> c[t].field, value |-> t + 1]

\* UpdateSingleEntry: Get, which may find nothing.
UpdateGet(t) ==
  /\ UseDB(t, "update") /\ opts.format = "single"
  /\ LET k == c[t].key
         found == KeyName[k] \in DOMAIN store
         others == {u \in Threads \ {t} : c[u].pc = "put" /\ c[u].key = k}
     IN  /\ IF found
            THEN Client(t, [c[t] EXCEPT !.pc = "put",
                                        !.row = Modified(DeserializeRow(store[KeyName[k]]), NewField(t))])
            ELSE NextOp(t)
         /\ count_' = IF found THEN count_ ELSE Report("kNotFound")
         /\ hist' = IF found /\ others # {} THEN [hist EXCEPT !.clash = @ \cup {k}] ELSE hist
  /\ UNCHANGED <<opts, phase, latch, status, ref_cnt_, db_, store, generators, shown>>

Wrote(t) ==
  /\ hist' = [hist EXCEPT !.last[c[t].key][c[t].field] = t + 1]
  /\ count_' = Report("kOK")
  /\ NextOp(t)

UpdatePut(t) ==
  /\ UseDB(t, "put")
  /\ \/ Throw
     \/ /\ store' = Put(store, KeyName[c[t].key], SerializeRow(c[t].row))
        /\ Wrote(t)
        /\ UNCHANGED <<opts, phase, latch, status, ref_cnt_, db_, generators, shown>>

UpdateCompKey(t) ==
  /\ UseDB(t, "update") /\ opts.format # "single"
  /\ \/ Throw
     \/ /\ store' = InsertCompKey(store, c[t].key, <<NewField(t)>>)
        /\ Wrote(t)
        /\ UNCHANGED <<opts, phase, latch, status, ref_cnt_, db_, generators, shown>>
-----------------------------------------------------------------------------
Next ==
  \/ StartLoad \/ ResetMeasurements \/ StartRun \/ End
  \/ GetStatusMsg \/ AwaitReturns
  \/ \E t \in Threads :
       \/ InitDB(t) \/ Cleanup(t) \/ SkipCleanup(t) \/ CountDown(t)
       \/ DoInsert(t) \/ TransactionInsert(t) \/ TransactionStart(t) \/ UseDeletedDB(t)
       \/ DoInsertCall(t) \/ DoAcknowledge(t) \/ DoRead(t) \/ DoScan(t)
       \/ UpdateGet(t) \/ UpdatePut(t) \/ UpdateCompKey(t)

Spec == Init /\ [][Next]_vars
-----------------------------------------------------------------------------
NameOf(k) == IF opts.format = "single" THEN KeyName[k] ELSE BuildCompKey(opts.format, k, 0)
Present == {k \in Keys : NameOf(k) \in DOMAIN store}

Extended(k) == \E j \in Present \ {k} : IsPrefix(KeyName[k], KeyName[j])

(***************************************************************************)
(* NextTransactionKeyNum only picks keys that are in the database: limit_  *)
(* does not pass a key whose insert by another thread is still under way.  *)
(* The window makes this true only while no insert lags by its size; such  *)
(* an overrun is not always noticed (the exception needs an occupied       *)
(* slot).  So no operation is counted as failed, but for the formats that  *)
(* cannot find a key.                                                      *)
(***************************************************************************)
ChosenKeysExist ==
  Running /\ ~hist.overrun =>
    /\ \A t \in Threads : c[t].pc \in {"read", "scan", "update", "put"} => c[t].key \in Present
    /\ count_.failed = 0 \/ opts.format = "column"
       \/ (opts.format = "row" /\ \E k \in Present : Extended(k))

Row(k, f) == <<[name |-> f, value |-> hist.last[k][f]]>>

(***************************************************************************)
(* Reading a present key returns for every field the value written last,   *)
(* through SerializeRow and DeserializeRowFilter as through composite      *)
(* keys, and a scan starts with that row.  Two exceptions: in the single   *)
(* format an update reads and writes the whole row, so updates of one key  *)
(* that overlap lose one; in the row format a key that is a prefix of      *)
(* another key's name is not found, since ':' sorts above the digits.      *)
(***************************************************************************)
LastWritesAreRead ==
  ~hist.overrun =>
    \A k \in Present, f \in Fields :
      /\ opts.format = "single" /\ k \notin hist.clash =>
           /\ ReadSingleEntry(store, k, <<f>>, FALSE) = Result("kOK", Row(k, f))
           /\ Head(ScanSingleEntry(store, k, 2, <<f>>)) = Row(k, f)
      /\ opts.format = "row" /\ ~Extended(k) =>
           /\ Read(store, k, <<f>>, FALSE) = Result("kOK", Row(k, f))
           /\ Head(ScanCompKeyRM(store, k, 2, <<f>>)) = Row(k, f)

(***************************************************************************)
(* The last status message of a phase is complete, and so is the phase:    *)
(* the thread prints once more after the latch opened, when every client   *)
(* has reported its operations; the shares of the threads add up to the    *)
(* number asked for; loading inserts exactly the records that the          *)
(* transactions later expect.                                              *)
(***************************************************************************)
PhasesAreComplete ==
  Running /\ Joined =>
    /\ shown = count_.ok + count_.failed
    /\ phase = "load" => count_ = [ok |-> record_count_, failed |-> 0] /\ Present = Loaded
    /\ phase = "run" => shown >= operation_count

(***************************************************************************)
(* No client uses the database after the last Cleanup deleted it.  Where   *)
(* one command line runs both phases that is certain; where it runs one, a *)
(* client whose Init comes after all others have finished finds db_        *)
(* dangling, not null, and only then does it happen.                       *)
(***************************************************************************)
DatabaseIsOpenWhenUsed ==
  phase = "undefined" => Cardinality(opts.phases) = 1 /\ hist.late
=============================================================================
