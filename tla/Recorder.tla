------------------------------ MODULE Recorder ------------------------------
(***************************************************************************)
(* The interval recorder of the benchmark's histogram library              *)
(* (HdrHistogram_c/src/hdr_interval_recorder.c): writers record into the   *)
(* active histogram without a lock while readers exchange it for an empty  *)
(* one.  The writer-reader phaser (hdr_writer_reader_phaser.c) holds a     *)
(* reader back until no writer can still be in the histogram it took.      *)
(*                                                                         *)
(* A histogram is reduced to two of its counters, which                    *)
(* counts_inc_normalised_atomic increases one after the other.             *)
(***************************************************************************)
EXTENDS Integers, FiniteSets

CONSTANTS
  Writers, Readers,
  MaxRecords,   \* bound on the calls of all writers
  MaxSamples,   \* bound on the calls of one reader
  INT64_MIN,    \* where an odd phase starts, farther from 0 than MaxRecords
  None

First == "first"    \* the histogram that init makes; the one a reader makes first has its name
Histograms == Readers \cup {First}
Empty == [count |-> 0, total |-> 0]

VARIABLES
  phaser,     \* [start, even, odd: the epochs, mutex: who holds reader_mutex]
  active,     \* r->active
  hist,       \* the contents of every histogram
  writer,     \* [pc, val, h, todo] of every writer
  reader,     \* [pc, own: the histogram it holds, even, at, calls] of every reader
  calls,      \* how many calls writers made
  recorded,   \* history: how many values were counted
  sampled     \* history: how many values readers were handed

vars == <<phaser, active, hist, writer, reader, calls, recorded, sampled>>

Init ==
  /\ phaser = [start |-> 0, even |-> 0, odd |-> INT64_MIN, mutex |-> None]
  /\ active = First
  /\ hist = [h \in Histograms |-> Empty]
  /\ writer = [w \in Writers |-> [pc |-> "idle", val |-> 0, h |-> None, todo |-> 0]]
  /\ reader = [r \in Readers |-> [pc |-> "idle", own |-> r, even |-> FALSE, at |-> 0, calls |-> 0]]
  /\ calls = 0 /\ recorded = 0 /\ sampled = 0
-----------------------------------------------------------------------------
(* hdr_interval_recorder_update.  A corrected value is recorded together   *)
(* with the values that the stall hid, one after the other.                *)

\* A plain call, and a corrected one with one hidden value.
ValuesPerCall == 1 .. 2

WriterEnter(w, n) ==
  /\ writer[w].pc = "idle" /\ calls < MaxRecords
  /\ phaser' = [phaser EXCEPT !.start = @ + 1]
  /\ writer' = [writer EXCEPT ![w] = [@ EXCEPT !.pc = "load", !.val = phaser.start + 1,
                                             !.todo = n]]
  /\ calls' = calls + 1
  /\ UNCHANGED <<active, hist, reader, recorded, sampled>>

LoadActive(w) ==
  /\ writer[w].pc = "load"
  /\ writer' = [writer EXCEPT ![w] = [@ EXCEPT !.pc = "count", !.h = active]]
  /\ UNCHANGED <<phaser, active, hist, reader, calls, recorded, sampled>>

\* A value out of range is refused, and with it the rest of the call.
RecordFails(w) ==
  /\ writer[w].pc = "count"
  /\ writer' = [writer EXCEPT ![w].pc = "exit"]
  /\ UNCHANGED <<phaser, active, hist, reader, calls, recorded, sampled>>

IncrementCount(w) ==
  /\ writer[w].pc = "count"
  /\ hist' = [hist EXCEPT ![writer[w].h].count = @ + 1]
  /\ recorded' = recorded + 1
  /\ writer' = [writer EXCEPT ![w].pc = "total"]
  /\ UNCHANGED <<phaser, active, reader, calls, sampled>>

IncrementTotal(w) ==
  /\ writer[w].pc = "total"
  /\ hist' = [hist EXCEPT ![writer[w].h].total = @ + 1]
  /\ writer' = [writer EXCEPT ![w] = [@ EXCEPT !.todo = writer[w].todo - 1,
                                    !.pc = IF writer[w].todo > 1 THEN "count" ELSE "exit"]]
  /\ UNCHANGED <<phaser, active, reader, calls, recorded, sampled>>

WriterExitEven(w) ==
  /\ writer[w].pc = "exit"
  /\ phaser' = [phaser EXCEPT !.even = @ + 1]
  /\ writer' = [writer EXCEPT ![w] = [@ EXCEPT !.pc = "idle", !.h = None]]
  /\ UNCHANGED <<active, hist, reader, calls, recorded, sampled>>

\* The sign of the epoch seen on entry tells which phase is left.
WriterExit(w) ==
  /\ writer[w].pc = "exit"
  /\ phaser' = IF writer[w].val < 0 THEN [phaser EXCEPT !.odd = @ + 1]
                                     ELSE [phaser EXCEPT !.even = @ + 1]
  /\ writer' = [writer EXCEPT ![w] = [@ EXCEPT !.pc = "idle", !.h = None]]
  /\ UNCHANGED <<active, hist, reader, calls, recorded, sampled>>
-----------------------------------------------------------------------------
(* hdr_interval_recorder_sample_and_recycle.  A reader hands in the        *)
(* histogram it got last, which is emptied before the lock is taken.       *)

Recycle(r) ==
  /\ reader[r].pc = "idle" /\ reader[r].calls < MaxSamples
  /\ hist' = [hist EXCEPT ![reader[r].own] = Empty]
  /\ reader' = [reader EXCEPT ![r] = [@ EXCEPT !.pc = "lock", !.calls = reader[r].calls + 1]]
  /\ UNCHANGED <<phaser, active, writer, calls, recorded, sampled>>

ReaderLock(r) ==
  /\ reader[r].pc = "lock" /\ phaser.mutex = None
  /\ phaser' = [phaser EXCEPT !.mutex = r]
  /\ reader' = [reader EXCEPT ![r].pc = "exchange"]
  /\ UNCHANGED <<active, hist, writer, calls, recorded, sampled>>

\* Only the holder of the mutex writes r->active, so load and store are one step.
ExchangeActive(r) ==
  /\ reader[r].pc = "exchange"
  /\ active' = reader[r].own
  /\ reader' = [reader EXCEPT ![r] = [@ EXCEPT !.pc = "phase", !.own = active]]
  /\ UNCHANGED <<phaser, hist, writer, calls, recorded, sampled>>

\* hdr_phaser_flip_phase: the end epoch of the next phase is set back first.
ClearEndEpoch(r) ==
  /\ reader[r].pc = "phase"
  /\ LET even == phaser.start < 0 IN
     /\ phaser' = IF even THEN [phaser EXCEPT !.even = 0] ELSE [phaser EXCEPT !.odd = INT64_MIN]
     /\ reader' = [reader EXCEPT ![r] = [@ EXCEPT !.pc = "reset", !.even = even]]
  /\ UNCHANGED <<active, hist, writer, calls, recorded, sampled>>

ResetStartEpoch(r) ==
  /\ reader[r].pc = "reset"
  /\ phaser' = [phaser EXCEPT !.start = IF reader[r].even THEN 0 ELSE INT64_MIN]
  /\ reader' = [reader EXCEPT ![r] = [@ EXCEPT !.pc = "wait", !.at = phaser.start]]
  /\ UNCHANGED <<active, hist, writer, calls, recorded, sampled>>

CaughtUpBehind(r) == reader[r].at - (IF reader[r].even THEN phaser.odd ELSE phaser.even) <= 1
CaughtUp(r) == reader[r].at = IF reader[r].even THEN phaser.odd ELSE phaser.even

\* The unlock and the return of the old histogram.
ReaderUnlock(r) ==
  /\ reader[r].pc = "wait" /\ CaughtUp(r)
  /\ phaser' = [phaser EXCEPT !.mutex = None]
  /\ reader' = [reader EXCEPT ![r].pc = "idle"]
  /\ sampled' = sampled + hist[reader[r].own].total
  /\ UNCHANGED <<active, hist, writer, calls, recorded>>

Write(w) ==
  \/ LoadActive(w)
  \/ RecordFails(w)
  \/ IncrementCount(w)
  \/ IncrementTotal(w)
  \/ WriterExit(w)

Sample(r) ==
  \/ ReaderLock(r)
  \/ ExchangeActive(r)
  \/ ClearEndEpoch(r)
  \/ ResetStartEpoch(r)
  \/ ReaderUnlock(r)

Next ==
  \/ \E w \in Writers : Write(w) \/ \E n \in ValuesPerCall : WriterEnter(w, n)
  \/ \E r \in Readers : Sample(r) \/ Recycle(r)

\* All calls of a bounded instance were made.
Finished ==
  /\ calls = MaxRecords /\ \A w \in Writers : writer[w].pc = "idle"
  /\ \A r \in Readers : reader[r].pc = "idle" /\ reader[r].calls = MaxSamples

Fairness ==
  /\ \A w \in Writers : WF_vars(Write(w))
  /\ \A r \in Readers : WF_vars(Sample(r))

Spec == Init /\ [][Next]_vars /\ Fairness
-----------------------------------------------------------------------------
Handed == {reader[r].own : r \in {q \in Readers : reader[q].pc \in {"idle", "lock"}}}

(***************************************************************************)
(* A histogram that sample_and_recycle returned belongs to its reader: no  *)
(* writer that entered before or after the flip still holds a pointer to   *)
(* it, it is not the active one, and its counters agree.  So every value   *)
(* is in exactly one sample: what writers counted was handed out, or is in *)
(* the active histogram or in the one that the reader in the mutex took.   *)
(***************************************************************************)
SamplesAreExact ==
  /\ \A h \in Handed : /\ h # active
                       /\ \A w \in Writers : writer[w].h # h
                       /\ hist[h].count = hist[h].total
  /\ recorded = sampled + hist[active].count
                  + (IF phaser.mutex = None THEN 0 ELSE hist[reader[phaser.mutex].own].count)
=============================================================================
