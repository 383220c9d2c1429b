--------------------------- MODULE RecorderProofs ---------------------------
(***************************************************************************)
(* SamplesAreExact for any number of writers, readers and calls, as long   *)
(* as the writers make fewer calls than an epoch has values below zero.    *)
(***************************************************************************)
EXTENDS Recorder, FiniteSetTheorems, TLAPS

USE ZenonT(30), ZenonT(90)

\* What the theorem assumes of the constants.
Bounded ==
  /\ IsFiniteSet(Writers) /\ MaxRecords \in Nat /\ INT64_MIN \in Int
  /\ MaxRecords + INT64_MIN < 0
  /\ First \notin Readers /\ None \notin Histograms

Recording == {"count", "total", "exit"}
Holding == {"phase", "reset", "wait"}
Critical == Holding \cup {"exchange"}

PhaserState == [start : Int, even : Int, odd : Int, mutex : Readers \cup {None}]
WriterState == [pc : Recording \cup {"idle", "load"}, val : Int,
                h : Histograms \cup {None}, todo : Int]
ReaderState == [pc : Critical \cup {"idle", "lock"}, own : Histograms,
                even : BOOLEAN, at : Int, calls : Int]

RecorderTypes ==
  /\ phaser \in PhaserState
  /\ active \in Histograms
  /\ hist \in [Histograms -> [count : Int, total : Int]]
  /\ writer \in [Writers -> WriterState]
  /\ reader \in [Readers -> ReaderState]
  /\ calls \in Nat /\ recorded \in Int /\ sampled \in Int

\* The writers inside an even and inside an odd phase, and those that have
\* increased one counter of histogram h and not yet the other.
InEven == {w \in Writers : writer[w].pc # "idle" /\ writer[w].val >= 0}
InOdd == {w \in Writers : writer[w].pc # "idle" /\ writer[w].val < 0}
Adding(h) == {w \in Writers : writer[w].pc = "total" /\ writer[w].h = h}

\* The reader inside the mutex.
MutexInv == \A r \in Readers : reader[r].pc \in Critical <=> phaser.mutex = r

\* Every histogram has one owner: a reader or the recorder.
OwnInv ==
  \A r \in Readers : /\ reader[r].own # active
                     /\ \A q \in Readers : q # r => reader[q].own # reader[r].own

\* The start epoch counts who entered the phase, the end epoch who left it.
StartInv ==
  /\ calls <= MaxRecords
  /\ phaser.start >= 0 => /\ phaser.start <= calls
                          /\ phaser.start = phaser.even + Cardinality(InEven)
  /\ phaser.start < 0 => /\ phaser.start <= INT64_MIN + calls
                         /\ phaser.start = phaser.odd + Cardinality(InOdd)

\* Nobody is inside the phase that did not start, except while a reader waits
\* for them; then the difference of the epochs says how many.
FlipInv ==
  /\ (\A r \in Readers : reader[r].pc # "wait") =>
       /\ phaser.start >= 0 => InOdd = {}
       /\ phaser.start < 0 => InEven = {}
  /\ \A r \in Readers : reader[r].pc = "reset" =>
       /\ reader[r].even => phaser.start < 0 /\ phaser.even = 0
       /\ ~reader[r].even => phaser.start >= 0 /\ phaser.odd = INT64_MIN
  /\ \A r \in Readers : reader[r].pc = "wait" =>
       /\ reader[r].even => phaser.start >= 0 /\ reader[r].at = phaser.odd + Cardinality(InOdd)
       /\ ~reader[r].even => phaser.start < 0 /\ reader[r].at = phaser.even + Cardinality(InEven)

\* A writer records into the active histogram, or into the one that the reader
\* in the mutex took; while that reader waits, only if it entered before.
PointerInv ==
  \A w \in Writers :
    /\ writer[w].pc \in {"idle", "load"} => writer[w].h = None
    /\ writer[w].pc \in Recording =>
         \/ writer[w].h = active
         \/ \E r \in Readers :
              /\ reader[r].pc \in Holding /\ writer[w].h = reader[r].own
              /\ reader[r].pc = "wait" /\ reader[r].even => writer[w].val < 0
              /\ reader[r].pc = "wait" /\ ~reader[r].even => writer[w].val >= 0

\* The two counters differ by the writers between them.
CountInv ==
  \A h \in Histograms : hist[h].count = hist[h].total + Cardinality(Adding(h))

\* The histogram that a reader hands in is empty.
EmptyInv ==
  \A r \in Readers : reader[r].pc \in {"lock", "exchange"} => hist[reader[r].own] = Empty

\* Every counted value is in one place.
SumInv ==
  recorded = sampled + hist[active].count
               + (IF phaser.mutex = None THEN 0 ELSE hist[reader[phaser.mutex].own].count)

RecorderInv ==
  /\ RecorderTypes /\ MutexInv /\ OwnInv /\ StartInv /\ FlipInv
  /\ PointerInv /\ CountInv /\ EmptyInv /\ SumInv
-----------------------------------------------------------------------------
\* The writers of a set are as many as a number says.
LEMMA Counting ==
  ASSUME Bounded, NEW S \in SUBSET Writers
  PROVE  /\ Cardinality(S) \in Nat
         /\ Cardinality(S) = 0 <=> S = {}
         /\ \A w \in Writers \ S : Cardinality(S \cup {w}) = Cardinality(S) + 1
         /\ \A w \in S : Cardinality(S \ {w}) = Cardinality(S) - 1
<1>1. IsFiniteSet(S)
  BY FS_Subset DEF Bounded
<1>2. Cardinality(S) \in Nat /\ (Cardinality(S) = 0 <=> S = {})
  BY <1>1, FS_CardinalityType, FS_EmptySet
<1>3. \A w \in Writers \ S : Cardinality(S \cup {w}) = Cardinality(S) + 1
  BY <1>1, FS_AddElement
<1>4. \A w \in S : Cardinality(S \ {w}) = Cardinality(S) - 1
  BY <1>1, FS_RemoveElement
<1> QED BY <1>2, <1>3, <1>4

\* The state of one writer, of one reader changes.
LEMMA WriterTypes ==
  ASSUME RecorderTypes, NEW w \in Writers, NEW x \in WriterState,
         writer' = [writer EXCEPT ![w] = x]
  PROVE  /\ writer' \in [Writers -> WriterState] /\ writer'[w] = x
         /\ \A v \in Writers \ {w} : writer'[v] = writer[v]
BY DEF RecorderTypes

\* Only reader r changes.
LEMMA ReaderTypes ==
  ASSUME RecorderTypes, NEW r \in Readers, NEW x \in ReaderState,
         reader' = [reader EXCEPT ![r] = x]
  PROVE  /\ reader' \in [Readers -> ReaderState] /\ reader'[r] = x
         /\ \A q \in Readers \ {r} : reader'[q] = reader[q]
BY DEF RecorderTypes

\* Nobody records or samples yet.
LEMMA InitRecorder == ASSUME Bounded, Init PROVE RecorderInv
<1>1. InEven = {} /\ InOdd = {} /\ \A h : Adding(h) = {}
  BY DEF Init, InEven, InOdd, Adding
<1>2. Cardinality({}) = 0
  BY FS_EmptySet
<1>3. RecorderTypes
  BY SMTT(30), SMTT(90)
     DEF Init, Bounded, RecorderTypes, PhaserState, WriterState, ReaderState,
         Recording, Critical, Histograms, Empty
<1>4. MutexInv
  BY DEF Init, MutexInv, Critical, Holding, Bounded, Histograms
<1>5. OwnInv
  BY DEF Init, OwnInv, Bounded
<1>6. StartInv /\ FlipInv
  BY SMTT(30), SMTT(90), <1>1, <1>2 DEF Init, StartInv, FlipInv, Bounded
<1>7. PointerInv
  BY DEF Init, PointerInv, Recording
<1>8. CountInv /\ EmptyInv
  <2>1. \A h \in Histograms : hist[h] = Empty
    BY DEF Init
  <2>2. EmptyInv
    BY <2>1 DEF Init, EmptyInv, Histograms
  <2>3. \A h \in Histograms : Cardinality(Adding(h)) = 0
    BY <1>1, <1>2
  <2> QED BY SMTT(30), SMTT(90), <2>1, <2>2, <2>3 DEF CountInv, Empty
<1>9. SumInv
  BY SMTT(30), SMTT(90) DEF Init, SumInv, Empty, Histograms
<1> QED BY <1>3, <1>4, <1>5, <1>6, <1>7, <1>8, <1>9 DEF RecorderInv

\* While one reader is in the mutex no other is, so nobody waits unless it does.
LEMMA NobodyWaits ==
  ASSUME RecorderInv, NEW r \in Readers, reader[r].pc \in Critical
  PROVE  /\ \A q \in Readers \ {r} : reader[q].pc \notin Critical
         /\ reader[r].pc # "wait" => \A q \in Readers : reader[q].pc # "wait"
         /\ phaser.mutex = r
BY DEF RecorderInv, MutexInv, Critical, Holding

\* A writer enters the phase that has started, and no other.
LEMMA EnterKeeps ==
  ASSUME Bounded, RecorderInv, NEW w \in Writers, NEW n \in ValuesPerCall, WriterEnter(w, n)
  PROVE  RecorderInv'
<1>1. /\ writer[w].pc = "idle" /\ calls < MaxRecords /\ calls' = calls + 1
      /\ writer'[w].pc = "load" /\ writer'[w].val = phaser.start + 1
      /\ writer'[w].h = writer[w].h
      /\ \A v \in Writers \ {w} : writer'[v] = writer[v]
      /\ phaser'.start = phaser.start + 1 /\ phaser'.even = phaser.even
      /\ phaser'.odd = phaser.odd /\ phaser'.mutex = phaser.mutex
      /\ UNCHANGED <<active, hist, reader, recorded, sampled>>
  BY DEF WriterEnter, RecorderInv, RecorderTypes, PhaserState, WriterState
<1>2. RecorderTypes'
  <2>1. phaser' \in PhaserState
    BY SMTT(30), SMTT(90) DEF WriterEnter, RecorderInv, RecorderTypes, PhaserState
  <2>2. [writer[w] EXCEPT !.pc = "load", !.val = phaser.start + 1, !.todo = n] \in WriterState
    <3>1. phaser.start + 1 \in Int /\ n \in Int
      BY SMTT(30), SMTT(90) DEF RecorderInv, RecorderTypes, PhaserState, ValuesPerCall
    <3>2. writer[w] \in WriterState
      BY DEF RecorderInv, RecorderTypes
    <3> QED BY <3>1, <3>2 DEF WriterState
  <2>3. writer' \in [Writers -> WriterState]
    BY <2>2, WriterTypes DEF WriterEnter, RecorderInv
  <2>4. calls' \in Nat
    BY SMTT(30), SMTT(90), <1>1 DEF RecorderInv, RecorderTypes
  <2> QED BY <1>1, <2>1, <2>3, <2>4 DEF RecorderInv, RecorderTypes
<1>3. phaser.start \in Int /\ (phaser.start < 0 => phaser.start + 1 < 0)
  BY SMTT(30), SMTT(90), <1>1
     DEF RecorderInv, RecorderTypes, PhaserState, StartInv, Bounded
<1>4. \A h : Adding(h)' = Adding(h)
  BY <1>1 DEF Adding
<1>5. /\ phaser.start >= 0 => InEven' = InEven \cup {w} /\ w \notin InEven /\ InOdd' = InOdd
      /\ phaser.start < 0 => InOdd' = InOdd \cup {w} /\ w \notin InOdd /\ InEven' = InEven
  BY SMTT(30), SMTT(90), <1>1, <1>3 DEF InEven, InOdd
<1>6. MutexInv' /\ OwnInv' /\ CountInv' /\ EmptyInv' /\ SumInv'
  BY <1>1, <1>4 DEF RecorderInv, MutexInv, OwnInv, CountInv, EmptyInv, SumInv
<1>7. /\ phaser.start >= 0 => Cardinality(InEven') = Cardinality(InEven) + 1
      /\ phaser.start < 0 => Cardinality(InOdd') = Cardinality(InOdd) + 1
      /\ Cardinality(InEven) \in Nat /\ Cardinality(InOdd) \in Nat
  <2>1. InEven \in SUBSET Writers /\ InOdd \in SUBSET Writers
    BY DEF InEven, InOdd
  <2> QED BY <1>5, <2>1, Counting
<1>8. StartInv'
  <2>1. /\ phaser.even \in Int /\ phaser.odd \in Int /\ calls \in Nat
        /\ MaxRecords \in Nat /\ INT64_MIN \in Int
    BY DEF RecorderInv, RecorderTypes, PhaserState, Bounded
  <2>2. StartInv
    BY DEF RecorderInv
  <2> QED BY SMTT(30), SMTT(90), <1>1, <1>3, <1>7, <2>1, <2>2 DEF StartInv
<1>9. FlipInv'
  BY SMTT(30), SMTT(90), <1>1, <1>3, <1>5 DEF RecorderInv, FlipInv
<1>10. PointerInv'
  BY SMTT(30), SMTT(90), <1>1 DEF RecorderInv, PointerInv, Recording
<1> QED BY <1>2, <1>6, <1>8, <1>9, <1>10 DEF RecorderInv

\* A writer that stays in its phase.
Stays(w) ==
  /\ writer[w].pc # "idle" /\ writer'[w].pc \in Recording
  /\ writer'[w].val = writer[w].val
  /\ \A v \in Writers \ {w} : writer'[v] = writer[v]
  /\ \/ writer'[w].h = active
     \/ writer[w].pc \in Recording /\ writer'[w].h = writer[w].h
  /\ UNCHANGED <<phaser, active, reader, calls>>

\* Steps of a writer inside its critical section.
LEMMA StaysKeeps ==
  ASSUME RecorderInv, NEW w \in Writers, Stays(w)
  PROVE  MutexInv' /\ OwnInv' /\ StartInv' /\ FlipInv' /\ PointerInv'
<1>1. InEven' = InEven /\ InOdd' = InOdd
  BY DEF Stays, InEven, InOdd, Recording
<1>2. MutexInv' /\ OwnInv'
  BY DEF Stays, RecorderInv, MutexInv, OwnInv
<1>3. StartInv' /\ FlipInv'
  BY <1>1 DEF Stays, RecorderInv, StartInv, FlipInv
<1>4. PointerInv'
  <2> SUFFICES ASSUME NEW v \in Writers
               PROVE  /\ writer'[v].pc \in {"idle", "load"} => writer'[v].h = None
                      /\ writer'[v].pc \in Recording =>
                           \/ writer'[v].h = active
                           \/ \E r \in Readers :
                                /\ reader[r].pc \in Holding /\ writer'[v].h = reader[r].own
                                /\ reader[r].pc = "wait" /\ reader[r].even => writer'[v].val < 0
                                /\ reader[r].pc = "wait" /\ ~reader[r].even => writer'[v].val >= 0
    BY DEF Stays, PointerInv
  <2>1. CASE v # w
    BY <2>1 DEF Stays, RecorderInv, PointerInv
  <2>2. CASE v = w
    BY <2>2 DEF Stays, RecorderInv, PointerInv, Recording
  <2> QED BY <2>1, <2>2
<1> QED BY <1>2, <1>3, <1>4

\* A writer that records holds a histogram that nobody was handed.
LEMMA HeldHistogram ==
  ASSUME Bounded, RecorderInv, NEW w \in Writers, writer[w].pc \in Recording
  PROVE  /\ writer[w].h \in Histograms
         /\ \A r \in Readers : reader[r].pc \notin Holding => reader[r].own # writer[w].h
         /\ writer[w].h # active =>
              phaser.mutex \in Readers /\ writer[w].h = reader[phaser.mutex].own
         /\ phaser.mutex \in Readers => reader[phaser.mutex].own # active
<1>1. /\ active \in Histograms
      /\ \A r \in Readers : reader[r].own \in Histograms
  BY DEF RecorderInv, RecorderTypes, ReaderState
<1>2. CASE writer[w].h = active
  BY <1>1, <1>2 DEF RecorderInv, OwnInv
<1>3. CASE writer[w].h # active
  <2>1. PICK r \in Readers : reader[r].pc \in Holding /\ writer[w].h = reader[r].own
    BY <1>3 DEF RecorderInv, PointerInv
  <2>2. phaser.mutex = r
    BY <2>1 DEF RecorderInv, MutexInv, Critical
  <2> QED BY <1>1, <1>3, <2>1, <2>2 DEF RecorderInv, OwnInv
<1> QED BY <1>2, <1>3

\* A writer loads the active histogram.
LEMMA LoadActiveKeeps ==
  ASSUME Bounded, RecorderInv, NEW w \in Writers, LoadActive(w) \/ RecordFails(w)
  PROVE  RecorderInv'
<1>1. PICK x \in WriterState :
        /\ writer' = [writer EXCEPT ![w] = x] /\ x.val = writer[w].val
        /\ x.pc \in {"count", "exit"} /\ writer[w].pc \in {"load", "count"}
        /\ x.h = active \/ (writer[w].pc \in Recording /\ x.h = writer[w].h)
  <2>1. writer[w] \in WriterState /\ active \in Histograms
    BY DEF RecorderInv, RecorderTypes
  <2>2. CASE LoadActive(w)
    <3> DEFINE y == [writer[w] EXCEPT !.pc = "count", !.h = active]
    <3>1. y \in WriterState
      BY <2>1 DEF WriterState, Recording
    <3>2. y.pc = "count" /\ y.val = writer[w].val /\ y.h = active
      BY <2>1 DEF WriterState
    <3>3. writer[w].pc = "load" /\ writer' = [writer EXCEPT ![w] = y]
      BY <2>2 DEF LoadActive
    <3> HIDE DEF y
    <3> QED BY <3>1, <3>2, <3>3
  <2>3. CASE RecordFails(w)
    <3> DEFINE y == [writer[w] EXCEPT !.pc = "exit"]
    <3>1. y \in WriterState
      BY <2>1 DEF WriterState, Recording
    <3>2. y.pc = "exit" /\ y.val = writer[w].val /\ y.h = writer[w].h
      BY <2>1 DEF WriterState
    <3>3. writer[w].pc = "count" /\ writer' = [writer EXCEPT ![w] = y]
      BY <2>3 DEF RecordFails
    <3> HIDE DEF y
    <3> QED BY <3>1, <3>2, <3>3 DEF Recording
  <2> QED BY <2>2, <2>3
<1>2. UNCHANGED <<phaser, active, hist, reader, calls, recorded, sampled>>
  BY DEF LoadActive, RecordFails
<1>3. /\ writer' \in [Writers -> WriterState] /\ writer'[w] = x
      /\ \A v \in Writers \ {w} : writer'[v] = writer[v]
  BY <1>1, WriterTypes DEF RecorderInv
<1>4. RecorderTypes'
  BY <1>2, <1>3 DEF RecorderInv, RecorderTypes
<1>5. Stays(w)
  BY <1>1, <1>2, <1>3 DEF Stays, Recording
<1>6. \A h : Adding(h)' = Adding(h)
  BY <1>1, <1>3 DEF Adding
<1>7. CountInv' /\ EmptyInv' /\ SumInv'
  BY <1>2, <1>6 DEF RecorderInv, CountInv, EmptyInv, SumInv
<1> QED BY <1>4, <1>5, <1>7, StaysKeeps DEF RecorderInv

\* A writer counts a value in the histogram it holds.
LEMMA IncrementCountKeeps ==
  ASSUME Bounded, RecorderInv, NEW w \in Writers, IncrementCount(w)
  PROVE  RecorderInv'
<1> SUFFICES ASSUME NEW g, g = writer[w].h PROVE RecorderInv'
  OBVIOUS
<1> DEFINE x == [writer[w] EXCEPT !.pc = "total"]
           y == [hist[g] EXCEPT !.count = hist[g].count + 1]
<1>1. /\ writer[w].pc = "count" /\ writer' = [writer EXCEPT ![w] = x]
      /\ hist' = [hist EXCEPT ![g] = y] /\ recorded' = recorded + 1
      /\ UNCHANGED <<phaser, active, reader, calls, sampled>>
  BY DEF IncrementCount
<1>2. x \in WriterState /\ x.pc = "total" /\ x.val = writer[w].val /\ x.h = g
  <2>1. writer[w] \in WriterState
    BY DEF RecorderInv, RecorderTypes
  <2>2. x \in WriterState
    BY <2>1 DEF WriterState, Recording
  <2> QED BY <2>1, <2>2 DEF WriterState
<1>3. /\ g \in Histograms
      /\ \A r \in Readers : reader[r].pc \notin Holding => reader[r].own # g
      /\ g # active => phaser.mutex \in Readers /\ g = reader[phaser.mutex].own
      /\ phaser.mutex \in Readers => reader[phaser.mutex].own # active
  BY <1>1, HeldHistogram DEF Recording
<1>4. /\ hist[g].count \in Int /\ hist[g].total \in Int
      /\ y \in [count : Int, total : Int]
      /\ y.count = hist[g].count + 1 /\ y.total = hist[g].total
  BY SMTT(30), SMTT(90), <1>3 DEF RecorderInv, RecorderTypes
<1> HIDE DEF x, y
<1>5. /\ hist' \in [Histograms -> [count : Int, total : Int]] /\ hist'[g] = y
      /\ \A h \in Histograms \ {g} : hist'[h] = hist[h]
  BY <1>1, <1>3, <1>4 DEF RecorderInv, RecorderTypes
<1>6. /\ writer' \in [Writers -> WriterState] /\ writer'[w] = x
      /\ \A v \in Writers \ {w} : writer'[v] = writer[v]
  BY <1>1, <1>2, WriterTypes DEF RecorderInv
<1>7. RecorderTypes'
  <2>1. recorded' \in Int
    BY SMTT(30), SMTT(90), <1>1 DEF RecorderInv, RecorderTypes
  <2> QED BY <1>1, <1>5, <1>6, <2>1 DEF RecorderInv, RecorderTypes
<1>8. Stays(w)
  BY <1>1, <1>2, <1>6 DEF Stays, Recording
<1>9. /\ Adding(g)' = Adding(g) \cup {w} /\ w \notin Adding(g)
      /\ \A h \in Histograms \ {g} : Adding(h)' = Adding(h)
  <2>1. writer'[w].pc = "total" /\ writer'[w].h = g /\ writer[w].pc # "total"
    BY <1>1, <1>2, <1>6
  <2>2. \A v \in Writers : v = w \/ writer'[v] = writer[v]
    BY <1>6
  <2>3. Adding(g)' = Adding(g) \cup {w} /\ w \notin Adding(g)
    BY <2>1, <2>2 DEF Adding
  <2>4. \A h \in Histograms \ {g} : Adding(h)' = Adding(h)
    BY <2>1, <2>2 DEF Adding
  <2> QED BY <2>3, <2>4
<1>10. CountInv'
  <2>1. Adding(g) \in SUBSET Writers
    BY DEF Adding
  <2>2. Cardinality(Adding(g)') = Cardinality(Adding(g)) + 1 /\ Cardinality(Adding(g)) \in Nat
    BY SMTT(30), SMTT(90), <1>9, <2>1, Counting
  <2>3. hist[g].count = hist[g].total + Cardinality(Adding(g))
    BY <1>3 DEF RecorderInv, CountInv
  <2>4. hist'[g].count = hist'[g].total + Cardinality(Adding(g)')
    BY SMTT(30), SMTT(90), <1>4, <1>5, <2>2, <2>3
  <2>5. \A h \in Histograms \ {g} : hist'[h].count = hist'[h].total + Cardinality(Adding(h)')
    BY <1>5, <1>9 DEF RecorderInv, CountInv
  <2> QED BY <2>4, <2>5 DEF CountInv
<1>11. EmptyInv'
  <2> SUFFICES ASSUME NEW r \in Readers, reader[r].pc \in {"lock", "exchange"}
               PROVE  hist'[reader[r].own] = Empty
    BY <1>1 DEF EmptyInv
  <2>1. reader[r].own \in Histograms /\ reader[r].own # g
    BY <1>3 DEF RecorderInv, RecorderTypes, ReaderState, Holding
  <2>2. hist[reader[r].own] = Empty
    BY DEF RecorderInv, EmptyInv
  <2> QED BY <1>5, <2>1, <2>2
<1>12. SumInv'
  <2> DEFINE o == reader[phaser.mutex].own
  <2>1. recorded \in Int /\ sampled \in Int /\ active \in Histograms
    BY DEF RecorderInv, RecorderTypes
  <2>2. phaser.mutex = None \/ (phaser.mutex \in Readers /\ phaser.mutex # None)
    BY DEF RecorderInv, RecorderTypes, PhaserState, Bounded, Histograms
  <2>3. phaser.mutex \in Readers => o \in Histograms
    BY DEF RecorderInv, RecorderTypes, ReaderState
  <2>4. \A h \in Histograms : hist[h].count \in Int
    BY DEF RecorderInv, RecorderTypes
  <2>5. recorded = sampled + hist[active].count
                     + (IF phaser.mutex = None THEN 0 ELSE hist[o].count)
    BY DEF RecorderInv, SumInv
  <2>6. \A h \in Histograms : hist'[h].count = hist[h].count + (IF h = g THEN 1 ELSE 0)
    BY SMTT(30), SMTT(90), <1>4, <1>5, <2>4
  <2>7. CASE g = active
    BY SMTT(30), SMTT(90), <1>1, <1>3, <2>1, <2>2, <2>3, <2>4, <2>5, <2>6, <2>7
       DEF SumInv
  <2>8. CASE g # active
    <3>1. phaser.mutex # None /\ o = g
      BY <1>3, <2>2, <2>8 DEF Bounded, Histograms
    <3>2. hist'[active].count = hist[active].count /\ hist'[g].count = hist[g].count + 1
      BY SMTT(30), SMTT(90), <1>3, <2>1, <2>4, <2>6, <2>8
    <3>3. recorded' = sampled + hist'[active].count + hist'[g].count
      BY SMTT(30), SMTT(90), <1>1, <1>3, <2>1, <2>4, <2>5, <3>1, <3>2
    <3> QED BY SMTT(30), SMTT(90), <1>1, <3>1, <3>3 DEF SumInv
  <2> QED BY <2>7, <2>8
<1> QED BY <1>7, <1>8, <1>10, <1>11, <1>12, StaysKeeps DEF RecorderInv

\* A writer counts it in the second counter, too.
LEMMA IncrementTotalKeeps ==
  ASSUME Bounded, RecorderInv, NEW w \in Writers, IncrementTotal(w)
  PROVE  RecorderInv'
<1> SUFFICES ASSUME NEW g, g = writer[w].h PROVE RecorderInv'
  OBVIOUS
<1> DEFINE pl == IF writer[w].todo > 1 THEN "count" ELSE "exit"
           x == [writer[w] EXCEPT !.todo = writer[w].todo - 1, !.pc = pl]
           y == [hist[g] EXCEPT !.total = hist[g].total + 1]
<1>1. /\ writer[w].pc = "total" /\ writer' = [writer EXCEPT ![w] = x]
      /\ hist' = [hist EXCEPT ![g] = y]
      /\ UNCHANGED <<phaser, active, reader, calls, recorded, sampled>>
  BY DEF IncrementTotal
<1>2. x \in WriterState /\ x.pc \in {"count", "exit"} /\ x.val = writer[w].val /\ x.h = g
  <2>1. writer[w] \in WriterState /\ pl \in {"count", "exit"}
    BY DEF RecorderInv, RecorderTypes
  <2>2. writer[w].todo - 1 \in Int
    BY SMTT(30), SMTT(90), <2>1 DEF WriterState
  <2> HIDE DEF pl
  <2>3. x \in WriterState
    BY <2>1, <2>2 DEF WriterState, Recording
  <2> QED BY <2>1, <2>3 DEF WriterState
<1>3. /\ g \in Histograms
      /\ \A r \in Readers : reader[r].pc \notin Holding => reader[r].own # g
  BY <1>1, HeldHistogram DEF Recording
<1>4. /\ hist[g].count \in Int /\ hist[g].total \in Int
      /\ y \in [count : Int, total : Int]
      /\ y.count = hist[g].count /\ y.total = hist[g].total + 1
  BY SMTT(30), SMTT(90), <1>3 DEF RecorderInv, RecorderTypes
<1> HIDE DEF pl, x, y
<1>5. /\ hist' \in [Histograms -> [count : Int, total : Int]] /\ hist'[g] = y
      /\ \A h \in Histograms \ {g} : hist'[h] = hist[h]
  BY <1>1, <1>3, <1>4 DEF RecorderInv, RecorderTypes
<1>6. /\ writer' \in [Writers -> WriterState] /\ writer'[w] = x
      /\ \A v \in Writers \ {w} : writer'[v] = writer[v]
  BY <1>1, <1>2, WriterTypes DEF RecorderInv
<1>7. RecorderTypes'
  BY <1>1, <1>5, <1>6 DEF RecorderInv, RecorderTypes
<1>8. Stays(w)
  BY <1>1, <1>2, <1>6 DEF Stays, Recording
<1>9. /\ Adding(g)' = Adding(g) \ {w} /\ w \in Adding(g)
      /\ \A h \in Histograms \ {g} : Adding(h)' = Adding(h)
  <2>1. writer'[w].pc # "total" /\ writer[w].h = g /\ writer[w].pc = "total"
    BY <1>1, <1>2, <1>6
  <2>2. \A v \in Writers : v = w \/ writer'[v] = writer[v]
    BY <1>6
  <2>3. Adding(g)' = Adding(g) \ {w} /\ w \in Adding(g)
    BY <2>1, <2>2 DEF Adding
  <2>4. \A h \in Histograms \ {g} : Adding(h)' = Adding(h)
    BY <2>1, <2>2 DEF Adding
  <2> QED BY <2>3, <2>4
<1>10. CountInv'
  <2>1. Adding(g) \in SUBSET Writers
    BY DEF Adding
  <2>2. Cardinality(Adding(g)') = Cardinality(Adding(g)) - 1 /\ Cardinality(Adding(g)) \in Nat
    BY SMTT(30), SMTT(90), <1>9, <2>1, Counting
  <2>3. hist[g].count = hist[g].total + Cardinality(Adding(g))
    BY <1>3 DEF RecorderInv, CountInv
  <2>4. hist'[g].count = hist'[g].total + Cardinality(Adding(g)')
    BY SMTT(30), SMTT(90), <1>4, <1>5, <2>2, <2>3
  <2>5. \A h \in Histograms \ {g} : hist'[h].count = hist'[h].total + Cardinality(Adding(h)')
    BY <1>5, <1>9 DEF RecorderInv, CountInv
  <2> QED BY <2>4, <2>5 DEF CountInv
<1>11. EmptyInv'
  <2> SUFFICES ASSUME NEW r \in Readers, reader[r].pc \in {"lock", "exchange"}
               PROVE  hist'[reader[r].own] = Empty
    BY <1>1 DEF EmptyInv
  <2>1. reader[r].own \in Histograms /\ reader[r].own # g
    BY <1>3 DEF RecorderInv, RecorderTypes, ReaderState, Holding
  <2>2. hist[reader[r].own] = Empty
    BY DEF RecorderInv, EmptyInv
  <2> QED BY <1>5, <2>1, <2>2
<1>12. SumInv'
  <2>1. phaser.mutex = None \/ reader[phaser.mutex].own \in Histograms
    BY DEF RecorderInv, RecorderTypes, PhaserState, ReaderState
  <2>2. \A h \in Histograms : hist'[h].count = hist[h].count
    BY <1>4, <1>5
  <2>3. active \in Histograms
    BY DEF RecorderInv, RecorderTypes
  <2> QED BY <1>1, <2>1, <2>2, <2>3 DEF RecorderInv, SumInv
<1> QED BY <1>7, <1>8, <1>10, <1>11, <1>12, StaysKeeps DEF RecorderInv

\* A writer leaves the phase it entered.
LEMMA ExitKeeps ==
  ASSUME Bounded, RecorderInv, NEW w \in Writers, WriterExit(w)
  PROVE  RecorderInv'
<1> DEFINE x == [writer[w] EXCEPT !.pc = "idle", !.h = None]
<1>1. /\ writer[w].pc = "exit" /\ writer' = [writer EXCEPT ![w] = x]
      /\ UNCHANGED <<active, hist, reader, calls, recorded, sampled>>
  BY DEF WriterExit
<1>2. /\ phaser' \in PhaserState /\ phaser'.start = phaser.start
      /\ phaser'.mutex = phaser.mutex /\ phaser \in PhaserState
      /\ writer[w].val < 0 => phaser'.odd = phaser.odd + 1 /\ phaser'.even = phaser.even
      /\ writer[w].val >= 0 => phaser'.even = phaser.even + 1 /\ phaser'.odd = phaser.odd
      /\ writer[w].val \in Int
  BY SMTT(30), SMTT(90)
     DEF WriterExit, RecorderInv, RecorderTypes, PhaserState, WriterState
<1>3. x \in WriterState /\ x.pc = "idle" /\ x.h = None
  <2>1. writer[w] \in WriterState
    BY DEF RecorderInv, RecorderTypes
  <2>2. x \in WriterState
    BY <2>1 DEF WriterState
  <2> QED BY <2>1, <2>2 DEF WriterState
<1> HIDE DEF x
<1>4. /\ writer' \in [Writers -> WriterState] /\ writer'[w] = x
      /\ \A v \in Writers \ {w} : writer'[v] = writer[v]
  BY <1>1, <1>3, WriterTypes DEF RecorderInv
<1>5. RecorderTypes'
  BY <1>1, <1>2, <1>4 DEF RecorderInv, RecorderTypes
<1>6. \A h : Adding(h)' = Adding(h)
  BY <1>1, <1>3, <1>4 DEF Adding
<1>7. MutexInv' /\ OwnInv' /\ CountInv' /\ EmptyInv' /\ SumInv'
  BY <1>1, <1>2, <1>6 DEF RecorderInv, MutexInv, OwnInv, CountInv, EmptyInv, SumInv
<1>8. PointerInv'
  BY <1>1, <1>3, <1>4 DEF RecorderInv, PointerInv, Recording
<1>9. /\ writer[w].val < 0 => InOdd' = InOdd \ {w} /\ w \in InOdd /\ InEven' = InEven
      /\ writer[w].val >= 0 => InEven' = InEven \ {w} /\ w \in InEven /\ InOdd' = InOdd
  BY SMTT(30), SMTT(90), <1>1, <1>2, <1>3, <1>4 DEF InEven, InOdd
<1>10. /\ Cardinality(InEven) \in Nat /\ Cardinality(InOdd) \in Nat
       /\ writer[w].val < 0 => Cardinality(InOdd') = Cardinality(InOdd) - 1
       /\ writer[w].val >= 0 => Cardinality(InEven') = Cardinality(InEven) - 1
  <2>1. InEven \in SUBSET Writers /\ InOdd \in SUBSET Writers
    BY DEF InEven, InOdd
  <2> QED BY <1>9, <2>1, Counting
<1>11. /\ phaser'.even + Cardinality(InEven') = phaser.even + Cardinality(InEven)
       /\ phaser'.odd + Cardinality(InOdd') = phaser.odd + Cardinality(InOdd)
  <2>1. phaser.even \in Int /\ phaser.odd \in Int
    BY <1>2 DEF PhaserState
  <2> QED BY SMTT(30), SMTT(90), <1>2, <1>9, <1>10, <2>1
<1>12. StartInv'
  BY <1>1, <1>2, <1>11 DEF RecorderInv, StartInv
<1>13. FlipInv'
  <2>1. (\A r \in Readers : reader[r].pc # "wait") =>
          /\ phaser.start >= 0 => InOdd' = {}
          /\ phaser.start < 0 => InEven' = {}
    BY SMTT(30), SMTT(90), <1>9, <1>2 DEF RecorderInv, FlipInv
  <2>2. ASSUME NEW r \in Readers, reader[r].pc = "reset"
        PROVE  phaser.start < 0 => phaser'.even = phaser.even
    <3>1. phaser.start < 0 => InEven = {}
      BY <2>2, NobodyWaits DEF RecorderInv, FlipInv, Critical, Holding
    <3> QED BY SMTT(30), SMTT(90), <1>2, <1>9, <3>1
  <2>3. ASSUME NEW r \in Readers, reader[r].pc = "reset"
        PROVE  phaser.start >= 0 => phaser'.odd = phaser.odd
    <3>1. phaser.start >= 0 => InOdd = {}
      BY <2>3, NobodyWaits DEF RecorderInv, FlipInv, Critical, Holding
    <3> QED BY SMTT(30), SMTT(90), <1>2, <1>9, <3>1
  <2>4. \A r \in Readers : reader[r].pc = "reset" =>
          /\ reader[r].even => phaser.start < 0 /\ phaser'.even = 0
          /\ ~reader[r].even => phaser.start >= 0 /\ phaser'.odd = INT64_MIN
    BY <2>2, <2>3 DEF RecorderInv, FlipInv
  <2>5. \A r \in Readers : reader[r].pc = "wait" =>
          /\ reader[r].even => phaser.start >= 0 /\ reader[r].at = phaser'.odd + Cardinality(InOdd')
          /\ ~reader[r].even => phaser.start < 0 /\ reader[r].at = phaser'.even + Cardinality(InEven')
    BY <1>11 DEF RecorderInv, FlipInv
  <2> QED BY <1>1, <1>2, <2>1, <2>4, <2>5 DEF FlipInv
<1> QED BY <1>5, <1>7, <1>8, <1>12, <1>13 DEF RecorderInv

\* A step of a reader leaves the writers where they are.
LEMMA SameWriters ==
  ASSUME writer' = writer
  PROVE  InEven' = InEven /\ InOdd' = InOdd /\ \A h : Adding(h)' = Adding(h)
BY DEF InEven, InOdd, Adding

\* The owners are histograms, and no writer records into one that is handed out.
LEMMA OwnFacts ==
  ASSUME Bounded, RecorderInv, NEW r \in Readers
  PROVE  /\ reader[r] \in ReaderState /\ reader[r].own \in Histograms
         /\ active \in Histograms /\ reader[r].own # active
         /\ reader[r].pc \notin Holding => Adding(reader[r].own) = {}
<1>1. reader[r] \in ReaderState /\ active \in Histograms
  BY DEF RecorderInv, RecorderTypes
<1>2. reader[r].own \in Histograms
  BY <1>1 DEF ReaderState
<1>3. reader[r].own # active
  BY DEF RecorderInv, OwnInv
<1>4. reader[r].pc \notin Holding => Adding(reader[r].own) = {}
  BY HeldHistogram DEF Adding, Recording
<1> QED BY <1>1, <1>2, <1>3, <1>4

\* Nobody changes hands.
LEMMA SameOwners ==
  ASSUME RecorderInv, active' = active, \A q \in Readers : reader'[q].own = reader[q].own
  PROVE  OwnInv'
<1>1. ASSUME NEW p \in Readers PROVE reader'[p].own # active'
  BY DEF RecorderInv, OwnInv
<1>2. ASSUME NEW p \in Readers, NEW q \in Readers, p # q
      PROVE  reader'[q].own # reader'[p].own
  <2>1. reader[q].own # reader[p].own
    BY <1>2 DEF RecorderInv, OwnInv
  <2> QED BY <2>1
<1> QED BY <1>1, <1>2 DEF OwnInv

\* A reader that still holds the histogram it took, and does not begin to wait.
LEMMA SamePointers ==
  ASSUME RecorderInv, writer' = writer, active' = active,
         \A q \in Readers : reader[q].pc \in Holding =>
           /\ reader'[q].pc \in Holding /\ reader'[q].own = reader[q].own
           /\ reader'[q].pc = "wait" => reader[q].pc = "wait" /\ reader'[q].even = reader[q].even
  PROVE  PointerInv'
<1> SUFFICES ASSUME NEW w \in Writers
             PROVE  /\ writer[w].pc \in {"idle", "load"} => writer[w].h = None
                    /\ writer[w].pc \in Recording =>
                         \/ writer[w].h = active
                         \/ \E r \in Readers :
                              /\ reader'[r].pc \in Holding /\ writer[w].h = reader'[r].own
                              /\ reader'[r].pc = "wait" /\ reader'[r].even => writer[w].val < 0
                              /\ reader'[r].pc = "wait" /\ ~reader'[r].even => writer[w].val >= 0
  BY DEF PointerInv
<1>1. CASE writer[w].pc \notin Recording \/ writer[w].h = active
  BY <1>1 DEF RecorderInv, PointerInv
<1>2. CASE writer[w].pc \in Recording /\ writer[w].h # active
  <2>1. PICK r \in Readers :
          /\ reader[r].pc \in Holding /\ writer[w].h = reader[r].own
          /\ reader[r].pc = "wait" /\ reader[r].even => writer[w].val < 0
          /\ reader[r].pc = "wait" /\ ~reader[r].even => writer[w].val >= 0
    BY <1>2 DEF RecorderInv, PointerInv
  <2> QED BY <1>2, <2>1 DEF Recording
<1> QED BY <1>1, <1>2

\* A reader empties the histogram that it hands in.
LEMMA RecycleKeeps ==
  ASSUME Bounded, RecorderInv, NEW r \in Readers, Recycle(r)
  PROVE  RecorderInv'
<1> SUFFICES ASSUME NEW g, g = reader[r].own PROVE RecorderInv'
  OBVIOUS
<1> DEFINE x == [reader[r] EXCEPT !.pc = "lock", !.calls = reader[r].calls + 1]
<1>1. /\ reader[r].pc = "idle" /\ reader' = [reader EXCEPT ![r] = x]
      /\ hist' = [hist EXCEPT ![g] = Empty]
      /\ UNCHANGED <<phaser, active, writer, calls, recorded, sampled>>
  BY DEF Recycle
<1>2. g \in Histograms /\ g # active /\ active \in Histograms /\ Adding(g) = {}
  BY <1>1, OwnFacts DEF Holding
<1>3. x \in ReaderState /\ x.pc = "lock" /\ x.own = g
  <2>1. reader[r] \in ReaderState
    BY OwnFacts
  <2>2. reader[r].calls + 1 \in Int
    BY SMTT(30), SMTT(90), <2>1 DEF ReaderState
  <2>3. x \in ReaderState
    BY <2>1, <2>2 DEF ReaderState
  <2> QED BY <2>1, <2>3 DEF ReaderState
<1> HIDE DEF x
<1>4. /\ reader' \in [Readers -> ReaderState] /\ reader'[r] = x
      /\ \A q \in Readers \ {r} : reader'[q] = reader[q]
  BY <1>1, <1>3, ReaderTypes DEF RecorderInv
<1>5. Empty \in [count : Int, total : Int] /\ Empty.count = 0 /\ Empty.total = 0
  BY SMTT(30), SMTT(90) DEF Empty
<1>6. /\ hist' \in [Histograms -> [count : Int, total : Int]] /\ hist'[g] = Empty
      /\ \A h \in Histograms \ {g} : hist'[h] = hist[h]
  BY <1>1, <1>2, <1>5 DEF RecorderInv, RecorderTypes
<1>7. \A q \in Readers : /\ reader'[q].own = reader[q].own
                         /\ q = r \/ reader'[q] = reader[q]
  BY <1>3, <1>4
<1>8. RecorderTypes'
  BY <1>1, <1>4, <1>6 DEF RecorderInv, RecorderTypes
<1>9. MutexInv'
  BY <1>1, <1>3, <1>4 DEF RecorderInv, MutexInv, Critical, Holding
<1>10. OwnInv'
  BY <1>1, <1>7, SameOwners
<1>11. StartInv'
  BY <1>1, SameWriters DEF RecorderInv, StartInv
<1>12. FlipInv'
  BY <1>1, <1>3, <1>4, SameWriters DEF RecorderInv, FlipInv
<1>13. PointerInv'
  BY <1>1, <1>7, SamePointers DEF Holding
<1>14. CountInv'
  <2>1. hist'[g].count = hist'[g].total + Cardinality(Adding(g)')
    <3>1. Cardinality(Adding(g)') = 0
      BY <1>1, <1>2, SameWriters, FS_EmptySet
    <3> QED BY SMTT(30), SMTT(90), <1>5, <1>6, <3>1
  <2>2. \A h \in Histograms \ {g} : hist'[h].count = hist'[h].total + Cardinality(Adding(h)')
    BY <1>1, <1>6, SameWriters DEF RecorderInv, CountInv
  <2> QED BY <2>1, <2>2 DEF CountInv
<1>15. \A q \in Readers \ {r} : reader[q].own # g /\ reader[q].own \in Histograms
  BY OwnFacts DEF RecorderInv, OwnInv
<1>16. EmptyInv'
  <2>1. hist'[reader'[r].own] = Empty
    BY <1>3, <1>4, <1>6
  <2>2. ASSUME NEW q \in Readers \ {r}, reader'[q].pc \in {"lock", "exchange"}
        PROVE  hist'[reader'[q].own] = Empty
    <3>1. reader'[q] = reader[q] /\ reader[q].own \in Histograms \ {g}
      BY <1>4, <1>15
    <3>2. hist[reader[q].own] = Empty
      BY <2>2, <3>1 DEF RecorderInv, EmptyInv
    <3> QED BY <1>6, <3>1, <3>2
  <2> QED BY <2>1, <2>2 DEF EmptyInv
<1>17. SumInv'
  <2>1. phaser.mutex = None \/ phaser.mutex \in Readers \ {r}
    BY <1>1 DEF RecorderInv, RecorderTypes, PhaserState, MutexInv, Critical, Holding
  <2>2. hist'[active] = hist[active]
    BY <1>2, <1>6
  <2>3. phaser.mutex \in Readers \ {r} =>
          hist'[reader'[phaser.mutex].own] = hist[reader[phaser.mutex].own]
    BY <1>6, <1>7, <1>15
  <2> QED BY <1>1, <2>1, <2>2, <2>3 DEF RecorderInv, SumInv
<1> QED BY <1>8, <1>9, <1>10, <1>11, <1>12, <1>13, <1>14, <1>16, <1>17 DEF RecorderInv

\* A reader takes the mutex.
LEMMA LockKeeps ==
  ASSUME Bounded, RecorderInv, NEW r \in Readers, ReaderLock(r)
  PROVE  RecorderInv'
<1> DEFINE x == [reader[r] EXCEPT !.pc = "exchange"]
<1>1. /\ reader[r].pc = "lock" /\ phaser.mutex = None
      /\ reader' = [reader EXCEPT ![r] = x]
      /\ UNCHANGED <<active, hist, writer, calls, recorded, sampled>>
  BY DEF ReaderLock
<1>2. /\ phaser' \in PhaserState /\ phaser'.mutex = r
      /\ phaser'.start = phaser.start /\ phaser'.even = phaser.even /\ phaser'.odd = phaser.odd
  BY DEF ReaderLock, RecorderInv, RecorderTypes, PhaserState
<1>3. x \in ReaderState /\ x.pc = "exchange" /\ x.own = reader[r].own
  <2>1. reader[r] \in ReaderState
    BY OwnFacts
  <2>2. x \in ReaderState
    BY <2>1 DEF ReaderState, Critical
  <2> QED BY <2>1, <2>2 DEF ReaderState
<1> HIDE DEF x
<1>4. /\ reader' \in [Readers -> ReaderState] /\ reader'[r] = x
      /\ \A q \in Readers \ {r} : reader'[q] = reader[q]
  BY <1>1, <1>3, ReaderTypes DEF RecorderInv
<1>5. \A q \in Readers : /\ reader'[q].own = reader[q].own
                         /\ q = r \/ reader'[q] = reader[q]
  BY <1>3, <1>4
<1>6. RecorderTypes'
  BY <1>1, <1>2, <1>4 DEF RecorderInv, RecorderTypes
<1>7. MutexInv'
  <2>1. \A q \in Readers : reader[q].pc \notin Critical
    BY <1>1 DEF RecorderInv, MutexInv, Bounded, Histograms
  <2>2. reader'[r].pc \in Critical
    BY <1>3, <1>4 DEF Critical
  <2> QED BY <1>2, <1>5, <2>1, <2>2 DEF MutexInv
<1>8. OwnInv'
  BY <1>1, <1>5, SameOwners
<1>9. StartInv'
  BY <1>1, <1>2, SameWriters DEF RecorderInv, StartInv
<1>10. FlipInv'
  <2>1. \A q \in Readers : /\ reader'[q].pc \in {"wait", "reset"} => reader'[q] = reader[q]
                           /\ reader[q].pc = "wait" => reader'[q].pc = "wait"
    BY <1>1, <1>3, <1>4
  <2>2. InEven' = InEven /\ InOdd' = InOdd /\ FlipInv
    BY <1>1, SameWriters DEF RecorderInv
  <2> QED BY <1>2, <2>1, <2>2 DEF FlipInv
<1>11. PointerInv'
  BY <1>1, <1>5, SamePointers DEF Holding
<1>12. CountInv'
  BY <1>1, SameWriters DEF RecorderInv, CountInv
<1>13. EmptyInv'
  BY <1>1, <1>5 DEF RecorderInv, EmptyInv
<1>14. SumInv'
  <2>1. hist[reader[r].own].count = 0
    <3>1. hist[reader[r].own] = Empty
      BY <1>1 DEF RecorderInv, EmptyInv
    <3> QED BY SMTT(30), SMTT(90), <3>1 DEF Empty
  <2>2. r # None /\ reader'[phaser'.mutex].own = reader[r].own
    BY <1>2, <1>5 DEF Bounded, Histograms
  <2>3. hist[active].count \in Int /\ sampled \in Int
    BY DEF RecorderInv, RecorderTypes
  <2> QED BY <1>1, <1>2, <2>1, <2>2, <2>3 DEF RecorderInv, SumInv
<1> QED BY <1>6, <1>7, <1>8, <1>9, <1>10, <1>11, <1>12, <1>13, <1>14 DEF RecorderInv

\* A reader takes the active histogram and leaves its own.
LEMMA ExchangeKeeps ==
  ASSUME Bounded, RecorderInv, NEW r \in Readers, ExchangeActive(r)
  PROVE  RecorderInv'
<1> DEFINE x == [reader[r] EXCEPT !.pc = "phase", !.own = active]
<1>1. /\ reader[r].pc = "exchange" /\ active' = reader[r].own
      /\ reader' = [reader EXCEPT ![r] = x]
      /\ UNCHANGED <<phaser, hist, writer, calls, recorded, sampled>>
  BY DEF ExchangeActive
<1>2. /\ reader[r] \in ReaderState /\ reader[r].own \in Histograms
      /\ active \in Histograms /\ reader[r].own # active
  BY OwnFacts
<1>3. x \in ReaderState /\ x.pc = "phase" /\ x.own = active
  <2>1. x \in ReaderState
    BY <1>2 DEF ReaderState, Critical, Holding
  <2> QED BY <1>2, <2>1 DEF ReaderState
<1> HIDE DEF x
<1>4. /\ reader' \in [Readers -> ReaderState] /\ reader'[r] = x
      /\ \A q \in Readers \ {r} : reader'[q] = reader[q]
  BY <1>1, <1>3, ReaderTypes DEF RecorderInv
<1>5. RecorderTypes'
  BY <1>1, <1>2, <1>4 DEF RecorderInv, RecorderTypes
<1>6. /\ phaser.mutex = r /\ r # None
      /\ \A q \in Readers \ {r} : reader[q].pc \notin Critical
      /\ \A q \in Readers : reader[q].pc # "wait"
  BY <1>1, NobodyWaits DEF Critical, Holding, Bounded, Histograms
<1>7. MutexInv'
  BY <1>1, <1>3, <1>4, <1>6 DEF MutexInv, Critical, Holding
<1>8. OwnInv'
  <2>1. \A q \in Readers \ {r} : /\ reader[q].own # active /\ reader[q].own # reader[r].own
    BY DEF RecorderInv, OwnInv
  <2>2. \A p, q \in Readers : p # q => reader[q].own # reader[p].own
    BY DEF RecorderInv, OwnInv
  <2> QED BY <1>1, <1>2, <1>3, <1>4, <2>1, <2>2 DEF OwnInv
<1>9. StartInv'
  BY <1>1, SameWriters DEF RecorderInv, StartInv
<1>10. FlipInv'
  BY <1>1, <1>3, <1>4, SameWriters DEF RecorderInv, FlipInv
<1>11. PointerInv'
  <2> SUFFICES ASSUME NEW w \in Writers
               PROVE  /\ writer[w].pc \in {"idle", "load"} => writer[w].h = None
                      /\ writer[w].pc \in Recording =>
                           /\ reader'[r].pc = "phase" /\ writer[w].h = reader'[r].own
    BY <1>1 DEF PointerInv, Holding
  <2>1. writer[w].pc \in {"idle", "load"} => writer[w].h = None
    BY DEF RecorderInv, PointerInv
  <2>2. writer[w].pc \in Recording => writer[w].h = active
    <3>1. \A q \in Readers : reader[q].pc \notin Holding
      BY <1>1, <1>6 DEF Critical, Holding
    <3> QED BY <3>1 DEF RecorderInv, PointerInv
  <2> QED BY <1>3, <1>4, <2>1, <2>2
<1>12. CountInv'
  BY <1>1, SameWriters DEF RecorderInv, CountInv
<1>13. EmptyInv'
  BY <1>1, <1>3, <1>4 DEF RecorderInv, EmptyInv
<1>14. SumInv'
  <2>1. hist[active].count \in Int /\ hist[reader[r].own].count \in Int /\ sampled \in Int
    BY <1>2 DEF RecorderInv, RecorderTypes
  <2>2. recorded = sampled + hist[active].count + hist[reader[r].own].count
    BY <1>6 DEF RecorderInv, SumInv
  <2>3. reader'[phaser.mutex].own = active
    BY <1>3, <1>4, <1>6
  <2> QED BY SMTT(30), SMTT(90), <1>1, <1>6, <2>1, <2>2, <2>3 DEF SumInv
<1> QED BY <1>5, <1>7, <1>8, <1>9, <1>10, <1>11, <1>12, <1>13, <1>14 DEF RecorderInv

\* hdr_phaser_flip_phase sets the end epoch of the next phase back, which
\* nobody is in.
LEMMA ClearKeeps ==
  ASSUME Bounded, RecorderInv, NEW r \in Readers, ClearEndEpoch(r)
  PROVE  RecorderInv'
<1>1. /\ reader[r].pc = "phase"
      /\ UNCHANGED <<active, hist, writer, calls, recorded, sampled>>
  BY DEF ClearEndEpoch
<1>2. /\ phaser' \in PhaserState /\ phaser'.mutex = phaser.mutex
      /\ phaser'.start = phaser.start /\ phaser.start \in Int
      /\ phaser.start < 0 => phaser'.even = 0 /\ phaser'.odd = phaser.odd
      /\ phaser.start >= 0 => phaser'.odd = INT64_MIN /\ phaser'.even = phaser.even
  BY SMTT(30), SMTT(90)
     DEF ClearEndEpoch, RecorderInv, RecorderTypes, PhaserState, Bounded
<1>3. PICK x \in ReaderState :
        /\ reader' = [reader EXCEPT ![r] = x] /\ x.pc = "reset" /\ x.own = reader[r].own
        /\ phaser.start < 0 => x.even
        /\ phaser.start >= 0 => ~x.even
  <2> DEFINE b == phaser.start < 0
             y == [reader[r] EXCEPT !.pc = "reset", !.even = b]
  <2>1. reader' = [reader EXCEPT ![r] = y]
    BY DEF ClearEndEpoch
  <2>2. reader[r] \in ReaderState
    BY OwnFacts
  <2>3. b \in BOOLEAN /\ (phaser.start < 0 => b) /\ (phaser.start >= 0 => ~b)
    BY SMTT(30), SMTT(90), <1>2
  <2> HIDE DEF b
  <2>4. y \in ReaderState
    BY <2>2, <2>3 DEF ReaderState, Critical, Holding
  <2>5. y.pc = "reset" /\ y.own = reader[r].own /\ y.even = b
    BY <2>2 DEF ReaderState
  <2> HIDE DEF y
  <2> QED BY <2>1, <2>3, <2>4, <2>5
<1>4. /\ reader' \in [Readers -> ReaderState] /\ reader'[r] = x
      /\ \A q \in Readers \ {r} : reader'[q] = reader[q]
  BY <1>3, ReaderTypes DEF RecorderInv
<1>5. \A q \in Readers : /\ reader'[q].own = reader[q].own
                         /\ q = r \/ reader'[q] = reader[q]
  BY <1>3, <1>4
<1>6. RecorderTypes'
  BY <1>1, <1>2, <1>4 DEF RecorderInv, RecorderTypes
<1>7. /\ phaser.mutex = r
      /\ \A q \in Readers \ {r} : reader[q].pc \notin Critical
      /\ \A q \in Readers : reader[q].pc # "wait"
  BY <1>1, NobodyWaits DEF Critical, Holding
<1>8. MutexInv'
  BY <1>2, <1>3, <1>4, <1>7 DEF MutexInv, Critical, Holding
<1>9. OwnInv'
  BY <1>1, <1>5, SameOwners
<1>10. StartInv'
  BY <1>1, <1>2, SameWriters DEF RecorderInv, StartInv
<1>11. FlipInv'
  <2>1. \A q \in Readers : reader'[q].pc # "wait" /\ (reader'[q].pc = "reset" => q = r)
    BY <1>3, <1>4, <1>7 DEF Critical, Holding
  <2>2. (phaser.start >= 0 => InOdd = {}) /\ (phaser.start < 0 => InEven = {})
    BY <1>7 DEF RecorderInv, FlipInv
  <2>3. /\ reader'[r].even => phaser'.start < 0 /\ phaser'.even = 0
        /\ ~reader'[r].even => phaser'.start >= 0 /\ phaser'.odd = INT64_MIN
    BY SMTT(30), SMTT(90), <1>2, <1>3, <1>4
  <2> QED BY <1>1, <1>2, <2>1, <2>2, <2>3, SameWriters DEF FlipInv
<1>12. PointerInv'
  BY <1>1, <1>3, <1>4, SamePointers DEF Holding
<1>13. CountInv'
  BY <1>1, SameWriters DEF RecorderInv, CountInv
<1>14. EmptyInv'
  BY <1>1, <1>3, <1>4 DEF RecorderInv, EmptyInv
<1>15. SumInv'
  BY <1>1, <1>2, <1>5, <1>7 DEF RecorderInv, SumInv
<1> QED BY <1>6, <1>8, <1>9, <1>10, <1>11, <1>12, <1>13, <1>14, <1>15 DEF RecorderInv

\* The next phase starts; the reader remembers how many entered the last.
LEMMA ResetKeeps ==
  ASSUME Bounded, RecorderInv, NEW r \in Readers, ResetStartEpoch(r)
  PROVE  RecorderInv'
<1> DEFINE x == [reader[r] EXCEPT !.pc = "wait", !.at = phaser.start]
<1>1. /\ reader[r].pc = "reset" /\ reader' = [reader EXCEPT ![r] = x]
      /\ UNCHANGED <<active, hist, writer, calls, recorded, sampled>>
  BY DEF ResetStartEpoch
<1>2. /\ phaser' \in PhaserState /\ phaser'.mutex = phaser.mutex /\ phaser.start \in Int
      /\ phaser'.even = phaser.even /\ phaser'.odd = phaser.odd
      /\ reader[r].even => phaser'.start = 0
      /\ ~reader[r].even => phaser'.start = INT64_MIN
  BY SMTT(30), SMTT(90)
     DEF ResetStartEpoch, RecorderInv, RecorderTypes, PhaserState, Bounded
<1>3. /\ x \in ReaderState /\ x.pc = "wait" /\ x.own = reader[r].own
      /\ x.even = reader[r].even /\ x.at = phaser.start
  <2>1. reader[r] \in ReaderState
    BY OwnFacts
  <2>2. x \in ReaderState
    BY <1>2, <2>1 DEF ReaderState, Critical, Holding
  <2> QED BY <2>1, <2>2 DEF ReaderState
<1> HIDE DEF x
<1>4. /\ reader' \in [Readers -> ReaderState] /\ reader'[r] = x
      /\ \A q \in Readers \ {r} : reader'[q] = reader[q]
  BY <1>1, <1>3, ReaderTypes DEF RecorderInv
<1>5. \A q \in Readers : /\ reader'[q].own = reader[q].own
                         /\ q = r \/ reader'[q] = reader[q]
  BY <1>3, <1>4
<1>6. RecorderTypes'
  BY <1>1, <1>2, <1>4 DEF RecorderInv, RecorderTypes
<1>7. /\ phaser.mutex = r
      /\ \A q \in Readers \ {r} : reader[q].pc \notin Critical
      /\ \A q \in Readers : reader[q].pc # "wait"
  BY <1>1, NobodyWaits DEF Critical, Holding
<1>8. MutexInv'
  BY <1>2, <1>3, <1>4, <1>7 DEF MutexInv, Critical, Holding
<1>9. OwnInv'
  BY <1>1, <1>5, SameOwners
<1>10. /\ phaser.start >= 0 => InOdd = {} /\ phaser.start = phaser.even + Cardinality(InEven)
       /\ phaser.start < 0 => InEven = {} /\ phaser.start = phaser.odd + Cardinality(InOdd)
       /\ reader[r].even => phaser.start < 0 /\ phaser.even = 0
       /\ ~reader[r].even => phaser.start >= 0 /\ phaser.odd = INT64_MIN
  BY <1>1, <1>7 DEF RecorderInv, FlipInv, StartInv
<1>11. Cardinality({}) = 0 /\ INT64_MIN < 0 /\ calls \in Nat /\ calls <= MaxRecords
  BY SMTT(30), SMTT(90), FS_EmptySet DEF Bounded, RecorderInv, RecorderTypes, StartInv
<1>12. StartInv'
  <2>1. InEven' = InEven /\ InOdd' = InOdd /\ calls' = calls
    BY <1>1, SameWriters
  <2>2. CASE reader[r].even
    <3>1. phaser'.start = 0 /\ phaser'.even = 0 /\ InEven' = {}
      BY <1>2, <1>10, <2>1, <2>2
    <3> QED BY SMTT(30), SMTT(90), <1>11, <2>1, <3>1 DEF StartInv
  <2>3. CASE ~reader[r].even
    <3>1. phaser'.start = INT64_MIN /\ phaser'.odd = INT64_MIN /\ InOdd' = {}
      BY <1>2, <1>10, <2>1, <2>3 DEF RecorderInv
    <3>2. INT64_MIN \in Int
      BY DEF Bounded
    <3> QED BY SMTT(30), SMTT(90), <1>11, <2>1, <3>1, <3>2 DEF StartInv
  <2> QED BY <2>2, <2>3
<1>13. FlipInv'
  <2>1. \A q \in Readers : reader'[q].pc \in {"wait", "reset"} => q = r
    BY <1>4, <1>7 DEF Critical, Holding
  <2>2. InEven' = InEven /\ InOdd' = InOdd
    BY <1>1, SameWriters
  <2>3. /\ reader'[r].even => phaser'.start >= 0 /\ reader'[r].at = phaser.odd + Cardinality(InOdd)
        /\ ~reader'[r].even => phaser'.start < 0 /\ reader'[r].at = phaser.even + Cardinality(InEven)
    <3>1. (reader'[r].even <=> reader[r].even) /\ reader'[r].at = phaser.start
      BY <1>3, <1>4
    <3>2. 0 >= 0
      BY SMTT(30), SMTT(90)
    <3> QED BY <1>2, <1>10, <1>11, <3>1, <3>2
  <2>4. reader'[r].pc = "wait"
    BY <1>3, <1>4
  <2> QED BY <1>2, <2>1, <2>2, <2>3, <2>4 DEF FlipInv
<1>14. PointerInv'
  <2> SUFFICES ASSUME NEW w \in Writers
               PROVE  /\ writer[w].pc \in {"idle", "load"} => writer[w].h = None
                      /\ writer[w].pc \in Recording /\ writer[w].h # active =>
                           /\ writer[w].h = reader'[r].own
                           /\ reader'[r].even => writer[w].val < 0
                           /\ ~reader'[r].even => writer[w].val >= 0
    BY <1>1, <1>3, <1>4 DEF PointerInv, Holding
  <2>1. writer[w].pc \in {"idle", "load"} => writer[w].h = None
    BY DEF RecorderInv, PointerInv
  <2>2. writer[w].pc \in Recording /\ writer[w].h # active => writer[w].h = reader'[r].own
    BY <1>5, <1>7, HeldHistogram
  <2>3. writer[w].val \in Int
    BY DEF RecorderInv, RecorderTypes, WriterState
  <2>4. writer[w].pc \in Recording /\ reader[r].even => writer[w].val < 0
    BY SMTT(30), SMTT(90), <1>10, <2>3 DEF InEven, Recording
  <2>5. writer[w].pc \in Recording /\ ~reader[r].even => writer[w].val >= 0
    BY SMTT(30), SMTT(90), <1>10, <2>3 DEF InOdd, Recording
  <2>6. reader'[r].even = reader[r].even
    BY <1>3, <1>4
  <2> QED BY <2>1, <2>2, <2>4, <2>5, <2>6
<1>15. CountInv'
  BY <1>1, SameWriters DEF RecorderInv, CountInv
<1>16. EmptyInv'
  BY <1>1, <1>3, <1>4 DEF RecorderInv, EmptyInv
<1>17. SumInv'
  BY <1>1, <1>2, <1>5, <1>7 DEF RecorderInv, SumInv
<1> QED BY <1>6, <1>8, <1>9, <1>12, <1>13, <1>14, <1>15, <1>16, <1>17 DEF RecorderInv

\* The end epoch caught up: nobody is left in the last phase, so that nobody
\* records into the histogram that the reader returns with.
LEMMA UnlockKeeps ==
  ASSUME Bounded, RecorderInv, NEW r \in Readers, ReaderUnlock(r)
  PROVE  RecorderInv'
<1> DEFINE x == [reader[r] EXCEPT !.pc = "idle"]
<1>1. /\ reader[r].pc = "wait" /\ CaughtUp(r) /\ reader' = [reader EXCEPT ![r] = x]
      /\ sampled' = sampled + hist[reader[r].own].total
      /\ UNCHANGED <<active, hist, writer, calls, recorded>>
  BY DEF ReaderUnlock
<1>2. /\ phaser' \in PhaserState /\ phaser'.mutex = None /\ phaser.start \in Int
      /\ phaser.even \in Int /\ phaser.odd \in Int /\ phaser'.start = phaser.start
      /\ phaser'.even = phaser.even /\ phaser'.odd = phaser.odd
  BY DEF ReaderUnlock, RecorderInv, RecorderTypes, PhaserState
<1>3. /\ x \in ReaderState /\ x.pc = "idle" /\ x.own = reader[r].own
  <2>1. reader[r] \in ReaderState
    BY OwnFacts
  <2>2. x \in ReaderState
    BY <2>1 DEF ReaderState
  <2> QED BY <2>1, <2>2 DEF ReaderState
<1> HIDE DEF x
<1>4. /\ reader' \in [Readers -> ReaderState] /\ reader'[r] = x
      /\ \A q \in Readers \ {r} : reader'[q] = reader[q]
  BY <1>1, <1>3, ReaderTypes DEF RecorderInv
<1>5. \A q \in Readers : /\ reader'[q].own = reader[q].own
                         /\ q = r \/ reader'[q] = reader[q]
  BY <1>3, <1>4
<1>6. phaser.mutex = r /\ r # None /\ \A q \in Readers \ {r} : reader[q].pc \notin Critical
  BY <1>1, NobodyWaits DEF Critical, Holding, Bounded, Histograms
<1>7. /\ reader[r].even => phaser.start >= 0 /\ InOdd = {}
      /\ ~reader[r].even => phaser.start < 0 /\ InEven = {}
  <2>1. /\ reader[r].even => phaser.start >= 0 /\ reader[r].at = phaser.odd + Cardinality(InOdd)
        /\ ~reader[r].even => phaser.start < 0 /\ reader[r].at = phaser.even + Cardinality(InEven)
    BY <1>1 DEF RecorderInv, FlipInv
  <2>2. /\ reader[r].even => reader[r].at = phaser.odd
        /\ ~reader[r].even => reader[r].at = phaser.even
    BY <1>1 DEF CaughtUp
  <2>3. InEven \in SUBSET Writers /\ InOdd \in SUBSET Writers
    BY DEF InEven, InOdd
  <2>4. /\ Cardinality(InEven) \in Nat /\ (Cardinality(InEven) = 0 => InEven = {})
        /\ Cardinality(InOdd) \in Nat /\ (Cardinality(InOdd) = 0 => InOdd = {})
    BY <2>3, Counting
  <2>5. CASE reader[r].even
    <3>1. Cardinality(InOdd) = 0
      BY SMTT(30), SMTT(90), <1>2, <2>1, <2>2, <2>4, <2>5
    <3> QED BY <2>1, <2>4, <2>5, <3>1
  <2>6. CASE ~reader[r].even
    <3>1. Cardinality(InEven) = 0
      BY SMTT(30), SMTT(90), <1>2, <2>1, <2>2, <2>4, <2>6
    <3> QED BY <2>1, <2>4, <2>6, <3>1
  <2> QED BY <2>5, <2>6
<1>8. \A w \in Writers : writer[w].pc \in Recording => writer[w].h = active
  <2> SUFFICES ASSUME NEW w \in Writers, writer[w].pc \in Recording, writer[w].h # active
               PROVE  FALSE
    OBVIOUS
  <2>1. /\ reader[r].even => writer[w].val < 0
        /\ ~reader[r].even => writer[w].val >= 0
    BY <1>1, <1>6 DEF RecorderInv, PointerInv, Critical
  <2>2. writer[w].pc # "idle"
    BY DEF Recording
  <2> QED BY <1>7, <2>1, <2>2 DEF InEven, InOdd
<1>9. RecorderTypes'
  <2>1. sampled' \in Int
    <3>1. reader[r].own \in Histograms
      BY OwnFacts
    <3> QED BY SMTT(30), SMTT(90), <1>1, <3>1 DEF RecorderInv, RecorderTypes
  <2> QED BY <1>1, <1>2, <1>4, <2>1 DEF RecorderInv, RecorderTypes
<1>10. MutexInv'
  BY <1>2, <1>3, <1>4, <1>6 DEF MutexInv, Critical, Holding, Bounded, Histograms
<1>11. OwnInv'
  BY <1>1, <1>5, SameOwners
<1>12. StartInv'
  BY <1>1, <1>2, SameWriters DEF RecorderInv, StartInv
<1>13. FlipInv'
  <2>1. \A q \in Readers : reader'[q].pc \notin {"wait", "reset"}
    BY <1>3, <1>4, <1>6 DEF Critical, Holding
  <2>2. (phaser.start >= 0 => InOdd = {}) /\ (phaser.start < 0 => InEven = {})
    BY SMTT(30), SMTT(90), <1>2, <1>7
  <2> QED BY <1>1, <1>2, <2>1, <2>2, SameWriters DEF FlipInv
<1>14. PointerInv'
  <2>1. \A w \in Writers : writer[w].pc \in {"idle", "load"} => writer[w].h = None
    BY DEF RecorderInv, PointerInv
  <2> QED BY <1>1, <1>8, <2>1 DEF PointerInv
<1>15. CountInv'
  BY <1>1, SameWriters DEF RecorderInv, CountInv
<1>16. EmptyInv'
  BY <1>1, <1>3, <1>4 DEF RecorderInv, EmptyInv
<1>17. SumInv'
  <2> DEFINE o == reader[r].own
  <2>1. o \in Histograms /\ active \in Histograms /\ o # active
    BY OwnFacts
  <2>2. Adding(o) = {}
    BY <1>8, <2>1 DEF Adding, Recording
  <2>3. hist[o].count = hist[o].total + Cardinality({})
    BY <2>1, <2>2 DEF RecorderInv, CountInv
  <2>4. /\ hist[o].count \in Int /\ hist[o].total \in Int /\ hist[active].count \in Int
        /\ sampled \in Int /\ Cardinality({}) = 0
    BY <2>1, FS_EmptySet DEF RecorderInv, RecorderTypes
  <2>5. recorded = sampled + hist[active].count + hist[o].count
    BY <1>6 DEF RecorderInv, SumInv
  <2> QED BY SMTT(30), SMTT(90), <1>1, <1>2, <2>3, <2>4, <2>5 DEF SumInv
<1> QED BY <1>9, <1>10, <1>11, <1>12, <1>13, <1>14, <1>15, <1>16, <1>17 DEF RecorderInv

\* Every step keeps the invariant.
LEMMA NextRecorder ==
  ASSUME Bounded, RecorderInv, [Next]_vars
  PROVE  RecorderInv'
<1>1. CASE UNCHANGED vars
  <2>1. UNCHANGED <<phaser, active, hist, writer, reader, calls, recorded, sampled>>
    BY <1>1 DEF vars
  <2>2. RecorderTypes' /\ MutexInv' /\ OwnInv'
    BY <2>1 DEF RecorderInv, RecorderTypes, MutexInv, OwnInv
  <2>3. StartInv' /\ FlipInv' /\ CountInv'
    BY <2>1, SameWriters DEF RecorderInv, StartInv, FlipInv, CountInv
  <2>4. PointerInv' /\ EmptyInv' /\ SumInv'
    BY <2>1, SamePointers DEF RecorderInv, EmptyInv, SumInv
  <2> QED BY <2>2, <2>3, <2>4 DEF RecorderInv
<1>2. ASSUME NEW w \in Writers, Write(w) PROVE RecorderInv'
  BY <1>2, LoadActiveKeeps, IncrementCountKeeps, IncrementTotalKeeps, ExitKeeps
     DEF Write
<1>3. ASSUME NEW r \in Readers, Sample(r) \/ Recycle(r) PROVE RecorderInv'
  BY <1>3, LockKeeps, ExchangeKeeps, ClearKeeps, ResetKeeps, UnlockKeeps, RecycleKeeps
     DEF Sample
<1> QED BY <1>1, <1>2, <1>3, EnterKeeps DEF Next

\* A handed histogram has no writer, and its counters agree.
LEMMA InvariantIsEnough ==
  ASSUME Bounded, RecorderInv
  PROVE  SamplesAreExact
<1>1. ASSUME NEW r \in Readers, reader[r].pc \in {"idle", "lock"}
      PROVE  /\ reader[r].own # active
             /\ \A w \in Writers : writer[w].h # reader[r].own
             /\ hist[reader[r].own].count = hist[reader[r].own].total
  <2> DEFINE o == reader[r].own
  <2>1. o \in Histograms /\ o # active /\ Adding(o) = {} /\ o # None
    BY <1>1, OwnFacts DEF Holding, Bounded
  <2>2. ASSUME NEW w \in Writers PROVE writer[w].h # o
    <3>1. writer[w].pc \in {"idle", "load"} \/ writer[w].pc \in Recording
      BY DEF RecorderInv, RecorderTypes, WriterState
    <3>2. writer[w].pc \in {"idle", "load"} => writer[w].h = None
      BY DEF RecorderInv, PointerInv
    <3>3. writer[w].pc \in Recording => writer[w].h # o
      BY <1>1, HeldHistogram DEF Holding
    <3> QED BY <2>1, <3>1, <3>2, <3>3
  <2>3. hist[o].count = hist[o].total + Cardinality({})
    BY <2>1 DEF RecorderInv, CountInv
  <2>4. hist[o].total \in Int /\ Cardinality({}) = 0
    BY <2>1, FS_EmptySet DEF RecorderInv, RecorderTypes
  <2>5. hist[o].count = hist[o].total
    BY SMTT(30), SMTT(90), <2>3, <2>4
  <2> QED BY <2>1, <2>2, <2>5
<1>2. SumInv
  BY DEF RecorderInv
<1> QED BY <1>1, <1>2 DEF SamplesAreExact, SumInv, Handed

\* hdr_interval_recorder_sample_and_recycle returns a histogram that no writer
\* can still change and whose counters agree, and no value is lost or sampled
\* twice, whatever writers and readers do at the same time.
THEOREM ExactSamples == ASSUME Bounded PROVE Spec => []SamplesAreExact
<1>1. Init => RecorderInv
  BY InitRecorder
<1>2. RecorderInv /\ [Next]_vars => RecorderInv'
  BY NextRecorder
<1>3. RecorderInv => SamplesAreExact
  BY InvariantIsEnough
<1> QED BY <1>1, <1>2, <1>3, PTL DEF Spec
=============================================================================
