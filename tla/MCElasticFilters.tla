-------------------------- MODULE MCElasticFilters --------------------------
(***************************************************************************)
(* The components whose threads wait for each other, for TLC: the elastic  *)
(* filters with two threads and two tables, PosixEnv with two threads (and *)
(* with two processes that only open and lock files), and the interval     *)
(* recorder of the benchmark with two writers and two readers.  A          *)
(* behaviour is one of the component that `part' names.                    *)
(***************************************************************************)
EXTENDS ElasticFilters

CONSTANTS t1, t2, f1, f2, w1, w2, r1, r2, None

TwoThreads == {t1, t2}
TwoFiles == {f1, f2}
OneUnit == [f \in TwoFiles |-> 1]
OneTable == {f1}
Hot == {3}
TwoSeqs == {1, 2}

VARIABLES part

VARIABLES pc, file, mmaps, fds, locked, owner, holds, queue, bg, ran, items
Posix == INSTANCE PosixEnv WITH
  Threads <- {<<1, 1>>, <<1, 2>>}, MaxMmaps <- 1, MaxOpenFiles <- 1, MaxItems <- 2

TwoProcesses == INSTANCE PosixEnv WITH
  Threads <- {<<1, 1>>, <<1, 2>>, <<2, 1>>}, MaxMmaps <- 1, MaxOpenFiles <- 1, MaxItems <- 0

VARIABLES phaser, active, hist, writer, sampler, calls, recorded, sampled
Rec == INSTANCE Recorder WITH
  reader <- sampler,
  Writers <- {w1, w2}, Readers <- {r1, r2}, MaxRecords <- 2, MaxSamples <- 1, INT64_MIN <- -100
-----------------------------------------------------------------------------
posixVars == <<pc, file, mmaps, fds, locked, owner, holds, queue, bg, ran, items>>
recVars == <<phaser, active, hist, writer, sampler, calls, recorded, sampled>>
allVars == <<part, vars, posixVars, recVars>>

PosixStep(A) == part = "posix" /\ A /\ UNCHANGED <<part, vars, recVars>>
RecStep(A) == part = "recorder" /\ A /\ UNCHANGED <<part, vars, posixVars>>

AllInit ==
  /\ part \in {"filters", "posix", "processes", "recorder"}
  /\ Init /\ Rec!Init
  /\ IF part = "processes" THEN TwoProcesses!Init ELSE Posix!Init

AllNext ==
  \/ part = "filters" /\ Next /\ UNCHANGED <<part, posixVars, recVars>>
  \/ PosixStep(Posix!Next)
  \/ /\ part = "processes" /\ TwoProcesses!Next
     /\ UNCHANGED <<part, vars, recVars>>
  \/ RecStep(Rec!Next)
  \/ part = "recorder" /\ Rec!Finished /\ UNCHANGED allVars

\* The fairness of the three components.
AllSpec ==
  /\ AllInit /\ [][AllNext]_allVars
  /\ \A t \in Threads : []<>~(part = "filters" /\ CanStep(t)) \/ []<><<Stepped(t)>>_vars
  /\ []<>~(part = "filters" /\ CanWork) \/ []<><<Worked>>_vars
  /\ \A p \in Posix!Processes : WF_allVars(PosixStep(Posix!Background(p)))
  /\ \A w \in {w1, w2} : WF_allVars(RecStep(Rec!Write(w)))
  /\ \A r \in {r1, r2} : WF_allVars(RecStep(Rec!Sample(r)))
-----------------------------------------------------------------------------
\* The thread that loads filters reads through files that are still open, and
\* tables hold handles that the multi-queue has not erased (MultiQueue::Release,
\* MultiQueue::Erase).
PointersAreLive == FirstLoadFromOpenFile /\ HandlesAreLinked

\* Limits on mapped and open files hold, and one caller of a process has the
\* lock on the database (Limiter and PosixLockTable).
PosixIsSound ==
  /\ part = "posix" => Posix!PosixIsSound
  /\ part = "processes" => TwoProcesses!PosixIsSound

\* A sample is complete when it is read, and every recorded value is in one.
SamplesAreExact == part = "recorder" => Rec!SamplesAreExact

Waiting(i) ==
  CASE part = "filters" -> ~At(<<t1, t2>>[i], "idle")
    [] part = "posix" -> items[1] >= i
    [] part = "recorder" -> sampler[<<r1, r2>>[i]].pc = "exchange"
    [] OTHER -> FALSE

Served(i) ==
  CASE part = "filters" -> At(<<t1, t2>>[i], "idle")
    [] part = "posix" -> Len(ran[1]) >= i /\ ran[1][i] = i
    [] part = "recorder" -> sampler[<<r1, r2>>[i]].pc = "idle"
    [] OTHER -> TRUE

\* Every call of the filters returns, although calls wait for the first load
\* of a filter with the mutexes of the multi-queue and of the shard; every
\* function given to PosixEnv::Schedule is run, once and in order; and a reader
\* that exchanged the histogram gets it: hdr_phaser_flip_phase stops spinning
\* although writers keep entering the new phase.
WaitsEnd == \A i \in 1 .. 2 : Waiting(i) ~> Served(i)
=============================================================================
