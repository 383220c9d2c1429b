----------------------------- MODULE WriteQueue -----------------------------
(***************************************************************************)
(* The threads of an open database (db/db_impl.cc): clients in             *)
(* DBImpl::Write, TEST_CompactMemTable and TEST_CompactRange (CompactRange *)
(* is a sequence of the last two), the background thread in                *)
(* BackgroundCall, and the destructor.  They share mutex_, the queue of    *)
(* writers with a condition variable per writer, and                       *)
(* background_work_finished_signal_.                                       *)
(*                                                                         *)
(* Code that runs from one Lock to the next Unlock or Wait is one action,  *)
(* except that a writer keeps the mutex over the iterations of             *)
(* MakeRoomForWrite.  A write is a pair <<client, call>>; its batch has    *)
(* one entry.  What the files hold after a crash is module Durability.     *)
(***************************************************************************)
EXTENDS Naturals, Sequences, FiniteSets

CONSTANTS Clients,     \* the client threads
          Closer,      \* the thread that runs the destructor
          Kinds,       \* the calls clients make, see CallKinds
          MaxCalls,    \* calls per client
          MaxKeys,     \* looks at has_imm_ during one compaction
          MaxParts,    \* parts a manual compaction is done in
          MemCap,      \* batches that fit in a memtable
          L0Trigger, L0Slow, L0Stop,  \* config::kL0_*Trigger
          Faults       \* the errors that may happen, see FaultKinds

CallKinds == {"put", "sync", "flush", "manual"}
FaultKinds == {"append", "sync", "create", "close", "build", "manifest"}
Nobody == "nobody"

ASSUME WriteQueueAssumption ==
  /\ Kinds \subseteq CallKinds /\ Faults \subseteq FaultKinds
  /\ MaxCalls \in Nat /\ MaxKeys \in Nat /\ MaxParts \in Nat /\ MemCap \in Nat \ {0}
  /\ L0Trigger \in Nat \ {0} /\ L0Slow \in Nat /\ L0Stop \in Nat
  /\ L0Trigger <= L0Slow /\ L0Slow <= L0Stop
  /\ Closer \notin Clients /\ Nobody \notin Clients \cup {Closer}

Threads == Clients \cup {Closer}
Writes == Clients \X (1 .. MaxCalls)

VARIABLES
  lock,        \* the client that keeps mutex_ inside MakeRoomForWrite
  asleep,      \* threads blocked on a condition variable
  pc, kind, calls,      \* where each thread is, in which call, and how many
  writers,     \* writers_
  done, status,         \* Writer::done, Writer::status
  force, delay,         \* locals of MakeRoomForWrite
  group,       \* the writers of the group in progress
  toInsert,    \* its batches that are not in mem_ yet
  failed,      \* status of the group: "ok", "append", "sync"
  mem, imm, hasImm,
  lastSeq,     \* versions_->LastSequence()
  seqOf,       \* the sequence number of each write, 0 before it has one
  l0,          \* versions_->NumLevelFiles(0)
  bgError, scheduled, shutting,
  manual,      \* the owner of *manual_compaction_, or Nobody
  mdone, left, \* ManualCompaction::done, and the parts still to compact
  bpc, isManual, inWork,  \* the background thread
  take, keys,  \* level-0 inputs of its compaction, looks at has_imm_ left
  crashed,     \* it followed a null manual_compaction_
  \* --- history ---
  logged, synced,       \* writes in the log, and those fsync'ed
  inserted,    \* writes that reached a memtable
  result,      \* what the call that made each write returned
  before,      \* writes acknowledged when each TEST_CompactMemTable began
  flushed      \* writes TEST_CompactMemTable has promised to have compacted

roomVars == <<force, delay>>
groupVars == <<group, toInsert, failed>>
memVars == <<mem, imm, hasImm>>
bgVars == <<bpc, isManual, inWork, take, keys, crashed>>
histVars == <<logged, synced, inserted, result, before, flushed>>
vars == <<lock, asleep, pc, kind, calls, writers, done, status, roomVars,
          groupVars, memVars, lastSeq, seqOf, l0, bgError, scheduled, shutting,
          manual, mdone, left, bgVars, histVars>>

TypeOK ==
  /\ lock \in Clients \cup {Nobody} /\ asleep \subseteq Threads
  /\ pc \in [Threads -> {"idle", "queue", "room", "append", "sync", "insert",
                         "finish", "imm", "manual", "close", "closed"}]
  /\ kind \in [Clients -> CallKinds] /\ calls \in [Clients -> 0 .. MaxCalls]
  /\ writers \in Seq(Clients)
  /\ done \in [Clients -> BOOLEAN] /\ status \in [Clients -> {"ok", "error"}]
  /\ force \in BOOLEAN /\ delay \in BOOLEAN
  /\ group \in Seq(Clients) /\ toInsert \subseteq Writes
  /\ failed \in {"ok", "append", "sync"}
  /\ mem \subseteq Writes /\ imm \subseteq Writes /\ hasImm \in BOOLEAN
  /\ lastSeq \in Nat /\ seqOf \in [Writes -> Nat] /\ l0 \in Nat
  /\ bgError \in BOOLEAN /\ scheduled \in BOOLEAN /\ shutting \in BOOLEAN
  /\ manual \in Clients \cup {Nobody} /\ mdone \in [Clients -> BOOLEAN]
  /\ left \in [Clients -> 0 .. MaxParts] /\ take \in Nat /\ keys \in 0 .. MaxKeys
  /\ bpc \in {"idle", "build", "flushlog", "flushgc", "work", "worklog",
              "workgc", "move"}
  /\ isManual \in BOOLEAN /\ inWork \in BOOLEAN /\ crashed \in BOOLEAN
  /\ logged \subseteq Writes /\ synced \subseteq Writes /\ inserted \subseteq Writes
  /\ result \in [Writes -> {"none", "ok", "error"}]
  /\ before \in [Clients -> SUBSET Writes] /\ flushed \subseteq Writes

Init ==
  /\ lock = Nobody /\ asleep = {}
  /\ pc = [t \in Threads |-> "idle"]
  /\ kind = [t \in Clients |-> "put"] /\ calls = [t \in Clients |-> 0]
  /\ writers = <<>>
  /\ done = [t \in Clients |-> FALSE] /\ status = [t \in Clients |-> "ok"]
  /\ force = FALSE /\ delay = FALSE
  /\ group = <<>> /\ toInsert = {} /\ failed = "ok"
  /\ mem = {} /\ imm = {} /\ hasImm = FALSE
  /\ lastSeq = 0 /\ seqOf = [w \in Writes |-> 0] /\ l0 = 0
  /\ bgError = FALSE /\ scheduled = FALSE /\ shutting = FALSE
  /\ manual = Nobody /\ mdone = [t \in Clients |-> FALSE]
  /\ bpc = "idle" /\ isManual = FALSE /\ inWork = FALSE
  /\ left = [t \in Clients |-> 0] /\ take = 0 /\ keys = 0 /\ crashed = FALSE
  /\ logged = {} /\ synced = {} /\ inserted = {}
  /\ result = [w \in Writes |-> "none"]
  /\ before = [t \in Clients |-> {}] /\ flushed = {}

-----------------------------------------------------------------------------
(* The condition variables and the scheduling of background work.          *)

\* Faulty variants of definitions stand before them, under names that end in
\* Bug; no specification uses them, they show that the properties can fail.
InQueueBug == asleep

\* Who stays asleep when background_work_finished_signal_ is signalled: the
\* writers that wait on their own condition variable.
InQueue == {t \in asleep : pc[t] = "queue"}

MaybeScheduleCompactionBug(already, imms, owner, files, error) ==
  already \/ (~shutting /\ ~error /\ (imms \/ files >= L0Trigger))

\* background_compaction_scheduled_ after MaybeScheduleCompaction.
MaybeScheduleCompaction(already, imms, owner, files, error) ==
  \/ already
  \/ ~shutting /\ ~error /\ (imms \/ owner # Nobody \/ files >= L0Trigger)

MutexFree == lock = Nobody /\ ~crashed

\* pthread_cond_wait may return without a signal.
SpuriousWakeup(t) ==
  /\ t \in asleep /\ ~crashed
  /\ asleep' = asleep \ {t}
  /\ UNCHANGED <<lock, pc, kind, calls, writers, done, status, roomVars, groupVars,
                 memVars, lastSeq, seqOf, l0, bgError, scheduled, shutting, manual,
                 mdone, left, bgVars, histVars>>

-----------------------------------------------------------------------------
(* DBImpl::Write.                                                          *)

CurrentWriteBug(t) == <<t, calls[t] + 1>>
CurrentWrite(t) == <<t, calls[t]>>

\* The call goes back to its caller; TEST_CompactMemTable goes on to wait for
\* imm_ when its Write(nullptr) was successful.
Return(t, st) ==
  /\ pc' = [pc EXCEPT ![t] = IF kind[t] = "flush" /\ st = "ok" THEN "imm" ELSE "idle"]
  /\ result' = IF kind[t] = "flush" THEN result
               ELSE [result EXCEPT ![CurrentWrite(t)] = st]

\* The thread reaches the head of the queue and enters MakeRoomForWrite.
EnterRoom(t, null) ==
  /\ lock' = t
  /\ pc' = [pc EXCEPT ![t] = "room"]
  /\ force' = null /\ delay' = ~null

\* A Write is queued; TEST_CompactMemTable writes a null batch.
CallWrite(t, k) ==
  /\ pc[t] = "idle" /\ calls[t] < MaxCalls /\ k \in Kinds \ {"manual"}
  /\ MutexFree /\ pc[Closer] = "idle"
  /\ calls' = [calls EXCEPT ![t] = @ + 1]
  /\ kind' = [kind EXCEPT ![t] = k]
  /\ writers' = Append(writers, t)
  /\ done' = [done EXCEPT ![t] = FALSE]
  /\ before' = [before EXCEPT ![t] = IF k = "flush"
                                     THEN {w \in Writes : result[w] = "ok"} ELSE {}]
  /\ IF writers = <<>>
     THEN EnterRoom(t, k = "flush") /\ UNCHANGED asleep
     ELSE /\ pc' = [pc EXCEPT ![t] = "queue"]
          /\ asleep' = asleep \cup {t}
          /\ UNCHANGED <<lock, roomVars>>
  /\ UNCHANGED <<status, groupVars, memVars, lastSeq, seqOf, l0, bgError, scheduled,
                 shutting, manual, mdone, left, bgVars, logged, synced, inserted,
                 result, flushed>>

AtFrontBug(t) == TRUE
AtFront(t) == t = Head(writers)

\* The loop on w.cv.
QueueWake(t) ==
  /\ pc[t] = "queue" /\ t \notin asleep /\ MutexFree
  /\ \/ /\ done[t]
        /\ Return(t, status[t])
        /\ done' = [done EXCEPT ![t] = FALSE] /\ status' = [status EXCEPT ![t] = "ok"]
        /\ UNCHANGED <<lock, asleep, roomVars>>
     \/ /\ ~done[t] /\ AtFront(t)
        /\ EnterRoom(t, kind[t] = "flush")
        /\ UNCHANGED <<asleep, done, status, result>>
     \/ /\ ~done[t] /\ ~AtFront(t)
        /\ asleep' = asleep \cup {t}
        /\ UNCHANGED <<lock, pc, done, status, roomVars, result>>
  /\ UNCHANGED <<kind, calls, writers, groupVars, memVars, lastSeq,
                 seqOf, l0, bgError, scheduled, shutting, manual, mdone, left,
                 bgVars, logged, synced, inserted, before, flushed>>

NewHeadBug(n) == {}

\* The new head of the queue once n writers have left it.
NewHead(n) == {writers[i] : i \in {n + 1} \cap DOMAIN writers}

\* The end of Write: the first n writers leave the queue, the others of them
\* are told the status, the new head is woken, the mutex is released.
Leave(t, n, st, sleepers) ==
  LET told == {writers[i] : i \in 2 .. n}
  IN /\ writers' = SubSeq(writers, n + 1, Len(writers))
     /\ done' = [u \in Clients |-> done[u] \/ u \in told]
     /\ status' = [u \in Clients |-> IF u \in told THEN st ELSE status[u]]
     /\ asleep' = sleepers \ (told \cup NewHead(n))
     /\ lock' = Nobody /\ force' = FALSE /\ delay' = FALSE
     /\ Return(t, st)

Full == Cardinality(mem) >= MemCap

\* The branches of MakeRoomForWrite, in the order they are tried.
MustDelay == delay /\ l0 >= L0Slow
HasRoom == ~force /\ ~Full
MustWaitBug == hasImm
MustWait == hasImm \/ l0 >= L0Stop

InRoom(t) == pc[t] = "room" /\ t \notin asleep /\ lock \in {t, Nobody} /\ ~crashed

\* A previous background error is returned.
RoomError(t) ==
  /\ InRoom(t) /\ bgError
  /\ Leave(t, 1, "error", asleep)
  /\ UNCHANGED <<kind, calls, groupVars, memVars, lastSeq, seqOf, l0, bgError,
                 scheduled, shutting, manual, mdone, left, bgVars, logged,
                 synced, inserted, before, flushed>>

\* Sleep for a millisecond without the mutex, once.
RoomDelay(t) ==
  /\ InRoom(t) /\ ~bgError /\ MustDelay
  /\ lock' = Nobody
  /\ delay' = FALSE
  /\ UNCHANGED <<asleep, pc, kind, calls, writers, done, status, force, groupVars,
                 memVars, lastSeq, seqOf, l0, bgError, scheduled, shutting, manual,
                 mdone, left, bgVars, histVars>>

\* imm_ is still being compacted, or there are too many level-0 files.
RoomWait(t) ==
  /\ InRoom(t) /\ ~bgError /\ ~MustDelay /\ ~HasRoom /\ MustWait
  /\ lock' = Nobody
  /\ asleep' = asleep \cup {t}
  /\ UNCHANGED <<pc, kind, calls, writers, done, status, roomVars, groupVars,
                 memVars, lastSeq, seqOf, l0, bgError, scheduled, shutting, manual,
                 mdone, left, bgVars, histVars>>

\* A new log and a new memtable; the old one becomes imm_.  When the old log
\* cannot be closed the switch is made all the same.
RoomSwitch(t) ==
  /\ InRoom(t) /\ ~bgError /\ ~MustDelay /\ ~HasRoom /\ ~MustWait
  /\ bgError' \in {FALSE} \cup {TRUE : f \in Faults \cap {"close"}}
  /\ imm' = mem /\ hasImm' = TRUE /\ mem' = {}
  /\ force' = FALSE
  /\ lock' = t
  /\ asleep' = IF bgError' THEN InQueue ELSE asleep
  /\ scheduled' = MaybeScheduleCompaction(scheduled, TRUE, manual, l0, bgError')
  /\ UNCHANGED <<pc, kind, calls, writers, done, status, delay, groupVars, lastSeq,
                 seqOf, l0, shutting, manual, mdone, left, bgVars, histVars>>

\* The new log cannot be created: the writer alone gets the error.
RoomCreateFails(t) ==
  /\ InRoom(t) /\ ~bgError /\ ~MustDelay /\ ~HasRoom /\ ~MustWait
  /\ "create" \in Faults
  /\ Leave(t, 1, "error", asleep)
  /\ UNCHANGED <<kind, calls, groupVars, memVars, lastSeq, seqOf, l0, bgError,
                 scheduled, shutting, manual, mdone, left, bgVars, logged,
                 synced, inserted, before, flushed>>

\* There is room, and the batch is null: nothing to write.
NullWrite(t) ==
  /\ InRoom(t) /\ ~bgError /\ ~MustDelay /\ HasRoom
  /\ kind[t] = "flush"
  /\ Leave(t, 1, "ok", asleep)
  /\ UNCHANGED <<kind, calls, groupVars, memVars, lastSeq, seqOf, l0, bgError,
                 scheduled, shutting, manual, mdone, left, bgVars, logged,
                 synced, inserted, before, flushed>>

GroupEndsBug ==
  {j \in DOMAIN writers : j = Len(writers) \/ kind[writers[j + 1]] # "flush"}

\* The positions where BuildBatchGroup may stop: before a sync write when the
\* first is not, before a batch that makes the group too large, or at the end.
\* A null batch has no size.
GroupEnds ==
  {j \in DOMAIN writers :
     /\ \A i \in 2 .. j : kind[writers[i]] = "sync" => kind[writers[1]] = "sync"
     /\ j = Len(writers) \/ kind[writers[j + 1]] # "flush"}

BatchesBug(j) == {i \in 1 .. j : kind[writers[i]] # "flush" /\ (j = 1 \/ i # j)}

\* Those of the first j writers that have a batch.
Batches(j) == {i \in 1 .. j : kind[writers[i]] # "flush"}

\* The place of a writer's batch among them: the batches up to its own.
Place(j, u) ==
  Cardinality({i \in Batches(j) : \A k \in 1 .. i - 1 : writers[k] # u})

\* BuildBatchGroup and SetSequence; then the mutex is released.
BuildBatchGroup(t, j) ==
  /\ InRoom(t) /\ ~bgError /\ ~MustDelay /\ HasRoom
  /\ kind[t] # "flush" /\ j \in GroupEnds
  /\ group' = SubSeq(writers, 1, j)
  /\ toInsert' = {CurrentWrite(writers[i]) : i \in Batches(j)}
  /\ failed' = "ok"
  /\ seqOf' = [w \in Writes |-> IF w \in toInsert' THEN lastSeq + Place(j, w[1])
                               ELSE seqOf[w]]
  /\ lock' = Nobody /\ delay' = FALSE
  /\ pc' = [pc EXCEPT ![t] = "append"]
  /\ UNCHANGED <<asleep, kind, calls, writers, done, status, force, memVars,
                 lastSeq, l0, bgError, scheduled, shutting, manual, mdone, left,
                 bgVars, histVars>>

\* log_->AddRecord, without the mutex.
AddRecord(t) ==
  /\ pc[t] = "append" /\ ~crashed
  /\ \/ /\ logged' = logged \cup toInsert
        /\ pc' = [pc EXCEPT ![t] = IF kind[t] = "sync" THEN "sync" ELSE "insert"]
        /\ UNCHANGED failed
     \/ /\ "append" \in Faults
        /\ failed' = "append"
        /\ pc' = [pc EXCEPT ![t] = "finish"]
        /\ UNCHANGED logged
  /\ UNCHANGED <<lock, asleep, kind, calls, writers, done, status, roomVars, group,
                 toInsert, memVars, lastSeq, seqOf, l0, bgError, scheduled,
                 shutting, manual, mdone, left, bgVars, synced, inserted, result,
                 before, flushed>>

\* logfile_->Sync, without the mutex.
SyncLog(t) ==
  /\ pc[t] = "sync" /\ ~crashed
  /\ \/ /\ synced' = synced \cup toInsert
        /\ pc' = [pc EXCEPT ![t] = "insert"]
        /\ UNCHANGED failed
     \/ /\ "sync" \in Faults
        /\ failed' = "sync"
        /\ pc' = [pc EXCEPT ![t] = "finish"]
        /\ UNCHANGED synced
  /\ UNCHANGED <<lock, asleep, kind, calls, writers, done, status, roomVars, group,
                 toInsert, memVars, lastSeq, seqOf, l0, bgError, scheduled,
                 shutting, manual, mdone, left, bgVars, logged, inserted, result,
                 before, flushed>>

\* InsertInto puts one entry after the other into mem_, without the mutex.
InsertInto(t) ==
  /\ pc[t] = "insert" /\ ~crashed
  /\ \E w \in toInsert :
       /\ \A v \in toInsert : seqOf[w] <= seqOf[v]
       /\ mem' = mem \cup {w} /\ inserted' = inserted \cup {w}
       /\ toInsert' = toInsert \ {w}
  /\ pc' = IF toInsert' = {} THEN [pc EXCEPT ![t] = "finish"] ELSE pc
  /\ UNCHANGED <<lock, asleep, kind, calls, writers, done, status, roomVars, group,
                 failed, imm, hasImm, lastSeq, seqOf, l0, bgError, scheduled,
                 shutting, manual, mdone, left, bgVars, logged, synced, result,
                 before, flushed>>

GroupCountBug == 1

\* WriteBatchInternal::Count of the group's batch.
GroupCount == Cardinality({i \in DOMAIN group : kind[group[i]] # "flush"})

\* The mutex again: a failed Sync becomes the background error, LastSequence is
\* set, and the group leaves the queue.
FinishWrite(t) ==
  /\ pc[t] = "finish" /\ MutexFree
  /\ bgError' = (bgError \/ failed = "sync")
  /\ lastSeq' = lastSeq + GroupCount
  /\ Leave(t, Len(group), IF failed = "ok" THEN "ok" ELSE "error",
           IF bgError' /\ ~bgError THEN InQueue ELSE asleep)
  /\ group' = <<>> /\ toInsert' = {} /\ failed' = "ok"
  /\ UNCHANGED <<kind, calls, memVars, seqOf, l0, scheduled, shutting,
                 manual, mdone, left, bgVars, logged, synced, inserted, before,
                 flushed>>

-----------------------------------------------------------------------------
(* The rest of TEST_CompactMemTable, TEST_CompactRange, the destructor.    *)

\* TEST_CompactMemTable waits until imm_ is gone or there is an error.
WaitForImm(t) ==
  /\ pc[t] = "imm" /\ t \notin asleep /\ MutexFree
  /\ IF hasImm /\ ~bgError
     THEN asleep' = asleep \cup {t} /\ UNCHANGED <<pc, flushed>>
     ELSE /\ pc' = [pc EXCEPT ![t] = "idle"]
          /\ flushed' = IF hasImm THEN flushed ELSE flushed \cup before[t]
          /\ UNCHANGED asleep
  /\ UNCHANGED <<lock, kind, calls, writers, done, status, roomVars, groupVars,
                 memVars, lastSeq, seqOf, l0, bgError, scheduled, shutting, manual,
                 mdone, left, bgVars, logged, synced, inserted, result, before>>

CallManual(t) ==
  /\ pc[t] = "idle" /\ calls[t] < MaxCalls /\ "manual" \in Kinds
  /\ pc[Closer] = "idle" /\ ~crashed
  /\ calls' = [calls EXCEPT ![t] = @ + 1]
  /\ kind' = [kind EXCEPT ![t] = "manual"]
  /\ mdone' = [mdone EXCEPT ![t] = FALSE]
  /\ \E n \in 0 .. MaxParts : left' = [left EXCEPT ![t] = n]
  /\ pc' = [pc EXCEPT ![t] = "manual"]
  /\ UNCHANGED <<lock, asleep, writers, done, status, roomVars, groupVars, memVars,
                 lastSeq, seqOf, l0, bgError, scheduled, shutting, manual, bgVars,
                 histVars>>

\* The loop of TEST_CompactRange, and its end.
ManualLoop(t) ==
  /\ pc[t] = "manual" /\ t \notin asleep /\ MutexFree
  /\ IF ~mdone[t] /\ ~shutting /\ ~bgError
     THEN /\ manual' = IF manual = Nobody THEN t ELSE manual
          /\ scheduled' = IF manual = Nobody
                          THEN MaybeScheduleCompaction(scheduled, hasImm, t, l0, bgError)
                          ELSE scheduled
          /\ asleep' = asleep \cup {t}
          /\ UNCHANGED <<pc, mdone, left>>
     ELSE /\ manual' = IF manual = t THEN Nobody ELSE manual
          /\ pc' = [pc EXCEPT ![t] = "idle"]
          /\ mdone' = [mdone EXCEPT ![t] = FALSE] /\ left' = [left EXCEPT ![t] = 0]
          /\ UNCHANGED <<asleep, scheduled>>
  /\ UNCHANGED <<lock, kind, calls, writers, done, status, roomVars, groupVars,
                 memVars, lastSeq, seqOf, l0, bgError, shutting, bgVars, histVars>>

\* ~DBImpl, which the caller runs when no other call is in progress.
Close ==
  /\ ~crashed /\ pc[Closer] = "idle" /\ \A t \in Clients : pc[t] = "idle"
  /\ shutting' = TRUE
  /\ pc' = [pc EXCEPT ![Closer] = "close"]
  /\ UNCHANGED <<lock, asleep, kind, calls, writers, done, status, roomVars,
                 groupVars, memVars, lastSeq, seqOf, l0, bgError, scheduled, manual,
                 mdone, left, bgVars, histVars>>

CloseLoopBug ==
  /\ pc[Closer] = "close" /\ MutexFree
  /\ pc' = [pc EXCEPT ![Closer] = "closed"]
  /\ UNCHANGED <<lock, asleep, kind, calls, writers, done, status, roomVars,
                 groupVars, memVars, lastSeq, seqOf, l0, bgError, scheduled,
                 shutting, manual, mdone, left, bgVars, histVars>>

CloseLoop ==
  /\ pc[Closer] = "close" /\ Closer \notin asleep /\ MutexFree
  /\ IF scheduled THEN asleep' = asleep \cup {Closer} /\ UNCHANGED pc
                  ELSE pc' = [pc EXCEPT ![Closer] = "closed"] /\ UNCHANGED asleep
  /\ UNCHANGED <<lock, kind, calls, writers, done, status, roomVars, groupVars,
                 memVars, lastSeq, seqOf, l0, bgError, scheduled, shutting, manual,
                 mdone, left, bgVars, histVars>>

-----------------------------------------------------------------------------
(* BackgroundCall.  Each action starts by taking the mutex and ends where  *)
(* it is released.                                                         *)

\* The end of BackgroundCompaction, which updates *manual_compaction_ when the
\* job was a manual one, and of BackgroundCall.
BackgroundEnd(wasManual, more, imms, files, error) ==
  /\ crashed' = (wasManual /\ manual = Nobody)
  /\ manual' = IF wasManual THEN Nobody ELSE manual
  /\ mdone' = [t \in Clients |-> mdone[t] \/ (wasManual /\ t = manual /\ ~more)]
  /\ left' = [t \in Clients |->
                IF wasManual /\ t = manual /\ more THEN left[t] - 1 ELSE left[t]]
  /\ scheduled' = MaybeScheduleCompaction(FALSE, imms, manual', files, error)
  /\ asleep' = InQueue
  /\ bpc' = "idle" /\ isManual' = FALSE /\ inWork' = FALSE /\ take' = 0 /\ keys' = 0

\* DoCompactionWork begins; it removes n files from level 0.
StartWork(isM, n) ==
  /\ bpc' = "work"
  /\ isManual' = isM /\ take' = n /\ keys' = MaxKeys
  /\ UNCHANGED <<inWork, crashed, manual, mdone, left, scheduled, asleep>>

BackgroundCall ==
  /\ scheduled /\ bpc = "idle" /\ MutexFree
  /\ \/ /\ shutting \/ bgError
        /\ BackgroundEnd(FALSE, FALSE, hasImm, l0, bgError)
     \/ /\ ~shutting /\ ~bgError /\ hasImm
        /\ bpc' = "build"
        /\ UNCHANGED <<isManual, inWork, take, keys, crashed, manual, mdone, left,
                       scheduled, asleep>>
     \/ /\ ~shutting /\ ~bgError /\ ~hasImm /\ manual # Nobody
        /\ IF left[manual] = 0
           THEN BackgroundEnd(TRUE, FALSE, hasImm, l0, bgError)
           ELSE \E n \in 0 .. l0 : StartWork(TRUE, n)
     \/ /\ ~shutting /\ ~bgError /\ ~hasImm /\ manual = Nobody
        /\ \/ l0 < L0Trigger /\ BackgroundEnd(FALSE, FALSE, hasImm, l0, bgError)
           \/ l0 >= L0Trigger /\ \E n \in 1 .. l0 : StartWork(FALSE, n)
           \/ /\ l0 >= L0Trigger
              /\ bpc' = "move"
              /\ UNCHANGED <<isManual, inWork, take, keys, crashed, manual, mdone,
                             left, scheduled, asleep>>
  /\ UNCHANGED <<lock, pc, kind, calls, writers, done, status, roomVars, groupVars,
                 memVars, lastSeq, seqOf, l0, bgError, shutting, histVars>>

\* The end of CompactMemTable: back to DoCompactionWork, which signals, or to
\* BackgroundCompaction, which returns.
FlushEnd(imms, files, error) ==
  IF inWork
  THEN /\ bpc' = "work" /\ inWork' = FALSE
       /\ asleep' = InQueue
       /\ UNCHANGED <<isManual, take, keys, crashed, manual, mdone, left, scheduled>>
  ELSE BackgroundEnd(FALSE, FALSE, imms, files, error)

\* WriteLevel0Table returns; LogAndApply appends the edit without the mutex.
BuiltTable ==
  /\ bpc = "build" /\ MutexFree
  /\ \/ /\ ~shutting
        /\ bpc' = "flushlog"
        /\ UNCHANGED <<bgError, isManual, inWork, take, keys, crashed, manual, mdone,
                       left, scheduled, asleep>>
     \/ /\ shutting \/ "build" \in Faults
        /\ bgError' = TRUE
        /\ FlushEnd(hasImm, l0, TRUE)
  /\ UNCHANGED <<lock, pc, kind, calls, writers, done, status, roomVars, groupVars,
                 memVars, lastSeq, seqOf, l0, shutting, histVars>>

\* LogAndApply returns.  The table of a memtable that is not empty goes to
\* level 0 or, when nothing overlaps it there, to a deeper one.  After an
\* error RemoveObsoleteFiles returns at once, otherwise it releases the mutex.
FlushLogged ==
  /\ bpc = "flushlog" /\ MutexFree
  /\ \/ /\ hasImm' = FALSE /\ imm' = {}
        /\ l0' \in {l0} \cup {l0 + 1 : w \in imm}
        /\ UNCHANGED bgError
        /\ IF bgError
           THEN FlushEnd(FALSE, l0', TRUE)
           ELSE /\ bpc' = "flushgc"
                /\ UNCHANGED <<isManual, inWork, take, keys, crashed, manual, mdone,
                               left, scheduled, asleep>>
     \/ /\ "manifest" \in Faults
        /\ bgError' = TRUE
        /\ FlushEnd(hasImm, l0, TRUE)
        /\ UNCHANGED <<imm, hasImm, l0>>
  /\ UNCHANGED <<lock, pc, kind, calls, writers, done, status, roomVars, groupVars,
                 mem, lastSeq, seqOf, shutting, histVars>>

\* RemoveObsoleteFiles returns.
FlushCollected ==
  /\ bpc = "flushgc" /\ MutexFree
  /\ FlushEnd(hasImm, l0, bgError)
  /\ UNCHANGED <<lock, pc, kind, calls, writers, done, status, roomVars, groupVars,
                 memVars, lastSeq, seqOf, l0, bgError, shutting, histVars>>

\* The loop of DoCompactionWork finds has_imm_ set and compacts imm_ first.
WorkFlush ==
  /\ bpc = "work" /\ MutexFree
  /\ keys > 0 /\ ~shutting /\ hasImm
  /\ keys' = keys - 1
  /\ bpc' = "build" /\ inWork' = TRUE
  /\ UNCHANGED <<lock, asleep, pc, kind, calls, writers, done, status, roomVars,
                 groupVars, memVars, lastSeq, seqOf, l0, bgError, scheduled,
                 shutting, manual, mdone, left, isManual, take, crashed, histVars>>

\* The loop ends; InstallCompactionResults appends the edit without the mutex.
WorkDone ==
  /\ bpc = "work" /\ MutexFree
  /\ \/ /\ ~shutting
        /\ bpc' = "worklog"
        /\ UNCHANGED <<bgError, isManual, inWork, take, keys, crashed, manual, mdone,
                       left, scheduled, asleep>>
     \/ /\ shutting \/ "build" \in Faults
        /\ bgError' = TRUE
        /\ BackgroundEnd(isManual, FALSE, hasImm, l0, TRUE)
  /\ UNCHANGED <<lock, pc, kind, calls, writers, done, status, roomVars, groupVars,
                 memVars, lastSeq, seqOf, l0, shutting, histVars>>

WorkLogged ==
  /\ bpc = "worklog" /\ MutexFree
  /\ \/ /\ l0' = l0 - take
        /\ UNCHANGED bgError
        /\ IF bgError
           THEN BackgroundEnd(isManual, TRUE, hasImm, l0', TRUE)
           ELSE /\ bpc' = "workgc"
                /\ UNCHANGED <<isManual, inWork, take, keys, crashed, manual, mdone,
                               left, scheduled, asleep>>
     \/ /\ "manifest" \in Faults
        /\ bgError' = TRUE
        /\ BackgroundEnd(isManual, FALSE, hasImm, l0, TRUE)
        /\ UNCHANGED l0
  /\ UNCHANGED <<lock, pc, kind, calls, writers, done, status, roomVars, groupVars,
                 memVars, lastSeq, seqOf, shutting, histVars>>

WorkCollected ==
  /\ bpc = "workgc" /\ MutexFree
  /\ BackgroundEnd(isManual, TRUE, hasImm, l0, bgError)
  /\ UNCHANGED <<lock, pc, kind, calls, writers, done, status, roomVars, groupVars,
                 memVars, lastSeq, seqOf, l0, bgError, shutting, histVars>>

\* The LogAndApply of a trivial move returns.
MoveLogged ==
  /\ bpc = "move" /\ MutexFree
  /\ \/ l0' = l0 - 1 /\ UNCHANGED bgError
     \/ "manifest" \in Faults /\ bgError' = TRUE /\ UNCHANGED l0
  /\ BackgroundEnd(FALSE, FALSE, hasImm, l0', bgError')
  /\ UNCHANGED <<lock, pc, kind, calls, writers, done, status, roomVars, groupVars,
                 memVars, lastSeq, seqOf, shutting, histVars>>

-----------------------------------------------------------------------------
Step(t) ==
  \/ QueueWake(t) \/ RoomError(t) \/ RoomDelay(t) \/ RoomWait(t) \/ RoomSwitch(t)
  \/ RoomCreateFails(t) \/ NullWrite(t)
  \/ \E j \in DOMAIN writers : BuildBatchGroup(t, j)
  \/ AddRecord(t) \/ SyncLog(t) \/ InsertInto(t) \/ FinishWrite(t)
  \/ WaitForImm(t) \/ ManualLoop(t)

Background ==
  \/ BackgroundCall \/ BuiltTable \/ FlushLogged \/ FlushCollected \/ WorkFlush
  \/ WorkDone \/ WorkLogged \/ WorkCollected \/ MoveLogged

\* Nothing is left to do: the database is closed, or the process has died.
Terminated == (pc[Closer] = "closed" \/ crashed) /\ UNCHANGED vars

Next ==
  \/ \E t \in Clients : \/ \E k \in CallKinds : CallWrite(t, k)
                        \/ CallManual(t) \/ Step(t)
  \/ \E t \in Threads : SpuriousWakeup(t)
  \/ Close \/ CloseLoop \/ Background \/ Terminated

Spec == Init /\ [][Next]_vars

\* Every thread inside a call and the background thread keep running; nobody
\* has to make a call, and no spurious wakeup is owed.
FairSpec == /\ Spec
            /\ \A t \in Clients : WF_vars(Step(t))
            /\ WF_vars(Background)
            /\ WF_vars(CloseLoop)

-----------------------------------------------------------------------------
(* Properties.                                                             *)

Groupers == {t \in Clients : pc[t] \in {"append", "sync", "insert", "finish"}}

\* A Write returns success only when its batch is in the log and in a memtable
\* and is visible to readers; a Write that returns an error has left nothing
\* in a memtable (BuildBatchGroup, Write: one status for the whole group).
ResultsAreTrue ==
  \A w \in Writes :
    /\ result[w] = "ok" => w \in logged /\ w \in inserted /\ seqOf[w] \in 1 .. lastSeq
    /\ result[w] = "error" => w \notin inserted

\* A Write with sync = true returns success only when the log was synced after
\* its batch was appended, also when another writer of its group did the work.
SyncMeansSynced ==
  \A t \in Clients :
    kind[t] = "sync" /\ result[CurrentWrite(t)] = "ok" => CurrentWrite(t) \in synced

\* A group becomes visible at once: while its batches are inserted one by one
\* none of them has a sequence number a reader could use, and no two writes
\* ever share one.
GroupsAreAtomic ==
  /\ \A w \in inserted :
       seqOf[w] > lastSeq =>
         \E t \in Groupers : \E i \in DOMAIN group : w = CurrentWrite(group[i])
  /\ \A v, w \in Writes : v # w /\ seqOf[v] # 0 => seqOf[v] # seqOf[w]

\* Only the writer at the front of the queue works on the log and on mem_ while
\* the mutex is released, and MakeRoomForWrite never switches them meanwhile.
OneLogger ==
  /\ \A t \in Groupers : writers # <<>> /\ t = Head(writers)
  /\ \A t \in Clients : pc[t] = "room" => writers # <<>> /\ t = Head(writers)
  /\ Groupers # {} => group = SubSeq(writers, 1, Len(group))

\* No wakeup is lost: the writer at the front of the queue, and a writer whose
\* batch is done, are never left waiting for their own condition variable.
FrontIsAwake ==
  \A t \in asleep \cap Clients :
    pc[t] = "queue" => ~done[t] /\ t # Head(writers)

\* Only the front of the writers queue works on the log and on mem_ while the
\* mutex is released (DBImpl::Write), and it is never left asleep.
QueueIsSound == OneLogger /\ FrontIsAwake

\* Whoever waits for background work either has some scheduled or has been
\* told to stop waiting by an error (MaybeScheduleCompaction at every place
\* that creates work).
WaitersHaveWork ==
  \A t \in asleep \cap Clients :
    pc[t] \in {"room", "imm", "manual"} => scheduled

\* At most kL0_StopWritesTrigger files are at level 0: the memtable in flight
\* was switched out when there was still one to go.
LevelZeroBounded == l0 <= L0Stop

\* When the destructor is done waiting nothing runs or is scheduled.
ClosedIsQuiet == pc[Closer] = "closed" => ~scheduled /\ bpc = "idle"

\* db/db_impl.h: TEST_CompactMemTable is to "Force current memtable contents to
\* be compacted": when it returns success, what was acknowledged before it was
\* called is in no memtable.
CompactMemTableFlushes == flushed \cap (mem \cup imm) = {}

\* BackgroundCompaction finds the ManualCompaction it is working for still
\* there at the end.
ManualOutlivesWork == ~crashed

\* Every call returns, whatever fails, unless the process dies of the null
\* manual_compaction_ (ManualOutlivesWork): Write, TEST_CompactMemTable and
\* TEST_CompactRange wait only for what the background thread will signal.
CallsReturn ==
  \A t \in Clients : pc[t] # "idle" ~> (pc[t] = "idle" \/ crashed)

\* The destructor, which waits for background_compaction_scheduled_ to be
\* cleared, ends.
CloseReturns == pc[Closer] = "close" ~> (pc[Closer] = "closed" \/ crashed)

=============================================================================
