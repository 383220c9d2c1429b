--------------------------- MODULE WriteQueueLine ---------------------------
(***************************************************************************)
(* WorkInv is inductive: whoever waits for background work has some        *)
(* scheduled, level 0 stays bounded, the destructor ends alone.  So is     *)
(* QueueInv: the first of writers_ leads, its group is the beginning of    *)
(* writers_, and no wakeup of a writer is lost.                            *)
(*                                                                         *)
(* A leaf with two time limits is tried again with the second.             *)
(***************************************************************************)
EXTENDS WriteQueueInv, TLAPS

USE ZenonT(20), ZenonT(60) DEF roomVars, groupVars, memVars, bgVars, histVars

\* Only thread t may have gone elsewhere.
Moves(t) ==
  /\ pc' \in [Threads -> Places]
  /\ \A u \in Threads \ {t} : pc'[u] = pc[u]

\* Only thread t may have fallen asleep.
Sleeps(t) == asleep' \subseteq asleep \cup {t}

\* What a step of a client does to the state background work depends on.
ClientMove(t) ==
  /\ t \in Clients /\ t \notin asleep /\ ~shutting
  /\ Moves(t) /\ Sleeps(t)
  /\ t \in asleep' => pc'[t] = "queue" \/ (pc'[t] \in Waiting /\ scheduled')
  /\ scheduled => scheduled'
  /\ WorkToDo' => scheduled'
  /\ hasImm => hasImm'
  /\ hasImm' => l0 < L0Stop
  /\ UNCHANGED <<shutting, l0, bpc, inWork, take>>

\* What a step of the background thread does to it.
WorkMove ==
  /\ scheduled /\ UNCHANGED <<pc, shutting>>
  /\ asleep' \subseteq asleep
  /\ scheduled' \/ asleep' \subseteq InQueue
  /\ WorkToDo' => scheduled'
  /\ bpc' # "idle" => scheduled'
  /\ WorkIsThere'

\* The elements of a sequence.
LEMMA SeqElements ==
  ASSUME NEW S, NEW s \in Seq(S)
  PROVE  /\ Len(s) \in Nat /\ DOMAIN s = 1 .. Len(s)
         /\ \A i \in 1 .. Len(s) : s[i] \in S
BY SMTT(20), SMTT(60)

\* The empty sequence.
LEMMA SeqEmpty ==
  ASSUME NEW S
  PROVE  /\ <<>> \in Seq(S) /\ Len(<<>>) = 0
         /\ \A s \in Seq(S) : s = <<>> <=> Len(s) = 0
BY SMTT(20), SMTT(60)

\* A sequence with one more element.
LEMMA SeqAppend ==
  ASSUME NEW S, NEW s \in Seq(S), NEW x \in S
  PROVE  /\ Append(s, x) \in Seq(S) /\ Len(Append(s, x)) = Len(s) + 1
         /\ \A i \in 1 .. Len(s) : Append(s, x)[i] = s[i]
         /\ Append(s, x)[Len(s) + 1] = x
BY SMTT(20), SMTT(60)

\* The beginning of a sequence.
LEMMA Prefix ==
  ASSUME NEW S, NEW s \in Seq(S), NEW j \in 1 .. Len(s)
  PROVE  /\ SubSeq(s, 1, j) \in Seq(S) /\ Len(SubSeq(s, 1, j)) = j
         /\ \A i \in 1 .. j : SubSeq(s, 1, j)[i] = s[i]
BY SMTT(20), SMTT(60)

\* Sequences with the same elements are equal.
LEMMA SeqEqual ==
  ASSUME NEW S, NEW s \in Seq(S), NEW r \in Seq(S), Len(s) = Len(r),
         \A i \in 1 .. Len(s) : s[i] = r[i]
  PROVE  s = r
BY SMTT(20), SMTT(60)

\* The assignment of a program counter moves that thread only.
LEMMA Assigned ==
  ASSUME PlacesOK, NEW t \in Threads, NEW x \in Places, pc' = [pc EXCEPT ![t] = x]
  PROVE  Moves(t) /\ pc'[t] = x
BY DEF PlacesOK, Moves

\* The constants that the proofs are about.
LEMMA ThreadFacts ==
  /\ Clients \subseteq Threads /\ Closer \in Threads /\ Closer \notin Clients
  /\ Nobody \notin Clients
  /\ \A t \in Threads : t \in Clients \/ t = Closer
BY WriteQueueAssumption DEF Threads

\* The place of the leader.
LEMMA LeaderPlace ==
  ASSUME QueueInv
  PROVE  /\ Len(writers) \in Nat
         /\ \A i \in 1 .. Len(writers) : writers[i] \in Clients
         /\ \A i, j \in 1 .. Len(writers) : writers[i] = writers[j] => i = j
         /\ \A t : Leads(t) => 1 \in 1 .. Len(writers) /\ writers[1] = t
         /\ writers = <<>> <=> Len(writers) = 0
         /\ \A t : Len(writers) # 0 => (Leads(t) <=> AtFront(t))
<1>1. writers \in Seq(Clients)
  BY DEF QueueInv, InLine
<1>2. Len(writers) \in Nat /\ \A i \in 1 .. Len(writers) : writers[i] \in Clients
  BY <1>1, SeqElements
<1>3. \A i, j \in 1 .. Len(writers) : writers[i] = writers[j] => i = j
  BY DEF QueueInv, InLine
<1>4. Len(writers) >= 1 <=> 1 \in 1 .. Len(writers)
  BY <1>2, SMTT(10), SMTT(30)
<1>5. writers = <<>> <=> Len(writers) = 0
  BY <1>1, SeqEmpty, SMTT(10), SMTT(30)
<1>6. Len(writers) # 0 => Len(writers) >= 1
  BY <1>2, SMTT(10), SMTT(30)
<1>7. Len(writers) # 0 => Head(writers) = writers[1]
  BY <1>1, <1>5, SMTT(10), SMTT(30)
<1> QED BY <1>2, <1>3, <1>4, <1>5, <1>6, <1>7 DEF Leads, AtFront

\* The triggers of level 0.
LEMMA Levels ==
  /\ L0Trigger \in Nat /\ L0Slow \in Nat /\ L0Stop \in Nat
  /\ 1 <= L0Trigger /\ L0Trigger <= L0Stop
BY WriteQueueAssumption, SMTT(10), SMTT(30)

\* A step of a client keeps the invariant of background work.
LEMMA ClientKeepsWork ==
  ASSUME WorkInv, NEW t \in Clients, ClientMove(t)
  PROVE  WorkInv'
<1> USE DEF ClientMove
<1>1. PlacesOK'
  BY ThreadFacts DEF WorkInv, PlacesOK, Moves, Sleeps
<1>2. ClosingIsAlone'
  BY ThreadFacts DEF WorkInv, ClosingIsAlone, Moves
<1>3. WorkIsScheduled'
  <2>1. pc'[Closer] # "closed"
    BY ThreadFacts DEF WorkInv, ClosingIsAlone, Moves
  <2>2. WaitersHaveWork'
    <3> SUFFICES ASSUME NEW u \in asleep' \cap Clients, pc'[u] \in {"room", "imm", "manual"}
                 PROVE  scheduled'
      BY DEF WaitersHaveWork
    <3>1. CASE u = t
      BY <3>1
    <3>2. CASE u # t
      BY <3>2, ThreadFacts DEF WorkInv, WorkIsScheduled, WaitersHaveWork, Moves, Sleeps
    <3> QED BY <3>1, <3>2
  <2> QED BY <2>1, <2>2 DEF WorkInv, WorkIsScheduled
<1>4. WorkIsThere'
  BY DEF WorkInv, WorkIsThere, Working
<1> QED BY <1>1, <1>2, <1>3, <1>4 DEF WorkInv

\* A step of the background thread keeps it.
LEMMA BackgroundKeepsWork ==
  ASSUME WorkInv, WorkMove
  PROVE  WorkInv'
<1> USE DEF WorkMove
<1>1. PlacesOK'
  BY DEF WorkInv, PlacesOK
<1>2. ClosingIsAlone'
  BY DEF WorkInv, ClosingIsAlone
<1>3. WorkIsScheduled'
  BY DEF WorkInv, WorkIsScheduled, WaitersHaveWork, InQueue
<1> QED BY <1>1, <1>2, <1>3 DEF WorkInv

\* A step of a client that leaves background work as it is, or stops it with an
\* error.
Quiet ==
  /\ bgError => bgError'
  /\ UNCHANGED <<shutting, hasImm, l0, scheduled, manual, bpc, inWork, take>>

\* A step of a client that changes nothing the background thread looks at.
LEMMA QuietMove ==
  ASSUME WorkInv, NEW t \in Clients, t \notin asleep, ~shutting, Quiet,
         Moves(t), Sleeps(t),
         t \in asleep' => pc'[t] = "queue" \/ (pc'[t] \in Waiting /\ scheduled)
  PROVE  ClientMove(t)
<1>1. WorkToDo' => scheduled'
  BY DEF Quiet, WorkInv, WorkIsScheduled, WorkToDo
<1>2. hasImm' => l0 < L0Stop
  BY DEF Quiet, WorkInv, WorkIsThere
<1> QED BY <1>1, <1>2 DEF ClientMove, Quiet

\* A client inside a call is not running beside the destructor, and one that
\* works on a group is awake.
LEMMA InCall ==
  ASSUME WorkInv, NEW t \in Clients, pc[t] # "idle"
  PROVE  /\ t \in Threads /\ ~shutting
         /\ pc[t] \in Grouping => t \notin asleep
BY ThreadFacts DEF WorkInv, PlacesOK, ClosingIsAlone, Grouping, Waiting

\* Write joins the line.
LEMMA CallWriteWork ==
  ASSUME WorkInv, NEW t \in Clients, NEW k \in CallKinds, CallWrite(t, k)
  PROVE  ClientMove(t)
<1>1. PlacesOK /\ pc[t] = "idle" /\ t \in Threads
  BY ThreadFacts DEF CallWrite, WorkInv
<1>2. t \notin asleep /\ ~shutting
  BY <1>1 DEF CallWrite, WorkInv, ClosingIsAlone, PlacesOK, Waiting
<1>3. /\ pc' = [pc EXCEPT ![t] = "room"] \/ pc' = [pc EXCEPT ![t] = "queue"]
      /\ asleep' = asleep \/ (asleep' = asleep \cup {t} /\ pc' = [pc EXCEPT ![t] = "queue"])
  BY DEF CallWrite, EnterRoom
<1>4. Moves(t) /\ (pc' = [pc EXCEPT ![t] = "queue"] => pc'[t] = "queue")
  BY <1>1, <1>3, Assigned DEF Places, Leading
<1>5. Sleeps(t) /\ (t \in asleep' => pc'[t] = "queue")
  BY <1>2, <1>3, <1>4 DEF Sleeps
<1>6. Quiet
  BY DEF CallWrite, Quiet
<1> QED BY <1>2, <1>4, <1>5, <1>6, QuietMove

\* A writer wakes up and finds itself done or at the front.
LEMMA QueueWakeWork ==
  ASSUME WorkInv, NEW t \in Clients, QueueWake(t)
  PROVE  ClientMove(t)
<1>1. PlacesOK /\ pc[t] = "queue" /\ t \in Threads /\ t \notin asleep /\ ~shutting
  BY InCall DEF QueueWake, WorkInv
<1>2. \/ /\ pc' = [pc EXCEPT ![t] = IF kind[t] = "flush" /\ status[t] = "ok"
                                    THEN "imm" ELSE "idle"]
         /\ asleep' = asleep
      \/ pc' = [pc EXCEPT ![t] = "room"] /\ asleep' = asleep
      \/ pc' = pc /\ asleep' = asleep \cup {t}
  BY DEF QueueWake, EnterRoom, Return
<1>3. Moves(t) /\ Sleeps(t) /\ (t \in asleep' => pc'[t] = "queue")
  <2>1. CASE pc' = [pc EXCEPT ![t] = IF kind[t] = "flush" /\ status[t] = "ok"
                                     THEN "imm" ELSE "idle"] /\ asleep' = asleep
    BY <1>1, <2>1, Assigned DEF Places, Sleeps
  <2>2. CASE pc' = [pc EXCEPT ![t] = "room"] /\ asleep' = asleep
    BY <1>1, <2>2, Assigned DEF Places, Leading, Sleeps
  <2>3. CASE pc' = pc /\ asleep' = asleep \cup {t}
    BY <1>1, <2>3 DEF Moves, Sleeps, PlacesOK
  <2> QED BY <1>2, <2>1, <2>2, <2>3
<1>4. Quiet
  BY DEF QueueWake, Quiet
<1> QED BY <1>1, <1>3, <1>4, QuietMove

\* The end of Write wakes writers and puts none to sleep.
LEMMA LeaveMoves ==
  ASSUME PlacesOK, NEW t \in Threads, NEW n, NEW st, NEW sleepers \in SUBSET asleep,
         t \notin asleep, Leave(t, n, st, sleepers)
  PROVE  Moves(t) /\ Sleeps(t) /\ t \notin asleep'
<1>1. Moves(t)
  <2>1. pc' = [pc EXCEPT ![t] = IF kind[t] = "flush" /\ st = "ok" THEN "imm" ELSE "idle"]
    BY DEF Leave, Return
  <2> QED BY <2>1, Assigned DEF Places
<1>2. asleep' \subseteq sleepers
  BY DEF Leave
<1> QED BY <1>1, <1>2 DEF Sleeps

\* A leader that returns without a group.
LEMMA LeaveEarlyWork ==
  ASSUME WorkInv, NEW t \in Clients, RoomError(t) \/ RoomCreateFails(t) \/ NullWrite(t)
  PROVE  ClientMove(t)
<1>1. PlacesOK /\ t \in Threads /\ t \notin asleep /\ ~shutting
  BY InCall DEF RoomError, RoomCreateFails, NullWrite, InRoom, WorkInv
<1>2. \E st : Leave(t, 1, st, asleep)
  BY DEF RoomError, RoomCreateFails, NullWrite
<1>3. Moves(t) /\ Sleeps(t) /\ t \notin asleep'
  BY <1>1, <1>2, LeaveMoves
<1>4. Quiet
  <2>1. CASE RoomError(t)
    BY <2>1 DEF RoomError, Quiet
  <2>2. CASE RoomCreateFails(t)
    BY <2>2 DEF RoomCreateFails, Quiet
  <2>3. CASE NullWrite(t)
    BY <2>3 DEF NullWrite, Quiet
  <2> QED BY <2>1, <2>2, <2>3
<1> QED BY <1>1, <1>3, <1>4, QuietMove

\* A leader returns and wakes its group and the next front.
LEMMA FinishWriteWork ==
  ASSUME WorkInv, NEW t \in Clients, FinishWrite(t)
  PROVE  ClientMove(t)
<1>1. PlacesOK /\ t \in Threads /\ t \notin asleep /\ ~shutting
  BY InCall DEF FinishWrite, WorkInv, Grouping
<1>2. \E n, st : \E sleepers \in SUBSET asleep : Leave(t, n, st, sleepers)
  <2>1. PICK sl \in {InQueue, asleep} :
          Leave(t, Len(group), IF failed = "ok" THEN "ok" ELSE "error", sl)
    BY DEF FinishWrite
  <2>2. sl \in SUBSET asleep
    BY DEF InQueue
  <2> QED BY <2>1, <2>2
<1>3. Moves(t) /\ Sleeps(t) /\ t \notin asleep'
  BY <1>1, <1>2, LeaveMoves
<1>4. Quiet
  BY DEF FinishWrite, Quiet
<1> QED BY <1>1, <1>3, <1>4, QuietMove

\* The steps of Write that leave asleep and background work alone.
LEMMA PlainStepWork ==
  ASSUME WorkInv, NEW t \in Clients,
         \/ RoomDelay(t) \/ (\E j \in DOMAIN writers : BuildBatchGroup(t, j))
         \/ AddRecord(t) \/ SyncLog(t) \/ InsertInto(t)
  PROVE  ClientMove(t)
<1>1. PlacesOK
  BY DEF WorkInv
<1> SUFFICES t \notin asleep /\ ~shutting /\ Moves(t) /\ asleep' = asleep /\ Quiet
  BY QuietMove DEF Sleeps
<1>2. CASE RoomDelay(t)
  <2>1. t \in Threads /\ t \notin asleep /\ ~shutting
    BY <1>2, InCall DEF RoomDelay, InRoom
  <2>2. asleep' = asleep /\ pc' = pc /\ Quiet
    BY <1>2 DEF RoomDelay, Quiet
  <2> QED BY <1>1, <2>1, <2>2 DEF Moves, PlacesOK
<1>3. CASE \E j \in DOMAIN writers : BuildBatchGroup(t, j)
  <2>1. t \in Threads /\ t \notin asleep /\ ~shutting
    BY <1>3, InCall DEF BuildBatchGroup, InRoom
  <2>2. asleep' = asleep /\ pc' = [pc EXCEPT ![t] = "append"] /\ Quiet
    BY <1>3 DEF BuildBatchGroup, Quiet
  <2> QED BY <1>1, <2>1, <2>2, Assigned DEF Places, Leading, Grouping
<1>4. CASE AddRecord(t)
  <2>1. t \in Threads /\ t \notin asleep /\ ~shutting
    BY <1>4, InCall DEF AddRecord, Grouping
  <2>2. asleep' = asleep /\ Quiet
    BY <1>4 DEF AddRecord, Quiet
  <2>3. PICK x \in {"sync", "insert", "finish"} : pc' = [pc EXCEPT ![t] = x]
    BY <1>4 DEF AddRecord
  <2> QED BY <1>1, <2>1, <2>2, <2>3, Assigned DEF Places, Leading, Grouping
<1>5. CASE SyncLog(t)
  <2>1. t \in Threads /\ t \notin asleep /\ ~shutting
    BY <1>5, InCall DEF SyncLog, Grouping
  <2>2. asleep' = asleep /\ Quiet
    BY <1>5 DEF SyncLog, Quiet
  <2>3. PICK x \in {"insert", "finish"} : pc' = [pc EXCEPT ![t] = x]
    BY <1>5 DEF SyncLog
  <2> QED BY <1>1, <2>1, <2>2, <2>3, Assigned DEF Places, Leading, Grouping
<1>6. CASE InsertInto(t)
  <2>1. t \in Threads /\ t \notin asleep /\ ~shutting
    BY <1>6, InCall DEF InsertInto, Grouping
  <2>2. asleep' = asleep /\ Quiet
    BY <1>6 DEF InsertInto, Quiet
  <2>3. pc' = [pc EXCEPT ![t] = "finish"] \/ pc' = pc
    BY <1>6 DEF InsertInto
  <2> QED BY <1>1, <2>1, <2>2, <2>3, Assigned DEF Places, Leading, Grouping, Moves, PlacesOK
<1> QED BY <1>2, <1>3, <1>4, <1>5, <1>6

\* Work that blocks a writer has been scheduled.
LEMMA WaitIsScheduled ==
  ASSUME WorkInv, ~bgError, ~shutting, hasImm \/ l0 >= L0Stop
  PROVE  scheduled
<1>1. l0 >= L0Stop => l0 >= L0Trigger
  <2>1. l0 \in Nat
    BY DEF WorkInv, WorkIsThere
  <2> QED BY <2>1, Levels, SMTT(10), SMTT(30)
<1> QED BY <1>1 DEF WorkInv, WorkIsScheduled, WorkToDo

\* MakeRoomForWrite waits for the background thread.
LEMMA RoomWaitWork ==
  ASSUME WorkInv, NEW t \in Clients, RoomWait(t)
  PROVE  ClientMove(t)
<1>1. PlacesOK /\ t \in Threads /\ t \notin asleep /\ ~shutting /\ pc[t] = "room"
  BY InCall DEF RoomWait, InRoom, WorkInv
<1>2. scheduled
  BY <1>1, WaitIsScheduled DEF RoomWait, MustWait
<1>3. Quiet /\ pc' = pc /\ asleep' = asleep \cup {t}
  BY DEF RoomWait, Quiet
<1>4. Moves(t) /\ Sleeps(t) /\ pc'[t] \in Waiting
  BY <1>1, <1>3 DEF Moves, Sleeps, PlacesOK, Waiting
<1> QED BY <1>1, <1>2, <1>3, <1>4, QuietMove

\* MakeRoomForWrite moves mem_ to imm_ and schedules its flush.
LEMMA RoomSwitchWork ==
  ASSUME WorkInv, NEW t \in Clients, RoomSwitch(t)
  PROVE  ClientMove(t)
<1>1. PlacesOK /\ t \in Threads /\ t \notin asleep /\ ~shutting
  BY InCall DEF RoomSwitch, InRoom, WorkInv
<1>2. l0 < L0Stop
  <2>1. ~(l0 >= L0Stop) /\ l0 \in Nat
    BY DEF RoomSwitch, MustWait, WorkInv, WorkIsThere
  <2> QED BY <2>1, Levels, SMTT(10), SMTT(30)
<1>3. scheduled' = MaybeScheduleCompaction(scheduled, TRUE, manual, l0, bgError')
  BY DEF RoomSwitch
<1>4. (scheduled => scheduled') /\ (WorkToDo' => scheduled')
  <2>1. shutting' = shutting
    BY DEF RoomSwitch
  <2> QED BY <1>3, <2>1 DEF MaybeScheduleCompaction, WorkToDo
<1>5. pc' = pc /\ asleep' \subseteq asleep /\ hasImm'
  BY DEF RoomSwitch, InQueue
<1>6. UNCHANGED <<shutting, l0, bpc, inWork, take>>
  BY DEF RoomSwitch
<1>7. Moves(t) /\ Sleeps(t) /\ t \notin asleep'
  BY <1>1, <1>5 DEF Moves, Sleeps, PlacesOK
<1> QED BY <1>1, <1>2, <1>4, <1>5, <1>6, <1>7 DEF ClientMove

\* TEST_CompactMemTable waits until imm_ is gone.
LEMMA WaitForImmWork ==
  ASSUME WorkInv, NEW t \in Clients, WaitForImm(t)
  PROVE  ClientMove(t)
<1>1. PlacesOK /\ t \in Threads /\ t \notin asleep /\ ~shutting /\ pc[t] = "imm"
  BY InCall DEF WaitForImm, WorkInv
<1>2. Quiet
  BY DEF WaitForImm, Quiet
<1>3. CASE hasImm /\ ~bgError
  <2>1. scheduled
    BY <1>1, <1>3, WaitIsScheduled
  <2>2. pc' = pc /\ asleep' = asleep \cup {t}
    BY <1>3 DEF WaitForImm
  <2>3. Moves(t) /\ Sleeps(t) /\ pc'[t] \in Waiting
    BY <1>1, <2>2 DEF Moves, Sleeps, PlacesOK, Waiting
  <2> QED BY <1>1, <1>2, <2>1, <2>3, QuietMove
<1>4. CASE ~(hasImm /\ ~bgError)
  <2>1. pc' = [pc EXCEPT ![t] = "idle"] /\ asleep' = asleep
    BY <1>4 DEF WaitForImm
  <2>2. Moves(t) /\ Sleeps(t)
    BY <1>1, <2>1, Assigned DEF Sleeps, Places
  <2> QED BY <1>1, <1>2, <2>1, <2>2, QuietMove
<1> QED BY <1>3, <1>4

\* A manual compaction begins.
LEMMA CallManualWork ==
  ASSUME WorkInv, NEW t \in Clients, CallManual(t)
  PROVE  ClientMove(t)
<1>1. PlacesOK /\ pc[t] = "idle" /\ t \in Threads
  BY ThreadFacts DEF CallManual, WorkInv
<1>2. t \notin asleep /\ ~shutting
  BY <1>1 DEF CallManual, WorkInv, ClosingIsAlone, PlacesOK, Waiting
<1>3. Quiet /\ pc' = [pc EXCEPT ![t] = "manual"] /\ asleep' = asleep
  BY DEF CallManual, Quiet
<1>4. Moves(t) /\ Sleeps(t)
  BY <1>1, <1>3, Assigned DEF Places, Sleeps
<1> QED BY <1>2, <1>3, <1>4, QuietMove

\* The loop of TEST_CompactRange.
LEMMA ManualLoopWork ==
  ASSUME WorkInv, NEW t \in Clients, ManualLoop(t)
  PROVE  ClientMove(t)
<1>1. PlacesOK /\ t \in Threads /\ t \notin asleep /\ ~shutting /\ pc[t] = "manual"
  BY InCall DEF ManualLoop, WorkInv
<1>2. UNCHANGED <<shutting, l0, bgError, hasImm, bpc, inWork, take>>
  BY DEF ManualLoop
<1>3. hasImm => l0 < L0Stop
  BY DEF WorkInv, WorkIsThere
<1>4. CASE ~mdone[t] /\ ~shutting /\ ~bgError
  <2>1. pc' = pc /\ asleep' = asleep \cup {t}
    BY <1>4 DEF ManualLoop
  <2>2. scheduled'
    <3>1. CASE manual = Nobody
      <4>1. scheduled' = MaybeScheduleCompaction(scheduled, hasImm, t, l0, bgError)
        BY <1>4, <3>1 DEF ManualLoop
      <4> QED BY <1>4, <4>1, ThreadFacts DEF MaybeScheduleCompaction
    <3>2. CASE manual # Nobody
      <4>1. scheduled' = scheduled
        BY <1>4, <3>2 DEF ManualLoop
      <4> QED BY <1>4, <3>2, <4>1 DEF WorkInv, WorkIsScheduled, WorkToDo
    <3> QED BY <3>1, <3>2
  <2>3. Moves(t) /\ Sleeps(t) /\ pc'[t] \in Waiting
    BY <1>1, <2>1 DEF Moves, Sleeps, PlacesOK, Waiting
  <2> QED BY <1>1, <1>2, <1>3, <2>2, <2>3 DEF ClientMove
<1>5. CASE ~(~mdone[t] /\ ~shutting /\ ~bgError)
  <2>1. /\ pc' = [pc EXCEPT ![t] = "idle"] /\ asleep' = asleep
        /\ scheduled' = scheduled /\ (manual' = Nobody \/ manual' = manual)
    BY <1>5 DEF ManualLoop
  <2>2. Moves(t) /\ Sleeps(t)
    BY <1>1, <2>1, Assigned DEF Sleeps, Places
  <2>3. WorkToDo' => scheduled'
    BY <1>2, <2>1 DEF WorkInv, WorkIsScheduled, WorkToDo
  <2> QED BY <1>1, <1>2, <1>3, <2>1, <2>2, <2>3 DEF ClientMove
<1> QED BY <1>4, <1>5

\* Every step of a client is such a move.
LEMMA ClientsMove ==
  ASSUME WorkInv, NEW t \in Clients,
         (\E k \in CallKinds : CallWrite(t, k)) \/ CallManual(t) \/ Step(t)
  PROVE  ClientMove(t)
BY CallWriteWork, CallManualWork, QueueWakeWork, LeaveEarlyWork, PlainStepWork,
   RoomWaitWork, RoomSwitchWork, FinishWriteWork, WaitForImmWork, ManualLoopWork
   DEF Step

\* The destructor, and a wakeup without a signal.
LEMMA CloserKeepsWork ==
  ASSUME WorkInv, Close \/ CloseLoop \/ (\E t \in Threads : SpuriousWakeup(t))
  PROVE  WorkInv'
<1>1. /\ UNCHANGED <<hasImm, l0, bgError, scheduled, manual, bpc, inWork, take>>
      /\ shutting' = shutting \/ shutting'
  BY DEF Close, CloseLoop, SpuriousWakeup
<1>2. WorkIsThere'
  BY <1>1 DEF WorkInv, WorkIsThere, Working
<1>3. WorkToDo' => scheduled'
  BY <1>1 DEF WorkInv, WorkIsScheduled, WorkToDo
<1>4. CASE Close
  <2>1. /\ shutting' /\ asleep' = asleep /\ pc' = [pc EXCEPT ![Closer] = "close"]
        /\ \A t \in Clients : pc[t] = "idle"
    BY <1>4 DEF Close
  <2>2. Moves(Closer) /\ pc'[Closer] = "close"
    BY <2>1, ThreadFacts, Assigned DEF Places, WorkInv
  <2>3. PlacesOK' /\ ClosingIsAlone'
    BY <2>1, <2>2, ThreadFacts DEF Moves, WorkInv, PlacesOK, ClosingIsAlone
  <2>4. WorkIsScheduled'
    BY <1>1, <1>3, <2>1, <2>2, ThreadFacts
       DEF Moves, WorkInv, WorkIsScheduled, WaitersHaveWork
  <2> QED BY <1>2, <2>3, <2>4 DEF WorkInv
<1>5. CASE CloseLoop
  <2>1. shutting' = shutting /\ pc[Closer] = "close" /\ PlacesOK
    BY <1>5 DEF CloseLoop, WorkInv
  <2>2. /\ Moves(Closer) /\ Sleeps(Closer)
        /\ pc'[Closer] = "close" \/ (pc'[Closer] = "closed" /\ ~scheduled)
    <3>1. CASE scheduled
      <4>1. pc' = pc /\ asleep' = asleep \cup {Closer}
        BY <1>5, <3>1 DEF CloseLoop
      <4> QED BY <2>1, <4>1 DEF Moves, Sleeps, PlacesOK
    <3>2. CASE ~scheduled
      <4>1. pc' = [pc EXCEPT ![Closer] = "closed"] /\ asleep' = asleep
        BY <1>5, <3>2 DEF CloseLoop
      <4> QED BY <2>1, <3>2, <4>1, ThreadFacts, Assigned DEF Places, Sleeps
    <3> QED BY <3>1, <3>2
  <2>3. PlacesOK' /\ ClosingIsAlone'
    BY <2>1, <2>2, ThreadFacts DEF Moves, Sleeps, WorkInv, PlacesOK, ClosingIsAlone
  <2>4. WorkIsScheduled'
    BY <1>1, <1>3, <2>2, ThreadFacts
       DEF Moves, Sleeps, WorkInv, WorkIsScheduled, WaitersHaveWork
  <2> QED BY <1>2, <2>3, <2>4 DEF WorkInv
<1>6. CASE \E t \in Threads : SpuriousWakeup(t)
  <2>1. shutting' = shutting /\ pc' = pc /\ asleep' \subseteq asleep
    BY <1>6 DEF SpuriousWakeup
  <2>2. PlacesOK' /\ ClosingIsAlone'
    BY <2>1 DEF WorkInv, PlacesOK, ClosingIsAlone
  <2>3. WorkIsScheduled'
    BY <1>1, <1>3, <2>1 DEF WorkInv, WorkIsScheduled, WaitersHaveWork
  <2> QED BY <1>2, <2>2, <2>3 DEF WorkInv
<1> QED BY <1>4, <1>5, <1>6

\* Level 0 and imm_ leave room for each other.
Levelled == l0 \in Nat /\ l0 <= L0Stop /\ (hasImm => l0 < L0Stop)

\* The end of BackgroundCall reschedules whatever is left and wakes all that
\* wait for it.
LEMMA EndWork ==
  ASSUME WorkInv, NEW was, NEW more, scheduled, UNCHANGED <<pc, shutting>>, Levelled',
         BackgroundEnd(was, more, hasImm', l0', bgError')
  PROVE  WorkMove
<1>1. scheduled' = MaybeScheduleCompaction(FALSE, hasImm', manual', l0', bgError')
  BY DEF BackgroundEnd
<1>2. WorkToDo' => scheduled'
  BY <1>1 DEF WorkToDo, MaybeScheduleCompaction
<1>3. asleep' \subseteq InQueue /\ asleep' \subseteq asleep
  BY DEF BackgroundEnd, InQueue
<1>4. bpc' = "idle" /\ inWork' = FALSE /\ take' = 0
  BY DEF BackgroundEnd
<1>5. WorkIsThere'
  <2>1. 0 \in Nat
    BY SMTT(10), SMTT(30)
  <2> QED BY <1>4, <2>1 DEF WorkIsThere, Working, Levelled
<1> QED BY <1>2, <1>3, <1>4, <1>5 DEF WorkMove

\* The background thread goes on inside its call.
LEMMA GoOnWork ==
  ASSUME WorkInv, scheduled, UNCHANGED <<pc, shutting, scheduled, asleep>>, WorkIsThere'
  PROVE  WorkMove
BY DEF WorkMove

\* BackgroundCall takes up work.
LEMMA BackgroundCallWork ==
  ASSUME WorkInv, BackgroundCall
  PROVE  WorkMove
<1>1. /\ scheduled /\ bpc = "idle"
      /\ UNCHANGED <<pc, shutting, hasImm, l0, bgError>>
  BY DEF BackgroundCall
<1>2. Levelled /\ Levelled'
  BY <1>1 DEF WorkInv, WorkIsThere, Levelled
<1>3. CASE \E was \in BOOLEAN : BackgroundEnd(was, FALSE, hasImm, l0, bgError)
  BY <1>1, <1>2, <1>3, EndWork
<1>4. CASE hasImm /\ bpc' = "build" /\ UNCHANGED <<inWork, take, manual, scheduled, asleep>>
  <2>1. WorkIsThere'
    BY <1>1, <1>2, <1>4 DEF WorkIsThere, Levelled, Working, WorkInv
  <2> QED BY <1>1, <1>4, <2>1, GoOnWork
<1>5. CASE \E isM \in BOOLEAN : \E n \in 0 .. l0 : StartWork(isM, n)
  <2>1. PICK n \in 0 .. l0 :
          bpc' = "work" /\ take' = n /\ UNCHANGED <<inWork, manual, scheduled, asleep>>
    BY <1>5 DEF StartWork
  <2>2. n \in Nat /\ n <= l0
    BY <1>2, SMTT(10), SMTT(30) DEF Levelled
  <2>3. WorkIsThere'
    BY <1>1, <1>2, <2>1, <2>2 DEF WorkIsThere, Levelled
  <2> QED BY <1>1, <2>1, <2>3, GoOnWork
<1>6. CASE l0 >= L0Trigger /\ bpc' = "move"
           /\ UNCHANGED <<inWork, take, manual, scheduled, asleep>>
  <2>1. l0 >= 1
    BY <1>2, <1>6, Levels, SMTT(10), SMTT(30) DEF Levelled
  <2>2. WorkIsThere'
    BY <1>1, <1>2, <1>6, <2>1 DEF WorkIsThere, Levelled, Working, WorkInv
  <2> QED BY <1>1, <1>6, <2>2, GoOnWork
<1>7. \/ \E was \in BOOLEAN : BackgroundEnd(was, FALSE, hasImm, l0, bgError)
      \/ hasImm /\ bpc' = "build" /\ UNCHANGED <<inWork, take, manual, scheduled, asleep>>
      \/ \E isM \in BOOLEAN : \E n \in 0 .. l0 : StartWork(isM, n)
      \/ \E n \in 1 .. l0 : StartWork(FALSE, n)
      \/ l0 >= L0Trigger /\ bpc' = "move"
           /\ UNCHANGED <<inWork, take, manual, scheduled, asleep>>
  BY DEF BackgroundCall
<1>8. 1 .. l0 \subseteq 0 .. l0
  BY <1>2, SMTT(10), SMTT(30) DEF Levelled
<1> QED BY <1>3, <1>4, <1>5, <1>6, <1>7, <1>8

\* The end of CompactMemTable, in either place it is called from.
LEMMA FlushEndWork ==
  ASSUME WorkInv, scheduled, UNCHANGED <<pc, shutting>>, Levelled',
         bpc \in {"build", "flushlog", "flushgc"},
         inWork => take <= l0',
         FlushEnd(hasImm', l0', bgError')
  PROVE  WorkMove
<1>1. CASE inWork
  <2>1. /\ bpc' = "work" /\ asleep' = InQueue
        /\ UNCHANGED <<take, manual, scheduled>>
    BY <1>1 DEF FlushEnd
  <2>2. WorkIsThere'
    BY <1>1, <2>1 DEF WorkIsThere, Levelled, WorkInv
  <2> QED BY <2>1, <2>2 DEF WorkMove, InQueue
<1>2. CASE ~inWork
  BY <1>2, EndWork DEF FlushEnd
<1> QED BY <1>1, <1>2

\* The table of imm_ is written.
LEMMA BuiltTableWork ==
  ASSUME WorkInv, BuiltTable
  PROVE  WorkMove
<1>1. scheduled /\ bpc = "build" /\ UNCHANGED <<pc, shutting, hasImm, l0>>
  BY DEF BuiltTable, WorkInv, WorkIsScheduled
<1>2. Levelled' /\ (inWork => take <= l0') /\ hasImm
  BY <1>1 DEF WorkInv, WorkIsThere, Levelled, Working
<1>3. CASE bpc' = "flushlog" /\ UNCHANGED <<inWork, take, manual, scheduled, asleep>>
  <2>1. WorkIsThere'
    BY <1>1, <1>2, <1>3 DEF WorkInv, WorkIsThere, Levelled, Working
  <2> QED BY <1>1, <1>3, <2>1, GoOnWork
<1>4. CASE bgError' = TRUE /\ FlushEnd(hasImm, l0, TRUE)
  BY <1>1, <1>2, <1>4, FlushEndWork
<1> QED BY <1>3, <1>4 DEF BuiltTable

\* The edit of a flush is logged, or fails.
LEMMA FlushLoggedWork ==
  ASSUME WorkInv, FlushLogged
  PROVE  WorkMove
<1>1. scheduled /\ bpc = "flushlog" /\ UNCHANGED <<pc, shutting>>
  BY DEF FlushLogged, WorkInv, WorkIsScheduled
<1>2. l0 \in Nat /\ take \in Nat /\ hasImm /\ l0 < L0Stop /\ (inWork => take <= l0)
  BY <1>1 DEF WorkInv, WorkIsThere, Working
<1>3. CASE hasImm' = FALSE /\ l0' \in {l0} \cup {l0 + 1 : w \in imm} /\ bgError' = bgError
           /\ IF bgError THEN FlushEnd(FALSE, l0', TRUE)
              ELSE bpc' = "flushgc" /\ UNCHANGED <<inWork, take, manual, scheduled, asleep>>
  <2>1. l0' = l0 \/ l0' = l0 + 1
    BY <1>3
  <2>2. l0' \in Nat /\ l0' <= L0Stop /\ (take <= l0 => take <= l0')
    BY <1>2, <2>1, Levels, SMTT(10), SMTT(30)
  <2>3. Levelled' /\ (inWork => take <= l0')
    BY <1>2, <1>3, <2>2 DEF Levelled
  <2>4. CASE bgError
    <3>1. FlushEnd(FALSE, l0', TRUE)
      BY <1>3, <2>4
    <3>2. FlushEnd(hasImm', l0', bgError')
      <4>1. CASE inWork
        BY <3>1, <4>1 DEF FlushEnd
      <4>2. CASE ~inWork
        <5>1. BackgroundEnd(FALSE, FALSE, FALSE, l0', TRUE)
          BY <3>1, <4>2 DEF FlushEnd
        <5>2. BackgroundEnd(FALSE, FALSE, hasImm', l0', bgError')
          BY <1>3, <2>4, <5>1 DEF BackgroundEnd, MaybeScheduleCompaction
        <5> QED BY <4>2, <5>2 DEF FlushEnd
      <4> QED BY <4>1, <4>2
    <3> QED BY <1>1, <2>3, <3>2, FlushEndWork
  <2>5. CASE ~bgError
    <3>1. bpc' = "flushgc" /\ UNCHANGED <<inWork, take, manual, scheduled, asleep>>
      BY <1>3, <2>5
    <3>2. WorkIsThere'
      BY <1>2, <2>3, <3>1 DEF WorkIsThere, Levelled, Working
    <3> QED BY <1>1, <1>3, <3>1, <3>2, GoOnWork
  <2> QED BY <2>4, <2>5
<1>4. CASE bgError' = TRUE /\ FlushEnd(hasImm, l0, TRUE) /\ UNCHANGED <<hasImm, l0>>
  <2>1. Levelled'
    BY <1>4 DEF WorkInv, WorkIsThere, Levelled
  <2> QED BY <1>1, <1>2, <1>4, <2>1, FlushEndWork
<1> QED BY <1>3, <1>4 DEF FlushLogged

\* A flush is over.
LEMMA FlushCollectedWork ==
  ASSUME WorkInv, FlushCollected
  PROVE  WorkMove
<1>1. /\ scheduled /\ bpc = "flushgc" /\ UNCHANGED <<pc, shutting, hasImm, l0, bgError>>
      /\ FlushEnd(hasImm, l0, bgError)
  BY DEF FlushCollected, WorkInv, WorkIsScheduled
<1>2. Levelled' /\ (inWork => take <= l0')
  BY <1>1 DEF WorkInv, WorkIsThere, Levelled, Working
<1> QED BY <1>1, <1>2, FlushEndWork

\* A compaction flushes imm_ in between.
LEMMA WorkFlushWork ==
  ASSUME WorkInv, WorkFlush
  PROVE  WorkMove
<1>1. /\ scheduled /\ bpc = "work" /\ bpc' = "build" /\ hasImm
      /\ UNCHANGED <<pc, shutting, scheduled, asleep, hasImm, l0, take>>
  BY DEF WorkFlush, WorkInv, WorkIsScheduled
<1>2. WorkIsThere'
  BY <1>1 DEF WorkInv, WorkIsThere, Working
<1> QED BY <1>1, <1>2, GoOnWork

\* A compaction has written its outputs.
LEMMA WorkDoneWork ==
  ASSUME WorkInv, WorkDone
  PROVE  WorkMove
<1>1. scheduled /\ bpc = "work" /\ UNCHANGED <<pc, shutting, hasImm, l0>>
  BY DEF WorkDone, WorkInv, WorkIsScheduled
<1>2. CASE bpc' = "worklog" /\ UNCHANGED <<inWork, take, scheduled, asleep>>
  <2>1. WorkIsThere'
    BY <1>1, <1>2 DEF WorkInv, WorkIsThere, Working
  <2> QED BY <1>1, <1>2, <2>1, GoOnWork
<1>3. CASE bgError' = TRUE /\ BackgroundEnd(isManual, FALSE, hasImm, l0, TRUE)
  <2>1. Levelled'
    BY <1>1 DEF WorkInv, WorkIsThere, Levelled
  <2> QED BY <1>1, <1>3, <2>1, EndWork
<1> QED BY <1>2, <1>3 DEF WorkDone

\* The edit of a compaction is logged, or fails.
LEMMA WorkLoggedWork ==
  ASSUME WorkInv, WorkLogged
  PROVE  WorkMove
<1>1. scheduled /\ bpc = "worklog" /\ UNCHANGED <<pc, shutting, hasImm>>
  BY DEF WorkLogged, WorkInv, WorkIsScheduled
<1>2. l0 \in Nat /\ take \in Nat /\ take <= l0 /\ l0 <= L0Stop /\ (hasImm => l0 < L0Stop)
  BY <1>1 DEF WorkInv, WorkIsThere, Working
<1>3. CASE l0' = l0 - take /\ bgError' = bgError
           /\ IF bgError THEN BackgroundEnd(isManual, TRUE, hasImm, l0', TRUE)
              ELSE bpc' = "workgc" /\ UNCHANGED <<inWork, take, scheduled, asleep>>
  <2>1. l0' \in Nat /\ l0' <= L0Stop /\ (l0 < L0Stop => l0' < L0Stop)
    <3>1. l0' = l0 - take
      BY <1>3
    <3> QED BY <1>2, <3>1, Levels, SMTT(10), SMTT(30)
  <2>2. Levelled'
    BY <1>1, <1>2, <2>1 DEF Levelled
  <2>3. CASE bgError
    <3>1. BackgroundEnd(isManual, TRUE, hasImm, l0', TRUE)
      BY <1>3, <2>3
    <3>2. BackgroundEnd(isManual, TRUE, hasImm', l0', bgError')
      BY <1>1, <1>3, <2>3, <3>1 DEF BackgroundEnd, MaybeScheduleCompaction
    <3> QED BY <1>1, <2>2, <3>2, EndWork
  <2>4. CASE ~bgError
    <3>1. bpc' = "workgc" /\ UNCHANGED <<inWork, take, scheduled, asleep>>
      BY <1>3, <2>4
    <3>2. WorkIsThere'
      BY <1>2, <2>2, <3>1 DEF WorkIsThere, Levelled, Working
    <3> QED BY <1>1, <3>1, <3>2, GoOnWork
  <2> QED BY <2>3, <2>4
<1>4. CASE bgError' = TRUE /\ BackgroundEnd(isManual, FALSE, hasImm, l0, TRUE) /\ l0' = l0
  <2>1. Levelled'
    BY <1>1, <1>4 DEF WorkInv, WorkIsThere, Levelled
  <2> QED BY <1>1, <1>4, <2>1, EndWork
<1> QED BY <1>3, <1>4 DEF WorkLogged

\* A compaction is over.
LEMMA WorkCollectedWork ==
  ASSUME WorkInv, WorkCollected
  PROVE  WorkMove
<1>1. /\ scheduled /\ UNCHANGED <<pc, shutting, hasImm, l0, bgError>>
      /\ BackgroundEnd(isManual, TRUE, hasImm, l0, bgError)
  BY DEF WorkCollected, WorkInv, WorkIsScheduled
<1>2. Levelled'
  BY <1>1 DEF WorkInv, WorkIsThere, Levelled
<1> QED BY <1>1, <1>2, EndWork

\* A trivial move is logged, or fails.
LEMMA MoveLoggedWork ==
  ASSUME WorkInv, MoveLogged
  PROVE  WorkMove
<1>1. /\ scheduled /\ bpc = "move" /\ UNCHANGED <<pc, shutting, hasImm>>
      /\ BackgroundEnd(FALSE, FALSE, hasImm, l0', bgError')
      /\ l0' = l0 - 1 \/ l0' = l0
  BY DEF MoveLogged, WorkInv, WorkIsScheduled
<1>2. l0 \in Nat /\ 1 <= l0 /\ l0 <= L0Stop /\ (hasImm => l0 < L0Stop)
  <2>1. l0 \in Nat /\ l0 >= 1 /\ l0 <= L0Stop /\ (hasImm => l0 < L0Stop)
    BY <1>1 DEF WorkInv, WorkIsThere
  <2> QED BY <2>1, SMTT(10), SMTT(30)
<1>3. l0' \in Nat /\ l0' <= L0Stop /\ (l0 < L0Stop => l0' < L0Stop)
  <2>1. l0' = l0 - 1 \/ l0' = l0
    BY <1>1
  <2> QED BY <1>2, <2>1, Levels, SMTT(10), SMTT(30)
<1>4. Levelled'
  BY <1>1, <1>2, <1>3 DEF Levelled
<1> QED BY <1>1, <1>4, EndWork

\* Every step of the background thread.
LEMMA BackgroundMoves ==
  ASSUME WorkInv, Background
  PROVE  WorkMove
BY BackgroundCallWork, BuiltTableWork, FlushLoggedWork, FlushCollectedWork, WorkFlushWork,
   WorkDoneWork, WorkLoggedWork, WorkCollectedWork, MoveLoggedWork DEF Background

\* Nothing to do and nobody waits.
LEMMA InitWork == Init => WorkInv
<1> SUFFICES ASSUME Init PROVE WorkInv
  OBVIOUS
<1>1. PlacesOK /\ ClosingIsAlone
  BY ThreadFacts DEF Init, PlacesOK, ClosingIsAlone, Places
<1>2. l0 = 0 /\ take = 0 /\ ~hasImm /\ manual = Nobody /\ bpc = "idle" /\ ~inWork
      /\ asleep = {} /\ pc[Closer] = "idle"
  BY ThreadFacts DEF Init
<1>3. ~(0 >= L0Trigger) /\ 0 <= L0Stop /\ 0 \in Nat
  BY Levels, SMTT(10), SMTT(30)
<1>4. WorkIsScheduled
  BY <1>2, <1>3 DEF WorkIsScheduled, WorkToDo, WaitersHaveWork
<1>5. WorkIsThere
  BY <1>2, <1>3 DEF WorkIsThere, Working
<1> QED BY <1>1, <1>4, <1>5 DEF WorkInv

\* Every step keeps WorkInv.
LEMMA NextWork == WorkInv /\ [Next]_vars => WorkInv'
<1> SUFFICES ASSUME WorkInv, [Next]_vars PROVE WorkInv'
  OBVIOUS
<1>1. CASE UNCHANGED vars
  BY <1>1 DEF vars, WorkInv, PlacesOK, ClosingIsAlone, WorkIsScheduled, WorkIsThere,
     WorkToDo, WaitersHaveWork, Working
<1>2. CASE Next
  BY <1>1, <1>2, ClientsMove, ClientKeepsWork, BackgroundMoves, BackgroundKeepsWork,
     CloserKeepsWork DEF Next, Terminated
<1> QED BY <1>1, <1>2

-----------------------------------------------------------------------------
(* The queue of writers, step by step.                                     *)

\* The queue is as it was: whoever moved is in no Write, and nobody lies down
\* on the condition variable of a writer.
SameLine ==
  /\ UNCHANGED <<writers, done, group>>
  /\ \A u \in Clients : pc'[u] = pc[u] \/ (pc[u] \in {"idle", "imm", "manual"}
                                           /\ pc'[u] \in {"idle", "imm", "manual"})
  /\ \A u \in asleep' \cap Clients : pc'[u] = "queue" => u \in asleep

\* Steps that leave the line alone.
LEMMA SameLineKeepsQueue ==
  ASSUME QueueInv, SameLine
  PROVE  QueueInv'
<1> USE DEF SameLine, Leading, Grouping
<1>0. UNCHANGED <<writers, done, group>> /\ writers \in Seq(Clients)
  BY DEF QueueInv, InLine
<1>1. \A u \in Clients : /\ pc'[u] \in Leading <=> pc[u] \in Leading
                         /\ pc'[u] \in Grouping <=> pc[u] \in Grouping
                         /\ pc'[u] = "queue" <=> pc[u] = "queue"
                         /\ pc'[u] = pc[u] \/ (pc'[u] # "queue" /\ pc'[u] \notin Leading)
  OBVIOUS
<1> HIDE DEF SameLine, Leading, Grouping
<1>2. \A i \in 1 .. Len(writers) : writers[i] \in Clients
  BY <1>0, SeqElements
<1>3. InLine'
  <2>1. InLine
    BY DEF QueueInv
  <2>2. \A i \in 1 .. Len(writers) :
          /\ ~done[writers[i]]
          /\ pc'[writers[i]] = "queue" \/ (i = 1 /\ pc'[writers[i]] \in Leading)
    BY <1>1, <1>2, <2>1 DEF InLine
  <2>3. /\ \A u \in Clients : pc'[u] \in Leading => Leads(u)
        /\ \A u \in Clients : pc'[u] = "queue" /\ ~done[u] =>
             \E i \in 1 .. Len(writers) : writers[i] = u
        /\ \A u \in Clients : done[u] => pc'[u] = "queue"
    BY <1>1, <2>1 DEF InLine
  <2> QED BY <1>0, <2>1, <2>2, <2>3, SMTT(20), SMTT(60) DEF InLine, Leads
<1>4. GroupIsPrefix'
  BY <1>0, <1>1 DEF QueueInv, GroupIsPrefix
<1>5. NoLostWakeup'
  BY <1>0, <1>1 DEF QueueInv, NoLostWakeup, Leads, SameLine
<1> QED BY <1>3, <1>4, <1>5 DEF QueueInv

\* The front of the queue goes on; the group it works on is the one it had, or
\* the one it has just made.
LeaderMove(t) ==
  /\ t \in Clients /\ t \notin asleep /\ Leads(t) /\ Moves(t)
  /\ pc[t] = "queue" \/ pc[t] \in Leading
  /\ pc'[t] \in Leading
  /\ UNCHANGED <<writers, done, asleep>>
  /\ \/ group' = group /\ (pc'[t] \in Grouping => pc[t] \in Grouping)
     \/ \E j \in 1 .. Len(writers) : group' = SubSeq(writers, 1, j)

\* The leader works on its group.
LEMMA LeaderKeepsQueue ==
  ASSUME QueueInv, NEW t \in Clients, LeaderMove(t)
  PROVE  QueueInv'
<1>0. UNCHANGED <<writers, done, asleep>> /\ writers \in Seq(Clients)
  BY DEF QueueInv, InLine, LeaderMove
<1>1. \A i \in 1 .. Len(writers) : writers[i] \in Clients
  BY <1>0, SeqElements
<1>2. \A u \in Clients : u # t => pc'[u] = pc[u]
  BY ThreadFacts DEF LeaderMove, Moves
<1>3. pc'[t] \in Leading /\ pc'[t] # "queue" /\ Leads(t) /\ t \notin asleep
  BY DEF LeaderMove, Leading, Grouping
<1>4. ~done[t]
  <2>1. 1 \in 1 .. Len(writers)
    <3>1. Len(writers) \in Nat /\ Len(writers) >= 1
      BY <1>0, <1>3, SeqElements DEF Leads
    <3> QED BY <3>1, SMTT(10), SMTT(30)
  <2> QED BY <1>3, <2>1 DEF QueueInv, InLine, Leads
<1>5. InLine'
  <2>1. \A i \in 1 .. Len(writers) :
          pc'[writers[i]] = "queue" \/ (i = 1 /\ pc'[writers[i]] \in Leading)
    <3> SUFFICES ASSUME NEW i \in 1 .. Len(writers)
                 PROVE  pc'[writers[i]] = "queue" \/ (i = 1 /\ pc'[writers[i]] \in Leading)
      OBVIOUS
    <3>1. CASE writers[i] = t
      <4>1. 1 \in 1 .. Len(writers)
        <5>1. Len(writers) \in Nat /\ Len(writers) >= 1
          BY <1>0, <1>3, SeqElements DEF Leads
        <5> QED BY <5>1, SMTT(10), SMTT(30)
      <4>2. \A k, l \in 1 .. Len(writers) : writers[k] = writers[l] => k = l
        BY DEF QueueInv, InLine
      <4>3. writers[i] = writers[1]
        BY <1>3, <3>1 DEF Leads
      <4>4. i = 1
        BY <4>1, <4>2, <4>3
      <4> QED BY <1>3, <3>1, <4>4
    <3>2. CASE writers[i] # t
      BY <1>1, <1>2, <3>2 DEF QueueInv, InLine
    <3> QED BY <3>1, <3>2
  <2>2. \A u \in Clients : pc'[u] \in Leading => Leads(u)
    BY <1>2, <1>3 DEF QueueInv, InLine
  <2>3. /\ \A u \in Clients : pc'[u] = "queue" /\ ~done[u] =>
             \E i \in 1 .. Len(writers) : writers[i] = u
        /\ \A u \in Clients : done[u] => pc'[u] = "queue"
    BY <1>2, <1>3, <1>4 DEF QueueInv, InLine
  <2>4. InLine
    BY DEF QueueInv
  <2> QED BY <1>0, <2>1, <2>2, <2>3, <2>4, SMTT(20), SMTT(60) DEF InLine, Leads
<1>6. GroupIsPrefix'
  <2>1. CASE group' = group /\ (pc'[t] \in Grouping => pc[t] \in Grouping)
    BY <1>0, <1>2, <2>1 DEF QueueInv, GroupIsPrefix
  <2>2. CASE \E j \in 1 .. Len(writers) : group' = SubSeq(writers, 1, j)
    <3>1. PICK j \in 1 .. Len(writers) : group' = SubSeq(writers, 1, j)
      BY <2>2
    <3>2. /\ group' \in Seq(Clients) /\ Len(group') = j
          /\ \A i \in 1 .. j : group'[i] = writers[i]
      BY <1>0, <3>1, Prefix
    <3> QED BY <1>0, <3>2 DEF GroupIsPrefix
  <2> QED BY <2>1, <2>2 DEF LeaderMove
<1>7. NoLostWakeup'
  BY <1>0, <1>2, <1>3 DEF QueueInv, NoLostWakeup, Leads
<1> QED BY <1>5, <1>6, <1>7 DEF QueueInv

\* A writer that is neither done nor at the front goes back to sleep.
LEMMA LieDownKeepsQueue ==
  ASSUME QueueInv, NEW t \in Clients, ~done[t], ~Leads(t),
         UNCHANGED <<writers, done, group, pc>>, asleep' = asleep \cup {t}
  PROVE  QueueInv'
<1>1. InLine /\ GroupIsPrefix
  BY DEF QueueInv
<1>2. InLine' /\ GroupIsPrefix'
  BY <1>1, SMTT(20), SMTT(60) DEF InLine, GroupIsPrefix, Leads
<1>3. NoLostWakeup'
  BY DEF QueueInv, NoLostWakeup, Leads
<1> QED BY <1>2, <1>3 DEF QueueInv

\* Only w.done of thread t may have changed, to false.
Clears(t) ==
  /\ done' \in [Clients -> BOOLEAN] /\ ~done'[t]
  /\ \A u \in Clients \ {t} : done'[u] = done[u]

\* A call that returns resets its writer's done flag.
LEMMA Cleared ==
  ASSUME QueueInv, NEW t \in Clients, done' = [done EXCEPT ![t] = FALSE]
  PROVE  Clears(t)
BY DEF Clears, QueueInv, InLine

\* A writer that is done returns.
LEMMA ToldKeepsQueue ==
  ASSUME QueueInv, NEW t \in Clients, t \notin asleep, done[t], Moves(t),
         pc'[t] \in {"idle", "imm"}, Clears(t),
         UNCHANGED <<writers, group, asleep>>
  PROVE  QueueInv'
<1>0. UNCHANGED <<writers, group, asleep>> /\ writers \in Seq(Clients)
  BY DEF QueueInv, InLine
<1>1. \A u \in Clients : u # t => pc'[u] = pc[u] /\ done'[u] = done[u]
  BY ThreadFacts DEF Moves, Clears
<1>2. ~done'[t] /\ done' \in [Clients -> BOOLEAN]
  BY DEF Clears
<1>3. \A i \in 1 .. Len(writers) : writers[i] \in Clients /\ writers[i] # t
  <2>1. \A i \in 1 .. Len(writers) : ~done[writers[i]]
    BY DEF QueueInv, InLine
  <2> QED BY <1>0, <2>1, SeqElements
<1>4. pc'[t] # "queue" /\ pc'[t] \notin Leading /\ pc'[t] \notin Grouping
  BY DEF Leading, Grouping
<1>5. InLine'
  <2>1. \A i \in 1 .. Len(writers) :
          /\ ~done'[writers[i]]
          /\ pc'[writers[i]] = "queue" \/ (i = 1 /\ pc'[writers[i]] \in Leading)
    BY <1>1, <1>3 DEF QueueInv, InLine
  <2>2. \A u \in Clients : pc'[u] \in Leading => Leads(u)
    BY <1>1, <1>4 DEF QueueInv, InLine
  <2>3. \A u \in Clients : pc'[u] = "queue" /\ ~done'[u] =>
          \E i \in 1 .. Len(writers) : writers[i] = u
    BY <1>1, <1>4 DEF QueueInv, InLine
  <2>4. \A u \in Clients : done'[u] => pc'[u] = "queue"
    BY <1>1, <1>2 DEF QueueInv, InLine
  <2>5. \A i, j \in 1 .. Len(writers) : writers[i] = writers[j] => i = j
    BY DEF QueueInv, InLine
  <2> QED BY <1>0, <1>2, <2>1, <2>2, <2>3, <2>4, <2>5, SMTT(20), SMTT(60) DEF InLine, Leads
<1>6. GroupIsPrefix'
  BY <1>0, <1>1, <1>4 DEF QueueInv, GroupIsPrefix
<1>7. NoLostWakeup'
  BY <1>0, <1>1, <1>4 DEF QueueInv, NoLostWakeup, Leads
<1> QED BY <1>5, <1>6, <1>7 DEF QueueInv

\* A new writer: alone it goes on at once, otherwise it sleeps at the end.
LEMMA EnqueueKeepsQueue ==
  ASSUME QueueInv, NEW t \in Clients, t \notin asleep, pc[t] = "idle", Moves(t),
         writers' = Append(writers, t), Clears(t),
         group' = group,
         \/ writers = <<>> /\ pc'[t] = "room" /\ asleep' = asleep
         \/ writers # <<>> /\ pc'[t] = "queue" /\ asleep' = asleep \cup {t}
  PROVE  QueueInv'
<1> DEFINE n == Len(writers)
<1>0. writers \in Seq(Clients) /\ n \in Nat /\ group \in Seq(Clients)
  BY LeaderPlace DEF QueueInv, InLine, GroupIsPrefix
<1>1. /\ writers' \in Seq(Clients) /\ Len(writers') = n + 1 /\ writers'[n + 1] = t
      /\ \A i \in 1 .. n : writers'[i] = writers[i]
  BY <1>0, SeqAppend, SMTT(20), SMTT(60)
<1>2. \A i : i \in 1 .. Len(writers') <=> i \in 1 .. n \/ i = n + 1
  BY <1>0, <1>1, SMTT(10), SMTT(30)
<1>3. \A i \in 1 .. n : i # n + 1
  BY <1>0, SMTT(10), SMTT(30)
<1>4. \A u \in Clients : u # t => pc'[u] = pc[u] /\ done'[u] = done[u]
  BY ThreadFacts DEF Moves, Clears
<1>5. ~done'[t] /\ done' \in [Clients -> BOOLEAN]
  BY DEF Clears
<1>6. \A i \in 1 .. n : writers[i] \in Clients /\ writers[i] # t
  BY LeaderPlace DEF QueueInv, InLine, Leading, Grouping
<1>7. pc[t] \notin Leading /\ pc[t] \notin Grouping /\ pc'[t] \notin Grouping
  BY DEF Leading, Grouping
<1>8. n = 0 => n + 1 = 1
  BY <1>0, SMTT(10), SMTT(30)
<1>9. /\ n = 0 => pc'[t] = "room" /\ asleep' = asleep
      /\ n # 0 => pc'[t] = "queue" /\ asleep' = asleep \cup {t}
  BY LeaderPlace
<1>10. \A u : Leads(u)' <=> IF n = 0 THEN u = t ELSE Leads(u)
  <2>1. CASE n = 0
    <3>1. Len(writers') = 1 /\ writers'[1] = t
      BY <1>1, <1>8, <2>1
    <3>2. 1 >= 1
      BY SMTT(10), SMTT(30)
    <3> QED BY <2>1, <3>1, <3>2 DEF Leads
  <2>2. CASE n # 0
    <3>1. n >= 1 /\ n + 1 >= 1 /\ 1 \in 1 .. n
      BY <1>0, <2>2, SMTT(10), SMTT(30)
    <3> QED BY <1>1, <2>2, <3>1 DEF Leads
  <2> QED BY <2>1, <2>2
<1> HIDE DEF n
<1>11. InLine'
  <2>1. ASSUME NEW i \in 1 .. Len(writers'), NEW j \in 1 .. Len(writers'),
               writers'[i] = writers'[j]
        PROVE  i = j
    <3>1. \A k, l \in 1 .. n : writers[k] = writers[l] => k = l
      BY LeaderPlace DEF n
    <3>2. CASE i \in 1 .. n /\ j \in 1 .. n
      BY <1>1, <2>1, <3>1, <3>2
    <3>3. CASE i = n + 1 /\ j \in 1 .. n
      BY <1>1, <1>6, <2>1, <3>3
    <3>4. CASE i \in 1 .. n /\ j = n + 1
      BY <1>1, <1>6, <2>1, <3>4
    <3> QED BY <1>2, <3>2, <3>3, <3>4
  <2>2. ASSUME NEW i \in 1 .. Len(writers')
        PROVE  /\ ~done'[writers'[i]]
               /\ pc'[writers'[i]] = "queue" \/ (i = 1 /\ pc'[writers'[i]] \in Leading)
    <3>1. CASE i \in 1 .. n
      <4>1. ~done[writers[i]] /\ (pc[writers[i]] = "queue" \/ (i = 1 /\ pc[writers[i]] \in Leading))
        BY <3>1 DEF QueueInv, InLine, n
      <4> QED BY <1>1, <1>4, <1>6, <3>1, <4>1
    <3>2. CASE i = n + 1
      BY <1>1, <1>5, <1>8, <1>9, <3>2 DEF Leading
    <3> QED BY <1>2, <3>1, <3>2
  <2>3. ASSUME NEW u \in Clients, pc'[u] \in Leading
        PROVE  Leads(u)'
    <3>1. CASE u = t
      BY <1>9, <1>10, <2>3, <3>1 DEF Leading, Grouping
    <3>2. CASE u # t
      <4>1. Leads(u)
        BY <1>4, <2>3, <3>2 DEF QueueInv, InLine
      <4>2. n # 0
        BY <4>1, LeaderPlace, <1>0, SMTT(10), SMTT(30) DEF n, Leads
      <4> QED BY <1>10, <4>1, <4>2
    <3> QED BY <3>1, <3>2
  <2>4. ASSUME NEW u \in Clients, pc'[u] = "queue" /\ ~done'[u]
        PROVE  \E i \in 1 .. Len(writers') : writers'[i] = u
    <3>1. CASE u = t
      BY <1>1, <1>2, <3>1
    <3>2. CASE u # t
      <4>1. \E i \in 1 .. n : writers[i] = u
        BY <1>4, <2>4, <3>2 DEF QueueInv, InLine, n
      <4> QED BY <1>1, <1>2, <4>1
    <3> QED BY <3>1, <3>2
  <2>5. \A u \in Clients : done'[u] => pc'[u] = "queue"
    BY <1>4, <1>5 DEF QueueInv, InLine
  <2> QED BY <1>1, <1>5, <2>1, <2>2, <2>3, <2>4, <2>5 DEF InLine
<1>12. GroupIsPrefix'
  <2> SUFFICES ASSUME NEW u \in Clients, pc'[u] \in Grouping
               PROVE  /\ Len(group) \in 1 .. Len(writers')
                      /\ \A i \in 1 .. Len(group) : group[i] = writers'[i]
    BY <1>0 DEF GroupIsPrefix
  <2>1. u # t /\ pc[u] \in Grouping
    BY <1>4, <1>7
  <2>2. Len(group) \in 1 .. n /\ \A i \in 1 .. Len(group) : group[i] = writers[i]
    BY <2>1 DEF QueueInv, GroupIsPrefix, n
  <2>3. \A i \in 1 .. Len(group) : i \in 1 .. n
    BY <1>0, <2>2, SMTT(10), SMTT(30)
  <2> QED BY <1>1, <1>2, <2>2, <2>3
<1>13. NoLostWakeup'
  <2> SUFFICES ASSUME NEW u \in asleep' \cap Clients, pc'[u] = "queue"
               PROVE  ~done'[u] /\ ~Leads(u)'
    BY DEF NoLostWakeup
  <2>1. n # 0
    <3>1. CASE u = t
      BY <1>9, <3>1
    <3>2. CASE u # t /\ n = 0
      <4>1. pc[u] = "queue" /\ u \in asleep
        BY <1>4, <1>9, <3>2
      <4>2. ~done[u]
        BY <4>1 DEF QueueInv, NoLostWakeup
      <4>3. \E i \in 1 .. n : writers[i] = u
        BY <4>1, <4>2 DEF QueueInv, InLine, n
      <4>4. 1 .. n = {}
        BY <3>2, SMTT(10), SMTT(30)
      <4> QED BY <4>3, <4>4
    <3> QED BY <3>1, <3>2
  <2>2. CASE u = t
    <3>1. ~Leads(t)
      <4>1. Leads(t) => 1 \in 1 .. n /\ writers[1] = t
        BY LeaderPlace DEF n
      <4> QED BY <1>6, <4>1
    <3> QED BY <1>5, <1>10, <2>1, <2>2, <3>1
  <2>3. CASE u # t
    <3>0. asleep' = asleep \cup {t}
      BY <1>9, <2>1
    <3>1. u \in asleep \cap Clients /\ pc[u] = "queue" /\ done'[u] = done[u]
      BY <1>4, <2>3, <3>0
    <3>2. ~done[u] /\ ~Leads(u)
      BY <3>1 DEF QueueInv, NoLostWakeup
    <3>3. ~Leads(u)'
      BY <1>10, <2>1, <3>2
    <3> QED BY <3>1, <3>2, <3>3
  <2> QED BY <2>2, <2>3
<1> QED BY <1>11, <1>12, <1>13 DEF QueueInv

\* What is left of the queue when the first n writers have gone.
LEMMA Rest ==
  ASSUME QueueInv, NEW n \in 1 .. Len(writers),
         writers' = SubSeq(writers, n + 1, Len(writers))
  PROVE  /\ n \in Nat /\ 1 <= n /\ n <= Len(writers)
         /\ writers' \in Seq(Clients) /\ Len(writers') = Len(writers) - n
         /\ \A i \in 1 .. Len(writers') :
              i + n \in (n + 1) .. Len(writers) /\ writers'[i] = writers[i + n]
<1>1. Len(writers) \in Nat /\ \A i \in 1 .. Len(writers) : writers[i] \in Clients
  BY LeaderPlace
<1>2. n \in Nat /\ 1 <= n /\ n <= Len(writers)
  BY <1>1, SMTT(10), SMTT(30)
<1>3. writers \in Seq(Clients)
  BY DEF QueueInv, InLine
<1>4. /\ SubSeq(writers, n + 1, Len(writers)) \in Seq(Clients)
      /\ Len(SubSeq(writers, n + 1, Len(writers))) = Len(writers) - n
      /\ \A i \in 1 .. Len(writers) - n :
           SubSeq(writers, n + 1, Len(writers))[i] = writers[i + n]
  BY <1>2, <1>3, SMTT(20), SMTT(60)
<1>5. \A i \in 1 .. Len(writers) - n : i + n \in (n + 1) .. Len(writers)
  BY <1>1, <1>2, SMTT(10), SMTT(30)
<1> QED BY <1>2, <1>4, <1>5

\* What the end of Write does to the queue.
LeaveMove(t, n) ==
  /\ t \in Clients /\ t \notin asleep /\ Leads(t) /\ Moves(t)
  /\ pc[t] \in Leading /\ pc'[t] \in {"idle", "imm"}
  /\ n \in 1 .. Len(writers)
  /\ writers' = SubSeq(writers, n + 1, Len(writers))
  /\ done' = [u \in Clients |-> done[u] \/ u \in {writers[i] : i \in 2 .. n}]
  /\ asleep' \subseteq asleep \ ({writers[i] : i \in 2 .. n} \cup NewHead(n))
  /\ group' \in Seq(Clients)

\* The leader removes the first n writers and tells them.
LEMMA LeaveKeepsQueue ==
  ASSUME QueueInv, NEW t \in Clients, NEW n, LeaveMove(t, n)
  PROVE  QueueInv'
<1> DEFINE told == {writers[i] : i \in 2 .. n}
<1>1. /\ n \in 1 .. Len(writers) /\ t \notin asleep /\ pc[t] \in Leading
      /\ writers' = SubSeq(writers, n + 1, Len(writers))
      /\ group' \in Seq(Clients)
  BY DEF LeaveMove
<1>2. /\ n \in Nat /\ 1 <= n /\ n <= Len(writers)
      /\ writers' \in Seq(Clients) /\ Len(writers') = Len(writers) - n
      /\ \A i \in 1 .. Len(writers') :
           i + n \in (n + 1) .. Len(writers) /\ writers'[i] = writers[i + n]
  BY <1>1, Rest
<1>3. Len(writers) \in Nat /\ 1 \in 1 .. Len(writers) /\ writers[1] = t
  BY LeaderPlace DEF LeaveMove
<1>4. \A u \in Clients : u # t => pc'[u] = pc[u]
  BY ThreadFacts DEF LeaveMove, Moves
<1>5. pc'[t] # "queue" /\ pc'[t] \notin Leading /\ pc'[t] \notin Grouping
  BY DEF LeaveMove, Leading, Grouping
<1>6. /\ done' \in [Clients -> BOOLEAN]
      /\ \A u \in Clients : done'[u] <=> done[u] \/ u \in told
  BY DEF LeaveMove, QueueInv, InLine
<1>7. /\ \A i \in (n + 1) .. Len(writers) : i \in 1 .. Len(writers) /\ i # 1 /\ i \notin 2 .. n
      /\ \A i \in 2 .. n : i \in 1 .. Len(writers) /\ i # 1
      /\ \A i \in 1 .. Len(writers) : i = 1 \/ i \in 2 .. n \/ i \in (n + 1) .. Len(writers)
  <2> DEFINE m == Len(writers)
  <2>1. m \in Nat /\ n <= m
    BY <1>2, <1>3
  <2> HIDE DEF m
  <2>2. /\ \A i \in (n + 1) .. m : i \in 1 .. m /\ i # 1 /\ i \notin 2 .. n
        /\ \A i \in 2 .. n : i \in 1 .. m /\ i # 1
        /\ \A i \in 1 .. m : i = 1 \/ i \in 2 .. n \/ i \in (n + 1) .. m
    BY <1>2, <2>1, SMTT(10), SMTT(30)
  <2> QED BY <2>2 DEF m
<1>8. /\ \A i \in 1 .. Len(writers) : writers[i] \in Clients
      /\ \A i, j \in 1 .. Len(writers) : writers[i] = writers[j] => i = j
  BY LeaderPlace
\* Those who stay are neither the leader nor told.
<1>9. ASSUME NEW i \in (n + 1) .. Len(writers)
      PROVE  /\ writers[i] \in Clients /\ writers[i] # t /\ writers[i] \notin told
             /\ pc'[writers[i]] = "queue" /\ ~done'[writers[i]]
  <2>0. i \in 1 .. Len(writers) /\ i # 1 /\ i \notin 2 .. n
    BY <1>7
  <2>1. writers[i] \in Clients /\ writers[i] # t
    BY <1>3, <1>8, <2>0
  <2>2. writers[i] \notin told
    BY <1>7, <1>8, <2>0
  <2>3. ~done[writers[i]] /\ pc[writers[i]] = "queue"
    <3>1. InLine
      BY DEF QueueInv
    <3> QED BY <2>0, <3>1 DEF InLine
  <2> QED BY <1>4, <1>6, <2>1, <2>2, <2>3
<1>10. \A u \in told : u \in Clients /\ u # t /\ pc'[u] = "queue"
  <2> SUFFICES ASSUME NEW i \in 2 .. n
               PROVE  writers[i] \in Clients /\ writers[i] # t /\ pc'[writers[i]] = "queue"
    OBVIOUS
  <2>1. writers[i] \in Clients /\ writers[i] # t
    BY <1>3, <1>7, <1>8
  <2>2. pc[writers[i]] = "queue"
    <3>1. InLine
      BY DEF QueueInv
    <3>2. i \in 1 .. Len(writers) /\ i # 1
      BY <1>7
    <3> QED BY <3>1, <3>2 DEF InLine
  <2> QED BY <1>4, <2>1, <2>2
<1>11. asleep' \subseteq asleep \ (told \cup NewHead(n))
  BY DEF LeaveMove
<1>12. \A u \in Clients : pc'[u] \notin Leading
  <2> SUFFICES ASSUME NEW u \in Clients, pc'[u] \in Leading PROVE FALSE
    OBVIOUS
  <2>1. u # t /\ pc[u] \in Leading
    BY <1>4, <1>5
  <2>2. Leads(u)
    BY <2>1 DEF QueueInv, InLine
  <2> QED BY <1>3, <2>1, <2>2 DEF Leads
<1> HIDE DEF told
<1>13. InLine'
  <2>1. ASSUME NEW i \in 1 .. Len(writers'), NEW j \in 1 .. Len(writers'),
               writers'[i] = writers'[j]
        PROVE  i = j
    <3>1. i + n = j + n
      <4>1. i + n \in (n + 1) .. Len(writers) /\ j + n \in (n + 1) .. Len(writers)
        BY <1>2
      <4>2. i + n \in 1 .. Len(writers) /\ j + n \in 1 .. Len(writers)
        BY <1>7, <4>1
      <4>3. writers[i + n] = writers[j + n]
        BY <1>2, <2>1
      <4> QED BY <1>8, <4>2, <4>3
    <3>2. Len(writers') \in Nat
      BY <1>2, SeqElements
    <3>3. i \in Nat /\ j \in Nat
      BY <3>2, SMTT(10), SMTT(30)
    <3> QED BY <1>2, <3>1, <3>3, SMTT(10), SMTT(30)
  <2>2. \A i \in 1 .. Len(writers') : ~done'[writers'[i]] /\ pc'[writers'[i]] = "queue"
    BY <1>2, <1>9
  <2>3. ASSUME NEW u \in Clients, pc'[u] = "queue" /\ ~done'[u]
        PROVE  \E i \in 1 .. Len(writers') : writers'[i] = u
    <3>1. u # t /\ pc[u] = "queue" /\ ~done[u] /\ u \notin told
      BY <1>4, <1>5, <1>6, <2>3
    <3>2. PICK i \in 1 .. Len(writers) : writers[i] = u
      BY <3>1 DEF QueueInv, InLine
    <3>3. i \in (n + 1) .. Len(writers)
      BY <1>3, <1>7, <3>1, <3>2 DEF told
    <3>4. i - n \in 1 .. Len(writers') /\ (i - n) + n = i
      BY <1>2, <1>3, <3>3, SMTT(10), SMTT(30)
    <3>5. writers'[i - n] = writers[(i - n) + n]
      BY <1>2, <3>4
    <3> QED BY <3>2, <3>4, <3>5
  <2>4. \A u \in Clients : done'[u] => pc'[u] = "queue"
    <3> SUFFICES ASSUME NEW u \in Clients, done'[u] PROVE pc'[u] = "queue"
      OBVIOUS
    <3>1. CASE u \in told
      BY <1>10, <3>1
    <3>2. CASE done[u]
      <4>1. pc[u] = "queue"
        BY <3>2 DEF QueueInv, InLine
      <4>2. u # t
        BY <1>1, <4>1 DEF Leading, Grouping
      <4> QED BY <1>4, <4>1, <4>2
    <3> QED BY <1>6, <3>1, <3>2
  <2> QED BY <1>2, <1>6, <1>12, <2>1, <2>2, <2>3, <2>4 DEF InLine
<1>14. GroupIsPrefix'
  BY <1>1, <1>12 DEF GroupIsPrefix, Leading
<1>15. NoLostWakeup'
  <2> SUFFICES ASSUME NEW u \in asleep' \cap Clients, pc'[u] = "queue", done'[u] \/ Leads(u)'
               PROVE  FALSE
    BY DEF NoLostWakeup
  <2>1. u \in asleep /\ u \notin told /\ u \notin NewHead(n) /\ u # t /\ pc[u] = "queue"
    BY <1>4, <1>5, <1>11
  <2>2. ~done[u]
    BY <2>1 DEF QueueInv, NoLostWakeup
  <2>3. ~done'[u]
    BY <1>6, <2>1, <2>2
  <2>4. Len(writers') >= 1 /\ u = writers'[1]
    BY <2>3 DEF Leads
  <2>5. 1 \in 1 .. Len(writers') /\ 1 + n = n + 1
    BY <1>2, <1>3, <2>4, SMTT(10), SMTT(30)
  <2>6. writers'[1] = writers[n + 1] /\ n + 1 \in (n + 1) .. Len(writers)
    BY <1>2, <2>5
  <2>7. n + 1 \in DOMAIN writers
    <3>1. DOMAIN writers = 1 .. Len(writers)
      BY SeqElements DEF QueueInv, InLine
    <3> QED BY <1>7, <2>6, <3>1
  <2>8. writers[n + 1] \in NewHead(n)
    BY <2>7 DEF NewHead
  <2> QED BY <2>1, <2>4, <2>6, <2>8
<1> QED BY <1>13, <1>14, <1>15 DEF QueueInv

\* Write joins the line at its end.
LEMMA CallWriteQueue ==
  ASSUME WorkInv, QueueInv, NEW t \in Clients, NEW k \in CallKinds, CallWrite(t, k)
  PROVE  QueueInv'
<1>1. ClientMove(t)
  BY CallWriteWork
<1>2. t \notin asleep /\ Moves(t) /\ t \in Threads /\ PlacesOK
  BY <1>1, ThreadFacts DEF ClientMove, WorkInv
<1>3. /\ pc[t] = "idle" /\ writers' = Append(writers, t) /\ group' = group
      /\ done' = [done EXCEPT ![t] = FALSE]
  BY DEF CallWrite
<1>4. \/ writers = <<>> /\ pc' = [pc EXCEPT ![t] = "room"] /\ asleep' = asleep
      \/ writers # <<>> /\ pc' = [pc EXCEPT ![t] = "queue"] /\ asleep' = asleep \cup {t}
  BY DEF CallWrite, EnterRoom
<1>5. \/ writers = <<>> /\ pc'[t] = "room" /\ asleep' = asleep
      \/ writers # <<>> /\ pc'[t] = "queue" /\ asleep' = asleep \cup {t}
  BY <1>2, <1>4, Assigned DEF Places, Leading
<1>6. Clears(t)
  BY <1>3, Cleared
<1> QED BY <1>2, <1>3, <1>5, <1>6, EnqueueKeepsQueue

\* A writer that wakes up returns or leads.
LEMMA QueueWakeQueue ==
  ASSUME WorkInv, QueueInv, NEW t \in Clients, QueueWake(t)
  PROVE  QueueInv'
<1>1. t \in Threads /\ PlacesOK /\ t \notin asleep /\ pc[t] = "queue"
      /\ UNCHANGED <<writers, group>>
  BY ThreadFacts DEF QueueWake, WorkInv
<1>2. CASE done[t] /\ Return(t, status[t]) /\ done' = [done EXCEPT ![t] = FALSE]
           /\ asleep' = asleep
  <2>1. pc' = [pc EXCEPT ![t] = IF kind[t] = "flush" /\ status[t] = "ok"
                                THEN "imm" ELSE "idle"]
    BY <1>2 DEF Return
  <2>2. Moves(t) /\ pc'[t] \in {"idle", "imm"}
    BY <1>1, <2>1, Assigned DEF Places
  <2>3. Clears(t)
    BY <1>2, Cleared
  <2> QED BY <1>1, <1>2, <2>2, <2>3, ToldKeepsQueue
<1> SUFFICES ASSUME ~done[t] PROVE QueueInv'
  BY <1>2 DEF QueueWake
<1>3. Len(writers) # 0
  <2>1. PICK i \in 1 .. Len(writers) : writers[i] = t
    BY <1>1 DEF QueueInv, InLine
  <2> QED BY LeaderPlace, SMTT(10), SMTT(30)
<1>4. Leads(t) <=> AtFront(t)
  BY <1>3, LeaderPlace
<1>5. CASE AtFront(t) /\ EnterRoom(t, kind[t] = "flush") /\ UNCHANGED <<asleep, done>>
  <2>1. Moves(t) /\ pc'[t] = "room"
    BY <1>1, <1>5, Assigned DEF EnterRoom, Places, Leading
  <2>2. LeaderMove(t)
    BY <1>1, <1>4, <1>5, <2>1 DEF LeaderMove, Leading, Grouping
  <2> QED BY <2>2, LeaderKeepsQueue
<1>6. CASE ~AtFront(t) /\ asleep' = asleep \cup {t} /\ UNCHANGED <<pc, done>>
  BY <1>1, <1>4, <1>6, LieDownKeepsQueue
<1> QED BY <1>5, <1>6 DEF QueueWake

\* The end of Write by the leader, as it affects the queue.
LEMMA LeaveQueue ==
  ASSUME WorkInv, QueueInv, NEW t \in Clients, pc[t] \in Leading, t \notin asleep,
         NEW n \in 1 .. Len(writers), NEW st, NEW sleepers \in SUBSET asleep,
         Leave(t, n, st, sleepers), group' \in Seq(Clients)
  PROVE  QueueInv'
<1>1. t \in Threads /\ PlacesOK
  BY ThreadFacts DEF WorkInv
<1>2. pc' = [pc EXCEPT ![t] = IF kind[t] = "flush" /\ st = "ok" THEN "imm" ELSE "idle"]
  BY DEF Leave, Return
<1>3. Moves(t) /\ pc'[t] \in {"idle", "imm"}
  BY <1>1, <1>2, Assigned DEF Places
<1>4. Leads(t)
  BY DEF QueueInv, InLine
<1>5. /\ writers' = SubSeq(writers, n + 1, Len(writers))
      /\ done' = [u \in Clients |-> done[u] \/ u \in {writers[i] : i \in 2 .. n}]
      /\ asleep' = sleepers \ ({writers[i] : i \in 2 .. n} \cup NewHead(n))
  BY DEF Leave
<1>6. LeaveMove(t, n)
  BY <1>3, <1>4, <1>5 DEF LeaveMove
<1> QED BY <1>6, LeaveKeepsQueue

\* A leader that returns without a group removes itself.
LEMMA LeaveEarlyQueue ==
  ASSUME WorkInv, QueueInv, NEW t \in Clients,
         RoomError(t) \/ RoomCreateFails(t) \/ NullWrite(t)
  PROVE  QueueInv'
<1>1. pc[t] = "room" /\ t \notin asleep /\ group' = group
  BY DEF RoomError, RoomCreateFails, NullWrite, InRoom
<1>2. PICK st : Leave(t, 1, st, asleep)
  BY DEF RoomError, RoomCreateFails, NullWrite
<1>3. pc[t] \in Leading /\ group' \in Seq(Clients)
  BY <1>1 DEF Leading, QueueInv, GroupIsPrefix
<1>4. 1 \in 1 .. Len(writers)
  BY <1>3, LeaderPlace DEF QueueInv, InLine
<1> QED BY <1>1, <1>2, <1>3, <1>4, LeaveQueue

\* A leader removes its group.
LEMMA FinishWriteQueue ==
  ASSUME WorkInv, QueueInv, NEW t \in Clients, FinishWrite(t)
  PROVE  QueueInv'
<1>1. pc[t] = "finish" /\ group' = <<>>
  BY DEF FinishWrite
<1>2. pc[t] \in Leading /\ pc[t] \in Grouping /\ pc[t] # "idle"
  BY <1>1 DEF Leading, Grouping
<1>3. t \notin asleep
  BY <1>2, InCall
<1>4. Len(group) \in 1 .. Len(writers)
  BY <1>2 DEF QueueInv, GroupIsPrefix
<1>5. PICK sl \in {InQueue, asleep} :
        Leave(t, Len(group), IF failed = "ok" THEN "ok" ELSE "error", sl)
  BY DEF FinishWrite
<1>6. sl \in SUBSET asleep
  BY DEF InQueue
<1>7. group' \in Seq(Clients)
  BY <1>1, SeqEmpty
<1> QED BY <1>2, <1>3, <1>4, <1>5, <1>6, <1>7, LeaveQueue

\* The leader's steps from building its group to the memtable.
LEMMA LeaderQueue ==
  ASSUME WorkInv, QueueInv, NEW t \in Clients,
         \/ \E j \in DOMAIN writers : BuildBatchGroup(t, j)
         \/ AddRecord(t) \/ SyncLog(t) \/ InsertInto(t)
  PROVE  QueueInv'
<1>1. Moves(t) /\ t \in Threads /\ PlacesOK
  BY PlainStepWork, ThreadFacts DEF ClientMove, WorkInv
<1>2. t \notin asleep
  BY PlainStepWork DEF ClientMove
<1>3. UNCHANGED <<writers, done, asleep>>
  BY DEF BuildBatchGroup, AddRecord, SyncLog, InsertInto
<1> SUFFICES /\ pc[t] \in Leading /\ pc'[t] \in Leading
             /\ \/ group' = group /\ (pc'[t] \in Grouping => pc[t] \in Grouping)
                \/ \E j \in 1 .. Len(writers) : group' = SubSeq(writers, 1, j)
  <2>1. pc[t] \in Leading => Leads(t)
    BY DEF QueueInv, InLine
  <2> QED BY <1>1, <1>2, <1>3, <2>1, LeaderKeepsQueue DEF LeaderMove
<1>4. CASE \E j \in DOMAIN writers : BuildBatchGroup(t, j)
  <2>1. PICK j \in DOMAIN writers : BuildBatchGroup(t, j)
    BY <1>4
  <2>2. /\ pc[t] = "room" /\ pc' = [pc EXCEPT ![t] = "append"]
        /\ group' = SubSeq(writers, 1, j)
    BY <2>1 DEF BuildBatchGroup, InRoom
  <2>3. pc'[t] = "append"
    BY <1>1, <2>2, Assigned DEF Places, Leading, Grouping
  <2>4. j \in 1 .. Len(writers)
    <3>1. writers \in Seq(Clients)
      BY DEF QueueInv, InLine
    <3> QED BY <3>1, SeqElements
  <2> QED BY <2>2, <2>3, <2>4 DEF Leading, Grouping
<1>5. CASE AddRecord(t)
  <2>1. pc[t] = "append" /\ group' = group
    BY <1>5 DEF AddRecord
  <2>2. PICK x \in {"sync", "insert", "finish"} : pc' = [pc EXCEPT ![t] = x]
    BY <1>5 DEF AddRecord
  <2>3. pc'[t] = x
    BY <1>1, <2>2, Assigned DEF Places, Leading, Grouping
  <2> QED BY <2>1, <2>2, <2>3 DEF Leading, Grouping
<1>6. CASE SyncLog(t)
  <2>1. pc[t] = "sync" /\ group' = group
    BY <1>6 DEF SyncLog
  <2>2. PICK x \in {"insert", "finish"} : pc' = [pc EXCEPT ![t] = x]
    BY <1>6 DEF SyncLog
  <2>3. pc'[t] = x
    BY <1>1, <2>2, Assigned DEF Places, Leading, Grouping
  <2> QED BY <2>1, <2>2, <2>3 DEF Leading, Grouping
<1>7. CASE InsertInto(t)
  <2>1. pc[t] = "insert" /\ group' = group
    BY <1>7 DEF InsertInto
  <2>2. pc' = [pc EXCEPT ![t] = "finish"] \/ pc' = pc
    BY <1>7 DEF InsertInto
  <2>3. pc'[t] \in {"finish", "insert"}
    BY <1>1, <2>1, <2>2, Assigned DEF Places, Leading, Grouping
  <2> QED BY <2>1, <2>3 DEF Leading, Grouping
<1> QED BY <1>4, <1>5, <1>6, <1>7

\* Steps of clients that change nobody's place in line.
LEMMA AsideQueue ==
  ASSUME WorkInv, QueueInv, NEW t \in Clients,
         \/ RoomDelay(t) \/ RoomWait(t) \/ RoomSwitch(t)
         \/ WaitForImm(t) \/ CallManual(t) \/ ManualLoop(t)
  PROVE  QueueInv'
<1>1. Moves(t) /\ Sleeps(t) /\ t \in Threads /\ PlacesOK
  BY PlainStepWork, RoomWaitWork, RoomSwitchWork, WaitForImmWork, CallManualWork,
     ManualLoopWork, ThreadFacts DEF ClientMove, WorkInv
<1> SUFFICES /\ UNCHANGED <<writers, done, group>>
             /\ \/ pc' = pc /\ pc[t] # "queue"
                \/ /\ pc[t] \in {"idle", "imm", "manual"}
                   /\ pc'[t] \in {"idle", "imm", "manual"}
  <2>1. \A u \in Clients : u # t => pc'[u] = pc[u]
    BY <1>1, ThreadFacts DEF Moves
  <2>2. SameLine
    BY <1>1, <2>1 DEF SameLine, Sleeps
  <2> QED BY <2>2, SameLineKeepsQueue
<1>2. CASE RoomDelay(t)
  BY <1>2 DEF RoomDelay, InRoom
<1>3. CASE RoomWait(t)
  BY <1>3 DEF RoomWait, InRoom
<1>4. CASE RoomSwitch(t)
  BY <1>4 DEF RoomSwitch, InRoom
<1>5. CASE WaitForImm(t)
  <2>1. UNCHANGED <<writers, done, group>> /\ pc[t] = "imm"
    BY <1>5 DEF WaitForImm
  <2>2. pc' = pc \/ pc' = [pc EXCEPT ![t] = "idle"]
    BY <1>5 DEF WaitForImm
  <2>3. pc' = [pc EXCEPT ![t] = "idle"] => pc'[t] = "idle"
    BY <1>1, Assigned DEF Places
  <2> QED BY <2>1, <2>2, <2>3
<1>6. CASE CallManual(t)
  <2>1. /\ UNCHANGED <<writers, done, group>> /\ pc[t] = "idle"
        /\ pc' = [pc EXCEPT ![t] = "manual"]
    BY <1>6 DEF CallManual
  <2>2. pc'[t] = "manual"
    BY <1>1, <2>1, Assigned DEF Places
  <2> QED BY <2>1, <2>2
<1>7. CASE ManualLoop(t)
  <2>1. UNCHANGED <<writers, done, group>> /\ pc[t] = "manual"
    BY <1>7 DEF ManualLoop
  <2>2. pc' = pc \/ pc' = [pc EXCEPT ![t] = "idle"]
    BY <1>7 DEF ManualLoop
  <2>3. pc' = [pc EXCEPT ![t] = "idle"] => pc'[t] = "idle"
    BY <1>1, Assigned DEF Places
  <2> QED BY <2>1, <2>2, <2>3
<1> QED BY <1>2, <1>3, <1>4, <1>5, <1>6, <1>7

\* The background thread does not touch the queue.
LEMMA BackgroundUntouched ==
  ASSUME Background
  PROVE  UNCHANGED <<lock, kind, calls, writers, done, status, roomVars, groupVars, mem,
                     lastSeq, seqOf, histVars>>
<1>1. CASE BackgroundCall
  BY <1>1 DEF BackgroundCall
<1>2. CASE BuiltTable
  BY <1>2 DEF BuiltTable
<1>3. CASE FlushLogged
  BY <1>3 DEF FlushLogged
<1>4. CASE FlushCollected
  BY <1>4 DEF FlushCollected
<1>5. CASE WorkFlush
  BY <1>5 DEF WorkFlush
<1>6. CASE WorkDone
  BY <1>6 DEF WorkDone
<1>7. CASE WorkLogged
  BY <1>7 DEF WorkLogged
<1>8. CASE WorkCollected
  BY <1>8 DEF WorkCollected
<1>9. CASE MoveLogged
  BY <1>9 DEF MoveLogged
<1> QED BY <1>1, <1>2, <1>3, <1>4, <1>5, <1>6, <1>7, <1>8, <1>9 DEF Background

\* The background thread wakes nobody in line.
LEMMA BackgroundQueue ==
  ASSUME WorkInv, QueueInv, Background
  PROVE  QueueInv'
<1>1. pc' = pc /\ asleep' \subseteq asleep
  BY BackgroundMoves DEF WorkMove
<1>2. UNCHANGED <<writers, done, group>>
  BY BackgroundUntouched
<1> QED BY <1>1, <1>2, SameLineKeepsQueue DEF SameLine

\* Neither does the destructor.
LEMMA CloserQueue ==
  ASSUME WorkInv, QueueInv, Close \/ CloseLoop \/ (\E t \in Threads : SpuriousWakeup(t))
  PROVE  QueueInv'
<1>1. UNCHANGED <<writers, done, group>>
  BY DEF Close, CloseLoop, SpuriousWakeup
<1>2. asleep' \subseteq asleep \cup {Closer}
  BY DEF Close, CloseLoop, SpuriousWakeup
<1>3. PICK x : pc' = [pc EXCEPT ![Closer] = x] \/ pc' = pc
  BY DEF Close, CloseLoop, SpuriousWakeup
<1>4. \A u \in Clients : pc'[u] = pc[u]
  BY <1>3, ThreadFacts DEF WorkInv, PlacesOK
<1>5. SameLine
  BY <1>1, <1>2, <1>4, ThreadFacts DEF SameLine
<1> QED BY <1>5, SameLineKeepsQueue

\* The line is empty.
LEMMA InitQueue == Init => QueueInv
<1> SUFFICES ASSUME Init PROVE QueueInv
  OBVIOUS
<1>1. writers = <<>> /\ group = <<>> /\ done = [t \in Clients |-> FALSE] /\ asleep = {}
  BY DEF Init
<1>2. \A t \in Clients : pc[t] = "idle" /\ ~done[t]
  BY <1>1, ThreadFacts DEF Init
<1>3. <<>> \in Seq(Clients) /\ Len(<<>>) = 0
  BY SeqEmpty
<1>4. 1 .. 0 = {}
  BY SMTT(10), SMTT(30)
<1>5. InLine
  BY <1>1, <1>2, <1>3, <1>4 DEF InLine, Leading, Grouping
<1>6. GroupIsPrefix /\ NoLostWakeup
  BY <1>1, <1>2, <1>3 DEF GroupIsPrefix, NoLostWakeup, Grouping
<1> QED BY <1>5, <1>6 DEF QueueInv

\* Every step keeps QueueInv.
LEMMA NextQueue == WorkInv /\ QueueInv /\ [Next]_vars => QueueInv'
<1> SUFFICES ASSUME WorkInv, QueueInv, [Next]_vars PROVE QueueInv'
  OBVIOUS
<1>1. CASE UNCHANGED vars
  <2>1. UNCHANGED <<writers, done, group, pc, asleep>>
    BY <1>1 DEF vars
  <2> QED BY <2>1, SameLineKeepsQueue DEF SameLine
<1>2. CASE \E t \in Clients : \/ \E k \in CallKinds : CallWrite(t, k)
                              \/ CallManual(t) \/ Step(t)
  BY <1>2, CallWriteQueue, AsideQueue, QueueWakeQueue, LeaveEarlyQueue, FinishWriteQueue,
     LeaderQueue DEF Step
<1>3. CASE Background
  BY <1>3, BackgroundQueue
<1>4. CASE Close \/ CloseLoop \/ (\E t \in Threads : SpuriousWakeup(t))
  BY <1>4, CloserQueue
<1> QED BY <1>1, <1>2, <1>3, <1>4 DEF Next, Terminated

\* The invariant of the queue says what the properties of the model say.
LEMMA QueueSound == QueueInv => QueueIsSound
<1> SUFFICES ASSUME QueueInv PROVE QueueIsSound
  OBVIOUS
<1>1. writers \in Seq(Clients) /\ group \in Seq(Clients)
  BY DEF QueueInv, InLine, GroupIsPrefix
<1>2. \A t \in Clients : pc[t] \in Leading => writers # <<>> /\ t = Head(writers)
  <2> SUFFICES ASSUME NEW t \in Clients, pc[t] \in Leading
               PROVE  writers # <<>> /\ t = Head(writers)
    OBVIOUS
  <2>1. Leads(t)
    BY DEF QueueInv, InLine
  <2>2. Len(writers) # 0
    BY <1>1, <2>1, LeaderPlace, SMTT(10), SMTT(30)
  <2> QED BY <2>1, <2>2, LeaderPlace DEF AtFront
<1>3. ASSUME NEW t \in Clients, pc[t] \in Grouping
      PROVE  group = SubSeq(writers, 1, Len(group))
  <2>1. Len(group) \in 1 .. Len(writers) /\ \A i \in 1 .. Len(group) : group[i] = writers[i]
    BY <1>3 DEF QueueInv, GroupIsPrefix
  <2>2. /\ SubSeq(writers, 1, Len(group)) \in Seq(Clients)
        /\ Len(SubSeq(writers, 1, Len(group))) = Len(group)
        /\ \A i \in 1 .. Len(group) : SubSeq(writers, 1, Len(group))[i] = writers[i]
    BY <1>1, <2>1, Prefix
  <2> QED BY <1>1, <2>1, <2>2, SeqEqual
<1>4. OneLogger
  BY <1>2, <1>3 DEF OneLogger, Groupers, Leading, Grouping
<1>5. FrontIsAwake
  <2> SUFFICES ASSUME NEW t \in asleep \cap Clients, pc[t] = "queue"
               PROVE  ~done[t] /\ t # Head(writers)
    BY DEF FrontIsAwake
  <2>1. ~done[t] /\ ~Leads(t)
    BY DEF QueueInv, NoLostWakeup
  <2>2. PICK i \in 1 .. Len(writers) : writers[i] = t
    BY <2>1 DEF QueueInv, InLine
  <2>3. Len(writers) # 0
    BY LeaderPlace, SMTT(10), SMTT(30)
  <2> QED BY <2>1, <2>3, LeaderPlace DEF AtFront
<1> QED BY <1>4, <1>5 DEF QueueIsSound
=============================================================================
