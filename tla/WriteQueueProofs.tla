-------------------------- MODULE WriteQueueProofs --------------------------
(***************************************************************************)
(* CommitInv is inductive: what DBImpl::Write has done for the batches of  *)
(* a group at each point.  The theorems at the end hold for any number of  *)
(* clients and calls, any sizes and any faults.                            *)
(***************************************************************************)
EXTENDS WriteQueueCommit

USE ZenonT(20), ZenonT(60) DEF roomVars, groupVars, memVars, bgVars, histVars

\* The end of Write.
LEMMA FinishCommit ==
  ASSUME WorkInv, QueueInv, CommitInv, NEW t \in Clients, FinishWrite(t)
  PROVE  CommitInv'
<1> DEFINE st == IF failed = "ok" THEN "ok" ELSE "error"
           told == {writers[i] : i \in 2 .. Len(group)}
<1>1. /\ pc[t] = "finish"
      /\ UNCHANGED <<kind, calls, seqOf, inserted, logged, synced>>
      /\ lastSeq' = lastSeq + GroupCount
      /\ toInsert' = {} /\ failed' = "ok"
  BY DEF FinishWrite
<1>2. /\ done' = [u \in Clients |-> done[u] \/ u \in told]
      /\ status' = [u \in Clients |-> IF u \in told THEN st ELSE status[u]]
      /\ Return(t, st)
  BY DEF FinishWrite, Leave
<1>3. pc[t] \in Grouping /\ pc[t] \in Leading
  BY <1>1 DEF Grouping, Leading
<1>4. calls[t] >= 1 /\ CommitTypes /\ PlacesOK
  BY <1>3 DEF CommitInv, InWrite, WorkInv
<1>5. st \in {"ok", "error"}
  OBVIOUS
<1> HIDE DEF st
<1>6. Answers(t, st)
  BY <1>2, <1>4, <1>5, ReturnAnswers
\* The group is the leader and those it tells.
<1>7. /\ writers[1] = t /\ Len(group) \in 1 .. Len(writers)
      /\ \A i \in 1 .. Len(group) : group[i] = writers[i]
  BY <1>3 DEF QueueInv, InLine, Leads, GroupIsPrefix
<1>8. /\ Len(writers) \in Nat
      /\ \A i, k \in 1 .. Len(writers) : writers[i] = writers[k] => i = k
  BY LeaderPlace
<1>9. \A i \in 1 .. Len(group) : i = 1 \/ i \in 2 .. Len(group)
  BY <1>7, <1>8, SMTT(10), SMTT(30)
<1>10. \A i \in 2 .. Len(group) : /\ i \in 1 .. Len(group) /\ i \in 1 .. Len(writers)
                                  /\ i # 1 /\ 1 \in 1 .. Len(writers)
  BY <1>7, <1>8, SMTT(10), SMTT(30)
<1>11. \A u \in Clients : Grouped(u) /\ u # t <=> u \in told
  <2>1. ASSUME NEW u \in Clients, Grouped(u), u # t PROVE u \in told
    BY <1>7, <1>9, <2>1 DEF Grouped
  <2>2. ASSUME NEW i \in 2 .. Len(group) PROVE Grouped(writers[i]) /\ writers[i] # t
    BY <1>3, <1>7, <1>8, <1>10 DEF Grouped
  <2> QED BY <2>1, <2>2
<1> HIDE DEF told
<1>12. \A u \in Clients : /\ done'[u] = (done[u] \/ u \in told)
                          /\ status'[u] = IF u \in told THEN st ELSE status[u]
  BY <1>2
<1>13. \A u \in Clients : IF Grouped(u) /\ u # t
                          THEN done'[u] /\ status'[u] = st
                          ELSE done'[u] = done[u] /\ status'[u] = status[u]
  <2>1. \A u \in Clients : done[u] \in BOOLEAN
    BY DEF QueueInv, InLine
  <2> QED BY <1>11, <1>12, <2>1
<1>14. status' \in [Clients -> {"ok", "error"}]
  BY <1>2, <1>4, <1>5 DEF CommitTypes
<1>15. st = IF failed = "ok" THEN "ok" ELSE "error"
  BY DEF st
<1>16. Told(t, st)
  BY <1>1, <1>13, <1>14, <1>15 DEF Told
<1> QED BY <1>1, <1>6, <1>16, ToldKeeps

\* A leader that returns before its batch is touched.
LEMMA EarlyCommit ==
  ASSUME WorkInv, QueueInv, CommitInv, NEW t \in Clients,
         RoomError(t) \/ RoomCreateFails(t) \/ NullWrite(t)
  PROVE  CommitInv'
<1>1. /\ pc[t] = "room"
      /\ UNCHANGED <<kind, calls, lastSeq, seqOf, group, toInsert, failed, inserted, logged,
                     synced>>
  BY DEF RoomError, RoomCreateFails, NullWrite, InRoom
<1>2. PICK st \in {"ok", "error"} :
        Leave(t, 1, st, asleep) /\ (kind[t] # "flush" => st = "error")
  BY DEF RoomError, RoomCreateFails, NullWrite
<1>3. 2 .. 1 = {}
  BY SMTT(10), SMTT(30)
<1>4. /\ done' = [u \in Clients |-> done[u] \/ u \in {}]
      /\ status' = [u \in Clients |-> IF u \in {} THEN st ELSE status[u]]
      /\ Return(t, st)
  <2>1. {writers[i] : i \in 2 .. 1} = {}
    BY <1>3
  <2> QED BY <1>2, <2>1 DEF Leave
<1>5. calls[t] >= 1 /\ CommitTypes /\ PlacesOK
  BY <1>1 DEF CommitInv, InWrite, WorkInv, Leading
<1>6. Answers(t, st)
  BY <1>4, <1>5, ReturnAnswers
<1>7. \A u \in Clients : done'[u] = done[u] /\ status'[u] = status[u]
  <2>1. \A u \in Clients : done[u] \in BOOLEAN
    BY DEF QueueInv, InLine
  <2> QED BY <1>4, <2>1
<1>8. status' \in [Clients -> {"ok", "error"}]
  BY <1>4, <1>5 DEF CommitTypes
<1>9. ~done[t] /\ ~Grouped(t)
  BY <1>1, GroupFacts DEF QueueInv, InLine
<1>10. Alone(t)
  BY <1>1, <1>7, <1>8, <1>9 DEF Alone
<1>11. InLineOnly(t)
  BY <1>1, <1>9 DEF InLineOnly
<1>12. CurrentWrite(t) \notin inserted
  BY <1>11 DEF CommitInv, LineUntouched, Untouched
<1> QED BY <1>2, <1>6, <1>9, <1>10, <1>12, AloneKeeps

\* A writer that wakes up returns what it was told, or leads.
LEMMA QueueWakeCommit ==
  ASSUME WorkInv, QueueInv, CommitInv, NEW t \in Clients, QueueWake(t)
  PROVE  CommitInv'
<1>1. /\ pc[t] = "queue"
      /\ UNCHANGED <<kind, calls, lastSeq, seqOf, group, toInsert, failed, inserted, logged,
                     synced>>
  BY DEF QueueWake
<1>2. CASE /\ done[t] /\ Return(t, status[t])
           /\ done' = [done EXCEPT ![t] = FALSE] /\ status' = [status EXCEPT ![t] = "ok"]
  <2>1. calls[t] >= 1 /\ CommitTypes /\ PlacesOK
    BY <1>1 DEF CommitInv, InWrite, WorkInv
  <2>2. status[t] \in {"ok", "error"} /\ status \in [Clients -> {"ok", "error"}]
    BY <2>1 DEF CommitTypes
  <2>3. Answers(t, status[t])
    BY <1>2, <2>1, <2>2, ReturnAnswers
  <2>4. done \in [Clients -> BOOLEAN]
    BY DEF QueueInv, InLine
  <2>5. (\A u \in Clients : u # t => done'[u] = done[u]) /\ ~done'[t]
    BY <1>2, <2>4
  <2>6. /\ status' \in [Clients -> {"ok", "error"}]
        /\ \A u \in Clients : u # t => status'[u] = status[u]
    BY <1>2, <2>2
  <2>7. Alone(t)
    BY <1>1, <2>5, <2>6 DEF Alone
  <2>8. ~Grouped(t)
    BY <1>2, GroupFacts
  <2>9. kind[t] # "flush" => /\ status[t] = "ok" => Committed(t)
                             /\ status[t] = "error" => CurrentWrite(t) \notin inserted
    BY <1>2 DEF CommitInv, ToldIsTrue
  <2> QED BY <2>3, <2>7, <2>8, <2>9, AloneKeeps
<1>3. CASE /\ ~done[t] /\ UNCHANGED <<done, status, result>>
           /\ pc' = pc \/ pc' = [pc EXCEPT ![t] = "room"]
  <2>1. \A u \in Clients : pc'[u] = pc[u] \/ (u = t /\ pc'[u] = "room")
    <3>1. pc' = [pc EXCEPT ![t] = "room"] => Moves(t) /\ pc'[t] = "room"
      BY ThreadFacts, Assigned DEF WorkInv, Places, Leading
    <3> QED BY <1>3, <3>1, ThreadFacts DEF Moves
  <2>2. Still
    BY <1>1, <1>3, <2>1 DEF Still
  <2> QED BY <2>2, StillKeeps
<1> QED BY <1>2, <1>3 DEF QueueWake, EnterRoom

\* A call starts with the next of the client's writes.
LEMMA Called ==
  ASSUME CommitTypes, NEW t \in Clients, NEW k \in CallKinds, calls[t] < MaxCalls,
         calls' = [calls EXCEPT ![t] = @ + 1], kind' = [kind EXCEPT ![t] = k]
  PROVE  /\ calls'[t] = calls[t] + 1 /\ kind'[t] = k
         /\ calls' \in [Clients -> 0 .. MaxCalls] /\ kind' \in [Clients -> CallKinds]
         /\ \A u \in Clients : u # t => calls'[u] = calls[u] /\ kind'[u] = kind[u]
<1>1. calls \in [Clients -> 0 .. MaxCalls] /\ kind \in [Clients -> CallKinds]
  BY DEF CommitTypes
<1>2. calls[t] \in 0 .. MaxCalls /\ MaxCalls \in Nat
  BY <1>1, WriteQueueAssumption
<1>3. calls[t] + 1 \in 0 .. MaxCalls
  BY <1>2, SMTT(10), SMTT(30)
<1>4. calls' = [calls EXCEPT ![t] = calls[t] + 1]
  OBVIOUS
<1>5. /\ calls'[t] = calls[t] + 1 /\ calls' \in [Clients -> 0 .. MaxCalls]
      /\ \A u \in Clients : u # t => calls'[u] = calls[u]
  BY <1>1, <1>3, <1>4
<1>6. /\ kind'[t] = k /\ kind' \in [Clients -> CallKinds]
      /\ \A u \in Clients : u # t => kind'[u] = kind[u]
  BY <1>1
<1> QED BY <1>5, <1>6

\* A call begins.
LEMMA CallCommit ==
  ASSUME WorkInv, QueueInv, CommitInv, NEW t \in Clients,
         (\E k \in CallKinds : CallWrite(t, k)) \/ CallManual(t)
  PROVE  CommitInv'
<1>1. PICK k \in CallKinds :
        /\ pc[t] = "idle" /\ calls[t] < MaxCalls
        /\ calls' = [calls EXCEPT ![t] = @ + 1] /\ kind' = [kind EXCEPT ![t] = k]
        /\ UNCHANGED <<status, result, lastSeq, seqOf, group, toInsert, failed, inserted,
                       logged, synced>>
        /\ \/ pc' = [pc EXCEPT ![t] = "manual"] /\ done' = done
           \/ /\ pc' = [pc EXCEPT ![t] = "room"] \/ pc' = [pc EXCEPT ![t] = "queue"]
              /\ done' = [done EXCEPT ![t] = FALSE] /\ k # "manual"
  <2>1. CASE \E k \in CallKinds : CallWrite(t, k)
    BY <2>1 DEF CallWrite, EnterRoom
  <2>2. CASE CallManual(t)
    BY <2>2 DEF CallManual, CallKinds
  <2> QED BY <2>1, <2>2
<1>2. CommitTypes /\ PlacesOK
  BY DEF CommitInv, WorkInv
<1>3. /\ calls'[t] = calls[t] + 1 /\ kind'[t] = k
      /\ calls' \in [Clients -> 0 .. MaxCalls] /\ kind' \in [Clients -> CallKinds]
      /\ \A u \in Clients : u # t => calls'[u] = calls[u] /\ kind'[u] = kind[u]
  BY <1>1, <1>2, Called
<1>4. PICK x \in {"manual", "room", "queue"} :
        pc' = [pc EXCEPT ![t] = x] /\ (x = "manual" \/ k # "manual")
  BY <1>1
<1>5. Moves(t) /\ pc'[t] = x
  BY <1>2, <1>4, ThreadFacts, Assigned DEF Places, Leading
<1>6. \A u \in Clients : u # t => pc'[u] = pc[u]
  BY <1>5, ThreadFacts DEF Moves
<1>7. done \in [Clients -> BOOLEAN] /\ ~done[t]
  BY <1>1 DEF QueueInv, InLine
<1>8. done' = done \/ done' = [done EXCEPT ![t] = FALSE]
  BY <1>1
<1>9. \A u \in Clients : done'[u] = done[u]
  BY <1>7, <1>8
<1>10. Begins(t, k)
  BY <1>1, <1>3, <1>4, <1>5, <1>6, <1>9 DEF Begins
<1> QED BY <1>10, BeginsKeeps

\* Waiting for room, for a flush or for a manual compaction.
LEMMA AsideCommit ==
  ASSUME WorkInv, QueueInv, CommitInv, NEW t \in Clients,
         RoomDelay(t) \/ RoomWait(t) \/ RoomSwitch(t) \/ WaitForImm(t) \/ ManualLoop(t)
  PROVE  CommitInv'
<1>1. UNCHANGED <<calls, kind, done, status, result, lastSeq, seqOf, group, toInsert,
                  failed, inserted, logged, synced>>
  BY DEF RoomDelay, RoomWait, RoomSwitch, WaitForImm, ManualLoop
<1>2. \/ pc' = pc
      \/ pc' = [pc EXCEPT ![t] = "idle"] /\ pc[t] \in {"imm", "manual"}
  BY DEF RoomDelay, RoomWait, RoomSwitch, WaitForImm, ManualLoop
<1>3. pc' = [pc EXCEPT ![t] = "idle"] => Moves(t) /\ pc'[t] = "idle"
  BY ThreadFacts, Assigned DEF WorkInv, Places
<1>4. \A u \in Clients : \/ pc'[u] = pc[u]
                         \/ pc[u] \in {"imm", "manual"} /\ pc'[u] = "idle"
  BY <1>2, <1>3, ThreadFacts DEF Moves
<1>5. Still
  BY <1>1, <1>4 DEF Still
<1> QED BY <1>5, StillKeeps

\* The background thread and the destructor.
LEMMA OthersCommit ==
  ASSUME WorkInv, QueueInv, CommitInv,
         Background \/ Close \/ CloseLoop \/ (\E t \in Threads : SpuriousWakeup(t))
  PROVE  CommitInv'
<1>1. UNCHANGED <<calls, kind, done, status, result, lastSeq, seqOf, group, toInsert,
                  failed, inserted, logged, synced>>
  <2>1. CASE Background
    BY <2>1, BackgroundUntouched
  <2>2. CASE Close
    BY <2>2 DEF Close
  <2>3. CASE CloseLoop
    BY <2>3 DEF CloseLoop
  <2>4. CASE \E t \in Threads : SpuriousWakeup(t)
    BY <2>4 DEF SpuriousWakeup
  <2> QED BY <2>1, <2>2, <2>3, <2>4
<1>2. \A u \in Clients : pc'[u] = pc[u]
  <2>1. CASE Background
    BY <2>1, BackgroundMoves DEF WorkMove
  <2>2. CASE Close \/ CloseLoop \/ (\E t \in Threads : SpuriousWakeup(t))
    <3>1. PICK x : pc' = [pc EXCEPT ![Closer] = x] \/ pc' = pc
      BY <2>2 DEF Close, CloseLoop, SpuriousWakeup
    <3> QED BY <3>1, ThreadFacts DEF WorkInv, PlacesOK
  <2> QED BY <2>1, <2>2
<1>3. Still
  BY <1>1, <1>2 DEF Still
<1> QED BY <1>3, StillKeeps

\* Nothing has been written.
LEMMA InitCommit == Init => CommitInv
<1> SUFFICES ASSUME Init PROVE CommitInv
  OBVIOUS
<1>1. /\ kind = [t \in Clients |-> "put"] /\ calls = [t \in Clients |-> 0]
      /\ status = [t \in Clients |-> "ok"] /\ failed = "ok" /\ lastSeq = 0
      /\ toInsert = {} /\ logged = {} /\ synced = {} /\ inserted = {}
  BY DEF Init
<1>2. /\ seqOf = [w \in Writes |-> 0] /\ result = [w \in Writes |-> "none"]
  BY DEF Init
<1>3. \A t \in Clients : pc[t] = "idle" /\ ~done[t]
  BY ThreadFacts DEF Init
<1>4. 0 \in 0 .. MaxCalls /\ 0 \in Nat
  BY WriteQueueAssumption, SMTT(10), SMTT(30)
<1>5. /\ calls \in [Clients -> 0 .. MaxCalls] /\ kind \in [Clients -> CallKinds]
      /\ status \in [Clients -> {"ok", "error"}]
      /\ \A t \in Clients : kind[t] = "put"
  BY <1>1, <1>4 DEF CallKinds
<1>6. result \in [Writes -> {"none", "ok", "error"}] /\ seqOf \in [Writes -> Nat]
  BY <1>2, <1>4
<1>7. CommitTypes
  BY <1>1, <1>4, <1>5, <1>6 DEF CommitTypes
<1>8. \A w \in Writes : Untouched(w)
  BY <1>1, <1>2 DEF Untouched
<1>9. FutureUntouched
  <2>1. \A t \in Clients : \A n \in 1 .. MaxCalls : <<t, n>> \in Writes
    BY SMTT(10), SMTT(30) DEF Writes
  <2> QED BY <1>8, <2>1 DEF FutureUntouched
<1>10. InWrite /\ LineUntouched /\ ToldIsTrue /\ GroupAt
  BY <1>3 DEF InWrite, LineUntouched, InLineOnly, ToldIsTrue, GroupAt, Leading, Grouping
<1>11. NumbersBelow /\ NumbersDiffer
  <2>1. ~(0 > 0)
    BY SMTT(10), SMTT(30)
  <2> QED BY <1>1, <1>8, <2>1 DEF NumbersBelow, NumbersDiffer, Untouched
<1>12. ResultsAreTrue /\ SyncMeansSynced
  BY <1>5, <1>8 DEF ResultsAreTrue, SyncMeansSynced, Untouched
<1> QED BY <1>7, <1>9, <1>10, <1>11, <1>12 DEF CommitInv

\* Every step keeps CommitInv.
LEMMA NextCommit == WorkInv /\ QueueInv /\ CommitInv /\ [Next]_vars => CommitInv'
<1> SUFFICES ASSUME WorkInv, QueueInv, CommitInv, [Next]_vars PROVE CommitInv'
  OBVIOUS
<1>1. CASE UNCHANGED vars
  <2>1. Still
    BY <1>1 DEF vars, Still
  <2> QED BY <2>1, StillKeeps
<1>2. CASE \E t \in Clients : \/ \E k \in CallKinds : CallWrite(t, k)
                              \/ CallManual(t) \/ Step(t)
  BY <1>2, CallCommit, QueueWakeCommit, EarlyCommit, AsideCommit, BuildCommit,
     AddRecordCommit, SyncLogCommit, InsertIntoCommit, FinishCommit DEF Step
<1>3. CASE Background \/ Close \/ CloseLoop \/ (\E t \in Threads : SpuriousWakeup(t))
  BY <1>3, OthersCommit
<1> QED BY <1>1, <1>2, <1>3 DEF Next, Terminated

\* The invariant of the commit says what the property of the model says.
LEMMA CommitAtomic == QueueInv /\ CommitInv => GroupsAreAtomic
<1> SUFFICES ASSUME QueueInv, CommitInv PROVE GroupsAreAtomic
  OBVIOUS
<1>1. ASSUME NEW w \in inserted, seqOf[w] > lastSeq
      PROVE  \E t \in Groupers : \E i \in 1 .. Len(group) : w = CurrentWrite(group[i])
  <2>1. w \in Writes
    BY DEF CommitInv, CommitTypes
  <2>2. Grouped(w[1]) /\ w = CurrentWrite(w[1])
    BY <1>1, <2>1 DEF CommitInv, NumbersBelow
  <2> QED BY <2>2 DEF Grouped, Groupers, Grouping
<1>2. DOMAIN group = 1 .. Len(group)
  BY SeqElements DEF QueueInv, GroupIsPrefix
<1>3. NumbersDiffer
  BY DEF CommitInv
<1> QED BY <1>1, <1>2, <1>3 DEF GroupsAreAtomic, NumbersDiffer

-----------------------------------------------------------------------------
(* The theorems.                                                           *)

\* Together the three invariants are inductive.
LEMMA AllInvariants == Spec => [](WorkInv /\ QueueInv /\ CommitInv)
<1>1. Init => WorkInv /\ QueueInv /\ CommitInv
  BY InitWork, InitQueue, InitCommit
<1>2. WorkInv /\ QueueInv /\ CommitInv /\ [Next]_vars => (WorkInv /\ QueueInv /\ CommitInv)'
  BY NextWork, NextQueue, NextCommit
<1> QED BY <1>1, <1>2, PTL DEF Spec

\* Write reports success only for a batch that is in the log, in a memtable and
\* below LastSequence, and an error only for one that is in no memtable, for
\* any number of clients and calls and whatever fails (DBImpl::Write).
THEOREM WriteResults == Spec => []ResultsAreTrue
<1>1. CommitInv => ResultsAreTrue
  BY DEF CommitInv
<1> QED BY <1>1, AllInvariants, PTL

\* A successful Write with sync = true is in the synced part of the log also
\* when another thread wrote it (BuildBatchGroup puts no sync write behind a
\* leader that does not sync).
THEOREM SyncWrites == Spec => []SyncMeansSynced
<1>1. CommitInv => SyncMeansSynced
  BY DEF CommitInv
<1> QED BY <1>1, AllInvariants, PTL

\* Readers see a group of batches whole or not at all, and no two writes have
\* the same sequence number (SetSequence and SetLastSequence in DBImpl::Write).
THEOREM AtomicGroups == Spec => []GroupsAreAtomic
BY CommitAtomic, AllInvariants, PTL

\* Only the front of writers_ works without the mutex, and no writer whose turn
\* it is or whose batch is done sleeps on (DBImpl::Write).
THEOREM SoundQueue == Spec => []QueueIsSound
BY QueueSound, AllInvariants, PTL

\* Whoever waits on background_work_finished_signal_ has work scheduled
\* (MaybeScheduleCompaction, BackgroundCall).
THEOREM NobodyWaitsInVain == Spec => []WaitersHaveWork
<1>1. WorkInv => WaitersHaveWork
  BY DEF WorkInv, WorkIsScheduled, WaitersHaveWork
<1> QED BY <1>1, AllInvariants, PTL

\* Level 0 never has more than kL0_StopWritesTrigger files (MakeRoomForWrite).
THEOREM LevelZeroLimit == Spec => []LevelZeroBounded
<1>1. WorkInv => LevelZeroBounded
  BY DEF WorkInv, WorkIsThere, LevelZeroBounded
<1> QED BY <1>1, AllInvariants, PTL

\* After the destructor's wait no background work runs or is scheduled.
THEOREM QuietAfterClose == Spec => []ClosedIsQuiet
<1>1. WorkInv => ClosedIsQuiet
  BY DEF WorkInv, ClosingIsAlone, WorkIsScheduled, ClosedIsQuiet
<1> QED BY <1>1, AllInvariants, PTL
=============================================================================
