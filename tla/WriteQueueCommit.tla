-------------------------- MODULE WriteQueueCommit --------------------------
(***************************************************************************)
(* What the leader of a group does to its batches keeps CommitInv: taking  *)
(* the group, the log record, the sync, the memtable, the answers.         *)
(***************************************************************************)
EXTENDS WriteQueueLine, FiniteSetTheorems

USE ZenonT(20), ZenonT(60) DEF roomVars, groupVars, memVars, bgVars, histVars

\* A write is a client and the number of its call.
LEMMA WriteFacts ==
  /\ \A u, v : CurrentWrite(u) = CurrentWrite(v) => u = v
  /\ \A u : CurrentWrite(u)[1] = u
  /\ \A u, n : CurrentWrite(u) = <<u, n>> => calls[u] = n
<1> USE DEF CurrentWrite
<1>1. \A u, v : CurrentWrite(u) = CurrentWrite(v) => u = v
  BY SMTT(10), SMTT(30)
<1>2. \A u : CurrentWrite(u)[1] = u
  BY SMTT(10), SMTT(30)
<1>3. \A u, n : CurrentWrite(u) = <<u, n>> => calls[u] = n
  BY SMTT(10), SMTT(30)
<1> HIDE DEF CurrentWrite
<1> QED BY <1>1, <1>2, <1>3

\* A client in Write is making one of the writes.
LEMMA WriteType ==
  ASSUME CommitTypes, NEW t \in Clients, calls[t] >= 1
  PROVE  CurrentWrite(t) \in Writes /\ calls[t] \in 1 .. MaxCalls
<1>1. calls[t] \in 0 .. MaxCalls /\ MaxCalls \in Nat
  BY WriteQueueAssumption DEF CommitTypes
<1>2. calls[t] \in 1 .. MaxCalls
  BY <1>1, SMTT(10), SMTT(30)
<1> QED BY <1>2, SMTT(10), SMTT(30) DEF CurrentWrite, Writes

\* Who is in the group, and who is not.
LEMMA GroupFacts ==
  ASSUME QueueInv
  PROVE  /\ \A l, m \in Clients : pc[l] \in Grouping /\ pc[m] \in Grouping => l = m
         /\ \A u : Grouped(u) => /\ u \in Clients /\ ~done[u]
                                 /\ pc[u] = "queue" \/ pc[u] \in Leading
         /\ \A t \in Clients : pc[t] \in Grouping => Grouped(t)
         /\ \A t \in Clients : pc[t] = "room" => \A l \in Clients : pc[l] \notin Grouping
         /\ \A t, u \in Clients : pc[t] = "room" => ~Grouped(u)
<1>1. \A l \in Clients : pc[l] \in Leading => l = writers[1]
  BY DEF QueueInv, InLine, Leads
<1>2. \A l, m \in Clients : pc[l] \in Grouping /\ pc[m] \in Grouping => l = m
  BY <1>1 DEF Leading
<1>3. ASSUME NEW u, Grouped(u)
      PROVE  u \in Clients /\ ~done[u] /\ (pc[u] = "queue" \/ pc[u] \in Leading)
  <2>1. PICK l \in Clients : pc[l] \in Grouping
    BY <1>3 DEF Grouped
  <2>2. PICK i \in 1 .. Len(group) : group[i] = u
    BY <1>3 DEF Grouped
  <2>3. Len(group) \in 1 .. Len(writers) /\ group[i] = writers[i]
    BY <2>1 DEF QueueInv, GroupIsPrefix
  <2>4. i \in 1 .. Len(writers) /\ (\A k \in 1 .. Len(writers) : writers[k] \in Clients)
    <3>1. Len(writers) \in Nat
      BY LeaderPlace
    <3>2. i \in 1 .. Len(writers)
      BY <2>3, <3>1, SMTT(10), SMTT(30)
    <3> QED BY <3>2, LeaderPlace
  <2> QED BY <2>2, <2>3, <2>4 DEF QueueInv, InLine
<1>4. ASSUME NEW t \in Clients, pc[t] \in Grouping
      PROVE  Grouped(t)
  <2>1. Len(group) \in 1 .. Len(writers) /\ (\A i \in 1 .. Len(group) : group[i] = writers[i])
    BY <1>4 DEF QueueInv, GroupIsPrefix
  <2>2. 1 \in 1 .. Len(group)
    BY <2>1, LeaderPlace, SMTT(10), SMTT(30)
  <2>3. group[1] = t
    BY <1>1, <1>4, <2>1, <2>2 DEF Leading
  <2> QED BY <1>4, <2>2, <2>3 DEF Grouped
<1>5. \A t \in Clients : pc[t] = "room" => \A l \in Clients : pc[l] \notin Grouping
  BY <1>1 DEF Leading, Grouping
<1> QED BY <1>2, <1>3, <1>4, <1>5 DEF Grouped

\* In a queue or in MakeRoomForWrite.
Waits(u) == pc[u] = "room" \/ (pc[u] = "queue" /\ ~done[u])

\* A step that changes the history of nobody but the group in progress, and
\* tells nobody anything.
Progress ==
  /\ UNCHANGED <<calls, kind, done, status, result, lastSeq, seqOf, group>>
  /\ \A w \in inserted' : w \in inserted \/
       \E u \in Clients : Grouped(u) /\ kind[u] # "flush" /\ w = CurrentWrite(u)
  /\ inserted \subseteq inserted' /\ logged \subseteq logged' /\ synced \subseteq synced'
  /\ toInsert' \subseteq Writes /\ inserted' \subseteq Writes /\ logged' \subseteq Writes
  /\ synced' \subseteq Writes /\ failed' \in {"ok", "append", "sync"}
  /\ \A u \in Clients :
       /\ pc'[u] \in Grouping <=> pc[u] \in Grouping
       /\ Waits(u)' => Waits(u)
       /\ pc'[u] = "queue" \/ pc'[u] \in Leading => pc[u] = "queue" \/ pc[u] \in Leading

\* The group in progress stays while its leader does.
LEMMA SameGroup ==
  ASSUME group' = group, \A u \in Clients : pc'[u] \in Grouping <=> pc[u] \in Grouping
  PROVE  \A u : Grouped(u)' <=> Grouped(u)
BY DEF Grouped

\* Such a step keeps all that is not about the group in progress.
LEMMA ProgressKeeps ==
  ASSUME QueueInv, CommitInv, Progress, GroupAt'
  PROVE  CommitInv'
<1>1. /\ UNCHANGED <<calls, kind, done, status, result, lastSeq, seqOf, group>>
      /\ \A u : CurrentWrite(u)' = CurrentWrite(u)
      /\ \A u : Grouped(u)' <=> Grouped(u)
  BY SameGroup DEF Progress, CurrentWrite
<1>2. CommitTypes'
  BY <1>1 DEF CommitInv, CommitTypes, Progress
\* Only the group's writes are inserted.
<1>3. ASSUME NEW w, w \notin inserted,
             \A u \in Clients : Grouped(u) /\ kind[u] # "flush" => w # CurrentWrite(u)
      PROVE  w \notin inserted'
  BY <1>3 DEF Progress
<1>4. FutureUntouched'
  <2> SUFFICES ASSUME NEW t \in Clients, NEW n \in 1 .. MaxCalls, n > calls[t]
               PROVE  Untouched(<<t, n>>)'
    BY <1>1 DEF FutureUntouched
  <2>1. Untouched(<<t, n>>)
    BY DEF CommitInv, FutureUntouched
  <2>2. \A u \in Clients : <<t, n>> # CurrentWrite(u)
    <3> SUFFICES ASSUME NEW u \in Clients, <<t, n>> = CurrentWrite(u) PROVE FALSE
      OBVIOUS
    <3>1. t = u /\ n = calls[u] /\ calls[t] \in 0 .. MaxCalls /\ MaxCalls \in Nat
      BY WriteQueueAssumption, SMTT(10), SMTT(30) DEF CurrentWrite, CommitInv, CommitTypes
    <3> QED BY <3>1, SMTT(10), SMTT(30)
  <2>3. <<t, n>> \notin inserted'
    BY <1>3, <2>1, <2>2 DEF Untouched
  <2> QED BY <1>1, <2>1, <2>3 DEF Untouched
<1>5. InWrite'
  BY <1>1 DEF CommitInv, InWrite, Progress
<1>6. LineUntouched'
  <2> SUFFICES ASSUME NEW t \in Clients, InLineOnly(t)'
               PROVE  Untouched(CurrentWrite(t))'
    BY DEF LineUntouched
  <2>1. InLineOnly(t)
    BY <1>1 DEF InLineOnly, Progress, Waits
  <2>2. Untouched(CurrentWrite(t))
    BY <2>1 DEF CommitInv, LineUntouched
  <2>3. CurrentWrite(t) \notin inserted'
    BY <1>3, <2>1, <2>2, WriteFacts DEF Untouched, InLineOnly
  <2> QED BY <1>1, <2>2, <2>3 DEF Untouched
<1>7. ToldIsTrue'
  <2> SUFFICES ASSUME NEW t \in Clients, done[t], kind[t] # "flush"
               PROVE  /\ status[t] = "ok" => Committed(t)'
                      /\ status[t] = "error" => CurrentWrite(t) \notin inserted'
    BY <1>1 DEF ToldIsTrue
  <2>1. status[t] = "ok" => Committed(t)'
    BY <1>1 DEF CommitInv, ToldIsTrue, Committed, Progress
  <2>2. ~Grouped(t)
    BY GroupFacts
  <2>3. status[t] = "error" => CurrentWrite(t) \notin inserted'
    BY <1>3, <2>2, WriteFacts DEF CommitInv, ToldIsTrue
  <2> QED BY <2>1, <2>3
<1>8. NumbersBelow' /\ NumbersDiffer'
  BY <1>1 DEF CommitInv, NumbersBelow, NumbersDiffer
<1>9. ResultsAreTrue'
  <2> SUFFICES ASSUME NEW w \in Writes
               PROVE  /\ result[w] = "ok" =>
                           w \in logged' /\ w \in inserted' /\ seqOf[w] \in 1 .. lastSeq
                      /\ result[w] = "error" => w \notin inserted'
    BY <1>1 DEF ResultsAreTrue
  <2>1. result[w] = "ok" => w \in logged' /\ w \in inserted' /\ seqOf[w] \in 1 .. lastSeq
    BY DEF CommitInv, ResultsAreTrue, Progress
  <2>2. ASSUME result[w] = "error" PROVE w \notin inserted'
    <3>1. w \notin inserted
      BY <2>2 DEF CommitInv, ResultsAreTrue
    <3>2. \A u \in Clients : Grouped(u) => result[CurrentWrite(u)] = "none"
      BY GroupFacts DEF CommitInv, InWrite
    <3> QED BY <1>3, <2>2, <3>1, <3>2
  <2> QED BY <2>1, <2>2
<1>10. SyncMeansSynced'
  BY <1>1 DEF CommitInv, SyncMeansSynced, Progress
<1> QED BY <1>2, <1>4, <1>5, <1>6, <1>7, <1>8, <1>9, <1>10 DEF CommitInv

\* A step outside of the group's work.
Still ==
  /\ UNCHANGED <<calls, kind, done, status, result, lastSeq, seqOf, group, toInsert,
                 failed, inserted, logged, synced>>
  /\ \A u \in Clients :
       \/ pc'[u] = pc[u]
       \/ pc[u] \in {"idle", "imm", "manual"} /\ pc'[u] \in {"idle", "imm", "manual"}
       \/ pc[u] = "queue" /\ ~done[u] /\ pc'[u] = "room"

\* Steps that touch no batch and give no result.
LEMMA StillKeeps ==
  ASSUME QueueInv, CommitInv, Still
  PROVE  CommitInv'
<1>1. UNCHANGED <<calls, kind, done, status, result, lastSeq, seqOf, group, toInsert,
                  failed, inserted, logged, synced>>
  BY DEF Still
<1>2. \A u \in Clients : /\ pc'[u] \in Grouping <=> pc[u] \in Grouping
                         /\ pc'[u] \in Grouping => pc'[u] = pc[u]
  BY DEF Still, Grouping
<1>3. \A u \in Clients :
        /\ Waits(u)' => Waits(u)
        /\ pc'[u] = "queue" \/ pc'[u] \in Leading => pc[u] = "queue" \/ pc[u] \in Leading
  BY <1>1 DEF Still, Waits, Leading, Grouping
<1>4. CommitTypes
  BY DEF CommitInv
<1>5. Progress
  BY <1>1, <1>2, <1>3, <1>4 DEF Progress, CommitTypes
<1>6. /\ \A u : CurrentWrite(u)' = CurrentWrite(u)
      /\ \A u : Grouped(u)' <=> Grouped(u)
      /\ GroupCount' = GroupCount
  BY <1>1, <1>2, SameGroup DEF CurrentWrite, GroupCount
<1>7. GroupAt'
  <2> SUFFICES ASSUME NEW l \in Clients, pc'[l] \in Grouping
               PROVE  /\ kind'[l] # "flush"
                      /\ pc'[l] # "finish" => failed' = "ok"
                      /\ pc'[l] = "insert" => toInsert' # {}
                      /\ \A u \in Clients :
                           Grouped(u)' /\ kind'[u] # "flush" => MemberAt(l, u)'
                      /\ \A w \in toInsert' : \E u \in Clients :
                           Grouped(u)' /\ kind'[u] # "flush" /\ w = CurrentWrite(u)'
    BY DEF GroupAt
  <2>1. pc'[l] = pc[l] /\ pc[l] \in Grouping
    BY <1>2
  <2>2. \A u \in Clients : MemberAt(l, u) => MemberAt(l, u)'
    BY <1>1, <1>6, <2>1 DEF MemberAt
  <2> QED BY <1>1, <1>6, <2>1, <2>2 DEF CommitInv, GroupAt
<1> QED BY <1>5, <1>7, ProgressKeeps

\* A step of the group's work.
LEMMA GroupStepKeeps ==
  ASSUME QueueInv, CommitInv, Progress, NEW t \in Clients, pc[t] \in Grouping,
         pc'[t] # "finish" => failed' = "ok",
         pc'[t] = "insert" => toInsert' # {},
         toInsert' \subseteq toInsert,
         \A u \in Clients : Grouped(u) /\ kind[u] # "flush" => MemberAt(t, u)'
  PROVE  CommitInv'
<1>1. UNCHANGED <<calls, kind, group>>
  BY DEF Progress
<1>2. \A u \in Clients : pc'[u] \in Grouping <=> pc[u] \in Grouping
  BY DEF Progress
<1>3. /\ \A u : CurrentWrite(u)' = CurrentWrite(u)
      /\ \A u : Grouped(u)' <=> Grouped(u)
  BY <1>1, <1>2, SameGroup DEF CurrentWrite
<1>4. \A l \in Clients : pc'[l] \in Grouping => l = t
  BY <1>2, GroupFacts
<1>5. /\ kind[t] # "flush"
      /\ \A w \in toInsert : \E u \in Clients :
           Grouped(u) /\ kind[u] # "flush" /\ w = CurrentWrite(u)
  BY DEF CommitInv, GroupAt
<1>6. GroupAt'
  BY <1>1, <1>3, <1>4, <1>5 DEF GroupAt
<1> QED BY <1>6, ProgressKeeps

\* The leader goes on; nobody else moves.
LEMMA LeaderGoesOn ==
  ASSUME NEW t \in Clients, NEW x, x \in Grouping, pc[t] \in Grouping, Moves(t),
         pc'[t] = x, done' = done
  PROVE  \A u \in Clients :
           /\ pc'[u] \in Grouping <=> pc[u] \in Grouping
           /\ Waits(u)' => Waits(u)
           /\ pc'[u] = "queue" \/ pc'[u] \in Leading => pc[u] = "queue" \/ pc[u] \in Leading
<1>1. \A u \in Clients : u # t => pc'[u] = pc[u]
  BY ThreadFacts DEF Moves
<1> QED BY <1>1 DEF Waits, Leading, Grouping

\* What the invariant says of the group of leader t.
LEMMA LeaderGroup ==
  ASSUME QueueInv, CommitInv, NEW t \in Clients, pc[t] \in Grouping
  PROVE  /\ \A u \in Clients : Grouped(u) /\ kind[u] # "flush" => MemberAt(t, u)
         /\ Grouped(t) /\ kind[t] # "flush" /\ MemberAt(t, t)
         /\ toInsert \subseteq Writes
         /\ \A w \in toInsert : \E u \in Clients :
              Grouped(u) /\ kind[u] # "flush" /\ w = CurrentWrite(u)
BY GroupFacts DEF CommitInv, GroupAt, CommitTypes

\* The log gets the whole group or the group fails.
LEMMA AddRecordCommit ==
  ASSUME WorkInv, QueueInv, CommitInv, NEW t \in Clients, AddRecord(t)
  PROVE  CommitInv'
<1>1. /\ UNCHANGED <<kind, calls, done, status, group, toInsert, lastSeq, seqOf, synced,
                     inserted, result>>
      /\ pc[t] = "append"
      /\ \/ /\ logged' = logged \cup toInsert /\ failed' = failed
            /\ pc' = [pc EXCEPT ![t] = IF kind[t] = "sync" THEN "sync" ELSE "insert"]
         \/ /\ logged' = logged /\ failed' = "append"
            /\ pc' = [pc EXCEPT ![t] = "finish"]
  BY DEF AddRecord
<1>2. Moves(t) /\ t \in Threads /\ PlacesOK
  BY PlainStepWork, ThreadFacts DEF ClientMove, WorkInv
<1>3. \/ /\ logged' = logged \cup toInsert /\ failed' = failed
         /\ pc'[t] = (IF kind[t] = "sync" THEN "sync" ELSE "insert")
      \/ logged' = logged /\ failed' = "append" /\ pc'[t] = "finish"
  BY <1>1, <1>2, Assigned DEF Places, Leading, Grouping
<1>4. pc[t] \in Grouping /\ pc'[t] \in Grouping
  BY <1>1, <1>3 DEF Grouping
<1>5. \A u \in Clients :
        /\ pc'[u] \in Grouping <=> pc[u] \in Grouping
        /\ Waits(u)' => Waits(u)
        /\ pc'[u] = "queue" \/ pc'[u] \in Leading => pc[u] = "queue" \/ pc[u] \in Leading
  BY <1>1, <1>2, <1>4, LeaderGoesOn
<1>6. CommitTypes /\ toInsert \subseteq Writes
  BY DEF CommitInv, CommitTypes
<1>7. failed = "ok"
  BY <1>1 DEF CommitInv, GroupAt, Grouping
<1>8. Progress
  BY <1>1, <1>3, <1>5, <1>6 DEF Progress, CommitTypes
<1>9. /\ \A u : CurrentWrite(u)' = CurrentWrite(u)
      /\ GroupCount' = GroupCount
  BY <1>1 DEF CurrentWrite, GroupCount
<1>10. \A u \in Clients : MemberAt(t, u) => MemberAt(t, u)'
  BY <1>1, <1>3, <1>7, <1>9 DEF MemberAt
<1>11. toInsert' # {}
  BY <1>1, <1>4, LeaderGroup DEF MemberAt
<1> QED BY <1>1, <1>3, <1>4, <1>7, <1>8, <1>10, <1>11, LeaderGroup, GroupStepKeeps

\* The same of a sync of the log.
LEMMA SyncLogCommit ==
  ASSUME WorkInv, QueueInv, CommitInv, NEW t \in Clients, SyncLog(t)
  PROVE  CommitInv'
<1>1. /\ UNCHANGED <<kind, calls, done, status, group, toInsert, lastSeq, seqOf, logged,
                     inserted, result>>
      /\ pc[t] = "sync"
      /\ \/ /\ synced' = synced \cup toInsert /\ failed' = failed
            /\ pc' = [pc EXCEPT ![t] = "insert"]
         \/ /\ synced' = synced /\ failed' = "sync"
            /\ pc' = [pc EXCEPT ![t] = "finish"]
  BY DEF SyncLog
<1>2. Moves(t) /\ t \in Threads /\ PlacesOK
  BY PlainStepWork, ThreadFacts DEF ClientMove, WorkInv
<1>3. \/ synced' = synced \cup toInsert /\ failed' = failed /\ pc'[t] = "insert"
      \/ synced' = synced /\ failed' = "sync" /\ pc'[t] = "finish"
  BY <1>1, <1>2, Assigned DEF Places, Leading, Grouping
<1>4. pc[t] \in Grouping /\ pc'[t] \in Grouping
  BY <1>1, <1>3 DEF Grouping
<1>5. \A u \in Clients :
        /\ pc'[u] \in Grouping <=> pc[u] \in Grouping
        /\ Waits(u)' => Waits(u)
        /\ pc'[u] = "queue" \/ pc'[u] \in Leading => pc[u] = "queue" \/ pc[u] \in Leading
  BY <1>1, <1>2, <1>4, LeaderGoesOn
<1>6. CommitTypes /\ toInsert \subseteq Writes
  BY DEF CommitInv, CommitTypes
<1>7. failed = "ok"
  BY <1>1 DEF CommitInv, GroupAt, Grouping
<1>8. Progress
  BY <1>1, <1>3, <1>5, <1>6 DEF Progress, CommitTypes
<1>9. /\ \A u : CurrentWrite(u)' = CurrentWrite(u)
      /\ GroupCount' = GroupCount
  BY <1>1 DEF CurrentWrite, GroupCount
<1>10. \A u \in Clients : MemberAt(t, u) => MemberAt(t, u)'
  BY <1>1, <1>3, <1>7, <1>9 DEF MemberAt
<1>11. toInsert' # {}
  BY <1>1, <1>4, LeaderGroup DEF MemberAt
<1> QED BY <1>1, <1>3, <1>4, <1>7, <1>8, <1>10, <1>11, LeaderGroup, GroupStepKeeps

\* One batch of the group goes into mem_.
LEMMA InsertIntoCommit ==
  ASSUME WorkInv, QueueInv, CommitInv, NEW t \in Clients, InsertInto(t)
  PROVE  CommitInv'
<1>1. /\ UNCHANGED <<kind, calls, done, status, group, failed, lastSeq, seqOf, logged,
                     synced, result>>
      /\ pc[t] = "insert"
      /\ pc' = IF toInsert' = {} THEN [pc EXCEPT ![t] = "finish"] ELSE pc
  BY DEF InsertInto
<1>2. PICK v \in toInsert : inserted' = inserted \cup {v} /\ toInsert' = toInsert \ {v}
  BY DEF InsertInto
<1>3. Moves(t) /\ t \in Threads /\ PlacesOK
  BY PlainStepWork, ThreadFacts DEF ClientMove, WorkInv
<1>4. \/ toInsert' = {} /\ pc'[t] = "finish"
      \/ toInsert' # {} /\ pc'[t] = "insert"
  BY <1>1, <1>3, Assigned DEF Places, Leading, Grouping
<1>5. pc[t] \in Grouping /\ pc'[t] \in Grouping
  BY <1>1, <1>4 DEF Grouping
<1>6. \A u \in Clients :
        /\ pc'[u] \in Grouping <=> pc[u] \in Grouping
        /\ Waits(u)' => Waits(u)
        /\ pc'[u] = "queue" \/ pc'[u] \in Leading => pc[u] = "queue" \/ pc[u] \in Leading
  BY <1>1, <1>3, <1>5, LeaderGoesOn
<1>7. CommitTypes /\ toInsert \subseteq Writes
  BY DEF CommitInv, CommitTypes
<1>8. failed = "ok"
  BY <1>1 DEF CommitInv, GroupAt, Grouping
<1>9. \E u \in Clients : Grouped(u) /\ kind[u] # "flush" /\ v = CurrentWrite(u)
  BY <1>5, LeaderGroup
<1>10. Progress
  BY <1>1, <1>2, <1>6, <1>7, <1>9 DEF Progress, CommitTypes
<1>11. /\ \A u : CurrentWrite(u)' = CurrentWrite(u)
       /\ GroupCount' = GroupCount
  BY <1>1 DEF CurrentWrite, GroupCount
<1>12. ASSUME NEW u \in Clients, MemberAt(t, u)
       PROVE  MemberAt(t, u)'
  <2> DEFINE w == CurrentWrite(u)
  <2>1. /\ kind[u] = "sync" => kind[t] = "sync"
        /\ seqOf[w] \in lastSeq + 1 .. lastSeq + GroupCount
        /\ w \in logged /\ (w \in toInsert <=> w \notin inserted)
        /\ kind[t] = "sync" => w \in synced
    BY <1>1, <1>12 DEF MemberAt
  <2>2. w \in toInsert' <=> w \notin inserted'
    BY <1>2, <2>1
  <2>3. toInsert' = {} => w \in inserted'
    BY <2>2
  <2> QED BY <1>1, <1>4, <1>8, <1>11, <2>1, <2>2, <2>3 DEF MemberAt
<1> QED BY <1>1, <1>2, <1>4, <1>5, <1>8, <1>10, <1>12, LeaderGroup, GroupStepKeeps

\* A call begins.
Begins(t, k) ==
  /\ pc[t] = "idle" /\ calls[t] < MaxCalls /\ calls'[t] = calls[t] + 1 /\ kind'[t] = k
  /\ calls' \in [Clients -> 0 .. MaxCalls] /\ kind' \in [Clients -> CallKinds]
  /\ \A u \in Clients : done'[u] = done[u]
  /\ \A u \in Clients : u # t => /\ calls'[u] = calls[u] /\ kind'[u] = kind[u]
                                 /\ pc'[u] = pc[u]
  /\ \/ pc'[t] = "manual"
     \/ pc'[t] \in {"queue", "room"} /\ k # "manual"
  /\ UNCHANGED <<status, result, lastSeq, seqOf, group, toInsert, failed, inserted,
                 logged, synced>>

\* A call begins.
LEMMA BeginsKeeps ==
  ASSUME QueueInv, CommitInv, NEW t \in Clients, NEW k \in CallKinds, Begins(t, k)
  PROVE  CommitInv'
<1>1. /\ UNCHANGED <<status, result, lastSeq, seqOf, group, toInsert, failed, inserted,
                     logged, synced>>
      /\ \A u \in Clients : done'[u] = done[u]
      /\ \A u \in Clients : u # t => /\ calls'[u] = calls[u] /\ kind'[u] = kind[u]
                                     /\ pc'[u] = pc[u]
      /\ pc[t] = "idle" /\ kind'[t] = k
      /\ pc'[t] = "manual" \/ (pc'[t] \in {"queue", "room"} /\ k # "manual")
  BY DEF Begins
<1>2. pc[t] \notin Grouping /\ pc'[t] \notin Grouping
  BY <1>1 DEF Grouping
<1>3. \A u : Grouped(u)' <=> Grouped(u)
  BY <1>1, <1>2, SameGroup
<1>4. ~Grouped(t) /\ ~done[t]
  BY <1>1, GroupFacts DEF Leading, Grouping, QueueInv, InLine
<1>5. \A u \in Clients : u # t => CurrentWrite(u)' = CurrentWrite(u)
  BY <1>1 DEF CurrentWrite
\* The new call is a write that nothing has touched.
<1>6. /\ calls'[t] \in 1 .. MaxCalls /\ calls'[t] > calls[t] /\ calls'[t] >= 1
      /\ \A n \in 1 .. MaxCalls : n > calls'[t] => n > calls[t]
  <2>1. calls[t] \in 0 .. MaxCalls /\ MaxCalls \in Nat /\ calls[t] < MaxCalls
        /\ calls'[t] = calls[t] + 1
    BY WriteQueueAssumption DEF CommitInv, CommitTypes, Begins
  <2> QED BY <2>1, SMTT(10), SMTT(30)
<1>7. CommitTypes'
  <2>1. calls'[t] # 0
    BY <1>6, SMTT(10), SMTT(30)
  <2>2. \A u \in Clients : calls'[u] = 0 => kind'[u] = "put"
    BY <1>1, <2>1 DEF CommitInv, CommitTypes
  <2> QED BY <1>1, <2>2 DEF CommitInv, CommitTypes, Begins
<1>8. \A w : Untouched(w)' <=> Untouched(w)
  BY <1>1 DEF Untouched
<1>9. Untouched(CurrentWrite(t)')
  BY <1>6 DEF CurrentWrite, CommitInv, FutureUntouched
<1>10. FutureUntouched'
  BY <1>1, <1>6, <1>8 DEF CommitInv, FutureUntouched
<1>11. InWrite'
  <2> SUFFICES ASSUME NEW u \in Clients, pc'[u] = "queue" \/ pc'[u] \in Leading
               PROVE  calls'[u] >= 1 /\ kind'[u] # "manual" /\ result[CurrentWrite(u)'] = "none"
    BY <1>1 DEF InWrite
  <2>1. CASE u = t
    BY <1>1, <1>6, <1>9, <2>1 DEF Untouched, Leading, Grouping
  <2>2. CASE u # t
    BY <1>1, <1>5, <2>2 DEF CommitInv, InWrite
  <2> QED BY <2>1, <2>2
<1>12. LineUntouched'
  <2> SUFFICES ASSUME NEW u \in Clients, InLineOnly(u)'
               PROVE  Untouched(CurrentWrite(u)')
    BY <1>1 DEF LineUntouched, Untouched
  <2>1. CASE u # t
    BY <1>1, <1>3, <1>5, <2>1 DEF CommitInv, LineUntouched, InLineOnly
  <2> QED BY <1>9, <2>1
<1>13. ToldIsTrue'
  <2>1. \A u \in Clients : u # t => (Committed(u)' <=> Committed(u))
    BY <1>1, <1>5 DEF Committed
  <2> QED BY <1>1, <1>4, <1>5, <2>1 DEF CommitInv, ToldIsTrue
<1>14. GroupAt'
  <2> SUFFICES ASSUME NEW l \in Clients, pc'[l] \in Grouping
               PROVE  /\ kind'[l] # "flush"
                      /\ pc'[l] # "finish" => failed' = "ok"
                      /\ pc'[l] = "insert" => toInsert' # {}
                      /\ \A u \in Clients :
                           Grouped(u)' /\ kind'[u] # "flush" => MemberAt(l, u)'
                      /\ \A w \in toInsert' : \E u \in Clients :
                           Grouped(u)' /\ kind'[u] # "flush" /\ w = CurrentWrite(u)'
    BY DEF GroupAt
  <2>1. l # t /\ pc'[l] = pc[l] /\ kind'[l] = kind[l]
    BY <1>1, <1>2
  <2>2. \A i \in DOMAIN group : group[i] \in Clients /\ group[i] # t
    <3>1. group \in Seq(Clients)
      BY DEF QueueInv, GroupIsPrefix
    <3>2. DOMAIN group = 1 .. Len(group)
      BY <3>1, SeqElements
    <3>3. \A i \in 1 .. Len(group) : group[i] \in Clients
      BY <3>1, SeqElements
    <3> QED BY <1>4, <2>1, <3>2, <3>3 DEF Grouped
  <2>3. {i \in DOMAIN group : kind'[group[i]] # "flush"}
          = {i \in DOMAIN group : kind[group[i]] # "flush"}
    BY <1>1, <2>2
  <2>4. GroupCount' = GroupCount
    BY <1>1, <2>3 DEF GroupCount
  <2>5. \A u \in Clients : u # t => (MemberAt(l, u) => MemberAt(l, u)')
    BY <1>1, <1>5, <2>1, <2>4, SMTT(20), SMTT(60) DEF MemberAt
  <2>6. \A u \in Clients : Grouped(u)' => u # t /\ Grouped(u) /\ kind'[u] = kind[u]
    BY <1>1, <1>3, <1>4
  <2>7. /\ kind[l] # "flush"
        /\ pc[l] # "finish" => failed = "ok"
        /\ pc[l] = "insert" => toInsert # {}
        /\ \A u \in Clients : Grouped(u) /\ kind[u] # "flush" => MemberAt(l, u)
        /\ \A w \in toInsert : \E u \in Clients :
             Grouped(u) /\ kind[u] # "flush" /\ w = CurrentWrite(u)
    BY <2>1 DEF CommitInv, GroupAt
  <2>8. \A u \in Clients : Grouped(u)' /\ kind'[u] # "flush" => MemberAt(l, u)'
    BY <2>5, <2>6, <2>7
  <2>9. \A w \in toInsert' : \E u \in Clients :
          Grouped(u)' /\ kind'[u] # "flush" /\ w = CurrentWrite(u)'
    BY <1>1, <1>3, <1>4, <1>5, <2>7
  <2> QED BY <1>1, <2>1, <2>7, <2>8, <2>9
<1>15. NumbersBelow'
  <2>1. \A u : Grouped(u) => u \in Clients /\ u # t
    BY <1>4, GroupFacts
  <2> QED BY <1>1, <1>3, <1>5, <2>1 DEF CommitInv, NumbersBelow
<1>16. NumbersDiffer' /\ ResultsAreTrue'
  BY <1>1 DEF CommitInv, NumbersDiffer, ResultsAreTrue
<1>17. SyncMeansSynced'
  <2>1. result[CurrentWrite(t)'] = "none"
    BY <1>9 DEF Untouched
  <2> QED BY <1>1, <1>5, <2>1 DEF CommitInv, SyncMeansSynced
<1> QED BY <1>7, <1>10, <1>11, <1>12, <1>13, <1>14, <1>15, <1>16, <1>17 DEF CommitInv

\* The call of t returns st.
Answers(t, st) ==
  /\ st \in {"ok", "error"}
  /\ result' \in [Writes -> {"none", "ok", "error"}]
  /\ \A w \in Writes : w # CurrentWrite(t) => result'[w] = result[w]
  /\ kind[t] = "flush" => result' = result
  /\ kind[t] # "flush" => result'[CurrentWrite(t)] = st
  /\ pc'[t] \in {"idle", "imm"}
  /\ \A u \in Clients : u # t => pc'[u] = pc[u]

\* A call returns what its client was told.
LEMMA ReturnAnswers ==
  ASSUME PlacesOK, CommitTypes, NEW t \in Clients, NEW st \in {"ok", "error"},
         calls[t] >= 1, Return(t, st)
  PROVE  Answers(t, st)
<1>1. CurrentWrite(t) \in Writes
  BY WriteType
<1>2. PICK x \in {"idle", "imm"} : pc' = [pc EXCEPT ![t] = x]
  BY DEF Return
<1>3. Moves(t) /\ pc'[t] = x
  BY <1>2, ThreadFacts, Assigned DEF Places
<1>4. result' = IF kind[t] = "flush" THEN result
                ELSE [result EXCEPT ![CurrentWrite(t)] = st]
  BY DEF Return
<1>5. result \in [Writes -> {"none", "ok", "error"}]
  BY DEF CommitTypes
<1>6. CASE kind[t] = "flush"
  BY <1>2, <1>3, <1>4, <1>5, <1>6, ThreadFacts DEF Answers, Moves
<1>7. CASE kind[t] # "flush"
  <2>1. result' = [result EXCEPT ![CurrentWrite(t)] = st]
    BY <1>4, <1>7
  <2> HIDE DEF CurrentWrite
  <2>2. /\ result' \in [Writes -> {"none", "ok", "error"}]
        /\ \A w \in Writes : w # CurrentWrite(t) => result'[w] = result[w]
        /\ result'[CurrentWrite(t)] = st
    BY <1>1, <1>5, <2>1
  <2> QED BY <1>2, <1>3, <1>7, <2>2, ThreadFacts DEF Answers, Moves
<1> QED BY <1>6, <1>7

\* An answer in nobody's group: a follower's, or that of a writer that found no
\* room or had nothing to write.
Alone(t) ==
  /\ UNCHANGED <<kind, calls, lastSeq, seqOf, group, toInsert, failed, inserted, logged,
                 synced>>
  /\ pc[t] \in {"queue", "room"}
  /\ \A u \in Clients : u # t => done'[u] = done[u] /\ status'[u] = status[u]
  /\ ~done'[t] /\ status' \in [Clients -> {"ok", "error"}]

\* A client outside the group in progress returns.
LEMMA AloneKeeps ==
  ASSUME QueueInv, CommitInv, NEW t \in Clients, NEW st, Answers(t, st), Alone(t),
         ~Grouped(t),
         kind[t] # "flush" => /\ st = "ok" => Committed(t)
                              /\ st = "error" => CurrentWrite(t) \notin inserted
  PROVE  CommitInv'
<1>1. /\ UNCHANGED <<kind, calls, lastSeq, seqOf, group, toInsert, failed, inserted, logged,
                     synced>>
      /\ \A u \in Clients : u # t => /\ done'[u] = done[u] /\ status'[u] = status[u]
                                     /\ pc'[u] = pc[u]
      /\ ~done'[t] /\ pc[t] \in {"queue", "room"} /\ pc'[t] \in {"idle", "imm"}
  BY DEF Alone, Answers
<1>2. /\ \A w \in Writes : w # CurrentWrite(t) => result'[w] = result[w]
      /\ kind[t] = "flush" => result' = result
      /\ kind[t] # "flush" => result'[CurrentWrite(t)] = st
      /\ st \in {"ok", "error"}
  BY DEF Answers
<1>3. pc[t] \notin Grouping /\ pc'[t] \notin Grouping /\ pc'[t] \notin Leading
  BY <1>1 DEF Grouping, Leading
<1>4. \A u : Grouped(u)' <=> Grouped(u)
  BY <1>1, <1>3, SameGroup
<1>5. /\ \A u : CurrentWrite(u)' = CurrentWrite(u)
      /\ GroupCount' = GroupCount
  BY <1>1 DEF CurrentWrite, GroupCount
<1>6. CommitTypes'
  <2>1. CommitTypes
    BY DEF CommitInv
  <2>2. /\ result' \in [Writes -> {"none", "ok", "error"}]
        /\ status' \in [Clients -> {"ok", "error"}]
    BY DEF Answers, Alone
  <2> QED BY <1>1, <2>1, <2>2, SMTT(20), SMTT(60) DEF CommitTypes
<1>7. \A u \in Clients : calls[u] >= 1 => CurrentWrite(u) \in Writes
  BY WriteType DEF CommitInv
<1>8. \A u \in Clients : u # t /\ calls[u] >= 1 =>
        result'[CurrentWrite(u)] = result[CurrentWrite(u)]
  BY <1>2, <1>7, WriteFacts
<1>9. FutureUntouched'
  <2> SUFFICES ASSUME NEW u \in Clients, NEW n \in 1 .. MaxCalls, n > calls[u]
               PROVE  Untouched(<<u, n>>)'
    BY <1>1 DEF FutureUntouched
  <2>1. Untouched(<<u, n>>)
    BY DEF CommitInv, FutureUntouched
  <2>2. <<u, n>> # CurrentWrite(t) /\ <<u, n>> \in Writes
    <3>1. calls[u] \in 0 .. MaxCalls /\ MaxCalls \in Nat
      BY WriteQueueAssumption DEF CommitInv, CommitTypes
    <3> QED BY <3>1, SMTT(10), SMTT(30) DEF CurrentWrite, Writes
  <2> QED BY <1>1, <1>2, <2>1, <2>2 DEF Untouched
<1>10. InWrite'
  BY <1>1, <1>3, <1>5, <1>8 DEF CommitInv, InWrite
<1>11. LineUntouched'
  <2> SUFFICES ASSUME NEW u \in Clients, InLineOnly(u)'
               PROVE  Untouched(CurrentWrite(u))'
    BY DEF LineUntouched
  <2>1. u # t /\ InLineOnly(u)
    BY <1>1, <1>4 DEF InLineOnly
  <2>2. Untouched(CurrentWrite(u)) /\ calls[u] >= 1
    BY <2>1 DEF CommitInv, LineUntouched, InWrite, InLineOnly, Leading
  <2> QED BY <1>1, <1>5, <1>8, <2>1, <2>2 DEF Untouched
<1>12. ToldIsTrue'
  <2>1. \A u \in Clients : Committed(u)' <=> Committed(u)
    BY <1>1, <1>5 DEF Committed
  <2> QED BY <1>1, <1>5, <2>1 DEF CommitInv, ToldIsTrue
<1>13. GroupAt'
  <2> SUFFICES ASSUME NEW l \in Clients, pc'[l] \in Grouping
               PROVE  /\ kind'[l] # "flush"
                      /\ pc'[l] # "finish" => failed' = "ok"
                      /\ pc'[l] = "insert" => toInsert' # {}
                      /\ \A u \in Clients :
                           Grouped(u)' /\ kind'[u] # "flush" => MemberAt(l, u)'
                      /\ \A w \in toInsert' : \E u \in Clients :
                           Grouped(u)' /\ kind'[u] # "flush" /\ w = CurrentWrite(u)'
    BY DEF GroupAt
  <2>1. pc'[l] = pc[l] /\ pc[l] \in Grouping
    BY <1>1, <1>3
  <2>2. \A u \in Clients : MemberAt(l, u) => MemberAt(l, u)'
    BY <1>1, <1>5, <2>1 DEF MemberAt
  <2> QED BY <1>1, <1>4, <1>5, <2>1, <2>2 DEF CommitInv, GroupAt
<1>14. NumbersBelow' /\ NumbersDiffer'
  BY <1>1, <1>4, <1>5 DEF CommitInv, NumbersBelow, NumbersDiffer
<1>15. ResultsAreTrue'
  <2> SUFFICES ASSUME NEW w \in Writes
               PROVE  /\ result'[w] = "ok" =>
                           w \in logged /\ w \in inserted /\ seqOf[w] \in 1 .. lastSeq
                      /\ result'[w] = "error" => w \notin inserted
    BY <1>1 DEF ResultsAreTrue
  <2>1. CASE result'[w] = result[w]
    BY <2>1 DEF CommitInv, ResultsAreTrue
  <2>2. CASE w = CurrentWrite(t) /\ kind[t] # "flush"
    BY <1>2, <2>2 DEF Committed
  <2> QED BY <1>2, <2>1, <2>2
<1>16. SyncMeansSynced'
  <2> SUFFICES ASSUME NEW u \in Clients, kind[u] = "sync", result'[CurrentWrite(u)] = "ok"
               PROVE  CurrentWrite(u) \in synced
    BY <1>1, <1>5 DEF SyncMeansSynced
  <2>1. CASE u = t
    BY <1>2, <2>1 DEF Committed
  <2>2. CASE u # t
    <3>1. calls[u] \in 0 .. MaxCalls /\ calls[u] # 0
      BY DEF CommitInv, CommitTypes
    <3>2. calls[u] >= 1
      BY <3>1, SMTT(10), SMTT(30)
    <3> QED BY <1>8, <2>2, <3>2 DEF CommitInv, SyncMeansSynced
  <2> QED BY <2>1, <2>2
<1> QED BY <1>6, <1>9, <1>10, <1>11, <1>12, <1>13, <1>14, <1>15, <1>16 DEF CommitInv

\* The number of batches in a group is a number.
LEMMA CountIsNat ==
  ASSUME QueueInv
  PROVE  GroupCount \in Nat
<1> DEFINE S == {i \in DOMAIN group : kind[group[i]] # "flush"}
<1>1. group \in Seq(Clients)
  BY DEF QueueInv, GroupIsPrefix
<1>2. DOMAIN group = 1 .. Len(group) /\ Len(group) \in Nat
  BY <1>1, SeqElements
<1>3. IsFiniteSet(1 .. Len(group))
  BY <1>2, FS_Interval, SMTT(10), SMTT(30)
<1>4. S \subseteq 1 .. Len(group)
  BY <1>2
<1>5. IsFiniteSet(S)
  BY <1>3, <1>4, FS_Subset
<1>6. Cardinality(S) \in Nat
  BY <1>5, FS_CardinalityType
<1> QED BY <1>6 DEF GroupCount

\* The group is over: everybody in it is told the same.
Told(t, st) ==
  /\ UNCHANGED <<kind, calls, seqOf, inserted, logged, synced>>
  /\ lastSeq' = lastSeq + GroupCount
  /\ toInsert' = {} /\ failed' = "ok"
  /\ st = IF failed = "ok" THEN "ok" ELSE "error"
  /\ status' \in [Clients -> {"ok", "error"}]
  /\ \A u \in Clients : IF Grouped(u) /\ u # t
                        THEN done'[u] /\ status'[u] = st
                        ELSE done'[u] = done[u] /\ status'[u] = status[u]

\* The leader publishes LastSequence and tells its group.
LEMMA ToldKeeps ==
  ASSUME QueueInv, CommitInv, NEW t \in Clients, NEW st, pc[t] = "finish",
         Answers(t, st), Told(t, st)
  PROVE  CommitInv'
<1>1. /\ UNCHANGED <<kind, calls, seqOf, inserted, logged, synced>>
      /\ toInsert' = {} /\ failed' = "ok"
      /\ st = IF failed = "ok" THEN "ok" ELSE "error"
      /\ pc'[t] \in {"idle", "imm"}
      /\ \A u \in Clients : u # t => pc'[u] = pc[u]
  BY DEF Told, Answers
<1>2. \A u \in Clients : IF Grouped(u) /\ u # t
                         THEN done'[u] /\ status'[u] = st
                         ELSE done'[u] = done[u] /\ status'[u] = status[u]
  BY DEF Told
<1>3. /\ \A u \in Clients : Grouped(u) /\ kind[u] # "flush" => MemberAt(t, u)
      /\ Grouped(t) /\ kind[t] # "flush" /\ MemberAt(t, t)
  BY LeaderGroup DEF Grouping
<1>4. /\ \A w \in Writes : w # CurrentWrite(t) => result'[w] = result[w]
      /\ result'[CurrentWrite(t)] = st
  BY <1>3 DEF Answers
<1>5. pc'[t] \notin Grouping /\ pc'[t] \notin Leading /\ pc'[t] # "queue" /\ ~done'[t]
  BY <1>1, <1>2, <1>3, GroupFacts DEF Grouping, Leading
<1>6. \A l \in Clients : pc'[l] \notin Grouping
  <2>1. \A l \in Clients : pc[l] \in Grouping => l = t
    BY GroupFacts DEF Grouping
  <2> QED BY <1>1, <1>5, <2>1
<1>7. \A u : ~Grouped(u)' /\ CurrentWrite(u)' = CurrentWrite(u)
  BY <1>1, <1>6 DEF Grouped, CurrentWrite
<1>8. /\ lastSeq \in Nat /\ lastSeq' \in Nat /\ lastSeq' = lastSeq + GroupCount
      /\ GroupCount \in Nat
  <2>1. lastSeq \in Nat /\ lastSeq' = lastSeq + GroupCount /\ GroupCount \in Nat
    BY CountIsNat DEF CommitInv, CommitTypes, Told
  <2>2. lastSeq' \in Nat
    BY <2>1, SMTT(10), SMTT(30)
  <2> QED BY <2>1, <2>2
<1>9. /\ \A n : n \in 1 .. lastSeq => n \in 1 .. lastSeq'
      /\ \A n : n \in lastSeq + 1 .. lastSeq + GroupCount => n \in 1 .. lastSeq'
  BY <1>8, SMTT(10), SMTT(30)
<1>10. CommitTypes'
  <2>1. CommitTypes
    BY DEF CommitInv
  <2>2. /\ result' \in [Writes -> {"none", "ok", "error"}]
        /\ status' \in [Clients -> {"ok", "error"}]
        /\ toInsert' = {} /\ failed' = "ok"
    BY DEF Answers, Told
  <2> QED BY <1>1, <1>8, <2>1, <2>2, SMTT(20), SMTT(60) DEF CommitTypes
<1>11. \A u \in Clients : calls[u] >= 1 => CurrentWrite(u) \in Writes
  BY WriteType DEF CommitInv
<1>12. \A u \in Clients : u # t /\ calls[u] >= 1 =>
         result'[CurrentWrite(u)] = result[CurrentWrite(u)]
  BY <1>4, <1>11, WriteFacts
<1>13. FutureUntouched'
  <2> SUFFICES ASSUME NEW u \in Clients, NEW n \in 1 .. MaxCalls, n > calls[u]
               PROVE  Untouched(<<u, n>>)'
    BY <1>1 DEF FutureUntouched
  <2>1. Untouched(<<u, n>>)
    BY DEF CommitInv, FutureUntouched
  <2>2. <<u, n>> # CurrentWrite(t) /\ <<u, n>> \in Writes
    <3>1. calls[u] \in 0 .. MaxCalls /\ MaxCalls \in Nat
      BY WriteQueueAssumption DEF CommitInv, CommitTypes
    <3> QED BY <3>1, SMTT(10), SMTT(30) DEF CurrentWrite, Writes
  <2> QED BY <1>1, <1>4, <2>1, <2>2 DEF Untouched
<1>14. InWrite'
  BY <1>1, <1>5, <1>7, <1>12 DEF CommitInv, InWrite
<1>15. LineUntouched'
  <2> SUFFICES ASSUME NEW u \in Clients, InLineOnly(u)'
               PROVE  Untouched(CurrentWrite(u))'
    BY DEF LineUntouched
  <2>1. u # t /\ pc'[u] = pc[u] /\ (pc[u] = "queue" => ~done'[u])
    BY <1>1, <1>5 DEF InLineOnly
  <2>2. ~Grouped(u) \/ pc[u] = "room"
    BY <1>2, <2>1 DEF InLineOnly
  <2>3. pc[u] # "room"
    BY GroupFacts DEF Grouping
  <2>4. InLineOnly(u)
    BY <1>2, <2>1, <2>2, <2>3 DEF InLineOnly
  <2>5. Untouched(CurrentWrite(u)) /\ calls[u] >= 1
    BY <2>4 DEF CommitInv, LineUntouched, InWrite, InLineOnly, Leading
  <2> QED BY <1>1, <1>7, <1>12, <2>1, <2>5 DEF Untouched
\* What the whole group is told is true of each of its writes.
<1>16. ASSUME NEW u \in Clients, Grouped(u), kind[u] # "flush"
       PROVE  /\ st = "ok" => Committed(u)'
              /\ st = "error" => CurrentWrite(u) \notin inserted
  <2>1. MemberAt(t, u)
    BY <1>3, <1>16
  <2>2. /\ kind[u] = "sync" => kind[t] = "sync"
        /\ seqOf[CurrentWrite(u)] \in lastSeq + 1 .. lastSeq + GroupCount
        /\ failed = "ok" => /\ CurrentWrite(u) \in logged /\ CurrentWrite(u) \in inserted
                            /\ kind[t] = "sync" => CurrentWrite(u) \in synced
        /\ failed # "ok" => CurrentWrite(u) \notin inserted
    BY <2>1 DEF MemberAt
  <2>3. seqOf[CurrentWrite(u)] \in 1 .. lastSeq'
    BY <1>9, <2>2
  <2> QED BY <1>1, <1>7, <2>2, <2>3 DEF Committed
<1>17. ToldIsTrue'
  <2> SUFFICES ASSUME NEW u \in Clients, done'[u], kind[u] # "flush"
               PROVE  /\ status'[u] = "ok" => Committed(u)'
                      /\ status'[u] = "error" => CurrentWrite(u) \notin inserted
    BY <1>1, <1>7 DEF ToldIsTrue
  <2>1. CASE Grouped(u)
    BY <1>2, <1>5, <1>16, <2>1
  <2>2. CASE ~Grouped(u)
    <3>1. done[u] /\ status'[u] = status[u]
      BY <1>2, <2>2
    <3>2. Committed(u) => Committed(u)'
      BY <1>1, <1>7, <1>9 DEF Committed
    <3> QED BY <3>1, <3>2 DEF CommitInv, ToldIsTrue
  <2> QED BY <2>1, <2>2
<1>18. GroupAt'
  BY <1>6 DEF GroupAt
<1>19. NumbersBelow'
  <2> SUFFICES ASSUME NEW w \in Writes, seqOf[w] > lastSeq' PROVE FALSE
    BY <1>1 DEF NumbersBelow
  <2>1. seqOf[w] \in Nat
    BY DEF CommitInv, CommitTypes
  <2>2. seqOf[w] > lastSeq /\ seqOf[w] \notin 1 .. lastSeq'
    BY <1>8, <2>1, SMTT(10), SMTT(30)
  <2>3. Grouped(w[1]) /\ kind[w[1]] # "flush" /\ w = CurrentWrite(w[1])
    BY <2>2 DEF CommitInv, NumbersBelow
  <2>4. w[1] \in Clients
    BY <2>3, GroupFacts
  <2>5. seqOf[w] \in lastSeq + 1 .. lastSeq + GroupCount
    BY <1>3, <2>3, <2>4 DEF MemberAt
  <2> QED BY <1>9, <2>2, <2>5
<1>20. NumbersDiffer'
  BY <1>1 DEF CommitInv, NumbersDiffer
<1>21. ResultsAreTrue'
  <2> SUFFICES ASSUME NEW w \in Writes
               PROVE  /\ result'[w] = "ok" =>
                           w \in logged /\ w \in inserted /\ seqOf[w] \in 1 .. lastSeq'
                      /\ result'[w] = "error" => w \notin inserted
    BY <1>1 DEF ResultsAreTrue
  <2>1. CASE w # CurrentWrite(t)
    BY <1>4, <1>9, <2>1 DEF CommitInv, ResultsAreTrue
  <2>2. CASE w = CurrentWrite(t)
    BY <1>1, <1>3, <1>4, <1>7, <1>16, <2>2 DEF Committed
  <2> QED BY <2>1, <2>2
<1>22. SyncMeansSynced'
  <2> SUFFICES ASSUME NEW u \in Clients, kind[u] = "sync", result'[CurrentWrite(u)] = "ok"
               PROVE  CurrentWrite(u) \in synced
    BY <1>1, <1>7 DEF SyncMeansSynced
  <2>1. CASE u = t
    BY <1>1, <1>3, <1>4, <1>7, <1>16, <2>1 DEF Committed
  <2>2. CASE u # t
    <3>1. calls[u] \in 0 .. MaxCalls /\ calls[u] # 0
      BY DEF CommitInv, CommitTypes
    <3>2. calls[u] >= 1
      BY <3>1, SMTT(10), SMTT(30)
    <3> QED BY <1>12, <2>2, <3>2 DEF CommitInv, SyncMeansSynced
  <2> QED BY <2>1, <2>2
<1> QED BY <1>10, <1>13, <1>14, <1>15, <1>17, <1>18, <1>19, <1>20, <1>21, <1>22
        DEF CommitInv

\* The places of a group's batches are 1, 2, ... in the order of the queue.
LEMMA PlaceIsRank ==
  ASSUME QueueInv, NEW j \in 1 .. Len(writers)
  PROVE  /\ IsFiniteSet(Batches(j)) /\ Batches(j) \subseteq 1 .. Len(writers)
         /\ \A p \in Batches(j) :
              Place(j, writers[p]) = Cardinality({i \in Batches(j) : i <= p})
<1>1. /\ Len(writers) \in Nat
      /\ \A i, k \in 1 .. Len(writers) : writers[i] = writers[k] => i = k
  BY LeaderPlace
<1> DEFINE L == Len(writers)
           B == Batches(j)
<1>2. L \in Nat /\ j \in 1 .. L
  BY <1>1
<1> HIDE DEF L
<1>3. j \in Int /\ 1 \in Int
  BY <1>2, SMTT(10), SMTT(30)
<1>4. IsFiniteSet(1 .. j)
  BY <1>3, FS_Interval
<1>5. B \in SUBSET (1 .. j)
  BY DEF Batches
<1>6. IsFiniteSet(B)
  BY <1>4, <1>5, FS_Subset
<1>7. B \subseteq 1 .. L
  BY <1>2, <1>5, SMTT(10), SMTT(30)
<1>8. ASSUME NEW p \in B
      PROVE  {i \in B : \A k \in 1 .. i - 1 : writers[k] # writers[p]} = {i \in B : i <= p}
  <2>1. p \in 1 .. L
    BY <1>7
  <2>2. ASSUME NEW i \in B, i <= p, NEW k \in 1 .. i - 1 PROVE writers[k] # writers[p]
    <3>1. i \in 1 .. L
      BY <1>7
    <3>2. k \in 1 .. L /\ k # p
      BY <1>2, <2>1, <2>2, <3>1, SMTT(10), SMTT(30)
    <3> QED BY <1>1, <2>1, <3>2 DEF L
  <2>3. ASSUME NEW i \in B, ~(i <= p) PROVE p \in 1 .. i - 1
    <3>1. i \in 1 .. L
      BY <1>7
    <3> QED BY <1>2, <2>1, <2>3, <3>1, SMTT(10), SMTT(30)
  <2> QED BY <2>2, <2>3
<1>9. \A p \in B : Place(j, writers[p]) = Cardinality({i \in B : i <= p})
  BY <1>8 DEF Place
<1> QED BY <1>6, <1>7, <1>9 DEF L

\* The places of the batches of a group are 1 to their number, all different.
LEMMA PlaceFacts ==
  ASSUME QueueInv, NEW j \in 1 .. Len(writers)
  PROVE  /\ Cardinality(Batches(j)) \in Nat
         /\ \A p \in Batches(j) :
              /\ Place(j, writers[p]) \in Nat
              /\ Place(j, writers[p]) \in 1 .. Cardinality(Batches(j))
         /\ \A p, q \in Batches(j) :
              p # q => Place(j, writers[p]) # Place(j, writers[q])
<1> DEFINE B == Batches(j)
           U(p) == {i \in B : i <= p}
<1>1. /\ IsFiniteSet(B) /\ B \subseteq 1 .. Len(writers)
      /\ \A p \in B : Place(j, writers[p]) = Cardinality(U(p))
  BY PlaceIsRank
<1> HIDE DEF B
<1>2. Len(writers) \in Nat
  BY LeaderPlace
<1>3. \A p \in B : p \in Nat
  BY <1>1, <1>2, SMTT(10), SMTT(30)
<1>4. \A p \in B : p \in U(p)
  BY <1>3, SMTT(10), SMTT(30)
<1>5. \A p : U(p) \in SUBSET B
  OBVIOUS
<1> HIDE DEF U
<1>6. Cardinality(B) \in Nat
  BY <1>1, FS_CardinalityType
<1>7. \A p : IsFiniteSet(U(p)) /\ Cardinality(U(p)) <= Cardinality(B)
  BY <1>1, <1>5, FS_Subset
<1>8. \A p : Cardinality(U(p)) \in Nat
  BY <1>7, FS_CardinalityType
<1>9. \A p \in B : Cardinality(U(p)) # 0
  BY <1>4, <1>7, FS_EmptySet
<1>10. \A p \in B : Cardinality(U(p)) \in 1 .. Cardinality(B)
  BY <1>6, <1>7, <1>8, <1>9, SMTT(10), SMTT(30)
<1>11. ASSUME NEW p \in B, NEW q \in B, p < q
       PROVE  Cardinality(U(p)) # Cardinality(U(q))
  <2>1. U(p) \in SUBSET U(q) /\ q \notin U(p)
    BY <1>3, <1>11, SMTT(10), SMTT(30) DEF U
  <2>2. U(p) # U(q)
    BY <1>4, <2>1
  <2>3. Cardinality(U(q)) = Cardinality(U(p)) => U(q) = U(p)
    BY <1>7, <2>1, FS_Subset
  <2> QED BY <2>2, <2>3
<1>12. \A p, q \in B : p # q => p < q \/ q < p
  BY <1>3, SMTT(10), SMTT(30)
<1>13. \A p, q \in B : p # q => Cardinality(U(p)) # Cardinality(U(q))
  BY <1>11, <1>12
<1> QED BY <1>1, <1>6, <1>8, <1>10, <1>13 DEF B

\* The leader takes the first j writers of the queue.
Takes(t, j) ==
  /\ pc[t] = "room" /\ pc'[t] = "append" /\ \A u \in Clients : u # t => pc'[u] = pc[u]
  /\ kind[t] # "flush" /\ j \in GroupEnds /\ j \in 1 .. Len(writers) /\ writers[1] = t
  /\ group' \in Seq(Clients) /\ Len(group') = j
  /\ \A i \in 1 .. j : group'[i] = writers[i]
  /\ toInsert' = {CurrentWrite(writers[i]) : i \in Batches(j)}
  /\ seqOf' = [w \in Writes |-> IF w \in toInsert' THEN lastSeq + Place(j, w[1])
                                ELSE seqOf[w]]
  /\ failed' = "ok"
  /\ UNCHANGED <<kind, calls, done, status, lastSeq, result, logged, synced, inserted>>

\* Who is in the group that a leader takes.
LEMMA TakesGroup ==
  ASSUME QueueInv, CommitInv, NEW t \in Clients, NEW j, Takes(t, j)
  PROVE  /\ \A u : Grouped(u)' <=> \E i \in 1 .. j : writers[i] = u
         /\ \A l \in Clients : pc[l] \notin Grouping /\ (pc'[l] \in Grouping => l = t)
         /\ GroupCount' = Cardinality(Batches(j))
         /\ \A i \in 1 .. j : /\ writers[i] \in Clients /\ ~done[writers[i]]
                              /\ Untouched(CurrentWrite(writers[i]))
                              /\ CurrentWrite(writers[i]) \in Writes
                              /\ i \in 1 .. Len(writers)
         /\ Batches(j) \subseteq 1 .. j
<1>1. /\ pc[t] = "room" /\ pc'[t] = "append" /\ j \in 1 .. Len(writers)
      /\ \A u \in Clients : u # t => pc'[u] = pc[u]
      /\ group' \in Seq(Clients) /\ Len(group') = j
      /\ \A i \in 1 .. j : group'[i] = writers[i]
      /\ kind' = kind
  BY DEF Takes
<1>2. \A l \in Clients : pc[l] \notin Grouping
  BY <1>1, GroupFacts
<1>3. \A l \in Clients : pc'[l] \in Grouping => l = t
  BY <1>1, <1>2
<1>4. pc'[t] \in Grouping
  BY <1>1 DEF Grouping
<1>5. \A u : Grouped(u)' <=> \E i \in 1 .. j : writers[i] = u
  BY <1>1, <1>4 DEF Grouped
<1>6. DOMAIN group' = 1 .. j
  BY <1>1, SeqElements
<1>7. {i \in DOMAIN group' : kind'[group'[i]] # "flush"} = Batches(j)
  BY <1>1, <1>6 DEF Batches
<1>8. GroupCount' = Cardinality(Batches(j))
  BY <1>7 DEF GroupCount
<1>9. \A i \in 1 .. j : i \in 1 .. Len(writers)
  BY <1>1, LeaderPlace, SMTT(10), SMTT(30)
<1>10. ASSUME NEW i \in 1 .. j
       PROVE  /\ writers[i] \in Clients /\ ~done[writers[i]]
              /\ Untouched(CurrentWrite(writers[i]))
              /\ CurrentWrite(writers[i]) \in Writes
  <2>1. i \in 1 .. Len(writers) /\ writers[i] \in Clients
    BY <1>9, LeaderPlace
  <2>2. ~done[writers[i]] /\ (pc[writers[i]] = "queue" \/ pc[writers[i]] \in Leading)
    BY <2>1 DEF QueueInv, InLine
  <2>3. pc[writers[i]] = "queue" \/ pc[writers[i]] = "room"
    BY <1>2, <2>1, <2>2 DEF Leading
  <2>4. InLineOnly(writers[i])
    BY <1>2, <2>2, <2>3 DEF InLineOnly, Grouped
  <2>5. Untouched(CurrentWrite(writers[i])) /\ calls[writers[i]] >= 1 /\ CommitTypes
    BY <2>1, <2>2, <2>4 DEF CommitInv, LineUntouched, InWrite
  <2> QED BY <2>1, <2>2, <2>5, WriteType
<1> QED BY <1>2, <1>3, <1>5, <1>8, <1>9, <1>10 DEF Batches

\* The numbers a group is given: its own are above LastSequence and differ.
LEMMA TakesNumbers ==
  ASSUME QueueInv, CommitInv, NEW t \in Clients, NEW j, Takes(t, j)
  PROVE  /\ \A w \in Writes : w \notin toInsert' => seqOf'[w] = seqOf[w]
         /\ \A p \in Batches(j) :
              /\ CurrentWrite(writers[p]) \in toInsert'
              /\ seqOf'[CurrentWrite(writers[p])] = lastSeq + Place(j, writers[p])
              /\ seqOf'[CurrentWrite(writers[p])]
                   \in lastSeq + 1 .. lastSeq + Cardinality(Batches(j))
         /\ seqOf' \in [Writes -> Nat] /\ toInsert' \subseteq Writes
         /\ \A v, w \in toInsert' : v # w => seqOf'[v] # seqOf'[w]
         /\ \A w \in toInsert' : seqOf'[w] > lastSeq
<1>1. /\ toInsert' = {CurrentWrite(writers[i]) : i \in Batches(j)}
      /\ seqOf' = [w \in Writes |-> IF w \in toInsert' THEN lastSeq + Place(j, w[1])
                                    ELSE seqOf[w]]
      /\ j \in 1 .. Len(writers)
  BY DEF Takes
<1>2. /\ \A i \in 1 .. j : CurrentWrite(writers[i]) \in Writes
      /\ Batches(j) \subseteq 1 .. j
  BY TakesGroup
<1>3. \A w \in Writes : w \notin toInsert' => seqOf'[w] = seqOf[w]
  BY <1>1
<1>4. \A w \in Writes : w \in toInsert' => seqOf'[w] = lastSeq + Place(j, w[1])
  BY <1>1
<1>5. toInsert' \subseteq Writes
  BY <1>1, <1>2
<1>6. \A p \in Batches(j) :
        /\ CurrentWrite(writers[p]) \in toInsert'
        /\ seqOf'[CurrentWrite(writers[p])] = lastSeq + Place(j, writers[p])
  BY <1>1, <1>4, <1>5, WriteFacts
<1>7. lastSeq \in Nat /\ seqOf \in [Writes -> Nat]
  BY DEF CommitInv, CommitTypes
<1>8. ASSUME NEW p \in Batches(j)
      PROVE  /\ lastSeq + Place(j, writers[p])
                  \in lastSeq + 1 .. lastSeq + Cardinality(Batches(j))
             /\ lastSeq + Place(j, writers[p]) \in Nat
             /\ lastSeq + Place(j, writers[p]) > lastSeq
  <2>1. /\ Place(j, writers[p]) \in 1 .. Cardinality(Batches(j))
        /\ Cardinality(Batches(j)) \in Nat
    BY <1>1, PlaceFacts
  <2> QED BY <1>7, <2>1, SMTT(10), SMTT(30)
<1>9. ASSUME NEW w \in toInsert'
      PROVE  seqOf'[w] \in Nat /\ seqOf'[w] > lastSeq
  <2>1. PICK p \in Batches(j) : w = CurrentWrite(writers[p])
    BY <1>1
  <2>2. seqOf'[w] = lastSeq + Place(j, writers[p])
    BY <1>6, <2>1
  <2> QED BY <1>8, <2>2
<1>10. \A w \in Writes : seqOf'[w] \in Nat
  BY <1>3, <1>7, <1>9
<1>11. DOMAIN seqOf' = Writes /\ seqOf' = [w \in Writes |-> seqOf'[w]]
  BY <1>1
<1>12. seqOf' \in [Writes -> Nat]
  BY <1>10, <1>11
<1>13. \A p, q \in Batches(j) : p # q =>
         lastSeq + Place(j, writers[p]) # lastSeq + Place(j, writers[q])
  <2> SUFFICES ASSUME NEW p \in Batches(j), NEW q \in Batches(j), p # q
               PROVE  lastSeq + Place(j, writers[p]) # lastSeq + Place(j, writers[q])
    OBVIOUS
  <2>1. /\ Place(j, writers[p]) \in Nat /\ Place(j, writers[q]) \in Nat
        /\ Place(j, writers[p]) # Place(j, writers[q])
    BY <1>1, PlaceFacts
  <2> QED BY <1>7, <2>1, SMTT(10), SMTT(30)
<1>14. \A v, w \in toInsert' : v # w => seqOf'[v] # seqOf'[w]
  <2> SUFFICES ASSUME NEW v \in toInsert', NEW w \in toInsert', v # w
               PROVE  seqOf'[v] # seqOf'[w]
    OBVIOUS
  <2>1. PICK p \in Batches(j) : v = CurrentWrite(writers[p])
    BY <1>1
  <2>2. PICK q \in Batches(j) : w = CurrentWrite(writers[q])
    BY <1>1
  <2> QED BY <1>6, <1>13, <2>1, <2>2
<1> QED BY <1>3, <1>5, <1>6, <1>8, <1>9, <1>12, <1>14

\* Taking a group numbers its batches above LastSequence.
LEMMA TakesKeeps ==
  ASSUME QueueInv, CommitInv, NEW t \in Clients, NEW j, Takes(t, j)
  PROVE  CommitInv'
<1>1. /\ UNCHANGED <<kind, calls, done, status, lastSeq, result, logged, synced, inserted>>
      /\ pc[t] = "room" /\ pc'[t] = "append" /\ \A u \in Clients : u # t => pc'[u] = pc[u]
      /\ kind[t] # "flush" /\ failed' = "ok" /\ writers[1] = t
      /\ toInsert' = {CurrentWrite(writers[i]) : i \in Batches(j)}
  BY DEF Takes
<1>2. \A u : CurrentWrite(u)' = CurrentWrite(u)
  BY <1>1 DEF CurrentWrite
<1>3. /\ \A u : Grouped(u)' <=> \E i \in 1 .. j : writers[i] = u
      /\ \A l \in Clients : pc[l] \notin Grouping /\ (pc'[l] \in Grouping => l = t)
      /\ GroupCount' = Cardinality(Batches(j))
      /\ Batches(j) \subseteq 1 .. j
  BY TakesGroup
<1>4. \A i \in 1 .. j : /\ writers[i] \in Clients /\ ~done[writers[i]]
                        /\ Untouched(CurrentWrite(writers[i]))
  BY TakesGroup
<1>5. /\ \A w \in Writes : w \notin toInsert' => seqOf'[w] = seqOf[w]
      /\ \A p \in Batches(j) :
           /\ CurrentWrite(writers[p]) \in toInsert'
           /\ seqOf'[CurrentWrite(writers[p])]
                \in lastSeq + 1 .. lastSeq + Cardinality(Batches(j))
  BY TakesNumbers
<1>6. CommitTypes'
  BY <1>1, TakesNumbers DEF CommitInv, CommitTypes
<1>7. \A w \in toInsert' : \E u \in Clients :
        Grouped(u)' /\ kind[u] # "flush" /\ w = CurrentWrite(u)
  BY <1>1, <1>3, <1>4 DEF Batches
\* Nothing is said of a write outside of the group.
<1>8. \A w \in Writes : Untouched(w) /\ w \notin toInsert' => Untouched(w)'
  BY <1>1, <1>5 DEF Untouched
<1>9. \A u : ~Grouped(u)' => CurrentWrite(u) \notin toInsert'
  BY <1>7, WriteFacts
<1>10. FutureUntouched'
  <2> SUFFICES ASSUME NEW u \in Clients, NEW n \in 1 .. MaxCalls, n > calls[u]
               PROVE  Untouched(<<u, n>>)'
    BY <1>1 DEF FutureUntouched
  <2>1. Untouched(<<u, n>>)
    BY DEF CommitInv, FutureUntouched
  <2>2. (\A v \in Clients : <<u, n>> # CurrentWrite(v)) /\ <<u, n>> \in Writes
    <3>1. calls[u] \in 0 .. MaxCalls /\ MaxCalls \in Nat
      BY WriteQueueAssumption DEF CommitInv, CommitTypes
    <3> QED BY <3>1, SMTT(10), SMTT(30) DEF CurrentWrite, Writes
  <2>3. <<u, n>> \notin toInsert'
    BY <1>7, <2>2
  <2> QED BY <1>8, <2>1, <2>2, <2>3
<1>11. InWrite'
  BY <1>1, <1>2 DEF CommitInv, InWrite, Leading
<1>12. LineUntouched'
  <2> SUFFICES ASSUME NEW u \in Clients, InLineOnly(u)'
               PROVE  Untouched(CurrentWrite(u))'
    BY DEF LineUntouched
  <2>1. u # t /\ ~Grouped(u)' /\ pc'[u] = pc[u]
    BY <1>1 DEF InLineOnly
  <2>2. InLineOnly(u)
    BY <1>1, <1>3, <2>1 DEF InLineOnly, Grouped
  <2>3. Untouched(CurrentWrite(u)) /\ calls[u] >= 1 /\ CommitTypes
    BY <2>2 DEF CommitInv, LineUntouched, InWrite, InLineOnly, Leading
  <2>4. CurrentWrite(u) \in Writes
    BY <2>3, WriteType
  <2>5. Untouched(CurrentWrite(u)) /\ CurrentWrite(u) \notin toInsert'
    BY <1>9, <2>1, <2>3
  <2> QED BY <1>1, <1>2, <1>5, <2>4, <2>5 DEF Untouched
<1>13. ToldIsTrue'
  <2> SUFFICES ASSUME NEW u \in Clients, done[u], kind[u] # "flush"
               PROVE  /\ status[u] = "ok" => Committed(u)'
                      /\ status[u] = "error" => CurrentWrite(u) \notin inserted
    BY <1>1, <1>2 DEF ToldIsTrue
  <2>1. ~Grouped(u)'
    BY <1>3, <1>4
  <2>2. CurrentWrite(u) \notin toInsert'
    BY <1>9, <2>1
  <2>3. pc[u] = "queue"
    BY DEF QueueInv, InLine
  <2>4. CommitTypes /\ calls[u] >= 1
    BY <2>3 DEF CommitInv, InWrite
  <2>5. CurrentWrite(u) \in Writes
    BY <2>4, WriteType
  <2>6. seqOf'[CurrentWrite(u)] = seqOf[CurrentWrite(u)]
    BY <1>5, <2>2, <2>5
  <2>7. Committed(u) => Committed(u)'
    BY <1>1, <1>2, <2>6 DEF Committed
  <2> QED BY <2>7 DEF CommitInv, ToldIsTrue
<1>14. ASSUME NEW u \in Clients, NEW i \in 1 .. j, writers[i] = u, kind[u] # "flush"
       PROVE  MemberAt(t, u)'
  <2>1. i \in Batches(j)
    BY <1>14 DEF Batches
  <2>2. kind[u] = "sync" => kind[t] = "sync"
    <3>1. \A k \in 2 .. j : kind[writers[k]] = "sync" => kind[writers[1]] = "sync"
      BY DEF Takes, GroupEnds
    <3>2. j \in Nat
      BY LeaderPlace, SMTT(10), SMTT(30) DEF Takes
    <3>3. i = 1 \/ i \in 2 .. j
      BY <3>2, SMTT(10), SMTT(30)
    <3> QED BY <1>1, <1>14, <3>1, <3>3
  <2>3. CurrentWrite(u) \notin inserted
    BY <1>4, <1>14 DEF Untouched
  <2>4. /\ CurrentWrite(u) \in toInsert'
        /\ seqOf'[CurrentWrite(u)] \in lastSeq + 1 .. lastSeq + GroupCount'
    BY <1>3, <1>5, <1>14, <2>1
  <2>5. kind' = kind /\ lastSeq' = lastSeq /\ inserted' = inserted /\ pc'[t] = "append"
    BY <1>1
  <2> QED BY <1>2, <2>2, <2>3, <2>4, <2>5 DEF MemberAt
<1>15. GroupAt'
  <2> SUFFICES ASSUME NEW l \in Clients, pc'[l] \in Grouping
               PROVE  /\ kind'[l] # "flush"
                      /\ pc'[l] # "finish" => failed' = "ok"
                      /\ pc'[l] = "insert" => toInsert' # {}
                      /\ \A u \in Clients :
                           Grouped(u)' /\ kind'[u] # "flush" => MemberAt(l, u)'
                      /\ \A w \in toInsert' : \E u \in Clients :
                           Grouped(u)' /\ kind'[u] # "flush" /\ w = CurrentWrite(u)'
    BY DEF GroupAt
  <2>1. l = t /\ kind' = kind /\ failed' = "ok" /\ pc'[t] = "append" /\ kind[t] # "flush"
    BY <1>1, <1>3
  <2>2. \A u \in Clients : Grouped(u)' /\ kind[u] # "flush" => MemberAt(t, u)'
    BY <1>3, <1>14
  <2> QED BY <1>2, <1>7, <2>1, <2>2
<1>16. NumbersBelow'
  <2> SUFFICES ASSUME NEW w \in Writes, seqOf'[w] > lastSeq
               PROVE  Grouped(w[1])' /\ kind[w[1]] # "flush" /\ w = CurrentWrite(w[1])
    BY <1>1, <1>2 DEF NumbersBelow
  <2>1. w \in toInsert'
    BY <1>3, <1>5 DEF CommitInv, NumbersBelow, Grouped
  <2> QED BY <1>7, <2>1, WriteFacts
<1>17. NumbersDiffer'
  <2> SUFFICES ASSUME NEW v \in Writes, NEW w \in Writes, v # w, seqOf'[v] # 0
               PROVE  seqOf'[v] # seqOf'[w]
    BY DEF NumbersDiffer
  <2>1. \A x \in Writes : ~(seqOf[x] > lastSeq)
    BY <1>3 DEF CommitInv, NumbersBelow, Grouped
  <2>2. \A x \in toInsert' : seqOf'[x] > lastSeq
    BY TakesNumbers
  <2>3. CASE v \in toInsert' /\ w \in toInsert'
    BY <2>3, TakesNumbers
  <2>4. CASE v \in toInsert' /\ w \notin toInsert'
    BY <1>5, <2>1, <2>2, <2>4
  <2>5. CASE v \notin toInsert' /\ w \in toInsert'
    BY <1>5, <2>1, <2>2, <2>5
  <2>6. CASE v \notin toInsert' /\ w \notin toInsert'
    BY <1>5, <2>6 DEF CommitInv, NumbersDiffer
  <2> QED BY <2>3, <2>4, <2>5, <2>6
<1>18. ResultsAreTrue'
  <2>1. \A w \in toInsert' : result[w] = "none"
    <3>1. \A i \in Batches(j) : result[CurrentWrite(writers[i])] = "none"
      BY <1>3, <1>4 DEF Untouched
    <3> QED BY <1>1, <3>1
  <2> QED BY <1>1, <1>5, <2>1 DEF CommitInv, ResultsAreTrue
<1>19. SyncMeansSynced'
  BY <1>1, <1>2 DEF CommitInv, SyncMeansSynced
<1> QED BY <1>6, <1>10, <1>11, <1>12, <1>13, <1>15, <1>16, <1>17, <1>18, <1>19
        DEF CommitInv

-----------------------------------------------------------------------------
(* Each action is one of these steps.                                      *)

\* BuildBatchGroup is such a step.
LEMMA BuildCommit ==
  ASSUME WorkInv, QueueInv, CommitInv, NEW t \in Clients, NEW j \in DOMAIN writers,
         BuildBatchGroup(t, j)
  PROVE  CommitInv'
<1>1. /\ pc[t] = "room" /\ kind[t] # "flush" /\ j \in GroupEnds
      /\ group' = SubSeq(writers, 1, j) /\ pc' = [pc EXCEPT ![t] = "append"]
  BY DEF BuildBatchGroup, InRoom
<1>2. Moves(t) /\ pc'[t] = "append"
  BY <1>1, ThreadFacts, Assigned DEF WorkInv, Places, Leading, Grouping
<1>3. writers \in Seq(Clients)
  BY DEF QueueInv, InLine
<1>4. j \in 1 .. Len(writers)
  BY <1>3, SeqElements
<1>5. /\ group' \in Seq(Clients) /\ Len(group') = j
      /\ \A i \in 1 .. j : group'[i] = writers[i]
  BY <1>1, <1>3, <1>4, Prefix
<1>6. writers[1] = t
  BY <1>1 DEF QueueInv, InLine, Leads, Leading
<1>7. \A u \in Clients : u # t => pc'[u] = pc[u]
  BY <1>2, ThreadFacts DEF Moves
<1>8. /\ toInsert' = {CurrentWrite(writers[i]) : i \in Batches(j)}
      /\ seqOf' = [w \in Writes |-> IF w \in toInsert' THEN lastSeq + Place(j, w[1])
                                    ELSE seqOf[w]]
      /\ failed' = "ok"
      /\ UNCHANGED <<kind, calls, done, status, lastSeq, result, logged, synced, inserted>>
  BY DEF BuildBatchGroup
<1>9. Takes(t, j)
  BY <1>1, <1>2, <1>4, <1>5, <1>6, <1>7, <1>8 DEF Takes
<1> QED BY <1>9, TakesKeeps
=============================================================================
