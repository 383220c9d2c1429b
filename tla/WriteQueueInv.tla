--------------------------- MODULE WriteQueueInv ----------------------------
(***************************************************************************)
(* The inductive invariants of module WriteQueue, each resting on the one  *)
(* before: WorkInv about background work and who waits for it, QueueInv    *)
(* about the order in which writers enter and leave writers_, CommitInv    *)
(* about what a group has done to the log, to mem_ and to LastSequence at  *)
(* each point of DBImpl::Write.                                            *)
(***************************************************************************)
EXTENDS WriteQueue

Grouping == {"append", "sync", "insert", "finish"}
Leading == Grouping \cup {"room"}
Waiting == {"room", "imm", "manual"}
Places == Leading \cup {"idle", "queue", "imm", "manual", "close", "closed"}

-----------------------------------------------------------------------------
(* Background work.                                                        *)

\* There is something for the background thread to do, and it may do it.
WorkToDo ==
  /\ ~shutting /\ ~bgError
  /\ hasImm \/ manual # Nobody \/ l0 >= L0Trigger

\* The background thread is inside DoCompactionWork, its edit not applied yet.
Working ==
  bpc \in {"work", "worklog"} \/ (inWork /\ bpc \in {"build", "flushlog", "flushgc"})

PlacesOK ==
  /\ pc \in [Threads -> Places] /\ asleep \subseteq Threads
  /\ \A t \in asleep \cap Clients : pc[t] = "queue" \/ pc[t] \in Waiting

\* The destructor runs alone.
ClosingIsAlone ==
  /\ shutting => \A t \in Clients : pc[t] = "idle"
  /\ ~shutting => pc[Closer] = "idle"
  /\ pc[Closer] = "idle" => ~shutting

\* background_compaction_scheduled_ covers all work and the running call.
WorkIsScheduled ==
  /\ WorkToDo => scheduled
  /\ bpc # "idle" => scheduled
  /\ pc[Closer] = "closed" => ~scheduled
  /\ WaitersHaveWork

\* What the background thread found when it released the mutex is still there
\* when it has it again.
WorkIsThere ==
  /\ l0 \in Nat /\ take \in Nat /\ l0 <= L0Stop
  /\ hasImm => l0 < L0Stop
  /\ bpc \in {"build", "flushlog"} => hasImm
  /\ Working => take <= l0
  /\ bpc = "move" => l0 >= 1
  /\ bpc = "idle" => ~inWork

WorkInv == PlacesOK /\ ClosingIsAlone /\ WorkIsScheduled /\ WorkIsThere

-----------------------------------------------------------------------------
(* The queue of writers.                                                   *)

Leads(t) == Len(writers) >= 1 /\ t = writers[1]

\* Each client is in writers_ at most once, while it waits or leads.
InLine ==
  /\ writers \in Seq(Clients) /\ done \in [Clients -> BOOLEAN]
  /\ \A i, j \in 1 .. Len(writers) : writers[i] = writers[j] => i = j
  /\ \A i \in 1 .. Len(writers) :
       /\ ~done[writers[i]]
       /\ pc[writers[i]] = "queue" \/ (i = 1 /\ pc[writers[i]] \in Leading)
  /\ \A t \in Clients : pc[t] \in Leading => Leads(t)
  /\ \A t \in Clients : pc[t] = "queue" /\ ~done[t] =>
       \E i \in 1 .. Len(writers) : writers[i] = t
  /\ \A t \in Clients : done[t] => pc[t] = "queue"

\* The leader's group is the beginning of writers_.
GroupIsPrefix ==
  /\ group \in Seq(Clients)
  /\ \A t \in Clients : pc[t] \in Grouping =>
       /\ Len(group) \in 1 .. Len(writers)
       /\ \A i \in 1 .. Len(group) : group[i] = writers[i]

\* Neither the front of writers_ nor a writer that is done sleeps on its own
\* condition variable.
NoLostWakeup ==
  \A t \in asleep \cap Clients : pc[t] = "queue" => ~done[t] /\ ~Leads(t)

QueueInv == InLine /\ GroupIsPrefix /\ NoLostWakeup

-----------------------------------------------------------------------------
(* What a group has done so far.                                           *)

\* A writer of the group that a leader at work has taken.
Grouped(t) ==
  /\ \E u \in Clients : pc[u] \in Grouping
  /\ \E i \in 1 .. Len(group) : group[i] = t

\* In line, and nothing of its batch has been touched.
InLineOnly(t) ==
  /\ pc[t] = "room" \/ (pc[t] = "queue" /\ ~done[t])
  /\ ~Grouped(t)

CommitTypes ==
  /\ calls \in [Clients -> 0 .. MaxCalls] /\ kind \in [Clients -> CallKinds]
  /\ \A t \in Clients : calls[t] = 0 => kind[t] = "put"
  /\ status \in [Clients -> {"ok", "error"}] /\ failed \in {"ok", "append", "sync"}
  /\ result \in [Writes -> {"none", "ok", "error"}]
  /\ lastSeq \in Nat /\ seqOf \in [Writes -> Nat]
  /\ toInsert \subseteq Writes /\ inserted \subseteq Writes
  /\ logged \subseteq Writes /\ synced \subseteq Writes

Untouched(w) == result[w] = "none" /\ seqOf[w] = 0 /\ w \notin inserted

\* The batch went the whole way.
Committed(t) ==
  LET w == CurrentWrite(t)
  IN /\ w \in logged /\ w \in inserted /\ seqOf[w] \in 1 .. lastSeq
     /\ kind[t] = "sync" => w \in synced

FutureUntouched ==
  \A t \in Clients : \A n \in 1 .. MaxCalls : n > calls[t] => Untouched(<<t, n>>)

InWrite ==
  \A t \in Clients : pc[t] = "queue" \/ pc[t] \in Leading =>
    calls[t] >= 1 /\ kind[t] # "manual" /\ result[CurrentWrite(t)] = "none"

LineUntouched == \A t \in Clients : InLineOnly(t) => Untouched(CurrentWrite(t))

\* What a follower will be told is true.
ToldIsTrue ==
  \A t \in Clients : done[t] /\ kind[t] # "flush" =>
    /\ status[t] = "ok" => Committed(t)
    /\ status[t] = "error" => CurrentWrite(t) \notin inserted

\* The group of leader l at each point of Write, for its member u.
MemberAt(l, u) ==
  LET w == CurrentWrite(u)
  IN /\ kind[u] = "sync" => kind[l] = "sync"
     /\ seqOf[w] \in lastSeq + 1 .. lastSeq + GroupCount
     /\ pc[l] \in {"append", "sync"} => w \in toInsert /\ w \notin inserted
     /\ pc[l] \in {"sync", "insert"} => w \in logged
     /\ pc[l] = "insert" => /\ w \in toInsert <=> w \notin inserted
                            /\ kind[l] = "sync" => w \in synced
     /\ pc[l] = "finish" =>
          IF failed = "ok"
          THEN w \in logged /\ w \in inserted /\ (kind[l] = "sync" => w \in synced)
          ELSE w \notin inserted

GroupAt ==
  \A l \in Clients : pc[l] \in Grouping =>
    /\ kind[l] # "flush"
    /\ pc[l] # "finish" => failed = "ok"
    /\ pc[l] = "insert" => toInsert # {}
    /\ \A u \in Clients : Grouped(u) /\ kind[u] # "flush" => MemberAt(l, u)
    /\ \A w \in toInsert : \E u \in Clients :
         Grouped(u) /\ kind[u] # "flush" /\ w = CurrentWrite(u)

\* Numbers above LastSequence belong to the group in progress.
NumbersBelow ==
  \A w \in Writes : seqOf[w] > lastSeq =>
    Grouped(w[1]) /\ kind[w[1]] # "flush" /\ w = CurrentWrite(w[1])

NumbersDiffer == \A v, w \in Writes : v # w /\ seqOf[v] # 0 => seqOf[v] # seqOf[w]

CommitInv ==
  /\ CommitTypes /\ FutureUntouched /\ InWrite /\ LineUntouched /\ ToldIsTrue
  /\ GroupAt /\ NumbersBelow /\ NumbersDiffer
  /\ ResultsAreTrue /\ SyncMeansSynced
=============================================================================
