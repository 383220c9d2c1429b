------------------------------ MODULE PosixEnv ------------------------------
(***************************************************************************)
(* The parts of util/env_posix.cc that threads and processes share: the    *)
(* Limiters on mapped files and descriptors, the lock on the database      *)
(* directory (LockFile, UnlockFile and the PosixLockTable) and the         *)
(* background thread (Schedule).                                           *)
(*                                                                         *)
(* A thread is a pair <<process, number>>; it has at most one table file   *)
(* open and holds the directory lock or not.                               *)
(***************************************************************************)
EXTENDS Integers, Sequences, FiniteSets

CONSTANTS
  Threads,        \* a set of pairs <<process, number>>
  MaxMmaps, MaxOpenFiles,
  MaxItems,       \* bound on the items a process schedules
  None

Processes == {t[1] : t \in Threads}
Kinds == {"closed", "mmap", "fd", "reopen"}

VARIABLES
  pc,        \* what each thread is doing
  file,      \* the kind of table file each thread has open
  mmaps,     \* acquires_allowed_ of mmap_limiter_, per process
  fds,       \* acquires_allowed_ of fd_limiter_, per process
  locked,    \* whether locks_ holds the lock file's name, per process
  owner,     \* the process that has the kernel's lock on the file
  holds,     \* the threads whose LockFile returned OK
  queue,     \* background_work_queue_, per process
  bg,        \* the background thread, per process
  ran,       \* the items that were run, per process
  items      \* how many were scheduled, per process

files == <<file, mmaps, fds>>
locks == <<locked, owner, holds>>
work == <<queue, bg, ran, items>>
vars == <<pc, files, locks, work>>

Init ==
  /\ pc = [t \in Threads |-> "idle"]
  /\ file = [t \in Threads |-> "closed"]
  /\ mmaps = [p \in Processes |-> MaxMmaps]
  /\ fds = [p \in Processes |-> MaxOpenFiles]
  /\ locked = [p \in Processes |-> FALSE]
  /\ owner = None
  /\ holds = {}
  /\ queue = [p \in Processes |-> <<>>]
  /\ bg = [p \in Processes |-> "absent"]
  /\ ran = [p \in Processes |-> <<>>]
  /\ items = [p \in Processes |-> 0]

Goto(t, from, to) == pc[t] = from /\ pc' = [pc EXCEPT ![t] = to]
-----------------------------------------------------------------------------
(* Limiter.  Acquire takes one first and gives it back when there was none *)

AcquiresAtZero(allowed) == allowed >= 0
Acquires(allowed) == allowed > 0

Add(limiter, p, n) == [limiter EXCEPT ![p] = @ + n]

\* NewRandomAccessFile with the file open: the fetch_sub of mmap_limiter_.
AcquireMmap(t) ==
  /\ file[t] = "closed"
  /\ Goto(t, "idle", IF Acquires(mmaps[t[1]]) THEN "mapping" ELSE "mmapBack")
  /\ mmaps' = Add(mmaps, t[1], -1)
  /\ UNCHANGED <<file, fds, locks, work>>

MmapBack(t) ==
  /\ Goto(t, "mmapBack", "acquireFd")
  /\ mmaps' = Add(mmaps, t[1], 1)
  /\ UNCHANGED <<file, fds, locks, work>>

Map(t) ==
  /\ Goto(t, "mapping", "idle")
  /\ file' = [file EXCEPT ![t] = "mmap"]
  /\ UNCHANGED <<mmaps, fds, locks, work>>

\* GetFileSize or mmap fails: the descriptor is closed, the map released.
MapFails(t) ==
  /\ Goto(t, "mapping", "idle")
  /\ mmaps' = Add(mmaps, t[1], 1)
  /\ UNCHANGED <<file, fds, locks, work>>

\* NewDirectIORandomAccessFile goes to fd_limiter_ at once.
OpenDirect(t) ==
  /\ file[t] = "closed"
  /\ Goto(t, "idle", "acquireFd")
  /\ UNCHANGED <<files, locks, work>>

\* The constructors of PosixRandomAccessFile and its direct variant.
AcquireFd(t) ==
  /\ Goto(t, "acquireFd", IF Acquires(fds[t[1]]) THEN "idle" ELSE "fdBack")
  /\ fds' = Add(fds, t[1], -1)
  /\ file' = [file EXCEPT ![t] = IF Acquires(fds[t[1]]) THEN "fd" ELSE @]
  /\ UNCHANGED <<mmaps, locks, work>>

FdBack(t) ==
  /\ Goto(t, "fdBack", "idle")
  /\ fds' = Add(fds, t[1], 1)
  /\ file' = [file EXCEPT ![t] = "reopen"]
  /\ UNCHANGED <<mmaps, locks, work>>

\* The destructors.
CloseFile(t) ==
  /\ pc[t] = "idle" /\ file[t] # "closed"
  /\ file' = [file EXCEPT ![t] = "closed"]
  /\ mmaps' = IF file[t] = "mmap" THEN Add(mmaps, t[1], 1) ELSE mmaps
  /\ fds' = IF file[t] = "fd" THEN Add(fds, t[1], 1) ELSE fds
  /\ UNCHANGED <<pc, locks, work>>
-----------------------------------------------------------------------------
(* LockFile and UnlockFile.  The kernel's record locks belong to processes: *)
(* a process that closes any descriptor of a file loses its lock on it.    *)

CloseDescriptor(p) == owner' = IF owner = p THEN None ELSE owner

InsertAlways(p) == TRUE
Insert(p) == ~locked[p]

LockFile(t) ==
  /\ t \notin holds
  /\ Goto(t, "idle", IF Insert(t[1]) THEN "lock" ELSE "alreadyHeld")
  /\ locked' = [locked EXCEPT ![t[1]] = TRUE]
  /\ UNCHANGED <<owner, holds, files, work>>

AlreadyHeld(t) ==
  /\ Goto(t, "alreadyHeld", "idle")
  /\ CloseDescriptor(t[1])
  /\ UNCHANGED <<locked, holds, files, work>>

LockOrUnlock(t) ==
  /\ owner \in {None, t[1]}
  /\ Goto(t, "lock", "idle")
  /\ owner' = t[1]
  /\ holds' = holds \cup {t}
  /\ UNCHANGED <<locked, files, work>>

LockFails(t) ==
  /\ owner \notin {None, t[1]}
  /\ Goto(t, "lock", "removeName")
  /\ CloseDescriptor(t[1])
  /\ UNCHANGED <<locked, holds, files, work>>

RemoveName(t) ==
  /\ Goto(t, "removeName", "idle")
  /\ locked' = [locked EXCEPT ![t[1]] = FALSE]
  /\ UNCHANGED <<owner, holds, files, work>>

UnlockFile(t) ==
  /\ t \in holds
  /\ Goto(t, "idle", "unlocked")
  /\ CloseDescriptor(t[1])
  /\ holds' = holds \ {t}
  /\ UNCHANGED <<locked, files, work>>

UnlockRemove(t) ==
  /\ Goto(t, "unlocked", "close")
  /\ locked' = [locked EXCEPT ![t[1]] = FALSE]
  /\ UNCHANGED <<owner, holds, files, work>>

UnlockClose(t) ==
  /\ Goto(t, "close", "idle")
  /\ CloseDescriptor(t[1])
  /\ UNCHANGED <<locked, holds, files, work>>
-----------------------------------------------------------------------------
(* Schedule and BackgroundThreadMain *)

SignalsLate(p) == queue[p] # <<>>
Signals(p) == queue[p] = <<>>

SignalAfter(p) ==
  CASE bg[p] = "absent" -> "ready"
    [] bg[p] = "waiting" /\ Signals(p) -> "ready"
    [] OTHER -> bg[p]

Schedule(t) ==
  LET p == t[1]
  IN /\ pc[t] = "idle" /\ items[p] < MaxItems
     /\ items' = [items EXCEPT ![p] = @ + 1]
     /\ queue' = [queue EXCEPT ![p] = Append(@, items'[p])]
     /\ bg' = [bg EXCEPT ![p] = SignalAfter(p)]
     /\ UNCHANGED <<pc, files, locks, ran>>

\* The loop of BackgroundThreadMain up to the call of the function.
TakeWork(p) ==
  /\ bg[p] = "ready"
  /\ IF queue[p] = <<>>
     THEN bg' = [bg EXCEPT ![p] = "waiting"] /\ UNCHANGED <<queue, ran>>
     ELSE /\ bg' = [bg EXCEPT ![p] = "running"]
          /\ queue' = [queue EXCEPT ![p] = Tail(@)]
          /\ ran' = [ran EXCEPT ![p] = Append(@, Head(queue[p]))]
  /\ UNCHANGED <<pc, files, locks, items>>

Return(p) ==
  /\ bg[p] = "running"
  /\ bg' = [bg EXCEPT ![p] = "ready"]
  /\ UNCHANGED <<pc, files, locks, queue, ran, items>>

Background(p) == TakeWork(p) \/ Return(p)

Step(t) ==
  \/ AcquireMmap(t) \/ MmapBack(t) \/ Map(t) \/ MapFails(t) \/ OpenDirect(t)
  \/ AcquireFd(t) \/ FdBack(t) \/ CloseFile(t)
  \/ LockFile(t) \/ AlreadyHeld(t) \/ LockOrUnlock(t) \/ LockFails(t) \/ RemoveName(t)
  \/ UnlockFile(t) \/ UnlockRemove(t) \/ UnlockClose(t)
  \/ Schedule(t)

Next == (\E t \in Threads : Step(t)) \/ (\E p \in Processes : Background(p))

\* The background thread runs; functions return.
Spec == Init /\ [][Next]_vars /\ \A p \in Processes : WF_vars(Background(p))
-----------------------------------------------------------------------------
With(p, kind) == {t \in Threads : t[1] = p /\ file[t] = kind}
Between(p, at) == {t \in Threads : t[1] = p /\ pc[t] = at}

(* No interleaving of the two halves of Acquire with Release keeps more    *)
(* files mapped or open than the limits say, and no resource is lost: what *)
(* the counters miss is held or about to be given back.                    *)
LimitsHold ==
  \A p \in Processes :
    /\ Cardinality(With(p, "mmap")) + Cardinality(Between(p, "mapping")) <= MaxMmaps
    /\ Cardinality(With(p, "fd")) <= MaxOpenFiles
    /\ mmaps[p] + Cardinality(With(p, "mmap")) + Cardinality(Between(p, "mapping"))
         + Cardinality(Between(p, "mmapBack")) = MaxMmaps
    /\ fds[p] + Cardinality(With(p, "fd")) + Cardinality(Between(p, "fdBack")) = MaxOpenFiles

(* LockFile succeeds for one caller of a process at a time.  The kernel's *)
(* lock would not tell its threads apart: this is the PosixLockTable's     *)
(* work, in whatever order names are inserted and removed.                 *)
OneHolderPerProcess == \A t, u \in holds : t[1] = u[1] => t = u

\* The Limiters are exact, and the PosixLockTable excludes.
PosixIsSound == LimitsHold /\ OneHolderPerProcess
=============================================================================
