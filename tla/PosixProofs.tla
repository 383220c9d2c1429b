---------------------------- MODULE PosixProofs ----------------------------
(***************************************************************************)
(* The limits and the lock of PosixEnv hold for every number of processes, *)
(* threads, mapped and open files.                                         *)
(***************************************************************************)
EXTENDS PosixEnv, FiniteSetTheorems, TLAPS

\* Each leaf is tried with SMT, then with Zenon, then with SMT for longer.
USE SMTT(20), ZenonT(30), SMTT(90)

\* The threads are finite in number; the limits are not negative.
Finite == IsFiniteSet(Threads) /\ MaxMmaps \in Nat /\ MaxOpenFiles \in Nat

Opening == {"mapping", "mmapBack", "acquireFd", "fdBack"}
Locking == {"lock", "removeName", "unlocked"}
Places == Opening \cup Locking \cup {"idle", "alreadyHeld", "close"}

PosixTypeOK ==
  /\ pc \in [Threads -> Places] /\ file \in [Threads -> Kinds]
  /\ mmaps \in [Processes -> Int] /\ fds \in [Processes -> Int]
  /\ locked \in [Processes -> BOOLEAN] /\ holds \subseteq Threads

\* A thread that is opening a file has none yet.
OpeningInv == \A t \in Threads : pc[t] \in Opening => file[t] = "closed"

(* A thread between the insertion into locks_ and the removal from it, or  *)
(* whose LockFile returned OK.                                             *)
HasName(t) == t \in holds \/ pc[t] \in Locking

(* At most one thread of a process has the name, which is in the table     *)
(* then; a thread on its way to the lock or from it does not hold it.      *)
NameInv ==
  /\ \A t \in Threads : HasName(t) => locked[t[1]]
  /\ \A t, u \in Threads : HasName(t) /\ HasName(u) /\ t[1] = u[1] => t = u
  /\ \A t \in Threads : pc[t] \in Locking => t \notin holds

LimitInv == PosixTypeOK /\ OpeningInv /\ LimitsHold
LockInv == PosixTypeOK /\ NameInv
-----------------------------------------------------------------------------
\* Every step preserves the types.
LEMMA TypeStep ==
  ASSUME PosixTypeOK, [Next]_vars
  PROVE  PosixTypeOK'
<1>1. ASSUME NEW t \in Threads, Step(t)
      PROVE  PosixTypeOK'
  <2>1. t[1] \in Processes
    BY DEF Processes
  <2>2. CASE AcquireMmap(t) \/ MmapBack(t) \/ Map(t) \/ MapFails(t) \/ OpenDirect(t)
    BY <2>1, <2>2 DEF PosixTypeOK, AcquireMmap, MmapBack, Map, MapFails, OpenDirect,
       Goto, Add, locks, files, Places, Opening, Kinds
  <2>3. CASE AcquireFd(t) \/ FdBack(t) \/ CloseFile(t)
    BY <2>1, <2>3 DEF PosixTypeOK, AcquireFd, FdBack, CloseFile, Goto, Add, locks,
       Places, Opening, Kinds
  <2>4. CASE LockFile(t) \/ AlreadyHeld(t) \/ LockOrUnlock(t) \/ LockFails(t)
    BY ZenonT(30), ZenonT(90), <2>1, <2>4 DEF PosixTypeOK, LockFile, AlreadyHeld, LockOrUnlock, LockFails,
       Goto, files, Places, Locking
  <2>5. CASE RemoveName(t) \/ UnlockFile(t) \/ UnlockRemove(t) \/ UnlockClose(t)
    BY ZenonT(30), ZenonT(90), <2>1, <2>5 DEF PosixTypeOK, RemoveName, UnlockFile, UnlockRemove, UnlockClose,
       Goto, files, Places, Locking
  <2>6. CASE Schedule(t)
    BY <2>6 DEF PosixTypeOK, Schedule, files, locks
  <2> QED
    BY <1>1, <2>2, <2>3, <2>4, <2>5, <2>6 DEF Step
<1>2. ASSUME NEW p \in Processes, Background(p)
      PROVE  PosixTypeOK'
  BY <1>2 DEF PosixTypeOK, Background, TakeWork, Return, files, locks
<1>3. CASE UNCHANGED vars
  BY <1>3 DEF PosixTypeOK, vars, files, locks
<1> QED
  BY <1>1, <1>2, <1>3 DEF Next
-----------------------------------------------------------------------------
(* The lock *)

\* Every step preserves NameInv.
LEMMA LockStep ==
  ASSUME LockInv, [Next]_vars
  PROVE  LockInv'
<1>1. PosixTypeOK'
  BY TypeStep DEF LockInv
<1>2. ASSUME NEW t \in Threads, Step(t)
      PROVE  NameInv'
  <2>1. t[1] \in Processes /\ \A u \in Threads : u[1] \in Processes
    BY DEF Processes
  <2>2. CASE \/ AcquireMmap(t) \/ MmapBack(t) \/ Map(t) \/ MapFails(t) \/ OpenDirect(t)
             \/ AcquireFd(t) \/ FdBack(t) \/ CloseFile(t)
    <3>1. holds' = holds /\ locked' = locked
      BY <2>2 DEF AcquireMmap, MmapBack, Map, MapFails, OpenDirect, AcquireFd, FdBack,
         CloseFile, locks
    <3>2. \A u \in Threads : pc'[u] \in Locking <=> pc[u] \in Locking
      BY <2>2 DEF LockInv, PosixTypeOK, AcquireMmap, MmapBack, Map, MapFails,
         OpenDirect, AcquireFd, FdBack, CloseFile, Goto, Locking
    <3> QED
      BY <3>1, <3>2 DEF LockInv, NameInv, HasName
  <2>3. CASE LockFile(t)
    <3>1. CASE Insert(t[1])
      BY <2>1, <2>3, <3>1 DEF LockInv, PosixTypeOK, NameInv, HasName, LockFile, Goto,
         Insert, Locking
    <3>2. CASE ~Insert(t[1])
      BY <2>1, <2>3, <3>2 DEF LockInv, PosixTypeOK, NameInv, HasName, LockFile, Goto,
         Insert, Locking
    <3> QED
      BY <3>1, <3>2
  <2>4. CASE AlreadyHeld(t) \/ UnlockClose(t)
    BY <2>1, <2>4 DEF LockInv, PosixTypeOK, NameInv, HasName, AlreadyHeld, UnlockClose,
       Goto, Locking
  <2>5. CASE LockOrUnlock(t) \/ LockFails(t) \/ UnlockFile(t)
    BY <2>1, <2>5 DEF LockInv, PosixTypeOK, NameInv, HasName, LockOrUnlock, LockFails,
       UnlockFile, Goto, Locking
  <2>6. CASE RemoveName(t) \/ UnlockRemove(t)
    BY <2>1, <2>6 DEF LockInv, PosixTypeOK, NameInv, HasName, RemoveName, UnlockRemove,
       Goto, Locking
  <2>7. CASE Schedule(t)
    BY <2>7 DEF LockInv, NameInv, HasName, Schedule, locks
  <2> QED
    BY <1>2, <2>2, <2>3, <2>4, <2>5, <2>6, <2>7 DEF Step
<1>3. ASSUME NEW p \in Processes, Background(p)
      PROVE  NameInv'
  BY <1>3 DEF LockInv, NameInv, HasName, Background, TakeWork, Return, locks
<1>4. CASE UNCHANGED vars
  <2>1. pc' = pc /\ locked' = locked /\ holds' = holds
    BY <1>4 DEF vars, locks
  <2> QED
    BY <1>1, <2>1 DEF LockInv, NameInv, HasName
<1> QED
  BY <1>1, <1>2, <1>3, <1>4 DEF Next, LockInv

(* LockFile never succeeds for two callers of a process at a time, however *)
(* many threads call it and UnlockFile in whatever order.                  *)
THEOREM LockExclusion ==
  ASSUME Finite
  PROVE  Spec => []OneHolderPerProcess
<1>1. Init => LockInv
  BY DEF Finite, Init, LockInv, PosixTypeOK, NameInv, HasName, Places, Kinds, Locking
<1>2. LockInv /\ [Next]_vars => LockInv'
  BY LockStep
<1>3. LockInv => OneHolderPerProcess
  BY DEF LockInv, PosixTypeOK, NameInv, HasName, OneHolderPerProcess
<1> QED
  BY <1>1, <1>2, <1>3, PTL DEF Spec
-----------------------------------------------------------------------------
(* The limits *)

Bit(b) == IF b THEN 1 ELSE 0

\* Sets of threads that differ at most in t differ in size by t's membership.
LEMMA SizeChange ==
  ASSUME Finite, NEW S \in SUBSET Threads, NEW T \in SUBSET Threads,
         NEW t \in Threads, S \ {t} = T \ {t}
  PROVE  /\ Cardinality(S) \in Nat /\ Cardinality(T) \in Nat
         /\ Cardinality(T) = Cardinality(S) + Bit(t \in T) - Bit(t \in S)
<1> DEFINE R == S \ {t}
<1>1. IsFiniteSet(S) /\ IsFiniteSet(T) /\ IsFiniteSet(R)
  BY FS_Subset DEF Finite
<1>2. Cardinality(S) \in Nat /\ Cardinality(T) \in Nat /\ Cardinality(R) \in Nat
  BY <1>1, FS_CardinalityType
<1>3. Cardinality(R \cup {t}) = Cardinality(R) + 1
  <2>1. t \notin R
    OBVIOUS
  <2> QED
    BY ZenonT(30), ZenonT(90), <1>1, <2>1, FS_AddElement
<1>4. (t \in S => S = R \cup {t}) /\ (t \notin S => S = R)
  OBVIOUS
<1>5. (t \in T => T = R \cup {t}) /\ (t \notin T => T = R)
  OBVIOUS
<1> HIDE DEF R
<1>6. Cardinality(S) = Cardinality(R) + Bit(t \in S)
  <2>1. CASE t \in S
    BY <1>2, <1>3, <1>4, <2>1 DEF Bit
  <2>2. CASE t \notin S
    BY <1>2, <1>4, <2>2 DEF Bit
  <2> QED
    BY <2>1, <2>2
<1>7. Cardinality(T) = Cardinality(R) + Bit(t \in T)
  <2>1. CASE t \in T
    BY ZenonT(30), ZenonT(90), <1>2, <1>3, <1>5, <2>1 DEF Bit
  <2>2. CASE t \notin T
    BY <1>2, <1>5, <2>2 DEF Bit
  <2> QED
    BY <2>1, <2>2
<1> QED
  BY <1>2, <1>6, <1>7 DEF Bit

\* What LimitsHold says of one process.
LimitsAt(p) ==
  /\ Cardinality(With(p, "mmap")) + Cardinality(Between(p, "mapping")) <= MaxMmaps
  /\ Cardinality(With(p, "fd")) <= MaxOpenFiles
  /\ mmaps[p] + Cardinality(With(p, "mmap")) + Cardinality(Between(p, "mapping"))
       + Cardinality(Between(p, "mmapBack")) = MaxMmaps
  /\ fds[p] + Cardinality(With(p, "fd")) + Cardinality(Between(p, "fdBack")) = MaxOpenFiles

\* A step of t changes nothing of the other threads and processes.
Frame(t) ==
  /\ \A u \in Threads : u # t => pc'[u] = pc[u] /\ file'[u] = file[u]
  /\ \A p \in Processes : p # t[1] => mmaps'[p] = mmaps[p] /\ fds'[p] = fds[p]

\* What a step of t does to the counters of its own process, and what it may.
Moves(t) ==
  LET q == t[1]
      now(k) == Bit(file'[t] = k) - Bit(file[t] = k)
      at(l) == Bit(pc'[t] = l) - Bit(pc[t] = l)
  IN /\ mmaps'[q] - mmaps[q] = -(now("mmap") + at("mapping") + at("mmapBack"))
     /\ fds'[q] - fds[q] = -(now("fd") + at("fdBack"))
     /\ now("mmap") + at("mapping") > 0 => mmaps[q] > 0 /\ now("mmap") + at("mapping") = 1
     /\ now("fd") > 0 => fds[q] > 0 /\ now("fd") = 1

\* Every step of a thread is such a step: Acquire, Release and the rest.
LEMMA StepMoves ==
  ASSUME PosixTypeOK, OpeningInv, NEW t \in Threads, Step(t)
  PROVE  Frame(t) /\ Moves(t) /\ OpeningInv'
<1>1. t[1] \in Processes
  BY DEF Processes
<1> USE DEF PosixTypeOK, OpeningInv, Frame, Moves, Bit, Goto, Add, Acquires, Opening
<1>2. CASE AcquireMmap(t)
  BY <1>1, <1>2 DEF AcquireMmap
<1>3. CASE MmapBack(t)
  BY <1>1, <1>3 DEF MmapBack
<1>4. CASE Map(t)
  BY <1>1, <1>4 DEF Map
<1>5. CASE MapFails(t)
  BY <1>1, <1>5 DEF MapFails
<1>6. CASE OpenDirect(t)
  BY <1>1, <1>6 DEF OpenDirect, files
<1>7. CASE AcquireFd(t)
  BY <1>1, <1>7 DEF AcquireFd
<1>8. CASE FdBack(t)
  BY <1>1, <1>8 DEF FdBack
<1>9. CASE CloseFile(t)
  BY <1>1, <1>9 DEF CloseFile, Kinds
<1>10. CASE LockFile(t) \/ AlreadyHeld(t) \/ LockOrUnlock(t) \/ LockFails(t) \/ RemoveName(t)
  BY <1>1, <1>10 DEF LockFile, AlreadyHeld, LockOrUnlock, LockFails, RemoveName, files
<1>11. CASE UnlockFile(t) \/ UnlockRemove(t) \/ UnlockClose(t)
  BY <1>1, <1>11 DEF UnlockFile, UnlockRemove, UnlockClose, files
<1>12. CASE Schedule(t)
  BY <1>1, <1>12 DEF Schedule, files
<1> QED
  BY ZenonT(30), ZenonT(90), <1>2, <1>3, <1>4, <1>5, <1>6, <1>7, <1>8, <1>9, <1>10, <1>11, <1>12 DEF Step

\* Such a step keeps the limits of every process.
LEMMA MovesKeepLimits ==
  ASSUME Finite, PosixTypeOK, PosixTypeOK', NEW t \in Threads, Frame(t), Moves(t),
         NEW p \in Processes, LimitsAt(p)
  PROVE  LimitsAt(p)'
<1>1. CASE p # t[1]
  <2>1. ASSUME NEW k PROVE With(p, k)' = With(p, k) /\ Between(p, k)' = Between(p, k)
    BY <1>1 DEF Frame, With, Between
  <2> QED
    BY <1>1, <2>1 DEF Frame, LimitsAt
<1>2. CASE p = t[1]
  <2>1. ASSUME NEW k
        PROVE  /\ Cardinality(With(p, k)) \in Nat /\ Cardinality(With(p, k)') \in Nat
               /\ Cardinality(With(p, k)')
                    = Cardinality(With(p, k)) + Bit(file'[t] = k) - Bit(file[t] = k)
    <3> DEFINE S == With(p, k)
               T == With(p, k)'
    <3>1. S \in SUBSET Threads /\ T \in SUBSET Threads /\ S \ {t} = T \ {t}
      BY DEF Frame, With
    <3>2. (t \in S <=> file[t] = k) /\ (t \in T <=> file'[t] = k)
      BY <1>2 DEF With
    <3> HIDE DEF S, T
    <3>3. /\ Cardinality(S) \in Nat /\ Cardinality(T) \in Nat
          /\ Cardinality(T) = Cardinality(S) + Bit(t \in T) - Bit(t \in S)
      BY <3>1, SizeChange
    <3>4. Cardinality(T) = Cardinality(S) + Bit(file'[t] = k) - Bit(file[t] = k)
      BY <3>2, <3>3 DEF Bit
    <3> QED
      BY <3>3, <3>4 DEF S, T
  <2>2. ASSUME NEW l
        PROVE  /\ Cardinality(Between(p, l)) \in Nat /\ Cardinality(Between(p, l)') \in Nat
               /\ Cardinality(Between(p, l)')
                    = Cardinality(Between(p, l)) + Bit(pc'[t] = l) - Bit(pc[t] = l)
    <3> DEFINE S == Between(p, l)
               T == Between(p, l)'
    <3>1. S \in SUBSET Threads /\ T \in SUBSET Threads /\ S \ {t} = T \ {t}
      BY DEF Frame, Between
    <3>2. (t \in S <=> pc[t] = l) /\ (t \in T <=> pc'[t] = l)
      BY <1>2 DEF Between
    <3> HIDE DEF S, T
    <3>3. /\ Cardinality(S) \in Nat /\ Cardinality(T) \in Nat
          /\ Cardinality(T) = Cardinality(S) + Bit(t \in T) - Bit(t \in S)
      BY <3>1, SizeChange
    <3>4. Cardinality(T) = Cardinality(S) + Bit(pc'[t] = l) - Bit(pc[t] = l)
      BY <3>2, <3>3 DEF Bit
    <3> QED
      BY <3>3, <3>4 DEF S, T
  <2>3. /\ mmaps[p] \in Int /\ mmaps'[p] \in Int /\ fds[p] \in Int /\ fds'[p] \in Int
        /\ MaxMmaps \in Nat /\ MaxOpenFiles \in Nat
    BY DEF PosixTypeOK, Finite
  <2> DEFINE now(k) == Bit(file'[t] = k) - Bit(file[t] = k)
             at(l) == Bit(pc'[t] = l) - Bit(pc[t] = l)
             mapped == Cardinality(With(p, "mmap"))
             opened == Cardinality(With(p, "fd"))
             mapping == Cardinality(Between(p, "mapping"))
             mmapBack == Cardinality(Between(p, "mmapBack"))
             fdBack == Cardinality(Between(p, "fdBack"))
  <2>4. \A k : now(k) \in Int /\ at(k) \in Int
    BY DEF Bit
  <2>5. /\ mapped \in Nat /\ mapped' = mapped + now("mmap")
        /\ opened \in Nat /\ opened' = opened + now("fd")
        /\ mapping \in Nat /\ mapping' = mapping + at("mapping")
        /\ mmapBack \in Nat /\ mmapBack' = mmapBack + at("mmapBack")
        /\ fdBack \in Nat /\ fdBack' = fdBack + at("fdBack")
    <3> HIDE DEF Bit
    <3> QED
      BY <2>1, <2>2
  <2>6. /\ mmaps'[p] - mmaps[p] = -(now("mmap") + at("mapping") + at("mmapBack"))
        /\ fds'[p] - fds[p] = -(now("fd") + at("fdBack"))
        /\ now("mmap") + at("mapping") > 0 =>
             mmaps[p] > 0 /\ now("mmap") + at("mapping") = 1
        /\ now("fd") > 0 => fds[p] > 0 /\ now("fd") = 1
    BY <1>2 DEF Moves
  <2>7. /\ mapped + mapping <= MaxMmaps /\ opened <= MaxOpenFiles
        /\ mmaps[p] + mapped + mapping + mmapBack = MaxMmaps
        /\ fds[p] + opened + fdBack = MaxOpenFiles
    BY DEF LimitsAt
  <2>8. /\ now("mmap") \in Int /\ now("fd") \in Int /\ at("mapping") \in Int
        /\ at("mmapBack") \in Int /\ at("fdBack") \in Int
    BY ZenonT(30), ZenonT(90), <2>4
  <2> HIDE DEF now, at, mapped, opened, mapping, mmapBack, fdBack
  <2>9. mapped' + mapping' <= MaxMmaps /\ opened' <= MaxOpenFiles
    BY <2>3, <2>5, <2>6, <2>7, <2>8
  <2>10. /\ mmaps'[p] + mapped' + mapping' + mmapBack' = MaxMmaps
         /\ fds'[p] + opened' + fdBack' = MaxOpenFiles
    BY <2>3, <2>5, <2>6, <2>7, <2>8
  <2> QED
    BY <2>9, <2>10 DEF LimitsAt, mapped, opened, mapping, mmapBack, fdBack
<1> QED
  BY <1>1, <1>2

\* Every step preserves LimitInv.
LEMMA LimitStep ==
  ASSUME Finite, LimitInv, [Next]_vars
  PROVE  LimitInv'
<1>1. PosixTypeOK'
  BY TypeStep DEF LimitInv
<1>2. ASSUME NEW t \in Threads, Step(t)
      PROVE  LimitInv'
  <2>1. Frame(t) /\ Moves(t) /\ OpeningInv'
    BY <1>2, StepMoves DEF LimitInv
  <2>2. ASSUME NEW p \in Processes
        PROVE  LimitsAt(p)'
    BY <1>1, <2>1, MovesKeepLimits DEF LimitInv, LimitsHold, LimitsAt
  <2>3. LimitsHold'
    BY <2>2 DEF LimitsHold, LimitsAt, Processes
  <2> QED
    BY <1>1, <2>1, <2>3 DEF LimitInv
<1>3. CASE UNCHANGED <<pc, files>>
  BY ZenonT(30), ZenonT(90), <1>1, <1>3 DEF LimitInv, OpeningInv, LimitsHold, With, Between, files
<1>4. (\E p \in Processes : Background(p)) => UNCHANGED <<pc, files>>
  BY DEF Background, TakeWork, Return
<1>5. UNCHANGED vars => UNCHANGED <<pc, files>>
  BY DEF vars
<1> QED
  BY <1>2, <1>3, <1>4, <1>5 DEF Next

(* The Limiters are never overdrawn and leak nothing, however many threads *)
(* of a process are between the two halves of Acquire: what the counters   *)
(* miss of the limits is held or about to be given back.                   *)
THEOREM LimiterSafety ==
  ASSUME Finite
  PROVE  Spec => []LimitsHold
<1>1. Init => LimitInv
  <2> SUFFICES ASSUME Init PROVE LimitInv
    OBVIOUS
  <2>1. PosixTypeOK /\ OpeningInv
    BY DEF Finite, Init, PosixTypeOK, OpeningInv, Places, Kinds, Opening
  <2>2. ASSUME NEW p \in Processes
        PROVE  /\ With(p, "mmap") = {} /\ With(p, "fd") = {}
               /\ Between(p, "mapping") = {} /\ Between(p, "mmapBack") = {}
               /\ Between(p, "fdBack") = {}
    BY DEF Init, With, Between
  <2>3. Cardinality({}) = 0
    BY FS_EmptySet
  <2>4. ASSUME NEW p \in Processes
        PROVE  LimitsAt(p)
    <3>1. mmaps[p] = MaxMmaps /\ fds[p] = MaxOpenFiles
      BY DEF Init
    <3> QED
      BY <2>2, <2>3, <3>1 DEF Finite, LimitsAt
  <2>5. LimitsHold
    BY ZenonT(30), ZenonT(90), <2>4 DEF LimitsHold, LimitsAt
  <2> QED
    BY <2>1, <2>5 DEF LimitInv
<1>2. LimitInv /\ [Next]_vars => LimitInv'
  BY LimitStep
<1>3. LimitInv => LimitsHold
  BY DEF LimitInv
<1> QED
  BY <1>1, <1>2, <1>3, PTL DEF Spec
=============================================================================
