------------------------------ MODULE MemTable ------------------------------
(***************************************************************************)
(* The memtable: one thread adds entries (db/memtable.cc), which inserts   *)
(* nodes into the skip list (db/skiplist.h) link by link, while another    *)
(* one, without a lock, looks keys up and moves an iterator.               *)
(*                                                                         *)
(* A node is its internal key, written as a number that orders keys as the *)
(* InternalKeyComparator does; Head is smaller than all, Null greater.     *)
(***************************************************************************)
EXTENDS Integers, FiniteSets, FiniteSetsExt

CONSTANTS
  UserKeys,     \* a set 1 .. n
  MaxSequence,  \* bound on the number of entries
  kMaxHeight,
  Garbage       \* what next_ holds before it is set

kTypeDeletion == 0
kTypeValue == 1
Types == {kTypeDeletion, kTypeValue}

Span == 2 * MaxSequence + 2
\* Larger tags come first.
InternalKey(u, s, type) == u * Span + (Span - 1) - (2 * s + type)
ExtractUserKey(k) == k \div Span
ExtractSequence(k) == ((Span - 1) - (k % Span)) \div 2
ExtractType(k) == ((Span - 1) - (k % Span)) % 2
LookupKeyLow(u, s) == InternalKey(u, s, kTypeDeletion)
LookupKey(u, s) == InternalKey(u, s, kTypeValue)

Head == 0
Null == (Max(UserKeys) + 1) * Span

VARIABLES
  next,     \* next_ of the nodes that were allocated, by node and level
  height,   \* max_height_
  seq,      \* the last sequence number that writers published
  w,        \* the writer: its node, levels to link and where; entries added
  r         \* the reader

vars == <<next, height, seq, w, r>>

Levels == 1 .. kMaxHeight   \* level i of the code is i + 1 here
Idle == [pc |-> "idle", op |-> "none", key |-> 0, x |-> Head, level |-> 0, node |-> Null, s |-> 0,
         base |-> {}]

Init ==
  /\ next = [n \in {Head} |-> [i \in Levels |-> Null]]
  /\ height = 1
  /\ seq = 0
  /\ w = [pc |-> "idle", node |-> Null, top |-> 0, level |-> 0, added |-> {}]
  /\ r = Idle

Nodes == DOMAIN next
-----------------------------------------------------------------------------
(* MemTable::Add and SkipList::Insert.  The writer's search sees a list    *)
(* that only it changes.                                                   *)

RECURSIVE FindPrev(_, _, _)
FindPrev(x, key, i) == IF next[x][i] < key THEN FindPrev(next[x][i], key, i) ELSE x

\* The nodes before key at each level; head_ above max_height_.
Prev(key) == [i \in Levels |-> IF i <= height THEN FindPrev(Head, key, i) ELSE Head]

Add(u, type, top) ==
  /\ w.pc = "idle" /\ seq < MaxSequence
  /\ w' = [w EXCEPT !.pc = "height", !.node = InternalKey(u, seq + 1, type), !.top = top]
  /\ UNCHANGED <<next, height, seq, r>>

\* The new node's links are not initialised.
StoreHeight ==
  /\ w.pc = "height"
  /\ height' = Max({height, w.top})
  /\ next' = [n \in Nodes \cup {w.node} |->
                IF n = w.node THEN [i \in Levels |-> Garbage] ELSE next[n]]
  /\ w' = [w EXCEPT !.pc = "set", !.level = 1]
  /\ UNCHANGED <<seq, r>>

SetOwnLinkNever ==
  /\ w.pc = "set"
  /\ w' = [w EXCEPT !.pc = "publish"]
  /\ UNCHANGED <<next, height, seq, r>>

\* x->NoBarrier_SetNext(i, ...), then prev[i]->SetNext(i, x).
SetOwnLink ==
  /\ w.pc = "set"
  /\ next' = [next EXCEPT ![w.node][w.level] = next[Prev(w.node)[w.level]][w.level]]
  /\ w' = [w EXCEPT !.pc = "publish"]
  /\ UNCHANGED <<height, seq, r>>

PublishLink ==
  /\ w.pc = "publish"
  /\ next' = [next EXCEPT ![Prev(w.node)[w.level]][w.level] = w.node]
  /\ LET last == w.level = w.top
     IN w' = [w EXCEPT !.pc = IF last THEN "publishSequence" ELSE "set",
                       !.level = IF last THEN 0 ELSE @ + 1,
                       !.added = @ \cup {w.node}]
  /\ UNCHANGED <<height, seq, r>>

\* DBImpl::Write sets the last sequence after the insertion.
PublishSequence ==
  /\ w.pc = "publishSequence"
  /\ seq' = seq + 1
  /\ w' = [w EXCEPT !.pc = "idle", !.node = Null, !.top = 0]
  /\ UNCHANGED <<next, height, r>>

Writer ==
  \/ \E u \in UserKeys, type \in Types, top \in Levels : Add(u, type, top)
  \/ StoreHeight \/ SetOwnLink \/ PublishLink \/ PublishSequence
-----------------------------------------------------------------------------
(* The reader.  A search goes on from x at a level; the load of            *)
(* max_height_ is relaxed and may return any value it had.                 *)

Search(op, key, s) ==
  \E h \in 1 .. height :
    r' = [pc |-> "search", op |-> op, key |-> key, x |-> Head, level |-> h, node |-> Null,
          s |-> s, base |-> w.added]

Begin == r.pc = "idle" /\ UNCHANGED <<next, height, seq, w>>

\* MemTable::Get at the last sequence or at an older snapshot.
Get(u) == Begin /\ \E s \in 0 .. seq : Search("get", LookupKey(u, s), s)
Seek(u) == Begin /\ \E s \in 0 .. seq : Search("seek", LookupKey(u, s), s)
SeekToLast == Begin /\ Search("last", Null, 0)
IterPrev == Begin /\ r.node # Null /\ Search("prev", r.node, 0)

SeekToFirst ==
  /\ Begin
  /\ r' = [Idle EXCEPT !.op = "first", !.node = next[Head][1], !.base = w.added]
IterNext ==
  /\ Begin /\ r.node # Null
  /\ r' = [Idle EXCEPT !.op = "next", !.key = r.node, !.node = next[r.node][1],
                       !.base = w.added]

KeyIsAfterNode(key, n) == n # Null /\ n < key

\* FindLast (whose key is Null), FindGreaterOrEqual and FindLessThan: they
\* go on while the next node is smaller; they return it or the last one.
SearchStep ==
  LET n == next[r.x][r.level]
  IN /\ r.pc = "search"
     /\ r' = IF KeyIsAfterNode(r.key, n) THEN [r EXCEPT !.x = n]
             ELSE IF n # Garbage /\ r.level > 1 THEN [r EXCEPT !.level = @ - 1]
             ELSE [r EXCEPT !.pc = "idle", !.level = 0, !.x = Head,
                            !.node = IF r.op \in {"get", "seek"} THEN n
                                     ELSE IF r.x = Head THEN Null ELSE r.x]
     /\ UNCHANGED <<next, height, seq, w>>

Reader ==
  \/ \E u \in UserKeys : Get(u) \/ Seek(u)
  \/ SeekToLast \/ IterPrev \/ SeekToFirst \/ IterNext \/ SearchStep

Next == Writer \/ Reader
Spec == Init /\ [][Next]_vars
-----------------------------------------------------------------------------
(* What a finished operation had to find among the entries that were in    *)
(* the list when it began, whatever was inserted meanwhile.                *)

GetResult(u) ==
  IF r.node # Null /\ ExtractUserKey(r.node) = u THEN r.node ELSE Null
Expected(u, s) ==
  Min({Null} \cup {k \in w.added : ExtractUserKey(k) = u /\ ExtractSequence(k) <= s})

(* A search never follows a link that was not set, and it never misses an  *)
(* entry that was in the list before it began: Seek and Next stop at the   *)
(* next one or before it, Prev and SeekToLast at the last one or after.    *)
SearchesFindOldEntries ==
  /\ r.node # Garbage
  /\ r.pc = "idle" =>
       /\ r.op \in {"get", "seek", "next", "first"} =>
            /\ r.node = Null \/ r.node >= r.key
            /\ \A k \in r.base : k < r.node => k < r.key \/ (r.op = "next" /\ k = r.key)
       /\ r.op \in {"prev", "last"} =>
            /\ r.node = Null \/ r.node < r.key
            /\ \A k \in r.base : k < r.key => r.node # Null /\ k <= r.node

(* A lookup at a snapshot returns the newest entry of the key that the     *)
(* snapshot sees, also while entries of the same key are being inserted,   *)
(* and returns the same when it is repeated.                               *)
GetIsRepeatable ==
  (r.pc = "idle" /\ r.op = "get") =>
    LET u == ExtractUserKey(r.key)
    IN GetResult(u) = Expected(u, r.s)
=============================================================================
