----------------------------- MODULE BlockReads -----------------------------
(***************************************************************************)
(* How the bytes of a data block reach an iterator: the three kinds of     *)
(* table files of util/env_posix.cc (pread, aligned pread with direct I/O, *)
(* mmap), the ReadBuffer that owns what a read allocated                   *)
(* (util/read_buffer.cc), ReadBlock (table/format.cc), and                 *)
(* Table::BlockReader (table/table.cc), whose block belongs to the block   *)
(* cache or to the iterator.                                               *)
(*                                                                         *)
(* Clients run BlockReader concurrently; between the lookup in the cache   *)
(* and the insertion they hold no lock.  Byte i of the file is the number  *)
(* i, so that misplaced bytes show.                                        *)
(***************************************************************************)
EXTENDS Integers, Sequences, FiniteSets, Functions

CONSTANTS
  Handles,       \* the data blocks: [block -> [offset, size, compressed]]
  FileSize,
  kBlockTrailerSize,
  Alignment,     \* 512, what direct I/O needs
  Clients,
  MaxReads,      \* bound on the calls of BlockReader
  None

Blocks == DOMAIN Handles
Kinds == {"pread", "direct", "mmap"}
Mapped == -1   \* a pointer into the mapped file
Nullptr == 0
Garbage == -1
Pointers == 1 .. 4 * (Cardinality(Clients) + Cardinality(Blocks))
MinOf(a, b) == IF a < b THEN a ELSE b

VARIABLES
  kind,     \* which RandomAccessFile the table was opened with
  heap,     \* the bytes behind each allocated pointer
  twice,    \* history: a pointer was freed that was not allocated
  cache,    \* [Blocks -> the Block object in the cache, or None]
  client,   \* [pc, b, fill, block] of each client
  reads

vars == <<kind, heap, twice, cache, client, reads>>

Init ==
  /\ kind \in Kinds
  /\ heap = <<>>
  /\ twice = FALSE
  /\ cache = [b \in Blocks |-> None]
  /\ client = [c \in Clients |-> [pc |-> "idle", b |-> None, fill |-> FALSE, block |-> None,
                                  cached |-> FALSE]]
  /\ reads = 0
-----------------------------------------------------------------------------
(* The operating system.                                                   *)

FileBytes(offset, n) == [i \in 1 .. MinOf(n, FileSize - offset) |-> offset + i - 1]
NewPointer(h) == CHOOSE p \in Pointers : p \notin DOMAIN h
\* What pread leaves in a buffer of n bytes.
Filled(offset, n) ==
  LET bytes == FileBytes(offset, n)
  IN  [i \in 1 .. n |-> IF i <= Len(bytes) THEN bytes[i] ELSE Garbage]
Allocated(h, p, bytes) == [q \in DOMAIN h \cup {p} |-> IF q = p THEN bytes ELSE h[q]]
Freed(h, p) == IF p \in {Nullptr, Mapped} THEN h ELSE Restrict(h, DOMAIN h \ {p})
FreesTwice(h, p) == p \notin {Nullptr, Mapped} /\ p \notin DOMAIN h
-----------------------------------------------------------------------------
(* RandomAccessFile::Read.  The result is the heap, the pointer that the   *)
(* ReadBuffer owns, and the slice: where it points, its offset and length. *)

PosixRead(h, offset, n) ==
  LET p == NewPointer(h)
  IN  [heap |-> Allocated(h, p, Filled(offset, n)), owned |-> p,
       slice |-> [p |-> p, from |-> 0, len |-> Len(FileBytes(offset, n))]]

GetBeforeAlignedValue(val) == val - (val % Alignment)
GetAfterAlignedValue(val) == LET mod == val % Alignment
                             IN  val + (IF mod = 0 THEN 0 ELSE Alignment - mod)

NewAlignedDataUnmoved(offset, n) ==
  [offset |-> GetBeforeAlignedValue(offset), size |-> GetAfterAlignedValue(n), user_offset |-> 0]

NewAlignedData(offset, n) ==
  LET aligned == GetBeforeAlignedValue(offset)
  IN  [offset |-> aligned, size |-> GetAfterAlignedValue(n + (offset - aligned)),
       user_offset |-> offset - aligned]

\* The slice has n bytes however many were read.
DirectIORead(h, offset, n) ==
  LET data == NewAlignedData(offset, n)
      p == NewPointer(h)
  IN  [heap |-> Allocated(h, p, Filled(data.offset, data.size)), owned |-> p,
       slice |-> [p |-> p, from |-> data.user_offset, len |-> n]]

\* The buffer owns nothing.  A read past the end, where no block is, is refused.
MmapRead(h, offset, n) ==
  [heap |-> h, owned |-> Nullptr, slice |-> [p |-> Mapped, from |-> offset, len |-> n]]

FileRead(h, offset, n) ==
  CASE kind = "pread" -> PosixRead(h, offset, n)
    [] kind = "direct" -> DirectIORead(h, offset, n)
    [] kind = "mmap" -> MmapRead(h, offset, n)

BytesAt(h, slice) ==
  IF slice.p = Mapped THEN FileBytes(slice.from, slice.len)
  ELSE SubSeq(h[slice.p], slice.from + 1, slice.from + slice.len)
-----------------------------------------------------------------------------
(* ReadBlock.  The local ReadBuffer frees its pointer on return, unless it *)
(* was moved to the block.                                                 *)

Uncompress(bytes) == [i \in DOMAIN bytes |-> -1 - bytes[i]]

\* A move that leaves the pointer with the source as well.
MoveShared(r, n) ==
  [heap |-> Freed(r.heap, r.owned),
   block |-> [slice |-> [r.slice EXCEPT !.len = n], buffer |-> r.owned,
              cachale |-> r.owned # Nullptr]]

MoveBuffer(r, n) ==
  [heap |-> r.heap,
   block |-> [slice |-> [r.slice EXCEPT !.len = n], buffer |-> r.owned,
              cachale |-> r.owned # Nullptr]]

UncompressBlock(r, n) ==
  LET p == NewPointer(r.heap)
      bytes == Uncompress(BytesAt(r.heap, [r.slice EXCEPT !.len = n]))
  IN  [heap |-> Freed(Allocated(r.heap, p, bytes), r.owned),
       block |-> [slice |-> [p |-> p, from |-> 0, len |-> n], buffer |-> p, cachale |-> FALSE]]

ReadBlock(h, b) ==
  LET n == Handles[b].size
      r == FileRead(h, Handles[b].offset, n + kBlockTrailerSize)
  IN  IF Handles[b].compressed THEN UncompressBlock(r, n) ELSE MoveBuffer(r, n)

\* A read error, a wrong checksum, or text that does not uncompress.
ReadBlockFails(h, b) ==
  LET r == FileRead(h, Handles[b].offset, Handles[b].size + kBlockTrailerSize)
  IN  Freed(r.heap, r.owned)
-----------------------------------------------------------------------------
(* Table::BlockReader and the cleanup of its iterator.                     *)

Using(block) == {c \in Clients : client[c].block = block}

Lookup(c, b, fill) ==
  /\ client[c].pc = "idle" /\ reads < MaxReads
  /\ reads' = reads + 1
  /\ IF cache[b] # None
     THEN client' = [client EXCEPT ![c] = [pc |-> "iterate", b |-> b, fill |-> fill,
                                           block |-> cache[b], cached |-> TRUE]]
     ELSE client' = [client EXCEPT ![c] = [@ EXCEPT !.pc = "read", !.b = b, !.fill = fill]]
  /\ UNCHANGED <<kind, heap, twice, cache>>

Read(c) ==
  /\ client[c].pc = "read"
  /\ \E r \in {ReadBlock(heap, client[c].b)} :
       /\ heap' = r.heap
       /\ client' = [client EXCEPT ![c] = [@ EXCEPT
                       !.block = r.block,
                       !.pc = IF r.block.cachale /\ client[c].fill THEN "insert" ELSE "iterate"]]
  /\ UNCHANGED <<kind, twice, cache, reads>>

ReadFails(c) ==
  /\ client[c].pc = "read"
  /\ heap' = ReadBlockFails(heap, client[c].b)
  /\ client' = [client EXCEPT ![c] = [@ EXCEPT !.pc = "idle", !.b = None]]
  /\ UNCHANGED <<kind, twice, cache, reads>>

\* Deleting a block deletes its ReadBuffer.
DeleteBlock(block) ==
  /\ heap' = Freed(heap, block.buffer)
  /\ twice' = (twice \/ FreesTwice(heap, block.buffer))

\* The entry that an insertion replaces goes when its last user releases it.
NoLongerCachedAtOnce(b, users) ==
  IF cache[b] # None THEN DeleteBlock(cache[b]) ELSE UNCHANGED <<heap, twice>>

NoLongerCached(b, users) ==
  IF cache[b] # None /\ users = {} THEN DeleteBlock(cache[b]) ELSE UNCHANGED <<heap, twice>>

CachedUsers(block) == {c \in Using(block) : client[c].cached}

Insert(c) ==
  /\ client[c].pc = "insert"
  /\ LET b == client[c].b IN
     /\ NoLongerCached(b, IF cache[b] = None THEN {} ELSE CachedUsers(cache[b]))
     /\ cache' = [cache EXCEPT ![b] = client[c].block]
  /\ client' = [client EXCEPT ![c] = [@ EXCEPT !.pc = "iterate", !.cached = TRUE]]
  /\ UNCHANGED <<kind, reads>>

\* The cache drops an entry to stay within its capacity.
Evict(b) ==
  /\ cache[b] # None
  /\ NoLongerCached(b, CachedUsers(cache[b]))
  /\ cache' = [cache EXCEPT ![b] = None]
  /\ UNCHANGED <<kind, client, reads>>

\* ~Iterator runs DeleteBlock or ReleaseBlock.
DropIterator(c) ==
  /\ client[c].pc = "iterate"
  /\ LET block == client[c].block
         last == ~client[c].cached \/ (cache[client[c].b] # block /\ CachedUsers(block) = {c})
     IN  IF last THEN DeleteBlock(block) ELSE UNCHANGED <<heap, twice>>
  /\ client' = [client EXCEPT ![c] = [pc |-> "idle", b |-> None, fill |-> FALSE, block |-> None,
                                      cached |-> FALSE]]
  /\ UNCHANGED <<kind, cache, reads>>

Next ==
  \/ \E c \in Clients :
       \/ \E b \in Blocks, fill \in BOOLEAN : Lookup(c, b, fill)
       \/ Read(c)
       \/ ReadFails(c)
       \/ Insert(c)
       \/ DropIterator(c)
  \/ \E b \in Blocks : Evict(b)

Spec == Init /\ [][Next]_vars
-----------------------------------------------------------------------------
LiveBlocks == {client[c].block : c \in Clients} \cup {cache[b] : b \in Blocks}
Expected(b) == LET raw == FileBytes(Handles[b].offset, Handles[b].size)
               IN  IF Handles[b].compressed THEN Uncompress(raw) ELSE raw

(***************************************************************************)
(* As long as an iterator or the cache has a block, the memory it points   *)
(* to is allocated and holds the bytes of that block, whether they came    *)
(* through pread, through an aligned read that starts before the block, or *)
(* from the mapped file; also while another client inserts or evicts the   *)
(* same block.                                                             *)
(***************************************************************************)
BlocksHoldTheirBytes ==
  LET Right(b, block) == block = None \/ /\ block.slice.p \in DOMAIN heap \cup {Mapped}
                                         /\ BytesAt(heap, block.slice) = Expected(b)
  IN  /\ \A c \in Clients : client[c].pc \in {"insert", "iterate"} => Right(client[c].b, client[c].block)
      /\ \A b \in Blocks : Right(b, cache[b])

(***************************************************************************)
(* Every allocation is owned by the ReadBuffer of exactly one live block:  *)
(* nothing leaks on the error paths of ReadBlock, with two clients that    *)
(* both miss, or when the block is compressed, and nothing is freed twice. *)
(***************************************************************************)
MemoryIsOwned ==
  /\ ~twice
  /\ \A p \in DOMAIN heap : \E block \in LiveBlocks \ {None} : block.buffer = p

\* Both, for every way to read a file.
BlocksAreSound == BlocksHoldTheirBytes /\ MemoryIsOwned
=============================================================================
