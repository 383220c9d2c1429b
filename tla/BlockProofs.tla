---------------------------- MODULE BlockProofs ----------------------------
(***************************************************************************)
(* Blocks hold their bytes and every buffer has one owner, for any number  *)
(* of clients and reads, any layout of the file and any alignment.         *)
(*                                                                         *)
(* A leaf with two time limits is tried again with the second.             *)
(***************************************************************************)
EXTENDS BlockReads, FiniteSetTheorems, TLAPS

USE ZenonT(30), ZenonT(90)

BlockObject ==
  [slice : [p : Int, from : Int, len : Int], buffer : Int, cachale : BOOLEAN]

\* What is assumed: the blocks lie in the file with their trailers, and None
\* is no Block object.
WellFormed ==
  /\ IsFiniteSet(Clients) /\ IsFiniteSet(Blocks)
  /\ FileSize \in Nat /\ kBlockTrailerSize \in Nat /\ Alignment \in Nat \ {0}
  /\ \A b \in Blocks :
       /\ Handles[b].offset \in Nat /\ Handles[b].size \in Nat
       /\ Handles[b].compressed \in BOOLEAN
       /\ Handles[b].offset + Handles[b].size + kBlockTrailerSize <= FileSize
  /\ None \notin BlockObject

-----------------------------------------------------------------------------
(* The invariant.                                                          *)

ClientState ==
  [pc : {"idle", "read", "insert", "iterate"}, b : Blocks \cup {None}, fill : BOOLEAN,
   block : BlockObject \cup {None}, cached : BOOLEAN]

ReadTypes ==
  /\ kind \in Kinds /\ DOMAIN heap \subseteq Pointers /\ twice = FALSE
  /\ cache \in [Blocks -> BlockObject \cup {None}]
  /\ client \in [Clients -> ClientState]

\* What a client x has at each point of BlockReader.
HasBlock(x) == x.pc \in {"insert", "iterate"}

Placed(x) ==
  /\ ~HasBlock(x) => x.block = None /\ ~x.cached
  /\ x.pc # "idle" => x.b \in Blocks
  /\ HasBlock(x) => x.block # None
  /\ x.pc = "insert" => ~x.cached
  /\ x.pc = "insert" \/ x.cached => x.block.buffer # Nullptr

PlaceInv == \A c \in Clients : Placed(client[c])

\* A block in use with heap h: its bytes are in the mapped file or in its own
\* buffer.
Sound(h, b, block) ==
  /\ \/ block.buffer = Nullptr /\ block.slice.p = Mapped
     \/ block.buffer \in DOMAIN h /\ block.slice.p = block.buffer
  /\ BytesAt(h, block.slice) = Expected(b)

SoundInv ==
  /\ \A c \in Clients : HasBlock(client[c]) => Sound(heap, client[c].b, client[c].block)
  /\ \A b \in Blocks : cache[b] # None => Sound(heap, b, cache[b])

\* Only users of the cache and the cache itself have a buffer in common: a
\* client x and an entry of b, two clients, two entries.
Fits(x, b, entry) ==
  HasBlock(x) /\ entry # None /\ x.block.buffer = entry.buffer =>
    x.cached /\ x.b = b /\ x.block = entry

Agree(x, y) ==
  HasBlock(x) /\ HasBlock(y) /\ x.block.buffer # Nullptr /\ x.block.buffer = y.block.buffer =>
    x.cached /\ y.cached /\ x.b = y.b /\ x.block = y.block

Differ(entry, other) == entry # None /\ other # None => entry.buffer # other.buffer

ShareInv ==
  /\ \A b \in Blocks : cache[b] # None => cache[b].buffer # Nullptr
  /\ \A a, b \in Blocks : a # b => Differ(cache[a], cache[b])
  /\ \A c \in Clients, b \in Blocks : Fits(client[c], b, cache[b])
  /\ \A c, d \in Clients : c # d => Agree(client[c], client[d])

\* Who owns the memory at p.
OwnedBy(p) ==
  \/ \E c \in Clients : HasBlock(client[c]) /\ client[c].block.buffer = p
  \/ \E b \in Blocks : cache[b] # None /\ cache[b].buffer = p

OwnInv == \A p \in DOMAIN heap : OwnedBy(p)

ReadInv == ReadTypes /\ PlaceInv /\ SoundInv /\ ShareInv /\ OwnInv

-----------------------------------------------------------------------------
(* The bytes.                                                              *)

\* The bytes of the file between two offsets.
LEMMA FileBytesAre ==
  ASSUME WellFormed, NEW o \in Nat, NEW n \in Nat, o + n <= FileSize
  PROVE  FileBytes(o, n) = [i \in 1 .. n |-> o + i - 1]
<1>1. MinOf(n, FileSize - o) = n
  BY SMTT(30), SMTT(90) DEF WellFormed, MinOf
<1> QED BY <1>1 DEF FileBytes

\* A part of a buffer that pread filled from offset o.
LEMMA FilledSlice ==
  ASSUME WellFormed, NEW o \in Nat, NEW m \in Nat
  PROVE  \A u, n \in Nat : u + n <= m /\ o + u + n <= FileSize =>
           SubSeq(Filled(o, m), u + 1, u + n) = FileBytes(o + u, n)
<1> SUFFICES ASSUME NEW u \in Nat, NEW n \in Nat, u + n <= m, o + u + n <= FileSize
             PROVE  SubSeq(Filled(o, m), u + 1, u + n) = FileBytes(o + u, n)
  OBVIOUS
<1> DEFINE k == MinOf(m, FileSize - o)
<1>1. k \in Nat /\ u + n <= k
  BY SMTT(30), SMTT(90) DEF WellFormed, MinOf
<1> HIDE DEF k
<1>2. FileBytes(o, m) = [i \in 1 .. k |-> o + i - 1]
  BY DEF FileBytes, k
<1>3. Len(FileBytes(o, m)) = k
  BY SMTT(30), SMTT(90), <1>1, <1>2
<1>4. Filled(o, m) = [i \in 1 .. m |-> IF i <= k THEN o + i - 1 ELSE Garbage]
  BY SMTT(30), SMTT(90), <1>1, <1>2, <1>3 DEF Filled
<1>5. SubSeq(Filled(o, m), u + 1, u + n) = [i \in 1 .. n |-> (o + u) + i - 1]
  BY SMTT(30), SMTT(90), <1>1, <1>4
<1>6. FileBytes(o + u, n) = [i \in 1 .. n |-> (o + u) + i - 1]
  BY SMTT(30), SMTT(90), FileBytesAre
<1> QED BY <1>5, <1>6

\* The block lies in what an aligned read brings.
LEMMA AlignedCovers ==
  ASSUME WellFormed, NEW o \in Nat, NEW n \in Nat
  PROVE  LET data == NewAlignedData(o, n)
         IN  /\ data.offset \in Nat /\ data.size \in Nat /\ data.user_offset \in Nat
             /\ data.offset + data.user_offset = o
             /\ data.user_offset + n <= data.size
<1> DEFINE u == o % Alignment
           v == (n + u) % Alignment
<1>1. u \in Nat /\ u <= o
  BY SMTT(30), SMTT(90) DEF WellFormed
<1>2. v \in Nat /\ v < Alignment
  BY SMTT(30), SMTT(90), <1>1 DEF WellFormed
<1>3. GetBeforeAlignedValue(o) = o - u /\ o - (o - u) = u
  BY SMTT(30), SMTT(90), <1>1 DEF GetBeforeAlignedValue
<1>4. GetAfterAlignedValue(n + u) = n + u + (IF v = 0 THEN 0 ELSE Alignment - v)
  BY DEF GetAfterAlignedValue
<1>5. NewAlignedData(o, n) = [offset |-> o - u, size |-> GetAfterAlignedValue(n + u),
                              user_offset |-> u]
  BY <1>3 DEF NewAlignedData
<1> HIDE DEF u, v
<1>6. GetAfterAlignedValue(n + u) \in Nat /\ u + n <= GetAfterAlignedValue(n + u)
  BY SMTT(30), SMTT(90), <1>1, <1>2, <1>4 DEF WellFormed
<1> QED BY SMTT(30), SMTT(90), <1>1, <1>5, <1>6

-----------------------------------------------------------------------------
(* The heap.                                                               *)

\* Addresses are neither null nor in the mapped file.
LEMMA PointersAre ==
  ASSUME WellFormed, NEW p \in Pointers
  PROVE  p \in Int /\ p \notin {Nullptr, Mapped}
<1>1. Cardinality(Clients) \in Nat /\ Cardinality(Blocks) \in Nat
  BY FS_CardinalityType DEF WellFormed
<1> QED BY SMTT(30), SMTT(90), <1>1 DEF Pointers, Nullptr, Mapped

\* With fewer allocations than addresses one is free.
LEMMA FreshPointer ==
  ASSUME WellFormed, NEW h, IsFiniteSet(DOMAIN h),
         Cardinality(DOMAIN h) < Cardinality(Pointers)
  PROVE  NewPointer(h) \in Pointers /\ NewPointer(h) \notin DOMAIN h
<1>1. \E p \in Pointers : p \notin DOMAIN h
  <2> SUFFICES ASSUME Pointers \subseteq DOMAIN h PROVE FALSE
    OBVIOUS
  <2>1. Cardinality(Pointers) <= Cardinality(DOMAIN h)
    BY FS_Subset
  <2>2. IsFiniteSet(Pointers)
    BY FS_Subset
  <2>3. Cardinality(Pointers) \in Nat /\ Cardinality(DOMAIN h) \in Nat
    BY <2>2, FS_CardinalityType
  <2> QED BY SMTT(30), SMTT(90), <2>1, <2>3
<1> QED BY <1>1 DEF NewPointer

\* Each client and each entry of the cache owns at most one buffer.
LEMMA HeapIsSmall ==
  ASSUME WellFormed, OwnInv
  PROVE  /\ IsFiniteSet(DOMAIN heap)
         /\ Cardinality(DOMAIN heap) <= Cardinality(Clients) + Cardinality(Blocks)
<1> DEFINE f == [c \in Clients |-> client[c].block.buffer]
           g == [b \in Blocks |-> cache[b].buffer]
           F == {f[c] : c \in Clients}
           G == {g[b] : b \in Blocks}
<1>1. IsFiniteSet(F) /\ Cardinality(F) <= Cardinality(Clients)
  <2>1. f \in Surjection(Clients, F)
    BY DEF Surjection
  <2> HIDE DEF f, F
  <2> QED BY <2>1, FS_Surjection DEF WellFormed
<1>2. IsFiniteSet(G) /\ Cardinality(G) <= Cardinality(Blocks)
  <2>1. g \in Surjection(Blocks, G)
    BY DEF Surjection
  <2> HIDE DEF g, G
  <2> QED BY <2>1, FS_Surjection DEF WellFormed
<1>3. DOMAIN heap \subseteq F \cup G
  BY DEF OwnInv, OwnedBy
<1> HIDE DEF f, g, F, G
<1>4. /\ IsFiniteSet(F \cup G)
      /\ Cardinality(F \cup G) = Cardinality(F) + Cardinality(G) - Cardinality(F \cap G)
  BY <1>1, <1>2, FS_Union
<1>5. IsFiniteSet(F \cap G)
  BY <1>1, FS_Subset
<1>6. IsFiniteSet(DOMAIN heap) /\ Cardinality(DOMAIN heap) <= Cardinality(F \cup G)
  BY <1>3, <1>4, FS_Subset
<1>7. /\ Cardinality(F) \in Nat /\ Cardinality(G) \in Nat /\ Cardinality(F \cap G) \in Nat
      /\ Cardinality(F \cup G) \in Nat /\ Cardinality(DOMAIN heap) \in Nat
      /\ Cardinality(Clients) \in Nat /\ Cardinality(Blocks) \in Nat
  BY <1>1, <1>2, <1>4, <1>5, <1>6, FS_CardinalityType DEF WellFormed
<1> QED BY SMTT(30), SMTT(90), <1>1, <1>2, <1>4, <1>6, <1>7

\* There is room for two more buffers.
LEMMA RoomForTwo ==
  ASSUME WellFormed, OwnInv, Clients # {}
  PROVE  /\ IsFiniteSet(DOMAIN heap)
         /\ Cardinality(DOMAIN heap) + 1 < Cardinality(Pointers)
         /\ Cardinality(DOMAIN heap) < Cardinality(Pointers)
<1> DEFINE m == Cardinality(Clients)
           n == Cardinality(Blocks)
<1>1. m \in Nat /\ n \in Nat /\ m # 0
  BY FS_CardinalityType, FS_EmptySet DEF WellFormed
<1>2. 4 * (m + n) \in Int /\ 1 \in Int
  BY SMTT(30), SMTT(90), <1>1
<1>3. Cardinality(Pointers) = IF 1 > 4 * (m + n) THEN 0 ELSE 4 * (m + n) - 1 + 1
  BY <1>2, FS_Interval DEF Pointers
<1>4. IsFiniteSet(DOMAIN heap) /\ Cardinality(DOMAIN heap) <= m + n
  BY HeapIsSmall
<1>5. Cardinality(DOMAIN heap) \in Nat
  BY <1>4, FS_CardinalityType
<1> HIDE DEF m, n
<1> QED BY SMTT(30), SMTT(90), <1>1, <1>3, <1>4, <1>5

-----------------------------------------------------------------------------
(* Reading a block.                                                        *)

\* Heap g is heap h with one more buffer, at p.
Adds(h, g, p) ==
  /\ p \in Pointers /\ p \notin DOMAIN h
  /\ DOMAIN g = DOMAIN h \cup {p}
  /\ \A q \in DOMAIN h : g[q] = h[q]

Slices == [p : Int, from : Int, len : Int]

\* PosixRandomAccessFile::Read, PosixDirectIORandomAccessFile::Read and
\* PosixMmapReadableFile::Read all deliver the block.
LEMMA FileReadFacts ==
  ASSUME WellFormed, kind \in Kinds, NEW h, IsFiniteSet(DOMAIN h),
         Cardinality(DOMAIN h) < Cardinality(Pointers), NEW b \in Blocks,
         NEW r, r = FileRead(h, Handles[b].offset, Handles[b].size + kBlockTrailerSize)
  PROVE  /\ \/ r.owned = Nullptr /\ r.heap = h /\ r.slice.p = Mapped
            \/ Adds(h, r.heap, r.owned) /\ r.slice.p = r.owned
         /\ r.slice \in Slices
         /\ BytesAt(r.heap, [r.slice EXCEPT !.len = Handles[b].size])
              = FileBytes(Handles[b].offset, Handles[b].size)
<1> DEFINE o == Handles[b].offset
           n == Handles[b].size
           m == n + kBlockTrailerSize
           p == NewPointer(h)
<1>1. o \in Nat /\ n \in Nat /\ m \in Nat /\ n <= m /\ o + m <= FileSize /\ o + n <= FileSize
  BY SMTT(30), SMTT(90) DEF WellFormed
<1>2. p \in Pointers /\ p \notin DOMAIN h
  BY FreshPointer
<1>3. p \in Int /\ p # Mapped
  BY <1>2, PointersAre
<1> HIDE DEF p, m, n, o
<1>4. CASE kind = "pread"
  <2> DEFINE bytes == Filled(o, m)
             x == [p |-> p, from |-> 0, len |-> Len(FileBytes(o, m))]
  <2>1. /\ r.heap = Allocated(h, p, bytes) /\ r.owned = p /\ r.slice = x
    BY <1>4 DEF FileRead, PosixRead, o, m, n, p
  <2>2. Len(FileBytes(o, m)) \in Int
    BY SMTT(30), SMTT(90), <1>1, FileBytesAre
  <2>3. SubSeq(bytes, 0 + 1, 0 + n) = FileBytes(o, n)
    <3>1. 0 + n <= m /\ o + 0 + n <= FileSize /\ 0 \in Nat /\ o + 0 = o
      BY SMTT(30), SMTT(90), <1>1
    <3>2. \A u, k \in Nat : u + k <= m /\ o + u + k <= FileSize =>
            SubSeq(bytes, u + 1, u + k) = FileBytes(o + u, k)
      BY <1>1, FilledSlice
    <3> HIDE DEF bytes
    <3>3. SubSeq(bytes, 0 + 1, 0 + n) = FileBytes(o + 0, n)
      BY <1>1, <3>1, <3>2
    <3> QED BY <3>1, <3>3
  <2> HIDE DEF bytes
  <2>4. Adds(h, r.heap, r.owned) /\ r.heap[p] = bytes
    BY <1>2, <2>1 DEF Adds, Allocated
  <2>5. /\ BytesAt(r.heap, [x EXCEPT !.len = n]) = SubSeq(r.heap[p], 0 + 1, 0 + n)
        /\ x \in Slices
    <3>1. 0 \in Int
      BY SMTT(30), SMTT(90)
    <3>2. [x EXCEPT !.len = n] = [p |-> p, from |-> 0, len |-> n]
      BY SMTT(30), SMTT(90)
    <3> QED BY <1>3, <2>2, <3>1, <3>2 DEF BytesAt, Slices
  <2> HIDE DEF x
  <2>6. r.owned = p /\ r.slice.p = p
    BY SMTT(30), SMTT(90), <2>1 DEF x
  <2> QED BY <2>1, <2>3, <2>4, <2>5, <2>6 DEF n, o
<1>5. CASE kind = "direct"
  <2> DEFINE data == NewAlignedData(o, m)
             bytes == Filled(data.offset, data.size)
             x == [p |-> p, from |-> data.user_offset, len |-> m]
  <2>1. /\ r.heap = Allocated(h, p, bytes) /\ r.owned = p /\ r.slice = x
    BY <1>5 DEF FileRead, DirectIORead, o, m, n, p
  <2>2. /\ data.offset \in Nat /\ data.size \in Nat /\ data.user_offset \in Nat
        /\ data.offset + data.user_offset = o /\ data.user_offset + m <= data.size
    BY <1>1, AlignedCovers
  <2> HIDE DEF data
  <2>3. SubSeq(bytes, data.user_offset + 1, data.user_offset + n) = FileBytes(o, n)
    <3>1. data.user_offset + n <= data.size
          /\ data.offset + data.user_offset + n <= FileSize
      BY SMTT(30), SMTT(90), <1>1, <2>2
    <3>2. \A u, k \in Nat : u + k <= data.size /\ data.offset + u + k <= FileSize =>
            SubSeq(bytes, u + 1, u + k) = FileBytes(data.offset + u, k)
      <4>1. data.offset \in Nat /\ data.size \in Nat
        BY <2>2
      <4> QED BY <4>1, FilledSlice
    <3> HIDE DEF bytes
    <3>3. SubSeq(bytes, data.user_offset + 1, data.user_offset + n)
            = FileBytes(data.offset + data.user_offset, n)
      BY <1>1, <2>2, <3>1, <3>2
    <3> QED BY <2>2, <3>3
  <2> HIDE DEF bytes
  <2>4. Adds(h, r.heap, r.owned) /\ r.heap[p] = bytes
    BY <1>2, <2>1 DEF Adds, Allocated
  <2>5. /\ BytesAt(r.heap, [x EXCEPT !.len = n])
             = SubSeq(r.heap[p], data.user_offset + 1, data.user_offset + n)
        /\ x \in Slices
    <3>1. data.user_offset \in Int /\ m \in Int
      BY SMTT(30), SMTT(90), <1>1, <2>2
    <3>2. [x EXCEPT !.len = n] = [p |-> p, from |-> data.user_offset, len |-> n]
      BY SMTT(30), SMTT(90)
    <3> QED BY <1>3, <3>1, <3>2 DEF BytesAt, Slices
  <2> HIDE DEF x
  <2>6. r.owned = p /\ r.slice.p = p
    BY SMTT(30), SMTT(90), <2>1 DEF x
  <2> QED BY <2>1, <2>3, <2>4, <2>5, <2>6 DEF n, o
<1>6. CASE kind = "mmap"
  <2>1. /\ r.heap = h /\ r.owned = Nullptr
        /\ r.slice = [p |-> Mapped, from |-> o, len |-> m]
    BY <1>6 DEF FileRead, MmapRead, o, m, n
  <2>2. Mapped \in Int /\ o \in Int /\ m \in Int
    BY SMTT(30), SMTT(90), <1>1 DEF Mapped
  <2>3. BytesAt(r.heap, [r.slice EXCEPT !.len = n]) = FileBytes(o, n)
    <3>1. [r.slice EXCEPT !.len = n] = [p |-> Mapped, from |-> o, len |-> n]
      BY SMTT(30), SMTT(90), <2>1
    <3> QED BY <3>1 DEF BytesAt
  <2> QED BY SMTT(30), SMTT(90), <2>1, <2>2, <2>3 DEF Slices, n, o
<1> QED BY <1>4, <1>5, <1>6 DEF Kinds

\* ReadBlock yields a block that is sound, with a buffer of its own unless its
\* bytes are in the mapped file.
LEMMA ReadBlockFacts ==
  ASSUME WellFormed, kind \in Kinds, OwnInv, Clients # {}, NEW b \in Blocks,
         NEW r, r = ReadBlock(heap, b)
  PROVE  /\ r.block \in BlockObject
         /\ \/ r.block.buffer = Nullptr /\ r.heap = heap /\ r.block.slice.p = Mapped
            \/ Adds(heap, r.heap, r.block.buffer) /\ r.block.slice.p = r.block.buffer
         /\ r.block.cachale => r.block.buffer # Nullptr
         /\ BytesAt(r.heap, r.block.slice) = Expected(b)
<1> DEFINE o == Handles[b].offset
           n == Handles[b].size
           f == FileRead(heap, o, n + kBlockTrailerSize)
<1>1. /\ IsFiniteSet(DOMAIN heap) /\ Cardinality(DOMAIN heap) < Cardinality(Pointers)
      /\ Cardinality(DOMAIN heap) + 1 < Cardinality(Pointers)
  BY RoomForTwo
<1>2. o \in Nat /\ n \in Nat /\ o + n <= FileSize /\ Handles[b].compressed \in BOOLEAN
  BY SMTT(30), SMTT(90) DEF WellFormed
<1>3. /\ \/ f.owned = Nullptr /\ f.heap = heap /\ f.slice.p = Mapped
         \/ Adds(heap, f.heap, f.owned) /\ f.slice.p = f.owned
      /\ f.slice \in Slices
      /\ BytesAt(f.heap, [f.slice EXCEPT !.len = n]) = FileBytes(o, n)
  <2> SUFFICES ASSUME NEW g, g = FileRead(heap, o, n + kBlockTrailerSize)
               PROVE  /\ \/ g.owned = Nullptr /\ g.heap = heap /\ g.slice.p = Mapped
                         \/ Adds(heap, g.heap, g.owned) /\ g.slice.p = g.owned
                      /\ g.slice \in Slices
                      /\ BytesAt(g.heap, [g.slice EXCEPT !.len = n]) = FileBytes(o, n)
    OBVIOUS
  <2> QED BY <1>1, FileReadFacts
<1>4. f.owned \in Int /\ (f.owned = Nullptr \/ f.owned \notin {Nullptr, Mapped})
  <2>1. Nullptr \in Int
    BY SMTT(30), SMTT(90) DEF Nullptr
  <2> QED BY <1>3, <2>1, PointersAre DEF Adds
<1> HIDE DEF f
<1>5. CASE ~Handles[b].compressed
  <2>1. r = MoveBuffer(f, n)
    BY <1>5 DEF ReadBlock, f
  <2>2. /\ r.heap = f.heap /\ r.block.slice = [f.slice EXCEPT !.len = n]
        /\ r.block.buffer = f.owned /\ r.block.cachale = (f.owned # Nullptr)
        /\ r.block = [slice |-> [f.slice EXCEPT !.len = n], buffer |-> f.owned,
                      cachale |-> f.owned # Nullptr]
    BY SMTT(30), SMTT(90), <2>1 DEF MoveBuffer
  <2>3. [f.slice EXCEPT !.len = n] \in Slices /\ [f.slice EXCEPT !.len = n].p = f.slice.p
    BY SMTT(30), SMTT(90), <1>2, <1>3 DEF Slices
  <2>4. r.block \in BlockObject
    BY <1>4, <2>2, <2>3 DEF BlockObject, Slices
  <2>5. Expected(b) = FileBytes(o, n)
    BY <1>5 DEF Expected
  <2> QED BY <1>3, <2>2, <2>3, <2>4, <2>5
<1>6. CASE Handles[b].compressed
  <2> DEFINE p == NewPointer(f.heap)
             bytes == Uncompress(FileBytes(o, n))
             g == Allocated(f.heap, p, bytes)
  <2>1. r = UncompressBlock(f, n)
    BY <1>6 DEF ReadBlock, f
  <2>2. /\ r.heap = Freed(g, f.owned)
        /\ r.block = [slice |-> [p |-> p, from |-> 0, len |-> n], buffer |-> p,
                      cachale |-> FALSE]
    <3>1. bytes = Uncompress(BytesAt(f.heap, [f.slice EXCEPT !.len = n]))
      BY <1>3
    <3>2. g = Allocated(f.heap, p, Uncompress(BytesAt(f.heap, [f.slice EXCEPT !.len = n])))
      BY <3>1
    <3> HIDE DEF bytes, g
    <3> QED BY SMTT(30), SMTT(90), <2>1, <3>2 DEF UncompressBlock
  <2>3. p \in Pointers /\ p \notin DOMAIN f.heap
    <3>1. IsFiniteSet(DOMAIN f.heap) /\ Cardinality(DOMAIN f.heap) < Cardinality(Pointers)
      <4>1. CASE f.heap = heap
        BY <1>1, <4>1
      <4>2. CASE Adds(heap, f.heap, f.owned)
        <5>1. /\ IsFiniteSet(DOMAIN heap \cup {f.owned})
              /\ Cardinality(DOMAIN heap \cup {f.owned}) = Cardinality(DOMAIN heap) + 1
          BY <1>1, <4>2, FS_AddElement DEF Adds
        <5> QED BY <1>1, <4>2, <5>1 DEF Adds
      <4> QED BY <1>3, <4>1, <4>2
    <3> QED BY <3>1, FreshPointer
  <2>4. p \in Int /\ p # Mapped /\ p # Nullptr
    BY <2>3, PointersAre
  <2>5. /\ DOMAIN g = DOMAIN f.heap \cup {p} /\ g[p] = bytes
        /\ \A q \in DOMAIN f.heap : q # p => g[q] = f.heap[q]
    BY DEF Allocated
  <2>6. SubSeq(bytes, 0 + 1, 0 + n) = bytes
    <3>1. bytes = [i \in 1 .. n |-> -1 - (o + i - 1)]
      <4>1. FileBytes(o, n) = [i \in 1 .. n |-> o + i - 1]
        BY <1>2, FileBytesAre
      <4> QED BY SMTT(30), SMTT(90), <4>1 DEF Uncompress
    <3> HIDE DEF bytes
    <3> QED BY SMTT(30), SMTT(90), <1>2, <3>1
  <2> HIDE DEF g, bytes, p
  <2>7. Adds(heap, r.heap, p) /\ r.heap[p] = bytes
    <3>1. CASE f.owned = Nullptr /\ f.heap = heap
      <4>1. r.heap = g
        BY <2>2, <3>1 DEF Freed
      <4> QED BY <2>3, <2>5, <3>1, <4>1 DEF Adds
    <3>2. CASE Adds(heap, f.heap, f.owned)
      <4>1. f.owned \notin {Nullptr, Mapped}
        BY <3>2, PointersAre DEF Adds
      <4>2. r.heap = [x \in DOMAIN g \ {f.owned} |-> g[x]]
        BY <2>2, <4>1 DEF Freed, Restrict
      <4>3. DOMAIN f.heap = DOMAIN heap \cup {f.owned} /\ f.owned \notin DOMAIN heap
        BY <3>2 DEF Adds
      <4>4. DOMAIN g \ {f.owned} = DOMAIN heap \cup {p} /\ p # f.owned /\ p \notin DOMAIN heap
        BY <2>3, <2>5, <4>3
      <4>5. \A q \in DOMAIN heap : r.heap[q] = heap[q]
        BY <2>5, <3>2, <4>2, <4>3, <4>4 DEF Adds
      <4> QED BY <2>3, <2>5, <4>2, <4>4, <4>5 DEF Adds
    <3> QED BY <1>3, <3>1, <3>2
  <2>8. BytesAt(r.heap, r.block.slice) = bytes
    <3>1. /\ r.block.slice.p = p /\ r.block.slice.from = 0 /\ r.block.slice.len = n
      BY SMTT(30), SMTT(90), <2>2
    <3> QED BY <2>4, <2>6, <2>7, <3>1 DEF BytesAt
  <2>9. r.block \in BlockObject /\ r.block.buffer = p /\ r.block.slice.p = p /\ ~r.block.cachale
    BY SMTT(30), SMTT(90), <1>2, <2>2, <2>4 DEF BlockObject
  <2>10. Expected(b) = bytes
    BY <1>6 DEF Expected, bytes
  <2> QED BY <2>7, <2>8, <2>9, <2>10
<1> QED BY <1>2, <1>5, <1>6

\* When ReadBlock fails, what it allocated is freed.
LEMMA ReadBlockFailsFacts ==
  ASSUME WellFormed, kind \in Kinds, OwnInv, Clients # {}, NEW b \in Blocks,
         NEW h, h = ReadBlockFails(heap, b)
  PROVE  DOMAIN h = DOMAIN heap /\ \A q \in DOMAIN heap : h[q] = heap[q]
<1> SUFFICES ASSUME NEW f, f = FileRead(heap, Handles[b].offset,
                                        Handles[b].size + kBlockTrailerSize)
             PROVE  DOMAIN h = DOMAIN heap /\ \A q \in DOMAIN heap : h[q] = heap[q]
  OBVIOUS
<1>1. h = Freed(f.heap, f.owned)
  BY DEF ReadBlockFails
<1>2. IsFiniteSet(DOMAIN heap) /\ Cardinality(DOMAIN heap) < Cardinality(Pointers)
  BY RoomForTwo
<1>3. \/ f.owned = Nullptr /\ f.heap = heap
      \/ Adds(heap, f.heap, f.owned)
  BY <1>2, FileReadFacts
<1>4. CASE f.owned = Nullptr /\ f.heap = heap
  BY <1>1, <1>4 DEF Freed
<1>5. CASE Adds(heap, f.heap, f.owned)
  <2>1. f.owned \notin {Nullptr, Mapped}
    BY <1>5, PointersAre DEF Adds
  <2>2. h = [x \in DOMAIN f.heap \ {f.owned} |-> f.heap[x]]
    BY <1>1, <2>1 DEF Freed, Restrict
  <2>3. DOMAIN f.heap \ {f.owned} = DOMAIN heap
    BY <1>5 DEF Adds
  <2> QED BY <1>5, <2>2, <2>3 DEF Adds
<1> QED BY <1>3, <1>4, <1>5

-----------------------------------------------------------------------------
(* What the steps have in common.                                          *)

\* The memory at p stays as it is.
Kept(p) == p \in DOMAIN heap' /\ heap'[p] = heap[p]

\* A block stays sound while its buffer is kept.
LEMMA SoundKept ==
  ASSUME WellFormed, ReadTypes
  PROVE  \A b, block : Sound(heap, b, block) /\ (block.buffer \in DOMAIN heap => Kept(block.buffer))
                         => Sound(heap', b, block)
<1> SUFFICES ASSUME NEW b, NEW block, Sound(heap, b, block),
                    block.buffer \in DOMAIN heap => Kept(block.buffer)
             PROVE  Sound(heap', b, block)
  OBVIOUS
<1>1. CASE block.buffer = Nullptr /\ block.slice.p = Mapped
  BY <1>1 DEF Sound, BytesAt
<1>2. CASE block.buffer \in DOMAIN heap /\ block.slice.p = block.buffer
  <2>1. block.slice.p # Mapped
    BY <1>2, PointersAre DEF ReadTypes
  <2> QED BY <1>2, <2>1 DEF Sound, BytesAt, Kept
<1> QED BY <1>1, <1>2 DEF Sound

\* Only client c changes.
LEMMA ClientUpdate ==
  ASSUME ReadTypes, NEW c \in Clients, NEW x \in ClientState,
         client' = [client EXCEPT ![c] = x]
  PROVE  /\ client' \in [Clients -> ClientState] /\ client'[c] = x
         /\ \A d \in Clients : d # c => client'[d] = client[d]
BY DEF ReadTypes

\* Only the entry of block b changes.
LEMMA CacheUpdate ==
  ASSUME ReadTypes, NEW b \in Blocks, NEW x \in BlockObject \cup {None},
         cache' = [cache EXCEPT ![b] = x]
  PROVE  /\ cache' \in [Blocks -> BlockObject \cup {None}] /\ cache'[b] = x
         /\ \A a \in Blocks : a # b => cache'[a] = cache[a]
BY DEF ReadTypes

\* The buffer of a block in use is in the heap, or there is none.
LEMMA BufferFacts ==
  ASSUME WellFormed, ReadInv
  PROVE  /\ \A c \in Clients : HasBlock(client[c]) =>
              /\ client[c].block.buffer = Nullptr \/ client[c].block.buffer \in DOMAIN heap
              /\ client[c].block \in BlockObject /\ client[c].block # None
              /\ client[c].b \in Blocks
         /\ \A b \in Blocks : cache[b] # None => cache[b].buffer \in DOMAIN heap
         /\ \A p \in DOMAIN heap : p # Nullptr /\ p # Mapped
         /\ \A c \in Clients : client[c] \in ClientState
<1>1. \A c \in Clients : HasBlock(client[c]) =>
        /\ client[c].block.buffer = Nullptr \/ client[c].block.buffer \in DOMAIN heap
        /\ client[c].block # None
  BY DEF ReadInv, SoundInv, Sound, PlaceInv, Placed
<1>2. \A c \in Clients : HasBlock(client[c]) => client[c].b \in Blocks
  BY DEF ReadInv, PlaceInv, Placed, HasBlock
<1>3. \A c \in Clients : client[c] \in ClientState
  BY DEF ReadInv, ReadTypes
<1>4. \A c \in Clients : client[c].block \in BlockObject \cup {None}
  BY <1>3 DEF ClientState
<1>5. \A b \in Blocks : cache[b] # None => cache[b].buffer \in DOMAIN heap
  BY DEF ReadInv, SoundInv, ShareInv, Sound
<1>6. \A p \in DOMAIN heap : p # Nullptr /\ p # Mapped
  BY PointersAre DEF ReadInv, ReadTypes
<1> QED BY <1>1, <1>2, <1>3, <1>4, <1>5, <1>6

\* Deleting a block frees its buffer, which was allocated, and nothing else.
LEMMA DeleteFacts ==
  ASSUME WellFormed, ReadTypes, NEW block, DeleteBlock(block),
         block.buffer = Nullptr \/ block.buffer \in DOMAIN heap
  PROVE  /\ twice' = FALSE /\ DOMAIN heap' = DOMAIN heap \ {block.buffer}
         /\ \A q \in DOMAIN heap : q # block.buffer => Kept(q)
<1>1. \A p \in DOMAIN heap : p \notin {Nullptr, Mapped}
  BY PointersAre DEF ReadTypes
<1>2. CASE block.buffer = Nullptr
  <2>1. heap' = heap /\ twice' = (twice \/ FALSE)
    BY <1>2 DEF DeleteBlock, Freed, FreesTwice
  <2> QED BY <1>1, <1>2, <2>1 DEF Kept, ReadTypes
<1>3. CASE block.buffer \in DOMAIN heap
  <2>1. block.buffer \notin {Nullptr, Mapped}
    BY <1>1, <1>3
  <2>2. heap' = [x \in DOMAIN heap \ {block.buffer} |-> heap[x]] /\ twice' = twice
    BY <1>3, <2>1 DEF DeleteBlock, Freed, FreesTwice, Restrict, ReadTypes
  <2> QED BY <2>2 DEF Kept, ReadTypes
<1> QED BY <1>2, <1>3

-----------------------------------------------------------------------------
(* The steps.                                                              *)

\* A step of client c that leaves the cache alone, in terms of its new state x.
LEMMA ClientStep ==
  ASSUME ReadInv, NEW c \in Clients, NEW x \in ClientState,
         client' = [client EXCEPT ![c] = x], cache' = cache, kind' = kind, twice' = FALSE,
         DOMAIN heap' \subseteq Pointers, Placed(x),
         HasBlock(x) => Sound(heap', x.b, x.block),
         \A d \in Clients : d # c /\ HasBlock(client[d]) =>
           Sound(heap', client[d].b, client[d].block),
         \A b \in Blocks : cache[b] # None => Sound(heap', b, cache[b]),
         \A b \in Blocks : Fits(x, b, cache[b]),
         \A d \in Clients : d # c => Agree(x, client[d]),
         \A p \in DOMAIN heap' :
           \/ HasBlock(x) /\ x.block.buffer = p
           \/ \E d \in Clients : d # c /\ HasBlock(client[d]) /\ client[d].block.buffer = p
           \/ \E b \in Blocks : cache[b] # None /\ cache[b].buffer = p
  PROVE  ReadInv'
<1>1. ReadTypes /\ ShareInv /\ PlaceInv /\ SoundInv
  BY DEF ReadInv
<1>2. /\ client' \in [Clients -> ClientState] /\ client'[c] = x
      /\ \A d \in Clients : d # c => client'[d] = client[d]
  BY <1>1, ClientUpdate
<1>3. ReadTypes'
  BY <1>1, <1>2 DEF ReadTypes
<1>4. PlaceInv'
  <2> SUFFICES ASSUME NEW d \in Clients PROVE Placed(client'[d])
    BY DEF PlaceInv
  <2> QED BY <1>1, <1>2 DEF PlaceInv
<1>5. SoundInv'
  <2>1. ASSUME NEW d \in Clients, HasBlock(client'[d])
        PROVE  Sound(heap', client'[d].b, client'[d].block)
    <3>1. CASE d = c
      BY <1>2, <2>1, <3>1
    <3>2. CASE d # c
      BY <1>2, <2>1, <3>2
    <3> QED BY <3>1, <3>2
  <2> QED BY <2>1 DEF SoundInv
<1>6. ShareInv'
  <2>1. ASSUME NEW d \in Clients, NEW b \in Blocks PROVE Fits(client'[d], b, cache[b])
    BY <1>1, <1>2 DEF ShareInv
  <2>2. ASSUME NEW d \in Clients, NEW e \in Clients, d # e
        PROVE  Agree(client'[d], client'[e])
    <3>1. CASE d = c
      BY <1>2, <2>2, <3>1
    <3>2. CASE e = c
      <4>1. Agree(x, client[d])
        BY <2>2, <3>2
      <4>2. Agree(client[d], x)
        BY <4>1 DEF Agree
      <4> QED BY <1>2, <2>2, <3>2, <4>2
    <3>3. CASE d # c /\ e # c
      BY <1>1, <1>2, <2>2, <3>3 DEF ShareInv
    <3> QED BY <3>1, <3>2, <3>3
  <2>3. \A b \in Blocks : cache'[b] # None => cache'[b].buffer # Nullptr
    BY <1>1 DEF ShareInv
  <2>4. \A a, b \in Blocks : a # b => Differ(cache'[a], cache'[b])
    BY <1>1 DEF ShareInv
  <2>5. \A d \in Clients, b \in Blocks : Fits(client'[d], b, cache'[b])
    BY <2>1
  <2>6. \A d, e \in Clients : d # e => Agree(client'[d], client'[e])
    BY <2>2
  <2> QED BY <2>3, <2>4, <2>5, <2>6 DEF ShareInv
<1>7. OwnInv'
  <2> SUFFICES ASSUME NEW p \in DOMAIN heap' PROVE OwnedBy(p)'
    BY DEF OwnInv
  <2>1. CASE HasBlock(x) /\ x.block.buffer = p
    BY <1>2, <2>1 DEF OwnedBy
  <2>2. CASE \E d \in Clients : d # c /\ HasBlock(client[d]) /\ client[d].block.buffer = p
    BY <1>2, <2>2 DEF OwnedBy
  <2>3. CASE \E b \in Blocks : cache[b] # None /\ cache[b].buffer = p
    BY <2>3 DEF OwnedBy
  <2> QED BY <2>1, <2>2, <2>3
<1> QED BY <1>3, <1>4, <1>5, <1>6, <1>7 DEF ReadInv

\* A client looks its block up in the cache.
LEMMA LookupStep ==
  ASSUME WellFormed, ReadInv, NEW c \in Clients, NEW b \in Blocks, NEW fill \in BOOLEAN,
         Lookup(c, b, fill)
  PROVE  ReadInv'
<1>1. /\ client[c].pc = "idle" /\ heap' = heap /\ cache' = cache /\ kind' = kind
      /\ twice' = twice
  BY DEF Lookup
<1>2. ReadTypes /\ ShareInv /\ PlaceInv /\ SoundInv /\ OwnInv
  BY DEF ReadInv
<1>3. ~HasBlock(client[c]) /\ client[c] \in ClientState /\ Placed(client[c])
  BY <1>1, <1>2 DEF HasBlock, ReadTypes, PlaceInv
<1>4. /\ twice' = FALSE /\ DOMAIN heap' \subseteq Pointers
      /\ \A d \in Clients : d # c /\ HasBlock(client[d]) =>
           Sound(heap', client[d].b, client[d].block)
      /\ \A a \in Blocks : cache[a] # None => Sound(heap', a, cache[a])
  BY <1>1, <1>2 DEF ReadTypes, SoundInv
<1>5. ASSUME NEW p \in DOMAIN heap'
      PROVE  \/ \E d \in Clients : d # c /\ HasBlock(client[d]) /\ client[d].block.buffer = p
             \/ \E a \in Blocks : cache[a] # None /\ cache[a].buffer = p
  BY <1>1, <1>2, <1>3 DEF OwnInv, OwnedBy
<1>6. CASE cache[b] # None
  <2> DEFINE x == [pc |-> "iterate", b |-> b, fill |-> fill, block |-> cache[b], cached |-> TRUE]
  <2>1. client' = [client EXCEPT ![c] = x]
    BY <1>6 DEF Lookup
  <2>2. x \in ClientState
    BY <1>2 DEF ClientState, ReadTypes
  <2>3. /\ x.pc = "iterate" /\ x.b = b /\ x.block = cache[b] /\ x.cached = TRUE
    OBVIOUS
  <2> HIDE DEF x
  <2>4. cache[b].buffer # Nullptr /\ Sound(heap', b, cache[b])
    BY <1>2, <1>4, <1>6 DEF ShareInv
  <2>5. HasBlock(x) /\ Placed(x) /\ Sound(heap', x.b, x.block)
    BY <1>6, <2>3, <2>4 DEF HasBlock, Placed
  <2>6. ASSUME NEW a \in Blocks PROVE Fits(x, a, cache[a])
    <3>1. CASE a = b
      BY <2>3, <3>1 DEF Fits
    <3>2. CASE a # b
      <4>1. Differ(cache[a], cache[b])
        BY <1>2, <3>2 DEF ShareInv
      <4> QED BY <1>6, <2>3, <4>1 DEF Fits, Differ
    <3> QED BY <3>1, <3>2
  <2>7. ASSUME NEW d \in Clients PROVE Agree(x, client[d])
    <3>1. Fits(client[d], b, cache[b])
      BY <1>2 DEF ShareInv
    <3> QED BY <1>6, <2>3, <3>1 DEF Fits, Agree
  <2> QED BY <1>1, <1>4, <1>5, <2>1, <2>2, <2>5, <2>6, <2>7, ClientStep
<1>7. CASE cache[b] = None
  <2> DEFINE x == [client[c] EXCEPT !.pc = "read", !.b = b, !.fill = fill]
  <2>1. client' = [client EXCEPT ![c] = x]
    BY <1>7 DEF Lookup
  <2>2. x \in ClientState
    BY <1>3 DEF ClientState
  <2>3. x.pc = "read" /\ x.b = b /\ x.block = client[c].block /\ x.cached = client[c].cached
    BY <1>3 DEF ClientState
  <2> HIDE DEF x
  <2>4. ~HasBlock(x) /\ Placed(x)
    BY <1>3, <2>3 DEF HasBlock, Placed
  <2>5. \A a \in Blocks : Fits(x, a, cache[a])
    BY <2>4 DEF Fits
  <2>6. \A d \in Clients : Agree(x, client[d])
    BY <2>4 DEF Agree
  <2> QED BY <1>1, <1>4, <1>5, <2>1, <2>2, <2>4, <2>5, <2>6, ClientStep
<1> QED BY <1>6, <1>7

\* A client reads its block from the file.
LEMMA ReadStep ==
  ASSUME WellFormed, ReadInv, NEW c \in Clients, Read(c)
  PROVE  ReadInv'
<1>1. ReadTypes /\ ShareInv /\ PlaceInv /\ SoundInv /\ OwnInv
  BY DEF ReadInv
<1>2. /\ client[c].pc = "read" /\ cache' = cache /\ kind' = kind /\ twice' = twice
  BY DEF Read
<1>3. /\ ~HasBlock(client[c]) /\ client[c] \in ClientState /\ Placed(client[c])
      /\ client[c].b \in Blocks /\ ~client[c].cached
  BY <1>1, <1>2 DEF HasBlock, ReadTypes, PlaceInv, Placed
<1>4. PICK r : /\ r = ReadBlock(heap, client[c].b) /\ heap' = r.heap
               /\ client' = [client EXCEPT ![c] = [client[c] EXCEPT
                    !.block = r.block,
                    !.pc = IF r.block.cachale /\ client[c].fill THEN "insert" ELSE "iterate"]]
  BY DEF Read
<1> DEFINE x == [client[c] EXCEPT
                   !.block = r.block,
                   !.pc = IF r.block.cachale /\ client[c].fill THEN "insert" ELSE "iterate"]
           p == r.block.buffer
<1>5. /\ r.block \in BlockObject
      /\ \/ p = Nullptr /\ r.heap = heap /\ r.block.slice.p = Mapped
         \/ Adds(heap, r.heap, p) /\ r.block.slice.p = p
      /\ r.block.cachale => p # Nullptr
      /\ BytesAt(r.heap, r.block.slice) = Expected(client[c].b)
  BY <1>1, <1>3, <1>4, ReadBlockFacts DEF ReadTypes
<1>6. x \in ClientState
  BY <1>3, <1>5 DEF ClientState
<1>7. /\ x.pc \in {"insert", "iterate"} /\ x.b = client[c].b /\ x.block = r.block
      /\ ~x.cached /\ (x.pc = "insert" => r.block.cachale)
  BY <1>3 DEF ClientState
<1>8. client' = [client EXCEPT ![c] = x]
  BY <1>4
<1> HIDE DEF x
<1>9. HasBlock(x) /\ Placed(x)
  BY <1>3, <1>5, <1>7 DEF HasBlock, Placed, WellFormed
<1>10. \A q \in DOMAIN heap : Kept(q)
  BY <1>4, <1>5 DEF Adds, Kept
<1>11. /\ DOMAIN heap' \subseteq Pointers /\ (p # Nullptr => p \notin DOMAIN heap)
       /\ DOMAIN heap' \subseteq DOMAIN heap \cup {p}
  BY <1>1, <1>4, <1>5 DEF Adds, ReadTypes
<1>12. Sound(heap', x.b, x.block)
  BY <1>4, <1>5, <1>7 DEF Sound, Adds
<1>13. /\ \A d \in Clients : HasBlock(client[d]) => Sound(heap', client[d].b, client[d].block)
       /\ \A a \in Blocks : cache[a] # None => Sound(heap', a, cache[a])
  BY <1>1, <1>10, SoundKept DEF SoundInv
<1>14. ASSUME NEW a \in Blocks PROVE Fits(x, a, cache[a])
  <2> SUFFICES ASSUME cache[a] # None PROVE x.block.buffer # cache[a].buffer
    BY DEF Fits
  <2>1. cache[a].buffer \in DOMAIN heap /\ cache[a].buffer # Nullptr
    BY BufferFacts
  <2> QED BY <1>7, <1>11, <2>1
<1>15. ASSUME NEW d \in Clients PROVE Agree(x, client[d])
  <2> SUFFICES ASSUME HasBlock(client[d]), p # Nullptr
               PROVE  p # client[d].block.buffer
    BY <1>7 DEF Agree
  <2>1. client[d].block.buffer = Nullptr \/ client[d].block.buffer \in DOMAIN heap
    BY BufferFacts
  <2> QED BY <1>11, <2>1
<1>16. ASSUME NEW q \in DOMAIN heap'
       PROVE  \/ HasBlock(x) /\ x.block.buffer = q
              \/ \E d \in Clients : d # c /\ HasBlock(client[d]) /\ client[d].block.buffer = q
              \/ \E a \in Blocks : cache[a] # None /\ cache[a].buffer = q
  <2>1. CASE q \in DOMAIN heap
    BY <1>1, <1>3, <2>1 DEF OwnInv, OwnedBy
  <2>2. CASE q = p
    BY <1>7, <1>9, <2>2
  <2> QED BY <1>11, <2>1, <2>2
<1>17. twice' = FALSE
  BY <1>1, <1>2 DEF ReadTypes
<1> HIDE DEF p
<1> QED BY <1>2, <1>6, <1>8, <1>9, <1>11, <1>12, <1>13, <1>14, <1>15, <1>16, <1>17, ClientStep

\* A read that fails gives back what it allocated.
LEMMA ReadFailsStep ==
  ASSUME WellFormed, ReadInv, NEW c \in Clients, ReadFails(c)
  PROVE  ReadInv'
<1>1. ReadTypes /\ ShareInv /\ PlaceInv /\ SoundInv /\ OwnInv
  BY DEF ReadInv
<1> DEFINE x == [client[c] EXCEPT !.pc = "idle", !.b = None]
<1>2. /\ client[c].pc = "read" /\ cache' = cache /\ kind' = kind /\ twice' = twice
      /\ heap' = ReadBlockFails(heap, client[c].b) /\ client' = [client EXCEPT ![c] = x]
  BY DEF ReadFails
<1>3. /\ ~HasBlock(client[c]) /\ client[c] \in ClientState /\ client[c].b \in Blocks
      /\ ~client[c].cached /\ client[c].block = None
  BY <1>1, <1>2 DEF HasBlock, ReadTypes, PlaceInv, Placed
<1>4. x \in ClientState
  BY <1>3 DEF ClientState
<1>5. x.pc = "idle" /\ x.block = None /\ ~x.cached
  BY <1>3 DEF ClientState
<1> HIDE DEF x
<1>6. ~HasBlock(x) /\ Placed(x)
  BY <1>5 DEF HasBlock, Placed
<1>7. DOMAIN heap' = DOMAIN heap /\ \A q \in DOMAIN heap : Kept(q)
  BY <1>1, <1>2, <1>3, ReadBlockFailsFacts DEF ReadTypes, Kept
<1>8. /\ \A d \in Clients : HasBlock(client[d]) => Sound(heap', client[d].b, client[d].block)
      /\ \A a \in Blocks : cache[a] # None => Sound(heap', a, cache[a])
  BY <1>1, <1>7, SoundKept DEF SoundInv
<1>9. /\ \A a \in Blocks : Fits(x, a, cache[a])
      /\ \A d \in Clients : Agree(x, client[d])
  BY <1>6 DEF Fits, Agree
<1>10. ASSUME NEW q \in DOMAIN heap'
       PROVE  \/ \E d \in Clients : d # c /\ HasBlock(client[d]) /\ client[d].block.buffer = q
              \/ \E a \in Blocks : cache[a] # None /\ cache[a].buffer = q
  BY <1>1, <1>3, <1>7 DEF OwnInv, OwnedBy
<1>11. twice' = FALSE /\ DOMAIN heap' \subseteq Pointers
  BY <1>1, <1>2, <1>7 DEF ReadTypes
<1> QED BY <1>2, <1>4, <1>6, <1>8, <1>9, <1>10, <1>11, ClientStep

\* The cleanup of an iterator deletes its block unless the cache, or another
\* user of the cache, still has it.
LEMMA DropIteratorStep ==
  ASSUME WellFormed, ReadInv, NEW c \in Clients, DropIterator(c)
  PROVE  ReadInv'
<1>1. ReadTypes /\ ShareInv /\ PlaceInv /\ SoundInv /\ OwnInv
  BY DEF ReadInv
<1> DEFINE x == [pc |-> "idle", b |-> None, fill |-> FALSE, block |-> None, cached |-> FALSE]
           block == client[c].block
           last == ~client[c].cached \/ (cache[client[c].b] # block /\ CachedUsers(block) = {c})
           Other(q) ==
             \/ \E d \in Clients : d # c /\ HasBlock(client[d]) /\ client[d].block.buffer = q
             \/ \E a \in Blocks : cache[a] # None /\ cache[a].buffer = q
<1>2. /\ client[c].pc = "iterate" /\ cache' = cache /\ kind' = kind
      /\ client' = [client EXCEPT ![c] = x]
      /\ IF last THEN DeleteBlock(block) ELSE UNCHANGED <<heap, twice>>
  BY DEF DropIterator
<1>3. x \in ClientState
  BY DEF ClientState
<1>4. x.pc = "idle" /\ x.block = None /\ ~x.cached
  OBVIOUS
<1> HIDE DEF x
<1>5. ~HasBlock(x) /\ Placed(x)
  BY <1>4 DEF HasBlock, Placed
<1>6. /\ HasBlock(client[c]) /\ client[c].b \in Blocks /\ block # None
      /\ block.buffer = Nullptr \/ block.buffer \in DOMAIN heap
  BY <1>2, BufferFacts DEF HasBlock
<1>7. /\ \A a \in Blocks : Fits(x, a, cache[a])
      /\ \A d \in Clients : Agree(x, client[d])
  BY <1>5 DEF Fits, Agree
<1>8. \A q \in DOMAIN heap : q # block.buffer => Other(q)
  BY <1>1 DEF OwnInv, OwnedBy
<1>9. CASE last
  <2>1. DeleteBlock(block)
    BY <1>2, <1>9
  <2>2. /\ twice' = FALSE /\ DOMAIN heap' = DOMAIN heap \ {block.buffer}
        /\ \A q \in DOMAIN heap : q # block.buffer => Kept(q)
    BY <1>1, <1>6, <2>1, DeleteFacts
  <2>3. ASSUME NEW d \in Clients, d # c, HasBlock(client[d]), block.buffer # Nullptr
        PROVE  client[d].block.buffer # block.buffer
    <3> SUFFICES ASSUME client[d].block.buffer = block.buffer PROVE FALSE
      OBVIOUS
    <3>1. Agree(client[c], client[d])
      BY <1>1, <2>3 DEF ShareInv
    <3>2. client[c].cached /\ client[d].cached /\ client[d].block = block
      BY <1>6, <2>3, <3>1 DEF Agree
    <3>3. d \in CachedUsers(block)
      BY <3>2 DEF CachedUsers, Using
    <3> QED BY <1>9, <2>3, <3>2, <3>3
  <2>4. ASSUME NEW a \in Blocks, cache[a] # None
        PROVE  cache[a].buffer # block.buffer
    <3> SUFFICES ASSUME block.buffer = cache[a].buffer PROVE FALSE
      OBVIOUS
    <3>1. Fits(client[c], a, cache[a])
      BY <1>1 DEF ShareInv
    <3>2. client[c].cached /\ client[c].b = a /\ block = cache[a]
      BY <1>6, <2>4, <3>1 DEF Fits
    <3> QED BY <1>9, <3>2
  <2>5. ASSUME NEW d \in Clients, d # c, HasBlock(client[d])
        PROVE  Sound(heap', client[d].b, client[d].block)
    <3>1. Sound(heap, client[d].b, client[d].block)
      BY <1>1, <2>5 DEF SoundInv
    <3>2. client[d].block.buffer \in DOMAIN heap => Kept(client[d].block.buffer)
      BY <1>6, <2>2, <2>3, <2>5, BufferFacts
    <3> QED BY <1>1, <3>1, <3>2, SoundKept
  <2>6. ASSUME NEW a \in Blocks, cache[a] # None
        PROVE  Sound(heap', a, cache[a])
    <3>1. Sound(heap, a, cache[a])
      BY <1>1, <2>6 DEF SoundInv
    <3>2. cache[a].buffer \in DOMAIN heap => Kept(cache[a].buffer)
      BY <2>2, <2>4, <2>6
    <3> QED BY <1>1, <3>1, <3>2, SoundKept
  <2>7. DOMAIN heap' \subseteq Pointers /\ \A q \in DOMAIN heap' : Other(q)
    BY <1>1, <1>8, <2>2 DEF ReadTypes
  <2> HIDE DEF block, last
  <2> QED BY <1>2, <1>3, <1>5, <1>7, <2>2, <2>5, <2>6, <2>7, ClientStep
<1>10. CASE ~last
  <2>1. heap' = heap /\ twice' = twice
    BY <1>2, <1>10
  <2>2. /\ \A d \in Clients : HasBlock(client[d]) => Sound(heap', client[d].b, client[d].block)
        /\ \A a \in Blocks : cache[a] # None => Sound(heap', a, cache[a])
    BY <1>1, <2>1 DEF SoundInv
  <2>3. Other(block.buffer)
    <3>1. CASE cache[client[c].b] = block
      BY <1>6, <3>1
    <3>2. CASE CachedUsers(block) # {c}
      <4>1. c \in CachedUsers(block)
        BY <1>10 DEF CachedUsers, Using
      <4>2. PICK d \in CachedUsers(block) : d # c
        BY <3>2, <4>1
      <4>3. d \in Clients /\ client[d].block = block
        BY DEF CachedUsers, Using
      <4>4. HasBlock(client[d])
        BY <1>1, <1>6, <4>3 DEF PlaceInv, Placed
      <4> QED BY <4>2, <4>3, <4>4
    <3> QED BY <1>10, <3>1, <3>2
  <2>4. \A q \in DOMAIN heap' : Other(q)
    BY <1>8, <2>1, <2>3
  <2>5. twice' = FALSE /\ DOMAIN heap' \subseteq Pointers
    BY <1>1, <2>1 DEF ReadTypes
  <2> HIDE DEF block, last
  <2> QED BY <1>2, <1>3, <1>5, <1>7, <2>2, <2>4, <2>5, ClientStep
<1> QED BY <1>9, <1>10

\* The entry of block b that leaves the cache is deleted unless a client uses it.
LEMMA NoLongerCachedFacts ==
  ASSUME WellFormed, ReadInv, NEW b \in Blocks,
         NoLongerCached(b, IF cache[b] = None THEN {} ELSE CachedUsers(cache[b]))
  PROVE  /\ twice' = FALSE /\ DOMAIN heap' \subseteq DOMAIN heap
         /\ \A d \in Clients : HasBlock(client[d]) =>
              Sound(heap', client[d].b, client[d].block)
         /\ \A a \in Blocks : a # b /\ cache[a] # None => Sound(heap', a, cache[a])
         /\ \A q \in DOMAIN heap' :
              \/ \E d \in Clients : HasBlock(client[d]) /\ client[d].block.buffer = q
              \/ \E a \in Blocks : a # b /\ cache[a] # None /\ cache[a].buffer = q
<1>1. ReadTypes /\ ShareInv /\ PlaceInv /\ SoundInv /\ OwnInv
  BY DEF ReadInv
<1> DEFINE Other(q) ==
             \/ \E d \in Clients : HasBlock(client[d]) /\ client[d].block.buffer = q
             \/ \E a \in Blocks : a # b /\ cache[a] # None /\ cache[a].buffer = q
<1>2. \A q \in DOMAIN heap : cache[b] = None \/ q # cache[b].buffer => Other(q)
  BY <1>1 DEF OwnInv, OwnedBy
<1>3. CASE cache[b] # None /\ CachedUsers(cache[b]) = {}
  <2>1. DeleteBlock(cache[b]) /\ cache[b].buffer \in DOMAIN heap
    BY <1>3, BufferFacts DEF NoLongerCached
  <2>2. /\ twice' = FALSE /\ DOMAIN heap' = DOMAIN heap \ {cache[b].buffer}
        /\ \A q \in DOMAIN heap : q # cache[b].buffer => Kept(q)
    BY <1>1, <2>1, DeleteFacts
  <2>3. ASSUME NEW d \in Clients, HasBlock(client[d])
        PROVE  client[d].block.buffer # cache[b].buffer
    <3> SUFFICES ASSUME client[d].block.buffer = cache[b].buffer PROVE FALSE
      OBVIOUS
    <3>1. Fits(client[d], b, cache[b])
      BY <1>1 DEF ShareInv
    <3>2. client[d].cached /\ client[d].block = cache[b]
      BY <1>3, <2>3, <3>1 DEF Fits
    <3> QED BY <1>3, <3>2 DEF CachedUsers, Using
  <2>4. ASSUME NEW d \in Clients, HasBlock(client[d])
        PROVE  Sound(heap', client[d].b, client[d].block)
    <3>1. Sound(heap, client[d].b, client[d].block)
      BY <1>1, <2>4 DEF SoundInv
    <3>2. client[d].block.buffer \in DOMAIN heap => Kept(client[d].block.buffer)
      BY <2>2, <2>3, <2>4
    <3> QED BY <1>1, <3>1, <3>2, SoundKept
  <2>5. ASSUME NEW a \in Blocks, a # b, cache[a] # None
        PROVE  Sound(heap', a, cache[a])
    <3>1. Sound(heap, a, cache[a]) /\ Differ(cache[a], cache[b])
      BY <1>1, <2>5 DEF SoundInv, ShareInv
    <3>2. cache[a].buffer \in DOMAIN heap => Kept(cache[a].buffer)
      BY <1>3, <2>2, <2>5, <3>1 DEF Differ
    <3> QED BY <1>1, <3>1, <3>2, SoundKept
  <2>6. \A q \in DOMAIN heap' : Other(q)
    BY <1>2, <2>2
  <2> QED BY <2>2, <2>4, <2>5, <2>6
<1>4. CASE cache[b] = None \/ CachedUsers(cache[b]) # {}
  <2>1. heap' = heap /\ twice' = twice
    BY <1>4 DEF NoLongerCached
  <2>2. cache[b] # None => Other(cache[b].buffer)
    <3> SUFFICES ASSUME cache[b] # None PROVE Other(cache[b].buffer)
      OBVIOUS
    <3>1. PICK d \in CachedUsers(cache[b]) : TRUE
      BY <1>4
    <3>2. d \in Clients /\ client[d].block = cache[b]
      BY DEF CachedUsers, Using
    <3>3. HasBlock(client[d])
      BY <1>1, <3>2 DEF PlaceInv, Placed
    <3> QED BY <3>2, <3>3
  <2>3. \A q \in DOMAIN heap' : Other(q)
    BY <1>2, <2>1, <2>2
  <2> QED BY <1>1, <2>1, <2>3 DEF ReadTypes, SoundInv
<1> QED BY <1>3, <1>4

\* The cache drops an entry.
LEMMA EvictStep ==
  ASSUME WellFormed, ReadInv, NEW b \in Blocks, Evict(b)
  PROVE  ReadInv'
<1>1. ReadTypes /\ ShareInv /\ PlaceInv /\ SoundInv /\ OwnInv
  BY DEF ReadInv
<1>2. /\ cache[b] # None /\ NoLongerCached(b, CachedUsers(cache[b])) /\ kind' = kind
      /\ cache' = [cache EXCEPT ![b] = None] /\ client' = client
  BY DEF Evict
<1>3. NoLongerCached(b, IF cache[b] = None THEN {} ELSE CachedUsers(cache[b]))
  BY <1>2
<1>4. /\ twice' = FALSE /\ DOMAIN heap' \subseteq DOMAIN heap
      /\ \A d \in Clients : HasBlock(client[d]) => Sound(heap', client[d].b, client[d].block)
      /\ \A a \in Blocks : a # b /\ cache[a] # None => Sound(heap', a, cache[a])
      /\ \A q \in DOMAIN heap' :
           \/ \E d \in Clients : HasBlock(client[d]) /\ client[d].block.buffer = q
           \/ \E a \in Blocks : a # b /\ cache[a] # None /\ cache[a].buffer = q
  BY <1>3, NoLongerCachedFacts
<1>5. /\ cache' \in [Blocks -> BlockObject \cup {None}] /\ cache'[b] = None
      /\ \A a \in Blocks : a # b => cache'[a] = cache[a]
  BY <1>1, <1>2, CacheUpdate
<1>6. ReadTypes' /\ PlaceInv'
  BY <1>1, <1>2, <1>4, <1>5 DEF ReadTypes, PlaceInv
<1>7. SoundInv'
  <2>1. \A a \in Blocks : cache'[a] # None => Sound(heap', a, cache'[a])
    BY <1>4, <1>5
  <2> QED BY <1>2, <1>4, <2>1 DEF SoundInv
<1>8. ShareInv'
  <2>1. \A a \in Blocks : cache'[a] # None => cache'[a].buffer # Nullptr
    BY <1>1, <1>5 DEF ShareInv
  <2>2. ASSUME NEW a \in Blocks, NEW d \in Blocks, a # d PROVE Differ(cache'[a], cache'[d])
    <3>1. CASE a = b \/ d = b
      BY <1>5, <3>1 DEF Differ
    <3>2. CASE a # b /\ d # b
      BY <1>1, <1>5, <2>2, <3>2 DEF ShareInv
    <3> QED BY <3>1, <3>2
  <2>3. ASSUME NEW d \in Clients, NEW a \in Blocks PROVE Fits(client[d], a, cache'[a])
    <3>1. CASE a = b
      BY <1>5, <3>1 DEF Fits
    <3>2. CASE a # b
      BY <1>1, <1>5, <3>2 DEF ShareInv
    <3> QED BY <3>1, <3>2
  <2>4. \A d, e \in Clients : d # e => Agree(client'[d], client'[e])
    BY <1>1, <1>2 DEF ShareInv
  <2>5. \A d \in Clients, a \in Blocks : Fits(client'[d], a, cache'[a])
    BY <1>2, <2>3
  <2> QED BY <2>1, <2>2, <2>4, <2>5 DEF ShareInv
<1>9. OwnInv'
  <2> SUFFICES ASSUME NEW q \in DOMAIN heap' PROVE OwnedBy(q)'
    BY DEF OwnInv
  <2>1. CASE \E d \in Clients : HasBlock(client[d]) /\ client[d].block.buffer = q
    BY <1>2, <2>1 DEF OwnedBy
  <2>2. CASE \E a \in Blocks : a # b /\ cache[a] # None /\ cache[a].buffer = q
    BY <1>5, <2>2 DEF OwnedBy
  <2> QED BY <1>4, <2>1, <2>2
<1> QED BY <1>6, <1>7, <1>8, <1>9 DEF ReadInv

\* A client puts the block it read into the cache, over the entry that another
\* client may have inserted meanwhile.
LEMMA InsertStep ==
  ASSUME WellFormed, ReadInv, NEW c \in Clients, Insert(c)
  PROVE  ReadInv'
<1>1. ReadTypes /\ ShareInv /\ PlaceInv /\ SoundInv /\ OwnInv
  BY DEF ReadInv
<1> DEFINE b == client[c].b
           block == client[c].block
           x == [client[c] EXCEPT !.pc = "iterate", !.cached = TRUE]
<1>2. /\ client[c].pc = "insert" /\ kind' = kind
      /\ NoLongerCached(b, IF cache[b] = None THEN {} ELSE CachedUsers(cache[b]))
      /\ cache' = [cache EXCEPT ![b] = block] /\ client' = [client EXCEPT ![c] = x]
  BY DEF Insert
<1>3. /\ HasBlock(client[c]) /\ client[c] \in ClientState /\ b \in Blocks
      /\ ~client[c].cached /\ block.buffer # Nullptr
      /\ block \in BlockObject /\ block # None /\ Placed(client[c])
  <2>1. HasBlock(client[c])
    BY <1>2 DEF HasBlock
  <2> QED BY <1>1, <1>2, <2>1, BufferFacts DEF PlaceInv, Placed
<1>4. x \in ClientState
  BY <1>3 DEF ClientState
<1>5. x.pc = "iterate" /\ x.b = b /\ x.block = block /\ x.cached = TRUE
  BY <1>3 DEF ClientState
<1> HIDE DEF x
<1>6. HasBlock(x) /\ Placed(x)
  BY <1>3, <1>5 DEF HasBlock, Placed
<1>7. /\ client' \in [Clients -> ClientState] /\ client'[c] = x
      /\ \A d \in Clients : d # c => client'[d] = client[d]
  BY <1>1, <1>2, <1>4, ClientUpdate
<1>8. /\ cache' \in [Blocks -> BlockObject \cup {None}] /\ cache'[b] = block
      /\ \A a \in Blocks : a # b => cache'[a] = cache[a]
  BY <1>1, <1>2, <1>3, CacheUpdate
<1>9. /\ twice' = FALSE /\ DOMAIN heap' \subseteq DOMAIN heap
      /\ \A d \in Clients : HasBlock(client[d]) => Sound(heap', client[d].b, client[d].block)
      /\ \A a \in Blocks : a # b /\ cache[a] # None => Sound(heap', a, cache[a])
      /\ \A q \in DOMAIN heap' :
           \/ \E d \in Clients : HasBlock(client[d]) /\ client[d].block.buffer = q
           \/ \E a \in Blocks : a # b /\ cache[a] # None /\ cache[a].buffer = q
  BY <1>2, <1>3, NoLongerCachedFacts
\* The client's block is its own until now.
<1>10. ASSUME NEW a \in Blocks, cache[a] # None PROVE cache[a].buffer # block.buffer
  <2>1. Fits(client[c], a, cache[a])
    BY <1>1 DEF ShareInv
  <2> QED BY <1>3, <1>10, <2>1 DEF Fits
<1>11. ASSUME NEW d \in Clients, d # c, HasBlock(client[d])
       PROVE  client[d].block.buffer # block.buffer
  <2>1. Agree(client[c], client[d])
    BY <1>1, <1>11 DEF ShareInv
  <2> QED BY <1>3, <1>11, <2>1 DEF Agree
<1> HIDE DEF b, block
<1>12. ReadTypes'
  BY <1>1, <1>2, <1>7, <1>8, <1>9 DEF ReadTypes
<1>13. PlaceInv'
  <2> SUFFICES ASSUME NEW d \in Clients PROVE Placed(client'[d])
    BY DEF PlaceInv
  <2> QED BY <1>1, <1>6, <1>7 DEF PlaceInv
<1>14. SoundInv'
  <2>1. Sound(heap', b, block)
    BY <1>3, <1>9 DEF b, block
  <2>2. ASSUME NEW d \in Clients, HasBlock(client'[d])
        PROVE  Sound(heap', client'[d].b, client'[d].block)
    <3>1. CASE d = c
      BY <1>5, <1>7, <2>1, <3>1
    <3>2. CASE d # c
      BY <1>7, <1>9, <2>2, <3>2
    <3> QED BY <3>1, <3>2
  <2>3. ASSUME NEW a \in Blocks, cache'[a] # None PROVE Sound(heap', a, cache'[a])
    <3>1. CASE a = b
      BY <1>8, <2>1, <3>1
    <3>2. CASE a # b
      BY <1>8, <1>9, <2>3, <3>2
    <3> QED BY <3>1, <3>2
  <2> QED BY <2>2, <2>3 DEF SoundInv
<1>15. ShareInv'
  <2>1. \A a \in Blocks : cache'[a] # None => cache'[a].buffer # Nullptr
    BY <1>1, <1>3, <1>8 DEF ShareInv
  <2>2. ASSUME NEW a \in Blocks, NEW d \in Blocks, a # d PROVE Differ(cache'[a], cache'[d])
    <3>1. CASE a = b
      BY <1>8, <1>10, <2>2, <3>1 DEF Differ
    <3>2. CASE d = b
      BY <1>8, <1>10, <2>2, <3>2 DEF Differ
    <3>3. CASE a # b /\ d # b
      BY <1>1, <1>8, <2>2, <3>3 DEF ShareInv
    <3> QED BY <3>1, <3>2, <3>3
  <2>3. ASSUME NEW d \in Clients, NEW a \in Blocks PROVE Fits(client'[d], a, cache'[a])
    <3>1. CASE d = c /\ a = b
      BY <1>5, <1>7, <1>8, <3>1 DEF Fits
    <3>2. CASE d = c /\ a # b
      BY <1>5, <1>7, <1>8, <1>10, <3>2 DEF Fits
    <3>3. CASE d # c /\ a = b
      BY <1>7, <1>8, <1>11, <3>3 DEF Fits
    <3>4. CASE d # c /\ a # b
      BY <1>1, <1>7, <1>8, <3>4 DEF ShareInv
    <3> QED BY <3>1, <3>2, <3>3, <3>4
  <2>4. ASSUME NEW d \in Clients, NEW e \in Clients, d # e PROVE Agree(client'[d], client'[e])
    <3>1. CASE d = c
      BY <1>5, <1>7, <1>11, <2>4, <3>1 DEF Agree
    <3>2. CASE e = c
      BY <1>5, <1>7, <1>11, <2>4, <3>2 DEF Agree
    <3>3. CASE d # c /\ e # c
      BY <1>1, <1>7, <2>4, <3>3 DEF ShareInv
    <3> QED BY <3>1, <3>2, <3>3
  <2> QED BY <2>1, <2>2, <2>3, <2>4 DEF ShareInv
<1>16. OwnInv'
  <2> SUFFICES ASSUME NEW q \in DOMAIN heap' PROVE OwnedBy(q)'
    BY DEF OwnInv
  <2>1. CASE \E d \in Clients : HasBlock(client[d]) /\ client[d].block.buffer = q
    <3>1. PICK d \in Clients : HasBlock(client[d]) /\ client[d].block.buffer = q
      BY <2>1
    <3>2. CASE d = c
      BY <1>5, <1>6, <1>7, <3>1, <3>2 DEF OwnedBy, block
    <3>3. CASE d # c
      BY <1>7, <3>1, <3>3 DEF OwnedBy
    <3> QED BY <3>2, <3>3
  <2>2. CASE \E a \in Blocks : a # b /\ cache[a] # None /\ cache[a].buffer = q
    BY <1>8, <2>2 DEF OwnedBy
  <2> QED BY <1>9, <2>1, <2>2
<1> QED BY <1>12, <1>13, <1>14, <1>15, <1>16 DEF ReadInv

-----------------------------------------------------------------------------
(* The theorem.                                                            *)

\* No client has a block yet.
LEMMA InitRead ==
  ASSUME Init
  PROVE  ReadInv
<1> DEFINE x == [pc |-> "idle", b |-> None, fill |-> FALSE, block |-> None, cached |-> FALSE]
<1>1. x \in ClientState
  BY DEF ClientState
<1>2. /\ \A c \in Clients : client[c] = x
      /\ client = [c \in Clients |-> x]
      /\ cache = [b \in Blocks |-> None] /\ \A b \in Blocks : cache[b] = None
      /\ heap = <<>> /\ twice = FALSE /\ kind \in Kinds
  BY DEF Init
<1>3. x.pc = "idle" /\ x.block = None /\ ~x.cached
  OBVIOUS
<1> HIDE DEF x
<1>4. DOMAIN heap = {}
  BY SMTT(30), SMTT(90), <1>2
<1>5. ReadTypes
  BY <1>1, <1>2, <1>4 DEF ReadTypes
<1>6. ~HasBlock(x) /\ Placed(x)
  BY <1>3 DEF HasBlock, Placed
<1>7. PlaceInv /\ SoundInv
  BY <1>2, <1>6 DEF PlaceInv, SoundInv
<1>8. ShareInv
  BY <1>2, <1>6 DEF ShareInv, Fits, Agree, Differ
<1>9. OwnInv
  BY <1>4 DEF OwnInv
<1> QED BY <1>5, <1>7, <1>8, <1>9 DEF ReadInv

\* Every step of BlockReader, of the cleanup of its iterators and of the cache
\* keeps the invariant.
LEMMA ReadInvKept ==
  ASSUME WellFormed, ReadInv, [Next]_vars
  PROVE  ReadInv'
<1>1. ASSUME NEW c \in Clients, NEW b \in Blocks, NEW fill \in BOOLEAN, Lookup(c, b, fill)
      PROVE  ReadInv'
  BY <1>1, LookupStep
<1>2. ASSUME NEW c \in Clients, Read(c) PROVE ReadInv'
  BY <1>2, ReadStep
<1>3. ASSUME NEW c \in Clients, ReadFails(c) PROVE ReadInv'
  BY <1>3, ReadFailsStep
<1>4. ASSUME NEW c \in Clients, Insert(c) PROVE ReadInv'
  BY <1>4, InsertStep
<1>5. ASSUME NEW c \in Clients, DropIterator(c) PROVE ReadInv'
  BY <1>5, DropIteratorStep
<1>6. ASSUME NEW b \in Blocks, Evict(b) PROVE ReadInv'
  BY <1>6, EvictStep
<1>7. CASE UNCHANGED vars
  BY <1>7 DEF vars, ReadInv, ReadTypes, PlaceInv, SoundInv, ShareInv, OwnInv, OwnedBy
<1> QED BY <1>1, <1>2, <1>3, <1>4, <1>5, <1>6, <1>7 DEF Next

\* The invariant gives both properties.
LEMMA ReadInvIsSound ==
  ASSUME WellFormed, ReadInv
  PROVE  BlocksAreSound
<1>1. ReadTypes /\ PlaceInv /\ SoundInv /\ ShareInv /\ OwnInv
  BY DEF ReadInv
<1>2. ASSUME NEW c \in Clients, HasBlock(client[c])
      PROVE  /\ client[c].block.slice.p \in DOMAIN heap \cup {Mapped}
             /\ BytesAt(heap, client[c].block.slice) = Expected(client[c].b)
  <2>1. Sound(heap, client[c].b, client[c].block)
    BY <1>1, <1>2 DEF SoundInv
  <2> QED BY <2>1 DEF Sound
<1>3. ASSUME NEW b \in Blocks, cache[b] # None
      PROVE  /\ cache[b].slice.p \in DOMAIN heap \cup {Mapped}
             /\ BytesAt(heap, cache[b].slice) = Expected(b)
  <2>1. Sound(heap, b, cache[b])
    BY <1>1, <1>3 DEF SoundInv
  <2> QED BY <2>1 DEF Sound
<1>4. BlocksHoldTheirBytes
  BY <1>2, <1>3 DEF BlocksHoldTheirBytes, HasBlock
<1>5. ASSUME NEW p \in DOMAIN heap
      PROVE  \E block \in LiveBlocks \ {None} : block.buffer = p
  <2>1. CASE \E c \in Clients : HasBlock(client[c]) /\ client[c].block.buffer = p
    BY <2>1, BufferFacts DEF LiveBlocks
  <2>2. CASE \E b \in Blocks : cache[b] # None /\ cache[b].buffer = p
    BY <2>2 DEF LiveBlocks
  <2> QED BY <1>1, <1>5, <2>1, <2>2 DEF OwnInv, OwnedBy
<1> QED BY <1>1, <1>4, <1>5 DEF BlocksAreSound, MemoryIsOwned, ReadTypes

\* Every block that an iterator or the block cache has points to its own bytes
\* in memory that is allocated or mapped, nothing leaks and nothing is freed
\* twice: Table::BlockReader with any number of clients, evictions, failing
\* reads and compressed blocks, through pread, direct I/O and mmap.
THEOREM SoundBlocks ==
  ASSUME WellFormed
  PROVE  Spec => []BlocksAreSound
<1>1. Init => ReadInv
  BY InitRead
<1>2. ReadInv /\ [Next]_vars => ReadInv'
  BY ReadInvKept
<1>3. ReadInv => BlocksAreSound
  BY ReadInvIsSound
<1> QED BY <1>1, <1>2, <1>3, PTL DEF Spec
=============================================================================
