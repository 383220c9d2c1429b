------------------------------- MODULE MemEnv -------------------------------
(***************************************************************************)
(* The in-memory environment (helpers/memenv/memenv.cc): reference-counted *)
(* files that are lists of blocks, the map from names to files, and the    *)
(* handles that outlive a name; and the two helpers of util/env.cc that    *)
(* write and read a whole file.                                            *)
(***************************************************************************)
EXTENDS Integers, Sequences, FiniteSets, SequencesExt

CONSTANTS
  Names,
  kBlockSize,
  MaxFiles,     \* bound on the number of FileState objects
  MaxHandles,   \* bound on the handles open at a time
  MaxBytes,     \* bound on the size of a file
  Chunks,       \* the lengths that are appended, read and skipped
  kBufferSize,  \* of ReadFileToString
  SizeMod,      \* 2^w for the width of uint64_t
  None

Nullptr == 0
Garbage == -1   \* a byte of a new block that nothing was copied to

VARIABLES
  file_map,   \* [Names -> file, Nullptr, or None for no entry]
  file,       \* the FileStates: refs_, blocks_, size_, and whether they were deleted
  handles,    \* [1 .. MaxHandles -> [kind, f, pos, skip] or None]
  crashed,    \* a null FileState was used
  contents,   \* history: what was appended since the last truncation, by file
  orphans     \* history: the files that NewAppendableFile did not put in the map

vars == <<file_map, file, handles, crashed, contents, orphans>>

Init ==
  /\ file_map = [n \in Names |-> None]
  /\ file = <<>>
  /\ handles = [h \in 1 .. MaxHandles |-> None]
  /\ crashed = FALSE
  /\ contents = <<>>
  /\ orphans = {}
-----------------------------------------------------------------------------
(* FileState.                                                              *)

NewFileState == [refs |-> 0, blocks |-> <<>>, size |-> 0, deleted |-> FALSE]

Ref(fs) == [fs EXCEPT !.refs = @ + 1]
Truncate(fs) == [fs EXCEPT !.blocks = <<>>, !.size = 0]
Unref(fs) == LET less == [fs EXCEPT !.refs = @ - 1]
             IN  IF less.refs <= 0 THEN [Truncate(less) EXCEPT !.deleted = TRUE] ELSE less

MinOf(a, b) == IF a < b THEN a ELSE b
NewBlock == [i \in 1 .. kBlockSize |-> Garbage]

Copied(block, offset, src) ==
  [i \in 1 .. kBlockSize |-> IF i - offset \in 1 .. Len(src) THEN src[i - offset] ELSE block[i]]

\* An append that takes a new block for every call.
RECURSIVE AppendApart(_, _)
AppendApart(fs, src) ==
  IF src = <<>> THEN fs
  ELSE LET n == MinOf(kBlockSize, Len(src))
       IN  AppendApart([fs EXCEPT !.blocks = Append(@, Copied(NewBlock, 0, SubSeq(src, 1, n))),
                                  !.size = @ + n],
                       SubSeq(src, n + 1, Len(src)))

RECURSIVE AppendData(_, _)
AppendData(fs, src) ==
  IF src = <<>> THEN fs
  ELSE LET offset == fs.size % kBlockSize
           n == MinOf(kBlockSize - offset, Len(src))
           blocks == IF offset # 0 THEN fs.blocks ELSE Append(fs.blocks, NewBlock)
           filled == [blocks EXCEPT ![Len(blocks)] = Copied(@, offset, SubSeq(src, 1, n))]
       IN  AppendData([fs EXCEPT !.blocks = filled, !.size = @ + n],
                      SubSeq(src, n + 1, Len(src)))

RECURSIVE CopyOut(_, _, _, _)
CopyOut(blocks, block, block_offset, n) ==
  IF n = 0 THEN <<>>
  ELSE LET avail == MinOf(kBlockSize - block_offset, n)
       IN  SubSeq(blocks[block + 1], block_offset + 1, block_offset + avail)
             \o CopyOut(blocks, block + 1, 0, n - avail)

CanRead(fs, offset) == offset <= fs.size
ReadData(fs, offset, n) ==
  CopyOut(fs.blocks, offset \div kBlockSize, offset % kBlockSize, MinOf(n, fs.size - offset))

\* ReadFileToString reads a buffer at a time until it gets nothing.
RECURSIVE ReadFileToString(_, _)
ReadFileToString(fs, pos) ==
  LET fragment == ReadData(fs, pos, kBufferSize)
  IN  IF fragment = <<>> THEN <<>> ELSE fragment \o ReadFileToString(fs, pos + Len(fragment))
-----------------------------------------------------------------------------
(* InMemoryEnv: every call holds mutex_.                                   *)

Free(h) == handles[h] = None /\ \A g \in 1 .. h - 1 : handles[g] # None
Opened(h, kind, f) ==
  handles' = [handles EXCEPT ![h] = [kind |-> kind, f |-> f, pos |-> 0, skip |-> None]]

\* Any use of an entry that NewAppendableFile left null ends the process.
UseNull(n) ==
  /\ file_map[n] = Nullptr
  /\ crashed' = TRUE
  /\ UNCHANGED <<file_map, file, handles, contents, orphans>>

\* NewSequentialFile, NewRandomAccessFile and NewDirectIORandomAccessFile.
NewReader(n, kind, h) ==
  /\ file_map[n] \notin {None, Nullptr} /\ Free(h)
  /\ file' = [file EXCEPT ![file_map[n]] = Ref(@)]
  /\ Opened(h, kind, file_map[n])
  /\ UNCHANGED <<file_map, crashed, contents, orphans>>

NewWritableFile(n, h) ==
  /\ Free(h) /\ file_map[n] # Nullptr
  /\ IF file_map[n] = None
     THEN /\ Len(file) < MaxFiles
          /\ file' = Append(file, Ref(Ref(NewFileState)))
          /\ file_map' = [file_map EXCEPT ![n] = Len(file) + 1]
          /\ contents' = Append(contents, <<>>)
     ELSE /\ file' = [file EXCEPT ![file_map[n]] = Ref(Truncate(@))]
          /\ contents' = [contents EXCEPT ![file_map[n]] = <<>>]
          /\ UNCHANGED file_map
  /\ Opened(h, "writable", file_map'[n])
  /\ UNCHANGED <<crashed, orphans>>

\* A file that did not exist gets a map entry, but a null one.
NewAppendableFile(n, h) ==
  /\ Free(h)
  /\ IF file_map[n] \in {None, Nullptr}
     THEN /\ Len(file) < MaxFiles
          /\ file' = Append(file, Ref(Ref(NewFileState)))
          /\ file_map' = [file_map EXCEPT ![n] = Nullptr]
          /\ contents' = Append(contents, <<>>)
          /\ orphans' = orphans \cup {Len(file) + 1}
          /\ Opened(h, "writable", Len(file) + 1)
     ELSE /\ file' = [file EXCEPT ![file_map[n]] = Ref(@)]
          /\ Opened(h, "writable", file_map[n])
          /\ UNCHANGED <<file_map, contents, orphans>>
  /\ UNCHANGED crashed

RemoveFileInternal(n) == IF file_map[n] = None THEN file ELSE [file EXCEPT ![file_map[n]] = Unref(@)]

RemoveFile(n) ==
  /\ file_map[n] \notin {None, Nullptr}
  /\ file' = RemoveFileInternal(n)
  /\ file_map' = [file_map EXCEPT ![n] = None]
  /\ UNCHANGED <<handles, crashed, contents, orphans>>

RenameFileOver(src, target) ==
  /\ file_map[src] # None /\ file_map[target] # Nullptr
  /\ file_map' = [file_map EXCEPT ![target] = file_map[src], ![src] = None]
  /\ UNCHANGED <<file, handles, crashed, contents, orphans>>

RenameFile(src, target) ==
  /\ file_map[src] # None /\ file_map[target] # Nullptr
  /\ file' = RemoveFileInternal(target)
  /\ file_map' = [file_map EXCEPT ![target] = file_map[src], ![src] = None]
  /\ UNCHANGED <<handles, crashed, contents, orphans>>
-----------------------------------------------------------------------------
(* The handles.                                                            *)

CloseHandle(h) ==
  /\ handles[h] # None
  /\ file' = [file EXCEPT ![handles[h].f] = Unref(@)]
  /\ handles' = [handles EXCEPT ![h] = None]
  /\ UNCHANGED <<file_map, crashed, contents, orphans>>

\* The bytes tell where in the file they belong.
Bytes(size, n) == [i \in 1 .. n |-> size + i]

AppendHandle(h, n) ==
  /\ handles[h] # None /\ handles[h].kind = "writable"
  /\ LET f == handles[h].f IN
     /\ file[f].size + n <= MaxBytes
     /\ file' = [file EXCEPT ![f] = AppendData(@, Bytes(file[f].size, n))]
     /\ contents' = [contents EXCEPT ![f] = @ \o Bytes(file[f].size, n)]
  /\ UNCHANGED <<file_map, handles, crashed, orphans>>

ReadSequential(h, n) ==
  /\ handles[h] # None /\ handles[h].kind = "sequential" /\ handles[h].skip = None
  /\ LET f == handles[h].f
         bytes == ReadData(file[f], handles[h].pos, n)
     IN  /\ CanRead(file[f], handles[h].pos)
         /\ handles' = [handles EXCEPT ![h].pos = @ + Len(bytes)]
  /\ UNCHANGED <<file_map, file, crashed, contents, orphans>>

\* Skip asks for the size twice, and does not hold the lock in between.
SkipChecks(h, n) ==
  /\ handles[h] # None /\ handles[h].kind = "sequential" /\ handles[h].skip = None
  /\ handles[h].pos <= file[handles[h].f].size
  /\ handles' = [handles EXCEPT ![h].skip = n]
  /\ UNCHANGED <<file_map, file, crashed, contents, orphans>>

SkipMoves(h) ==
  /\ handles[h] # None /\ handles[h].skip # None
  /\ LET available == (file[handles[h].f].size - handles[h].pos) % SizeMod
     IN  handles' = [handles EXCEPT ![h].pos = @ + MinOf(handles[h].skip, available),
                                    ![h].skip = None]
  /\ UNCHANGED <<file_map, file, crashed, contents, orphans>>

\* DoWriteStringToFile: truncate or create, append, close.
WriteStringToFile(n, len) ==
  /\ file_map[n] \notin {None, Nullptr}
  /\ LET f == file_map[n]
         data == Bytes(0, len)
     IN  /\ file' = [file EXCEPT ![f] = Unref(AppendData(Ref(Truncate(@)), data))]
         /\ contents' = [contents EXCEPT ![f] = data]
  /\ UNCHANGED <<file_map, handles, crashed, orphans>>

Next ==
  /\ ~crashed
  /\ \/ \E n \in Names :
          \/ UseNull(n)
          \/ RemoveFile(n)
          \/ \E len \in Chunks : WriteStringToFile(n, len)
          \/ \E target \in Names : RenameFile(n, target)
          \/ \E h \in 1 .. MaxHandles :
               \/ \E kind \in {"sequential", "random"} : NewReader(n, kind, h)
               \/ NewWritableFile(n, h)
               \/ NewAppendableFile(n, h)
     \/ \E h \in 1 .. MaxHandles :
          \/ CloseHandle(h)
          \/ SkipMoves(h)
          \/ \E n \in Chunks :
               \/ AppendHandle(h, n)
               \/ ReadSequential(h, n)
               \/ SkipChecks(h, n)

Spec == Init /\ [][Next]_vars
-----------------------------------------------------------------------------
Using(f) == {h \in 1 .. MaxHandles : handles[h] # None /\ handles[h].f = f}
Naming(f) == {n \in Names : file_map[n] = f}

(***************************************************************************)
(* A file lives exactly as long as a name or a handle refers to it, across *)
(* removal, renaming over another file and truncation while it is open.    *)
(* Only a file that NewAppendableFile did not enter in the map keeps the   *)
(* reference that was meant for the map.                                   *)
(***************************************************************************)
FilesAreCounted ==
  \A f \in 1 .. Len(file) :
    /\ file[f].refs = Cardinality(Using(f)) + Cardinality(Naming(f)) + (IF f \in orphans THEN 1 ELSE 0)
    /\ file[f].deleted <=> file[f].refs = 0

(***************************************************************************)
(* Whatever was appended through several handles and cut into blocks is    *)
(* read back by a sequential or random access read and by ReadFileToString *)
(* with its own buffer length, and no read leaves the blocks of the file.  *)
(***************************************************************************)
ReadsReturnContents ==
  \A f \in {g \in 1 .. Len(file) : ~file[g].deleted} :
    /\ ReadFileToString(file[f], 0) = contents[f]
    /\ \A n \in Chunks, offset \in 0 .. file[f].size :
         ReadData(file[f], offset, n) = SubSeq(contents[f], offset + 1, MinOf(offset + n, file[f].size))
=============================================================================
