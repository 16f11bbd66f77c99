----------------------------- MODULE StdioFiles -----------------------------
(***************************************************************************)
(* new_io.cpp: the C library's files on FatFs.  A small file opened for    *)
(* reading and writing, or to be written anew, is held in memory and       *)
(* written back by fsync and close; a read-only one is held from its first *)
(* seek on; a file that grows past the limit is spilled and then written   *)
(* directly.  The emulator must not notice which of them it has.           *)
(*                                                                         *)
(* The model has one file and the one descriptor it is opened with again   *)
(* and again.  FatFs is external: a read, write or seek may fail, after    *)
(* which the open file refuses all others (FIL.err), and a write may be    *)
(* short when the disk is full.  Directories and paths are left out.       *)
(***************************************************************************)
EXTENDS Naturals, Sequences

CONSTANTS
  Bytes,
  CacheLimit,         \* BMC64_FILE_CACHE_LIMIT
  MaxFileSize,        \* bound: no larger file is written
  MaxWrite            \* bound: the bytes of one write

ASSUME StdioAssumption ==
  CacheLimit \in Nat /\ MaxFileSize \in Nat \ {0} /\ MaxWrite \in Nat \ {0}

VARIABLES
  disk,               \* FatFs: the file's bytes
  fil,                \* FatFs: position and error of the open FIL
  in_use, mode, append, size, position, contents, cached, written_to,  \* CircleFile
  logical,            \* history: the bytes the program has written
  synced,             \* history: fsync or close has succeeded since the last write
  lastRead            \* history: what the last read gave, and should have given

stdioVars == <<disk, fil, in_use, mode, append, size, position, contents, cached,
               written_to, logical, synced, lastRead>>

Texts(n) == UNION {[1..k -> Bytes] : k \in 0..n}
NoRead == [got |-> <<>>, due |-> <<>>]

StdioTypeOK ==
  /\ disk \in Texts(MaxFileSize) /\ logical \in Texts(MaxFileSize)
  /\ fil \in [pos : 0..MaxFileSize, err : BOOLEAN]
  /\ in_use \in BOOLEAN /\ mode \in {"rd", "wr", "rdwr"} /\ append \in BOOLEAN
  /\ size \in 0..MaxFileSize /\ position \in 0..size
  /\ contents \in Texts(CacheLimit) /\ cached \in BOOLEAN /\ written_to \in BOOLEAN
  /\ synced \in BOOLEAN
  /\ lastRead \in [got : Texts(MaxFileSize), due : Texts(MaxFileSize)]

StdioInit ==
  /\ disk \in Texts(1) /\ logical = disk
  /\ fil = [pos |-> 0, err |-> FALSE]
  /\ in_use = FALSE /\ mode = "rd" /\ append = FALSE
  /\ size = 0 /\ position = 0 /\ contents = <<>> /\ cached = FALSE
  /\ written_to = FALSE /\ synced = TRUE
  /\ lastRead = NoRead

\* Text t with the bytes b from offset p on.
Overwrite(t, p, b) ==
  [i \in 1..(IF p + Len(b) > Len(t) THEN p + Len(b) ELSE Len(t)) |->
     IF i > p /\ i <= p + Len(b) THEN b[i - p] ELSE t[i]]
First(n, t) == SubSeq(t, 1, n)

---------------------------------------------------------------------------
(* FatFs calls: the sets of their outcomes.                                 *)

\* f_lseek to a place inside the file.
f_lseek(f, p) == {[pos |-> f.pos, err |-> TRUE]} \cup (IF f.err THEN {} ELSE {[pos |-> p, err |-> FALSE]})

\* f_write of b: all of it, a part when the disk is full, or an error, which may
\* come after a part has been written.
f_write(f, d, b) ==
  {[fil |-> [pos |-> f.pos + o[1], err |-> o[2]],
    disk |-> Overwrite(d, f.pos, First(o[1], b)), count |-> o[1]] :
     o \in (IF f.err THEN {<<0, TRUE>>} ELSE (0..Len(b)) \X BOOLEAN)}

---------------------------------------------------------------------------
(* The cache.                                                               *)

\* cache_file: the whole file is read.  The FatFs position moves, the logical
\* one does not.
CacheFile ==
  /\ size = 0 \/ ~fil.err
  /\ size <= CacheLimit
  /\ cached' = TRUE /\ contents' = disk
  /\ fil' = [fil EXCEPT !.pos = IF size = 0 THEN fil.pos ELSE size]

\* What flush_cached_file leaves when nothing fails: rewind, write, truncate.
WriteBack == [disk |-> contents, fil |-> [pos |-> size, err |-> FALSE], ok |-> TRUE]

\* flush_cached_file: the outcomes.  When a step fails the cache keeps the bytes,
\* and the disk has a part of them.
FlushCachedFile ==
  IF ~written_to THEN {[disk |-> disk, fil |-> fil, ok |-> TRUE]}
  ELSE (IF fil.err THEN {} ELSE {WriteBack})
       \cup {[disk |-> disk, fil |-> f, ok |-> FALSE] : f \in {[fil EXCEPT !.err = TRUE]}}
       \cup {[disk |-> w.disk, fil |-> w.fil, ok |-> FALSE] :
               w \in f_write([pos |-> 0, err |-> fil.err], disk, contents)}

---------------------------------------------------------------------------
(* _open.                                                                   *)

OpenModes == [mode : {"rd", "wr", "rdwr"}, append : BOOLEAN, trunc : BOOLEAN]

OpenPosition(m) == IF m.append THEN size' ELSE 0

\* Whether the file is to be held in memory from the start, and whether it can be:
\* FatFs reads nothing from a file opened only for writing.
OpenCaches(m) ==
  \/ m.mode = "rdwr" /\ size' <= CacheLimit
  \/ m.mode = "wr" /\ m.trunc
CanCache(m) == size' <= CacheLimit /\ (m.mode = "wr" => size' = 0)

\* The file is there; FatFs truncates it or goes to its end when asked to, append
\* before truncation.  Reading it into memory may fail, and the open with it.
Open(m) ==
  /\ ~in_use
  /\ m.mode = "rd" => ~m.append /\ ~m.trunc
  /\ disk' = IF m.trunc /\ ~m.append THEN <<>> ELSE disk
  /\ logical' = disk'
  /\ synced' = TRUE
  /\ mode' = m.mode /\ append' = m.append
  /\ written_to' = FALSE
  /\ lastRead' = NoRead
  /\ size' = Len(disk') /\ position' = OpenPosition(m)
  /\ OpenCaches(m) => CanCache(m)
  /\ cached' = OpenCaches(m)
  /\ contents' = IF cached' THEN disk' ELSE <<>>
  /\ fil' = [pos |-> IF (cached' /\ size' > 0) \/ m.append THEN size' ELSE 0, err |-> FALSE]
  /\ in_use' = TRUE

\* The file cannot be opened or not be read into memory; a truncated one is empty.
OpenFails(m) ==
  /\ ~in_use
  /\ m.mode = "rd" => ~m.append /\ ~m.trunc
  /\ disk' = IF m.trunc /\ ~m.append THEN <<>> ELSE disk
  /\ logical' = disk' /\ synced' = TRUE
  /\ UNCHANGED <<fil, in_use, mode, append, size, position, contents, cached, written_to,
                 lastRead>>

---------------------------------------------------------------------------
(* _read and _lseek.                                                        *)

Due(n) == SubSeq(logical, position + 1, position + n)
MinOf(a, b) == IF a < b THEN a ELSE b

Read(n) ==
  /\ in_use /\ mode # "wr"
  /\ LET from == IF cached THEN position ELSE fil.pos
         text == IF cached THEN contents ELSE disk
         k    == MinOf(n, Len(text) - from)
     IN  /\ cached \/ ~fil.err
         /\ lastRead' = [got |-> SubSeq(text, from + 1, from + k),
                         due |-> Due(MinOf(n, Len(logical) - position))]
         /\ position' = position + k
         /\ fil' = IF cached THEN fil ELSE [fil EXCEPT !.pos = @ + k]
  /\ UNCHANGED <<disk, in_use, mode, append, size, contents, cached, written_to, logical, synced>>

ReadFails ==
  /\ in_use /\ mode # "wr" /\ ~cached
  /\ fil' = [fil EXCEPT !.err = TRUE]
  /\ UNCHANGED <<disk, in_use, mode, append, size, position, contents, cached, written_to,
                 logical, synced, lastRead>>

\* _lseek of a file in memory, or read into memory now, moves only the position.
SeekCached(p) ==
  /\ in_use /\ p \in 0..size
  /\ \/ cached /\ UNCHANGED <<cached, contents, fil>>
     \/ ~cached /\ mode = "rd" /\ CacheFile
  /\ position' = p
  /\ UNCHANGED <<disk, in_use, mode, append, size, written_to, logical, synced, lastRead>>

\* _lseek of another one, also when there is no memory for a small one.
SeekDirect(p) ==
  /\ in_use /\ p \in 0..size /\ ~cached
  /\ mode = "rd" => size > 0
  /\ fil' \in f_lseek(fil, p)
  /\ position' = IF fil'.err THEN position ELSE p
  /\ UNCHANGED <<disk, in_use, mode, append, size, contents, cached, written_to, logical,
                 synced, lastRead>>

\* A small read-only file cannot be read: the seek fails, and FatFs with it.
SeekCacheFails ==
  /\ in_use /\ ~cached /\ mode = "rd" /\ size \in 1..CacheLimit
  /\ fil' = [fil EXCEPT !.err = TRUE]
  /\ UNCHANGED <<disk, in_use, mode, append, size, position, contents, cached, written_to,
                 logical, synced, lastRead>>

---------------------------------------------------------------------------
(* _write.                                                                  *)

WritePosition == IF append THEN size ELSE position

Grown(p) == IF p > size THEN p ELSE size

\* Into memory.
WriteCached(b) ==
  /\ in_use /\ mode # "rd" /\ cached
  /\ WritePosition + Len(b) <= CacheLimit
  /\ contents' = Overwrite(contents, WritePosition, b)
  /\ logical' = Overwrite(logical, WritePosition, b)
  /\ position' = WritePosition + Len(b)
  /\ size' = Grown(position')
  /\ written_to' = TRUE /\ synced' = FALSE
  /\ UNCHANGED <<disk, fil, in_use, mode, append, cached, lastRead>>

\* No memory, and with O_APPEND the position has moved already.
WriteNoMemory ==
  /\ in_use /\ mode # "rd" /\ cached
  /\ position' = WritePosition
  /\ UNCHANGED <<disk, fil, in_use, mode, append, size, contents, cached, written_to,
                 logical, synced, lastRead>>

\* spill_cache cannot write the file back: it stays in memory.
SpillFails(b) ==
  /\ in_use /\ mode # "rd" /\ cached
  /\ WritePosition + Len(b) > CacheLimit
  /\ \E o \in FlushCachedFile :
       ~o.ok /\ disk' = o.disk /\ fil' = o.fil
  /\ position' = WritePosition
  /\ UNCHANGED <<in_use, mode, append, size, contents, cached, written_to, logical, synced,
                 lastRead>>

\* The bytes go to FatFs at position p of file f on disk d: some of them are
\* written and counted, or none and the call fails.
WriteDirect(f, d, p, b) ==
  \E w \in f_write(f, d, b) :
    LET k == IF w.fil.err THEN 0 ELSE w.count
    IN  /\ disk' = w.disk /\ fil' = w.fil
        /\ position' = p + k
        /\ size' = Grown(position')
        /\ written_to' = (written_to \/ k > 0)
        /\ logical' = IF w.fil.err THEN w.disk ELSE Overwrite(logical, p, First(k, b))
        /\ synced' = FALSE

\* Mutant: the spilled file is written where FatFs stands.
SpilledAtEnd(f, p) == {[pos |-> f.pos, err |-> FALSE]}

\* After the spill FatFs goes back to the logical position.
Spilled(f, p) == f_lseek(f, p)

WriteSpilled(b) ==
  /\ in_use /\ mode # "rd" /\ cached
  /\ WritePosition + Len(b) > CacheLimit
  /\ \E o \in FlushCachedFile :
       /\ o.ok
       /\ cached' = FALSE /\ contents' = <<>>
       /\ \E f \in Spilled(o.fil, WritePosition) :
            IF f.err
            THEN /\ disk' = o.disk /\ fil' = f /\ position' = WritePosition
                 /\ UNCHANGED <<size, written_to, logical, synced>>
            ELSE WriteDirect(f, o.disk, WritePosition, b)
  /\ UNCHANGED <<in_use, mode, append, lastRead>>

\* A file that is not in memory; with O_APPEND it is written at its end.
WriteUncached(b) ==
  /\ in_use /\ mode # "rd" /\ ~cached
  /\ \E f \in (IF append THEN f_lseek(fil, size) ELSE {fil}) :
       IF f.err
       THEN /\ fil' = f /\ position' = WritePosition
            /\ UNCHANGED <<disk, size, written_to, logical, synced>>
       ELSE WriteDirect(f, disk, WritePosition, b)
  /\ UNCHANGED <<in_use, mode, append, contents, cached, lastRead>>

---------------------------------------------------------------------------
(* fsync and _close.                                                        *)

\* What is to be written is on the disk, or not: the outcomes.
Synchronised ==
  IF cached THEN FlushCachedFile
  ELSE {[disk |-> disk, fil |-> fil, ok |-> ok] : ok \in BOOLEAN}

Fsync ==
  /\ in_use /\ mode # "rd"
  /\ \E o \in Synchronised :
       /\ disk' = o.disk /\ fil' = o.fil
       /\ written_to' = (written_to /\ ~o.ok)
       /\ synced' = (synced \/ o.ok)
  /\ UNCHANGED <<in_use, mode, append, size, position, contents, cached, logical, lastRead>>

\* Whatever fails, the descriptor is free afterwards; a failure is reported and
\* the bytes of the file are what the disk has.
Close ==
  /\ in_use
  /\ \E o \in Synchronised :
       /\ disk' = o.disk
       /\ IF o.ok THEN synced' = TRUE /\ UNCHANGED logical
          ELSE synced' = FALSE /\ logical' = o.disk
  /\ fil' = [pos |-> 0, err |-> FALSE]
  /\ in_use' = FALSE /\ mode' = "rd" /\ append' = FALSE
  /\ size' = 0 /\ position' = 0 /\ contents' = <<>> /\ cached' = FALSE
  /\ written_to' = FALSE
  /\ lastRead' = NoRead

Data == {b \in Texts(MaxWrite) : Len(b) > 0 /\ WritePosition + Len(b) <= MaxFileSize}

StdioNext ==
  \/ \E m \in OpenModes : Open(m) \/ OpenFails(m)
  \/ (\E n \in 1..MaxWrite : Read(n)) \/ ReadFails
  \/ \E p \in 0..MaxFileSize : SeekCached(p) \/ SeekDirect(p)
  \/ SeekCacheFails \/ WriteNoMemory
  \/ \E b \in Data : WriteCached(b) \/ SpillFails(b) \/ WriteSpilled(b) \/ WriteUncached(b)
  \/ Fsync \/ Close

StdioSpec == StdioInit /\ [][StdioNext]_stdioVars

---------------------------------------------------------------------------
(* Properties.                                                              *)

\* A read gives the bytes that were written, at the logical position, whether
\* the file is in memory, was spilled or is read directly.
ReadsWhatWasWritten == lastRead.got = lastRead.due

\* After an fsync or a close that reported success the disk has every byte
\* written before it.
SyncedOnDisk == synced => disk = logical

\* The bytes of an open file are where they are looked for, at the position
\* FatFs or the cache will use next, unless FatFs has given the file up.
FileIntact ==
  in_use =>
    /\ size = Len(logical) \/ fil.err
    /\ cached => contents = logical
    /\ (~cached /\ ~fil.err) => disk = logical /\ fil.pos = position

\* The program cannot tell how its file is kept.
FilesFaithful == StdioTypeOK /\ ReadsWhatWasWritten /\ SyncedOnDisk /\ FileIntact
=============================================================================
