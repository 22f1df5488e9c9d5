------------------------------ MODULE FileData ------------------------------
(* The read path of a file on a block device: INodeFile                    *)
(* (src/fs/inodefile.hpp) with its one-block cache, the inode of an        *)
(* ISO 9660 file (src/mod/init/iso9660/inode.hpp) and BlockHandle::read    *)
(* (src/dev/blockhandle.cpp).  A byte of the device is its position, so a  *)
(* buffer tells which bytes were put into it.                              *)
EXTENDS Integers, Sequences, FiniteSets

CONSTANTS SectorSize, BlockSize,   \* of the device, of the file system
          MaxCombo,                \* sectors the device reads in one go
          FileStart, FileSize,     \* first block and length of the file
          ReadLengths,             \* counts given to read()
          Files,                   \* the open files: 1 is opened, others are dups
          DirRecords, DirSize      \* a directory: position |-> its record

VARIABLES fdFile,   \* per file: open, pos, cached, cache
          fdLast,   \* the last read(): where from, what it put, what it said
          fdDir     \* a directory being read: pos, listed since which position

fdVars == <<fdFile, fdLast, fdDir>>

NoCached == -1      \* m_cached_block of a file that read nothing

Least(a, b) == IF a < b THEN a ELSE b
Bytes(from, n) == [i \in 1 .. n |-> from + i - 1]

\* BlockDevice::readBlock(): what the device puts into the buffer.
ReadBlock(sector, count) == Bytes(sector * SectorSize, count * SectorSize)

----------------------------------------------------------------------------
(* BlockHandle::read(buffer, start, len).                                  *)

IsPerfect(start, len, size) == start % size = 0 /\ len % size = 0

\* The main loop.  combo collects whole sectors until the device's limit, the
\* rest of the request goes through the shared buffer sector by sector.
Flush(combo) == ReadBlock(combo[1], combo[2])
NoCombo == <<0, 0>>
\* Mutant: a combo starts at the sector added last.
LongerMoved(combo, sector) == <<sector, combo[2] + 1>>
Longer(combo, sector) == IF combo[2] = 0 THEN <<sector, 1>> ELSE <<combo[1], combo[2] + 1>>

RECURSIVE Sectors(_, _, _)
Sectors(start, len, combo) ==
    LET offset == start % SectorSize
        llen   == Least(SectorSize - offset, len)
        sector == start \div SectorSize
        part   == SubSeq(ReadBlock(sector, 1), offset + 1, offset + llen)
    IN  IF len = 0 THEN Flush(combo)
        ELSE IF combo[2] = MaxCombo THEN Flush(combo) \o Sectors(start, len, NoCombo)
        ELSE IF IsPerfect(start, llen, SectorSize)
             THEN Sectors(start + llen, len - llen, Longer(combo, sector))
             ELSE Flush(combo) \o part \o Sectors(start + llen, len - llen, NoCombo)

\* The loop for a buffer at an odd address: whole sectors, or as many bytes as
\* start is into its sector, through a buffer on the stack, until the address
\* is even.
RECURSIVE Misaligned(_, _)
Misaligned(start, len) ==
    LET into == Least(start % SectorSize, len)
        n    == IF into = 0 THEN Least(len, SectorSize) ELSE into
        got  == SubSeq(ReadBlock(start \div SectorSize, 1), 1, n)
    IN  IF len = n THEN got
        ELSE got \o IF n % 2 = 0 THEN Misaligned(start + n, len - n)
                    ELSE Sectors(start + n, len - n, NoCombo)

HandleRead(odd, start, len) ==
    IF odd THEN Misaligned(start, len) ELSE Sectors(start, len, NoCombo)

----------------------------------------------------------------------------
(* INodeFile.                                                              *)

\* ISO9600FileINode::readBlocks(): blocks of the file.
INodeReadBlocks(odd, block, count) ==
    HandleRead(odd, FileStart * BlockSize + block * BlockSize, count * BlockSize)

\* INodeFile::readBlocks(): again whole blocks together and the rest through a
\* buffer of its own, which is aligned.  The address of the buffer decides
\* odd; it changes with what was put before.
RECURSIVE FileBlocks(_, _, _, _)
FileBlocks(odd, start, len, combo) ==
    LET offset == start % BlockSize
        llen   == Least(BlockSize - offset, len)
        block  == start \div BlockSize
        done   == IF combo[2] = 0 THEN <<>> ELSE INodeReadBlocks(odd, combo[1], combo[2])
        part   == SubSeq(INodeReadBlocks(FALSE, block, 1), offset + 1, offset + llen)
        odd2   == odd # ((Len(done) + llen) % 2 = 1)
    IN  IF len = 0 THEN done
        ELSE IF IsPerfect(start, llen, BlockSize)
             THEN FileBlocks(odd, start + llen, len - llen, Longer(combo, block))
             ELSE done \o part \o FileBlocks(odd2, start + llen, len - llen, NoCombo)

LastBlock(pos) == pos \div BlockSize

\* read(): first what the cached block has, then the rest, then the block the
\* position is in becomes the cached one.  ret is what the caller is told.
FileRead(f, odd, requested) ==
    LET count  == Least(FileSize - f.pos, requested)
        hit    == f.pos \div BlockSize = f.cached
        offset == f.pos % BlockSize
        len    == IF hit THEN Least(BlockSize - offset, count) ELSE 0
        first  == SubSeq(f.cache, offset + 1, offset + len)
        rest   == count - len
        second == FileBlocks(odd # (len % 2 = 1), f.pos + len, rest, NoCombo)
        last   == LastBlock(f.pos + count)
    IN  IF rest = 0
        THEN [file |-> [f EXCEPT !.pos = @ + count],
              ret  |-> IF count = 0 THEN 0 ELSE requested,
              buf  |-> first]
        ELSE [file |-> [f EXCEPT !.pos = @ + count, !.cached = last,
                         !.cache = IF last = f.cached THEN @
                                   ELSE FileBlocks(FALSE, last * BlockSize, BlockSize, NoCombo)],
              ret  |-> rest,
              buf  |-> first \o second]

\* seek(): every mode comes down to a new position, refused outside the file.
FileSeek(f, pos) == [f EXCEPT !.pos = IF pos < 0 \/ pos > FileSize THEN @ ELSE pos]

NewFile  == [open |-> TRUE, pos |-> 0, cached |-> NoCached, cache |-> <<>>]
NothingRead == [asked |-> 0, from |-> 0, to |-> 0, ret |-> 0, buf |-> <<>>]

FdInit ==
    /\ fdFile = [x \in Files |-> [NewFile EXCEPT !.open = (x = 1)]]
    /\ fdLast = NothingRead
    /\ fdDir = [pos |-> 0, since |-> 0, listed |-> <<>>]

ReadFile(x, n, odd) ==
    LET r == FileRead(fdFile[x], odd, n)
    IN  /\ fdFile' = [fdFile EXCEPT ![x] = r.file]
        /\ fdLast' = [asked |-> n, from |-> fdFile[x].pos, to |-> r.file.pos,
                      ret |-> r.ret, buf |-> r.buf]

SeekFile(x, pos) ==
    /\ fdFile' = [fdFile EXCEPT ![x] = FileSeek(@, pos)]
    /\ fdLast' = NothingRead

\* dup(): a file of its own with the position and the cache of the original.
DupFile(x, y) ==
    /\ ~fdFile[y].open
    /\ fdFile' = [fdFile EXCEPT ![y] = fdFile[x]]
    /\ fdLast' = NothingRead

----------------------------------------------------------------------------
(* ISO9600DirectoryINode.  Records do not cross blocks; where a block has  *)
(* no more, the length byte is 0.  The first two have no name.             *)

NextBlock(pos) == ((pos + BlockSize) \div BlockSize) * BlockSize

RECURSIVE IsoReadDir(_)
IsoReadDir(pos) ==
    IF pos >= DirSize THEN [pos |-> pos, names |-> <<>>]
    ELSE IF pos \notin DOMAIN DirRecords THEN IsoReadDir(NextBlock(pos))
    ELSE LET r == DirRecords[pos]
         IN  IF r.name = "" THEN IsoReadDir(pos + r.len)
             ELSE [pos |-> pos + r.len, names |-> <<r.name>>]

\* readdir() of an open directory.
ReadDir ==
    /\ LET r == IsoReadDir(fdDir.pos)
       IN  fdDir' = [fdDir EXCEPT !.pos = r.pos, !.listed = @ \o r.names]
    /\ UNCHANGED <<fdFile, fdLast>>

\* seekdir() to a position telldir() gave; at the end it is refused.
SeekDir(pos) ==
    /\ fdDir.pos < DirSize
    /\ fdDir' = [pos |-> pos, since |-> pos, listed |-> <<>>]
    /\ UNCHANGED <<fdFile, fdLast>>

----------------------------------------------------------------------------

DirNext == ReadDir \/ \E pos \in DOMAIN DirRecords : SeekDir(pos)

FdNext ==
    \E x \in Files :
        /\ fdFile[x].open
        /\ UNCHANGED fdDir
        /\ \/ \E n \in ReadLengths, odd \in BOOLEAN : ReadFile(x, n, odd)
           \/ \E pos \in -1 .. FileSize + 1 : SeekFile(x, pos)
           \/ \E y \in Files : DupFile(x, y)

----------------------------------------------------------------------------
(* Properties.                                                             *)

\* The bytes put into the caller's buffer are those of the file from the
\* position on, as many as the file still has, whatever the alignment of the
\* buffer and the position, through cache, combos and partial blocks; and the
\* position moved on by just as many (inodefile.hpp:27-60 and 141-183,
\* blockhandle.cpp:42-127).
ReadShowsFile ==
    LET n == Least(fdLast.asked, FileSize - fdLast.from)
    IN  /\ fdLast.buf = Bytes(FileStart * BlockSize + fdLast.from, n)
        /\ fdLast.to = fdLast.from + n

\* The cache holds the block it is said to hold, in duplicates too, and a
\* position never leaves the file (inodefile.hpp:53-57, 62-99).
CacheIsBlock ==
    \A x \in Files : LET f == fdFile[x] IN
        /\ f.pos \in 0 .. FileSize
        /\ f.cached # NoCached =>
             f.cache = Bytes((FileStart + f.cached) * BlockSize, BlockSize)

\* A directory read from a position on lists the names recorded from there to
\* where the reading is, each once and in order, across the unused ends of
\* blocks (iso9660/inode.hpp:25-105).
DirListsAll ==
    LET span == {p \in DOMAIN DirRecords : p >= fdDir.since /\ p < fdDir.pos
                                            /\ DirRecords[p].name # ""}
        nth(i) == CHOOSE p \in span : Cardinality({q \in span : q <= p}) = i
    IN  fdDir.listed = [i \in 1 .. Cardinality(span) |-> DirRecords[nth(i)].name]

\* Reading shows what the disk holds: of a file, of its cached block and of
\* a directory.
ReadsShowDisk == ReadShowsFile /\ CacheIsBlock /\ DirListsAll
=============================================================================
