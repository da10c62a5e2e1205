-------------------------------- MODULE Fat12 --------------------------------
(***************************************************************************)
(* How the boot sector finds and reads LOADER.BIN and the loader reads     *)
(* KERNEL.BIN (src/boot/boot.asm, src/boot/loader.asm: nearly the same     *)
(* code): a search of the root directory of a FAT12 floppy, and a walk     *)
(* along the file's chain of clusters, of one sector each.                 *)
(*                                                                         *)
(* A directory entry is a file name and a first cluster; a data sector is  *)
(* told by its cluster, and the allocation table is read in digits of four *)
(* bits, the lowest of an entry first.  A read that fails is repeated until *)
(* it succeeds (boot.asm:123-127): here it is one that does.               *)
(***************************************************************************)
EXTENDS Integers, Sequences

CONSTANTS
    BytesPerSec,    \* BPB_BytePerSec
    SecPerTrk,      \* BPB_SecPerTrk
    DirEntries,     \* the entries of one sector, 0x10 (boot.asm:43)
    RootDirSectors,
    FATSz,          \* the sectors of one of the two allocation tables
    Window          \* the sectors that fit before the 16-bit bx wraps around

ASSUME Fat12Assumption ==
    /\ {BytesPerSec, SecPerTrk, DirEntries, RootDirSectors, FATSz, Window}
          \subseteq Nat \ {0}

SectorNoOfFAT1 == 1
SectorNoOfRootDir == SectorNoOfFAT1 + 2 * FATSz
DeltaSectorNo == SectorNoOfRootDir - 2      \* the first cluster is number 2
EndOfFile == 16 * 16 * 16 - 1               \* 0x0FFF

VARIABLES
    floppy,     \* the names in its directory, in order, and each file's clusters
    place,      \* "search", "load", "loaded", "no file"
    wanted,     \* the file name
    sector_no,  \* wSectorNo, from the beginning of the directory
    cluster,    \* the cluster on the stack
    bx,         \* where the next sector goes, in sectors
    memory      \* the clusters read, by place

fat12 == <<floppy, place, wanted, sector_no, cluster, bx, memory>>

\* A floppy as its writer leaves it: the directory is as long as the boot record says,
\* a name in it has a chain, and no cluster is twice in the chains, nor beyond the table.
FloppyOK(f) ==
    /\ DOMAIN f.names = 1 .. DirEntries * RootDirSectors
    /\ \A n \in DOMAIN f.names : f.names[n] \in {"LOADER", "KERNEL"} => f.names[n] \in DOMAIN f.chain
    /\ \A name \in DOMAIN f.chain :
        /\ f.chain[name] # <<>>
        /\ f.chain[name] \in Seq({c \in 2 .. EndOfFile - 1 : 3 * c + 2 < 2 * BytesPerSec * FATSz})
        /\ \A other \in DOMAIN f.chain :
            \A j \in DOMAIN f.chain[name], k \in DOMAIN f.chain[other] :
                f.chain[name][j] = f.chain[other][k] => name = other /\ j = k

Empty == [n \in 0 .. Window - 1 |-> 0]

FatInit ==
    /\ wanted = "LOADER"
    /\ place = "search" /\ sector_no = 0
    /\ cluster = 0 /\ bx = 0
    /\ memory = Empty

\* The program that is loaded starts, with variables of its own.
Start(name, where) ==
    /\ wanted' = name
    /\ place' = where /\ sector_no' = 0
    /\ cluster' = 0 /\ bx' = 0
    /\ memory' = Empty

-----------------------------------------------------------------------------
(* The floppy and the BIOS *)

\* The allocation table: behind each cluster the next one of its file
FatEntry(c) ==
    LET chain == floppy.chain
        at == {p \in UNION {{name} \X DOMAIN chain[name] : name \in DOMAIN chain} :
                  chain[p[1]][p[2]] = c}
        Behind(p) == IF p[2] = Len(chain[p[1]]) THEN EndOfFile ELSE chain[p[1]][p[2] + 1]
    IN  IF at = {} THEN 0 ELSE Behind(CHOOSE p \in at : TRUE)

Digit(n) == (FatEntry(n \div 3) \div <<1, 16, 16 * 16>>[(n % 3) + 1]) % 16

\* What sector number n of the floppy holds, as table, as directory and as data.
\* There are two copies of the table.
Sector(n) ==
    [digits  |-> [k \in 0 .. 2 * BytesPerSec - 1 |->
                    IF n \in SectorNoOfFAT1 .. SectorNoOfRootDir - 1
                    THEN Digit(2 * BytesPerSec * ((n - SectorNoOfFAT1) % FATSz) + k)
                    ELSE 0],
     entries |-> IF n \in SectorNoOfRootDir .. SectorNoOfRootDir + RootDirSectors - 1
                 THEN SubSeq(floppy.names,
                             DirEntries * (n - SectorNoOfRootDir) + 1,
                             DirEntries * (n - SectorNoOfRootDir + 1))
                 ELSE <<>>,
     data    |-> n - RootDirSectors - DeltaSectorNo]

\* int 0x13: cylinder, head and sector, where sectors are counted from 1
Int13(ch, dh, cl) == Sector(SecPerTrk * (2 * ch + dh) + (cl - 1))

-----------------------------------------------------------------------------
(* ReadSector and GetFATEntry *)

\* mutant: the head and the cylinder in each other's registers
ReadCylinderFirst(n) ==
    LET track == n \div SecPerTrk IN Int13(track % 2, track \div 2, (n % SecPerTrk) + 1)

\* The place of sector n, as div, inc, shr and and compute it.
ReadSector(n) ==
    LET track == n \div SecPerTrk IN Int13(track \div 2, track % 2, (n % SecPerTrk) + 1)

\* mutant: one sector of the table only, and what follows it is not read
OneSector(n) == [k \in 0 .. 4 * BytesPerSec - 1 |->
    IF k < 2 * BytesPerSec THEN ReadSector(n).digits[k] ELSE 0]

\* mov cl, 2: an entry may lie in two sectors
TwoSectors(n) == [k \in 0 .. 4 * BytesPerSec - 1 |->
    IF k < 2 * BytesPerSec THEN ReadSector(n).digits[k]
    ELSE ReadSector(n + 1).digits[k - 2 * BytesPerSec]]

GetFATEntry(c) ==
    LET byte == (3 * c) \div 2
        odd  == (3 * c) % 2
        buf  == TwoSectors(SectorNoOfFAT1 + byte \div BytesPerSec)
        k    == 2 * (byte % BytesPerSec) + odd      \* shr ax, 4 if odd
    IN  buf[k] + 16 * buf[k + 1] + 16 * 16 * buf[k + 2]

-----------------------------------------------------------------------------

\* Each sector of the directory in turn
SearchInRootDir ==
    /\ place = "search"
    /\ LET entries == ReadSector(SectorNoOfRootDir + sector_no).entries
           found   == {n \in DOMAIN entries : entries[n] = wanted}
       IN  \/ /\ sector_no = RootDirSectors
              /\ place' = "no file"
              /\ UNCHANGED <<sector_no, cluster>>
           \/ /\ sector_no < RootDirSectors /\ found = {}
              /\ sector_no' = sector_no + 1
              /\ UNCHANGED <<place, cluster>>
           \/ /\ sector_no < RootDirSectors /\ found # {}
              /\ place' = "load"
              /\ cluster' = floppy.chain[wanted][1]
              /\ UNCHANGED sector_no
    /\ UNCHANGED <<floppy, wanted, bx, memory>>

PlaceAfter == bx + 1        \* mutant: bx does not wrap around
\* add bx, [BPB_BytePerSec]: es is not advanced
NextPlace == (bx + 1) % Window

LoadFile ==
    /\ place = "load"
    /\ memory' = [memory EXCEPT ![bx] =
                    ReadSector(cluster + RootDirSectors + DeltaSectorNo).data]
    /\ LET next == GetFATEntry(cluster) IN
        IF next = EndOfFile
        THEN place' = "loaded" /\ UNCHANGED <<cluster, bx>>
        ELSE cluster' = next /\ bx' = NextPlace /\ UNCHANGED place
    /\ UNCHANGED <<floppy, wanted, sector_no>>

FatStep == SearchInRootDir \/ LoadFile

-----------------------------------------------------------------------------
(* Properties *)

FatTypeOK ==
    /\ place \in {"search", "load", "loaded", "no file"}
    /\ sector_no \in 0 .. RootDirSectors
    /\ cluster \in 0 .. EndOfFile /\ bx \in 0 .. Window - 1
    /\ memory \in [0 .. Window - 1 -> Int]

OnFloppy(name) == \E n \in DOMAIN floppy.names : floppy.names[n] = name

\* The file that is started is the one that was asked for, each of its sectors in its
\* place, if it fits before bx wraps around; and none is started only if the floppy
\* has none of that name.  This rests on the arithmetic of ReadSector and GetFATEntry,
\* on entries that lie in two sectors of the table, and on files whose clusters are in
\* any order (boot.asm:30-97, 107-169; loader.asm:57-128, 152-214).
FileLoaded ==
    /\ place = "no file" => ~OnFloppy(wanted)
    /\ place = "loaded" =>
        /\ OnFloppy(wanted)
        /\ LET file == floppy.chain[wanted] IN
            Len(file) <= Window => \A k \in DOMAIN file : memory[k - 1] = file[k]
=============================================================================
