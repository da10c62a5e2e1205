---------------------------- MODULE StartupProofs ----------------------------
(***************************************************************************)
(* Proofs about Startup, for floppies and disks of every size and shape:   *)
(* the programs are loaded whole, each volume is found, and mkfs lays      *)
(* areas out that do not overlap.  Each part has an inductive invariant of *)
(* its own: FatInv, PartitionInv and MkfsInv.                              *)
(***************************************************************************)
EXTENDS Startup, SequenceTheorems, TLAPS

-----------------------------------------------------------------------------
(* Arithmetic *)

LEMMA DivMod ==
    ASSUME NEW a \in Nat, NEW b \in Nat \ {0}
    PROVE  /\ a \div b \in Nat /\ a % b \in 0 .. b - 1
           /\ a = b * (a \div b) + (a % b)
OBVIOUS

LEMMA MulLess ==
    ASSUME NEW a \in Nat, NEW b \in Nat, NEW c \in Nat, a * b < a * c
    PROVE  b < c
OBVIOUS

LEMMA DivModOf ==
    ASSUME NEW b \in Nat \ {0}, NEW q \in Nat, NEW r \in 0 .. b - 1
    PROVE  (b * q + r) \div b = q /\ (b * q + r) % b = r
<1> DEFINE a == b * q + r
<1>1. a \in Nat
  OBVIOUS
<1>2. a = b * (a \div b) + (a % b) /\ a % b \in 0 .. b - 1 /\ a \div b \in Nat
  BY <1>1, DivMod
<1>3. ~(a \div b < q)
  <2> SUFFICES ASSUME a \div b + 1 <= q PROVE FALSE
    BY <1>2
  <2>1. b * (a \div b + 1) <= b * q
    BY <1>2
  <2> QED BY <1>2, <2>1
<1>4. ~(q < a \div b)
  <2> SUFFICES ASSUME q + 1 <= a \div b PROVE FALSE
    BY <1>2
  <2>1. b * (q + 1) <= b * (a \div b)
    BY <1>2
  <2> QED BY <1>2, <2>1
<1>5. a \div b = q
  BY <1>2, <1>3, <1>4
<1> QED
  BY <1>1, <1>2, <1>5

-----------------------------------------------------------------------------
(* The floppy *)

\* ReadSector's division and the BIOS's multiplication undo each other.
LEMMA ReadSectorIs ==
    ASSUME NEW n \in Nat PROVE ReadSector(n) = Sector(n)
<1> DEFINE track == n \div SecPerTrk
<1>1. track \in Nat /\ n = SecPerTrk * track + (n % SecPerTrk) /\ n % SecPerTrk \in Nat
  <2>1. SecPerTrk \in Nat \ {0}
    BY Fat12Assumption
  <2> QED
    BY <2>1, DivMod
<1>2. track = 2 * (track \div 2) + (track % 2)
  BY <1>1
<1> QED
  BY <1>1, <1>2 DEF ReadSector, Int13

\* Two sectors of the table, as far as the table goes
LEMMA TwoSectorsAre ==
    ASSUME NEW q \in Nat, NEW x \in 0 .. 4 * BytesPerSec - 1,
           2 * BytesPerSec * q + x < 2 * BytesPerSec * FATSz
    PROVE  TwoSectors(SectorNoOfFAT1 + q)[x] = Digit(2 * BytesPerSec * q + x)
<1> DEFINE B == 2 * BytesPerSec
<1>0. B \in Nat \ {0} /\ FATSz \in Nat \ {0} /\ 4 * BytesPerSec = 2 * B
  BY Fat12Assumption
<1>1. q < FATSz
  BY <1>0, MulLess
<1>2. ASSUME NEW s \in Nat, s < FATSz, NEW k \in 0 .. B - 1
      PROVE  ReadSector(SectorNoOfFAT1 + s).digits[k] = Digit(B * s + k)
  <2>1. ReadSector(SectorNoOfFAT1 + s) = Sector(SectorNoOfFAT1 + s)
    BY ReadSectorIs DEF SectorNoOfFAT1
  <2>2. /\ SectorNoOfFAT1 + s \in SectorNoOfFAT1 .. SectorNoOfRootDir - 1
        /\ (SectorNoOfFAT1 + s) - SectorNoOfFAT1 = s
    BY <1>0, <1>2 DEF SectorNoOfFAT1, SectorNoOfRootDir
  <2>3. s % FATSz = s
    <3>1. (FATSz * 0 + s) % FATSz = s
      <4>1. s \in 0 .. FATSz - 1 /\ 0 \in Nat
        BY <1>0, <1>2
      <4> QED
        BY <1>0, <4>1, DivModOf
    <3> QED
      BY <1>0, <3>1
  <2>4. Sector(SectorNoOfFAT1 + s).digits[k] = Digit(B * (s % FATSz) + k)
    BY <2>2, <1>2 DEF Sector
  <2> QED
    BY <2>1, <2>3, <2>4
<1>3. CASE x < B
  BY <1>0, <1>1, <1>2, <1>3 DEF TwoSectors
<1>4. CASE x >= B
  <2>1. B * (q + 1) < B * FATSz
    BY <1>0, <1>4
  <2>2. q + 1 < FATSz
    BY <1>0, <2>1, MulLess
  <2>3. ReadSector(SectorNoOfFAT1 + (q + 1)).digits[x - B] = Digit(B * (q + 1) + (x - B))
    BY <1>0, <1>2, <1>4, <2>2
  <2>4. B * (q + 1) + (x - B) = B * q + x /\ SectorNoOfFAT1 + q + 1 = SectorNoOfFAT1 + (q + 1)
    BY <1>0 DEF SectorNoOfFAT1
  <2> QED
    BY <1>0, <1>4, <2>3, <2>4 DEF TwoSectors
<1> QED
  BY <1>0, <1>3, <1>4

\* GetFATEntry puts the three digits of an entry together, wherever it lies.
LEMMA GetFATEntryIs ==
    ASSUME NEW c \in Nat, 3 * c + 2 < 2 * BytesPerSec * FATSz, FatEntry(c) \in 0 .. EndOfFile
    PROVE  GetFATEntry(c) = FatEntry(c)
<1> DEFINE e == FatEntry(c)
           byte == (3 * c) \div 2
           odd == (3 * c) % 2
           q == byte \div BytesPerSec
           r == byte % BytesPerSec
           k == 2 * r + odd
           buf == TwoSectors(SectorNoOfFAT1 + q)
<1>0. BytesPerSec \in Nat \ {0} /\ FATSz \in Nat \ {0}
  BY Fat12Assumption
<1>1. byte \in Nat /\ odd \in 0 .. 1 /\ 3 * c = 2 * byte + odd
  OBVIOUS
<1>2. q \in Nat /\ r \in 0 .. BytesPerSec - 1 /\ byte = BytesPerSec * q + r
  BY <1>0, <1>1, DivMod
<1>3. 3 * c = 2 * BytesPerSec * q + k /\ k \in Nat /\ k + 2 <= 4 * BytesPerSec - 1
  <2> HIDE DEF byte, odd, q, r
  <2> QED
    BY <1>0, <1>1, <1>2
<1>4. ASSUME NEW j \in 0 .. 2
      PROVE  buf[k + j] = (e \div <<1, 16, 16 * 16>>[j + 1]) % 16
  <2>1. buf[k + j] = Digit(3 * c + j)
    <3>1. 2 * BytesPerSec * q + (k + j) = 3 * c + j /\ k + j \in 0 .. 4 * BytesPerSec - 1
      <4> HIDE DEF k, q
      <4> QED
        BY <1>0, <1>2, <1>3
    <3> QED
      BY <1>0, <1>2, <3>1, TwoSectorsAre
  <2>2. (3 * c + j) \div 3 = c /\ (3 * c + j) % 3 = j
    OBVIOUS
  <2> QED
    BY <2>1, <2>2 DEF Digit
<1>6. e \in 0 .. 4095
  BY DEF EndOfFile
<1>5. buf[k] = e % 16 /\ buf[k + 1] = (e \div 16) % 16 /\ buf[k + 2] = (e \div 256) % 16
  <2>1. buf[k + 0] = (e \div 1) % 16
    BY <1>4
  <2>2. buf[k + 1] = (e \div 16) % 16
    BY <1>4
  <2>3. buf[k + 2] = (e \div 256) % 16
    BY <1>4
  <2>4. k + 0 = k /\ e \div 1 = e
    BY <1>3, <1>6
  <2> HIDE DEF buf, e, k
  <2> QED
    BY <2>1, <2>2, <2>3, <2>4
<1> HIDE DEF e, buf, k, q
<1>7. e = (e % 16) + 16 * ((e \div 16) % 16) + 256 * ((e \div 256) % 16)
  BY <1>6
<1> QED
  BY <1>5, <1>7 DEF GetFATEntry, e, buf, k, q

\* The clusters of a file
LEMMA FileIs ==
    ASSUME floppy \in Floppies, NEW name \in DOMAIN floppy.chain
    PROVE  LET file == floppy.chain[name] IN
           /\ DOMAIN file = 1 .. Len(file) /\ Len(file) \in Nat \ {0}
           /\ \A k \in 1 .. Len(file) :
                file[k] \in 2 .. EndOfFile - 1 /\ 3 * file[k] + 2 < 2 * BytesPerSec * FATSz
<1> DEFINE file == floppy.chain[name]
           Clusters == {c \in 2 .. EndOfFile - 1 : 3 * c + 2 < 2 * BytesPerSec * FATSz}
<1>1. file \in Seq(Clusters) /\ file # <<>>
  BY StartupAssumption DEF FloppyOK
<1> HIDE DEF file
<1>2. DOMAIN file = 1 .. Len(file) /\ Len(file) \in Nat /\ Len(file) # 0
      /\ \A k \in 1 .. Len(file) : file[k] \in Clusters
  <2> HIDE DEF Clusters
  <2> QED
    BY <1>1, LenProperties, EmptySeq, ElementOfSeq
<1> QED
  BY <1>2 DEF file

\* Behind a cluster of a file is its next one.
LEMMA FatEntryIs ==
    ASSUME floppy \in Floppies, NEW name \in DOMAIN floppy.chain,
           NEW k \in 1 .. Len(floppy.chain[name])
    PROVE  FatEntry(floppy.chain[name][k]) =
               IF k = Len(floppy.chain[name]) THEN EndOfFile ELSE floppy.chain[name][k + 1]
<1> DEFINE chain == floppy.chain
           c == chain[name][k]
           at == {p \in UNION {{n} \X DOMAIN chain[n] : n \in DOMAIN chain} :
                    chain[p[1]][p[2]] = c}
           Behind(p) == IF p[2] = Len(chain[p[1]]) THEN EndOfFile ELSE chain[p[1]][p[2] + 1]
<1>1. FloppyOK(floppy)
  BY StartupAssumption
<1>2. k \in DOMAIN chain[name]
  BY FileIs
<1>3. <<name, k>> \in at
  BY <1>2
<1>4. ASSUME NEW p \in at PROVE p = <<name, k>>
  <2>1. PICK n \in DOMAIN chain : p \in {n} \X DOMAIN chain[n]
    OBVIOUS
  <2>2. PICK j \in DOMAIN chain[n] : p = <<n, j>> /\ chain[n][j] = c
    BY <2>1
  <2>3. \A i \in DOMAIN chain[n], m \in DOMAIN chain[name] :
            chain[n][i] = chain[name][m] => n = name /\ i = m
    BY <1>1, <2>1 DEF FloppyOK
  <2>4. n = name /\ j = k
    BY <1>2, <2>2, <2>3
  <2> QED
    BY <2>2, <2>4
<1>5. FatEntry(c) = IF at = {} THEN 0 ELSE Behind(CHOOSE p \in at : TRUE)
  BY DEF FatEntry
<1>6. (CHOOSE p \in at : TRUE) = <<name, k>>
  BY <1>3, <1>4
<1>7. FatEntry(c) = Behind(<<name, k>>)
  BY <1>3, <1>5, <1>6
<1> QED
  BY <1>7

-----------------------------------------------------------------------------
(* The file that is loaded *)

File == floppy.chain[wanted]

\* The first k sectors of the file are in their places, if all of them fit.
Loaded(k) == Len(File) <= Window => \A j \in 1 .. k : memory[j - 1] = File[j]

FatInv ==
    /\ FatTypeOK
    /\ wanted \in {"LOADER", "KERNEL"}
    /\ running # "kernel" =>
        /\ floppy \in Floppies
        /\ place \in {"search", "no file"} =>
            \A n \in DOMAIN floppy.names : n <= DirEntries * sector_no => floppy.names[n] # wanted
        /\ place = "search" => bx = 0
        /\ place = "no file" => sector_no = RootDirSectors
        /\ place \in {"load", "loaded"} => OnFloppy(wanted)
        /\ place = "load" =>
            \E k \in 1 .. Len(File) :
                cluster = File[k] /\ Loaded(k - 1) /\ (Len(File) <= Window => bx = k - 1)
        /\ place = "loaded" => Loaded(Len(File))

LEMMA WantedIs ==
    ASSUME floppy \in Floppies, wanted \in {"LOADER", "KERNEL"}, OnFloppy(wanted)
    PROVE  wanted \in DOMAIN floppy.chain
<1>1. PICK n \in DOMAIN floppy.names : floppy.names[n] = wanted
  BY DEF OnFloppy
<1>2. FloppyOK(floppy)
  BY StartupAssumption
<1> QED
  BY <1>1, <1>2 DEF FloppyOK

LEMMA FatInit0 ==
    ASSUME floppy' \in Floppies, wanted' \in {"LOADER", "KERNEL"}, place' = "search",
           sector_no' = 0, cluster' = 0, bx' = 0, memory' = Empty
    PROVE  FatInv'
<1>1. FatTypeOK'
  BY Fat12Assumption DEF FatTypeOK, Empty, EndOfFile
<1>2. ASSUME NEW n \in DOMAIN floppy'.names PROVE ~(n <= DirEntries * 0)
  <2>1. n \in 1 .. DirEntries * RootDirSectors
    BY StartupAssumption DEF FloppyOK
  <2>2. DirEntries * 0 = 0 /\ DirEntries * RootDirSectors \in Nat
    BY Fat12Assumption
  <2> QED
    BY <2>1, <2>2
<1> QED
  BY <1>1, <1>2 DEF FatInv

\* A sector of the directory: it has the name, or none of the names up to its end is it.
LEMMA SearchKeeps ==
    ASSUME FatInv, running # "kernel", SearchInRootDir, UNCHANGED running
    PROVE  FatInv'
<1> DEFINE entries == ReadSector(SectorNoOfRootDir + sector_no).entries
           found == {n \in DOMAIN entries : entries[n] = wanted}
           names == floppy.names
           d == DirEntries * sector_no
           e == DirEntries * (sector_no + 1)
<1>0. /\ DirEntries \in Nat \ {0} /\ RootDirSectors \in Nat \ {0}
      /\ FATSz \in Nat \ {0} /\ sector_no \in 0 .. RootDirSectors
  BY Fat12Assumption DEF FatInv, FatTypeOK
<1>1. place = "search" /\ UNCHANGED <<floppy, wanted, bx, memory>>
  BY DEF SearchInRootDir
<1>2. /\ FloppyOK(floppy) /\ floppy \in Floppies /\ wanted \in {"LOADER", "KERNEL"}
      /\ bx = 0 /\ bx \in 0 .. Window - 1 /\ memory \in [0 .. Window - 1 -> Int]
      /\ cluster \in 0 .. EndOfFile
      /\ \A n \in DOMAIN names : n <= d => names[n] # wanted
  BY <1>1, StartupAssumption DEF FatInv, FatTypeOK
<1>3. \/ /\ sector_no = RootDirSectors
         /\ place' = "no file"
         /\ UNCHANGED <<sector_no, cluster>>
      \/ /\ sector_no < RootDirSectors /\ found = {}
         /\ sector_no' = sector_no + 1
         /\ UNCHANGED <<place, cluster>>
      \/ /\ sector_no < RootDirSectors /\ found # {}
         /\ place' = "load"
         /\ cluster' = File[1]
         /\ UNCHANGED sector_no
  BY DEF SearchInRootDir, File
<1> HIDE DEF entries, found
<1>4. DOMAIN names = 1 .. DirEntries * RootDirSectors
  BY <1>2 DEF FloppyOK
<1>5. d \in Nat /\ e = d + DirEntries
  BY <1>0
<1>6. ASSUME sector_no < RootDirSectors
      PROVE  /\ DOMAIN entries = 1 .. DirEntries
             /\ \A k \in 1 .. DirEntries : d + k \in DOMAIN names /\ entries[k] = names[d + k]
  <2>1. entries = SubSeq(names, d + 1, e)
    <3>1. SectorNoOfRootDir + sector_no \in SectorNoOfRootDir .. SectorNoOfRootDir + RootDirSectors - 1
          /\ SectorNoOfRootDir + sector_no \in Nat
          /\ (SectorNoOfRootDir + sector_no) - SectorNoOfRootDir = sector_no
      BY <1>0, <1>6 DEF SectorNoOfRootDir, SectorNoOfFAT1
    <3> QED
      BY <3>1, ReadSectorIs DEF entries, Sector
  <2>2. e <= DirEntries * RootDirSectors
    BY <1>0, <1>6
  <2>3. \A k \in 1 .. DirEntries : d + k \in 1 .. DirEntries * RootDirSectors
    BY <1>0, <1>5, <2>2
  <2> HIDE DEF d, e
  <2>4. SubSeq(names, d + 1, e) = [k \in 1 .. DirEntries |-> names[d + k]]
    BY <1>0, <1>5
  <2> QED
    BY <1>4, <2>1, <2>3, <2>4
<1>7. CASE sector_no = RootDirSectors /\ place' = "no file" /\ UNCHANGED <<sector_no, cluster>>
  BY <1>0, <1>1, <1>2, <1>7 DEF FatInv, FatTypeOK
<1>8. CASE /\ sector_no < RootDirSectors /\ found = {}
           /\ sector_no' = sector_no + 1 /\ UNCHANGED <<place, cluster>>
  <2>1. sector_no' \in 0 .. RootDirSectors
    BY <1>0, <1>8
  <2>2. ASSUME NEW n \in DOMAIN names, n <= e PROVE names[n] # wanted
    <3>1. n \in Nat
      BY <1>4
    <3>2. CASE n <= d
      BY <3>2, <1>2
    <3>3. CASE n > d
      <4>1. n - d \in 1 .. DirEntries /\ d + (n - d) = n
        <5> HIDE DEF d, e, names
        <5> QED
          BY <1>0, <1>5, <2>2, <3>1, <3>3
      <4>2. entries[n - d] # wanted
        BY <1>6, <1>8, <4>1 DEF found
      <4> QED
        BY <1>6, <1>8, <4>1, <4>2
    <3> QED
      BY <1>5, <3>1, <3>2, <3>3
  <2>3. FatTypeOK'
    BY <1>1, <1>2, <1>8, <2>1 DEF FatTypeOK
  <2> QED
    BY <1>1, <1>2, <1>8, <2>2, <2>3 DEF FatInv
<1>9. CASE /\ sector_no < RootDirSectors /\ found # {}
           /\ place' = "load" /\ cluster' = File[1] /\ UNCHANGED sector_no
  <2>1. OnFloppy(wanted)
    <3>1. PICK k \in 1 .. DirEntries : entries[k] = wanted
      BY <1>6, <1>9 DEF found
    <3> QED
      BY <1>6, <1>9, <3>1 DEF OnFloppy
  <2>2. DOMAIN File = 1 .. Len(File) /\ 1 \in 1 .. Len(File) /\ File[1] \in 2 .. EndOfFile - 1
    BY <1>2, <2>1, WantedIs, FileIs DEF File
  <2>3. FatTypeOK'
    <3>1. cluster' \in 0 .. EndOfFile
      BY <1>9, <2>2 DEF EndOfFile
    <3> QED
      BY <1>0, <1>1, <1>2, <1>9, <3>1 DEF FatTypeOK
  <2>4. cluster' = File[1] /\ Loaded(1 - 1)' /\ bx' = 1 - 1 /\ File' = File
    BY <1>1, <1>2, <1>9 DEF Loaded, File
  <2> QED
    BY <1>1, <1>2, <1>9, <2>1, <2>2, <2>3, <2>4 DEF FatInv, OnFloppy
<1> QED
  BY <1>3, <1>7, <1>8, <1>9

LEMMA RoundIs ==
    ASSUME NEW n \in Nat \ {0}, NEW a \in 0 .. n - 1
    PROVE  a % n = a
<1>1. (n * 0 + a) % n = a
  BY DivModOf
<1> QED
  BY <1>1

LEMMA NumbersOfClusters ==
    /\ \A c \in 2 .. EndOfFile - 1 : c \in Nat /\ c >= 2 /\ c # EndOfFile /\ c \in 0 .. EndOfFile
    /\ EndOfFile \in 0 .. EndOfFile
<1>1. ASSUME NEW c \in 2 .. EndOfFile - 1
      PROVE  c \in Int /\ c >= 2 /\ c <= 4094
  BY DEF EndOfFile
<1>2. ASSUME NEW c \in 2 .. EndOfFile - 1
      PROVE  c \in Nat /\ c >= 2 /\ c # EndOfFile /\ c \in 0 .. EndOfFile
  BY <1>1 DEF EndOfFile
<1>3. EndOfFile \in 0 .. EndOfFile
  BY DEF EndOfFile
<1> QED
  BY <1>2, <1>3

\* A sector of the file: it goes where bx says, and the table leads to the next one.
LEMMA LoadKeeps ==
    ASSUME FatInv, running # "kernel", LoadFile, UNCHANGED running
    PROVE  FatInv'
<1>1. place = "load" /\ UNCHANGED <<floppy, wanted, sector_no>>
  BY DEF LoadFile
<1>2. /\ floppy \in Floppies /\ wanted \in {"LOADER", "KERNEL"} /\ OnFloppy(wanted)
      /\ bx \in 0 .. Window - 1 /\ memory \in [0 .. Window - 1 -> Int]
      /\ sector_no \in 0 .. RootDirSectors
  BY <1>1 DEF FatInv, FatTypeOK
<1>3. PICK k \in 1 .. Len(File) :
          cluster = File[k] /\ Loaded(k - 1) /\ (Len(File) <= Window => bx = k - 1)
  BY <1>1 DEF FatInv
<1>4. wanted \in DOMAIN floppy.chain
  BY <1>2, WantedIs
<1>5. /\ Len(File) \in Nat \ {0}
      /\ \A j \in 1 .. Len(File) : File[j] \in 2 .. EndOfFile - 1
      /\ 3 * cluster + 2 < 2 * BytesPerSec * FATSz
  BY <1>2, <1>3, <1>4, FileIs DEF File
<1>15. /\ \A c \in 2 .. EndOfFile - 1 : c \in Nat /\ c >= 2 /\ c # EndOfFile /\ c \in 0 .. EndOfFile
       /\ EndOfFile \in 0 .. EndOfFile
  BY NumbersOfClusters
<1>16. cluster \in 2 .. EndOfFile - 1
  BY <1>3, <1>5
<1>6. Window \in Nat \ {0} /\ RootDirSectors \in Nat \ {0} /\ FATSz \in Nat \ {0}
  BY Fat12Assumption
<1> DEFINE n == Len(File)
<1>7. ReadSector(cluster + RootDirSectors + DeltaSectorNo).data = cluster
  <2>1. cluster + RootDirSectors + DeltaSectorNo \in Nat
        /\ (cluster + RootDirSectors + DeltaSectorNo) - RootDirSectors - DeltaSectorNo = cluster
    <3>1. cluster \in Nat /\ cluster >= 2
      BY <1>15, <1>16
    <3> QED
      BY <3>1, <1>6 DEF DeltaSectorNo, SectorNoOfRootDir, SectorNoOfFAT1
  <2> QED
    BY <2>1, ReadSectorIs DEF Sector
<1>8. GetFATEntry(cluster) = IF k = n THEN EndOfFile ELSE File[k + 1]
  <2>1. FatEntry(cluster) = IF k = n THEN EndOfFile ELSE File[k + 1]
    BY <1>2, <1>3, <1>4, FatEntryIs DEF File
  <2>2. FatEntry(cluster) \in 0 .. EndOfFile /\ cluster \in Nat
    <3>1. k # n => k + 1 \in 1 .. Len(File)
      BY <1>5
    <3> QED
      BY <2>1, <3>1, <1>5, <1>15, <1>16
  <2> QED
    BY <2>1, <2>2, <1>5, GetFATEntryIs
<1>9. memory' = [memory EXCEPT ![bx] = cluster]
  BY <1>7 DEF LoadFile
<1>10. memory' \in [0 .. Window - 1 -> Int]
  <2>1. cluster \in Int
    BY <1>3, <1>5
  <2> QED
    BY <1>2, <1>9, <2>1
<1>11. File' = File
  BY <1>1 DEF File
<1>12. Loaded(k)'
  <2> SUFFICES ASSUME n <= Window, NEW j \in 1 .. k PROVE memory'[j - 1] = File[j]
    BY <1>11 DEF Loaded
  <2>1. bx = k - 1
    BY <1>3
  <2>2. CASE j = k
    BY <2>1, <2>2, <1>2, <1>3, <1>9
  <2>3. CASE j # k
    <3>1. j \in 1 .. k - 1 /\ j - 1 # bx
      BY <2>1, <2>3, <1>3, <1>5
    <3>2. memory[j - 1] = File[j]
      BY <3>1, <1>3 DEF Loaded
    <3>3. j - 1 \in 0 .. Window - 1
      BY <3>1, <1>3, <1>5, <1>6
    <3> QED
      BY <3>1, <3>2, <3>3, <1>2, <1>9
  <2> QED
    BY <2>2, <2>3
<1>13. CASE k = n
  <2>1. place' = "loaded" /\ UNCHANGED <<cluster, bx>>
    BY <1>8, <1>13 DEF LoadFile
  <2>2. FatTypeOK'
    BY <1>1, <1>2, <1>10, <2>1 DEF FatInv, FatTypeOK
  <2> QED
    BY <1>1, <1>2, <1>11, <1>12, <1>13, <2>1, <2>2 DEF FatInv, OnFloppy
<1>14. CASE k # n
  <2>1. k + 1 \in 1 .. n /\ File[k + 1] # EndOfFile /\ File[k + 1] \in 0 .. EndOfFile
    <3>1. k + 1 \in 1 .. n
      BY <1>5, <1>14
    <3> QED
      BY <3>1, <1>5, <1>15
  <2>2. place' = place /\ cluster' = File[k + 1] /\ bx' = (bx + 1) % Window
    BY <1>8, <1>14, <2>1 DEF LoadFile, NextPlace
  <2>3. bx' \in 0 .. Window - 1
    BY <1>2, <1>6, <2>2, DivMod
  <2>4. n <= Window => bx' = (k + 1) - 1
    <3> SUFFICES ASSUME n <= Window PROVE bx' = k
      BY <1>3
    <3>1. bx + 1 = k /\ k \in 0 .. Window - 1
      BY <1>3, <1>5, <1>6, <1>14
    <3> QED
      BY <3>1, <2>2, <1>6, RoundIs
  <2>5. FatTypeOK'
    BY <1>1, <1>2, <1>10, <2>1, <2>2, <2>3 DEF FatInv, FatTypeOK
  <2>6. Loaded((k + 1) - 1)'
    <3>1. (k + 1) - 1 = k
      BY <1>3
    <3> QED
      BY <3>1, <1>12
  <2> QED
    BY <1>1, <1>2, <1>11, <2>1, <2>2, <2>4, <2>5, <2>6 DEF FatInv, OnFloppy
<1> QED
  BY <1>13, <1>14

LEMMA FatStart == Init => FatInv
<1> SUFFICES ASSUME Init PROVE FatInv
  OBVIOUS
<1>1. FatTypeOK
  <2>1. place = "search" /\ sector_no = 0 /\ cluster = 0 /\ bx = 0 /\ memory = Empty
    BY DEF Init, FatInit
  <2>2. Empty \in [0 .. Window - 1 -> Int]
    BY DEF Empty
  <2>3. 0 \in 0 .. RootDirSectors /\ 0 \in 0 .. EndOfFile /\ 0 \in 0 .. Window - 1
    BY Fat12Assumption DEF EndOfFile
  <2> QED
    BY <2>1, <2>2, <2>3 DEF FatTypeOK
<1>2. ASSUME NEW n \in DOMAIN floppy.names PROVE ~(n <= DirEntries * 0)
  <2>1. n \in 1 .. DirEntries * RootDirSectors
    BY StartupAssumption DEF FloppyOK, Init
  <2>2. DirEntries * 0 = 0 /\ DirEntries * RootDirSectors \in Nat
    BY Fat12Assumption
  <2> QED
    BY <2>1, <2>2
<1> QED
  BY <1>1, <1>2 DEF FatInv, Init, FatInit

\* Every step keeps what is known of the floppy and of the file.
LEMMA FatStays == FatInv /\ [Next]_vars => FatInv'
<1> SUFFICES ASSUME FatInv, [Next]_vars PROVE FatInv'
  OBVIOUS
<1>1. CASE StartLoader
  <2>1. running # "kernel" /\ floppy' = floppy /\ floppy \in Floppies
    BY <1>1 DEF StartLoader, FatInv
  <2> QED
    BY <1>1, <2>1, FatInit0 DEF StartLoader, Start
<1>2. CASE StartKernel
  <2>1. FatTypeOK'
    BY <1>2, Fat12Assumption DEF StartKernel, Start, FatTypeOK, Empty, EndOfFile
  <2> QED
    BY <1>2, <2>1 DEF StartKernel, Start, FatInv
<1>3. CASE LoadStep
  BY <1>3, SearchKeeps, LoadKeeps DEF LoadStep, FatStep
<1>4. CASE UNCHANGED <<running, fat12>>
  BY <1>4 DEF fat12, FatInv, FatTypeOK, OnFloppy, Loaded, File
<1>5. \/ StartLoader \/ StartKernel \/ LoadStep \/ UNCHANGED <<running, fat12>>
  BY DEF Next, InitHd, OpenRoot, HdStep, AskSize, FsStep, vars
<1> QED
  BY <1>1, <1>2, <1>3, <1>4, <1>5

\* The program that runs next is the one on the floppy.
LEMMA FatGives == FatInv => FatTypeOK /\ FilesLoaded
<1> SUFFICES ASSUME FatInv, running # "kernel" PROVE FileLoaded
  BY DEF FatInv, FilesLoaded
<1>1. ASSUME place = "no file" PROVE ~OnFloppy(wanted)
  <2>1. \A n \in DOMAIN floppy.names : n <= DirEntries * RootDirSectors
    <3>1. DOMAIN floppy.names = 1 .. DirEntries * RootDirSectors
      BY StartupAssumption DEF FatInv, FloppyOK
    <3>2. DirEntries * RootDirSectors \in Nat
      BY Fat12Assumption
    <3> QED
      BY <3>1, <3>2
  <2>2. \A n \in DOMAIN floppy.names : n <= DirEntries * sector_no => floppy.names[n] # wanted
    BY <1>1 DEF FatInv
  <2>3. sector_no = RootDirSectors
    BY <1>1 DEF FatInv
  <2> QED
    BY <2>1, <2>2, <2>3 DEF OnFloppy
<1>2. ASSUME place = "loaded"
      PROVE  OnFloppy(wanted) /\ (Len(File) <= Window => \A k \in DOMAIN File : memory[k - 1] = File[k])
  <2>1. OnFloppy(wanted) /\ Loaded(Len(File)) /\ floppy \in Floppies
        /\ wanted \in {"LOADER", "KERNEL"}
    BY <1>2 DEF FatInv
  <2>2. DOMAIN File = 1 .. Len(File)
    BY <2>1, WantedIs, FileIs DEF File
  <2> QED
    BY <2>1, <2>2 DEF Loaded
<1> QED
  BY <1>1, <1>2 DEF FileLoaded, File

-----------------------------------------------------------------------------
(* The disk *)

LEMMA SlotIs ==
    ASSUME disk \in Disks, NEW i \in 1 .. NrPart
    PROVE  SlotOK(disk.slots[i])
BY StartupAssumption DEF DiskOK

\* The two sequences of a slot
LEMMA VolumesAre ==
    ASSUME NEW slot, SlotOK(slot)
    PROVE  /\ Len(slot.volumes) \in Nat
           /\ DOMAIN slot.volumes = 1 .. Len(slot.volumes)
           /\ DOMAIN slot.tables = 1 .. Len(slot.volumes)
           /\ \A k \in 1 .. Len(slot.volumes) :
                slot.volumes[k] \in Volumes /\ slot.tables[k] \in Nat \ {0}
           /\ slot.sys_id = "EXT_PART" => Len(slot.volumes) > 0
           /\ slot.sys_id # "EXT_PART" => Len(slot.volumes) = 0
<1>1. slot.volumes \in Seq(Volumes) /\ slot.tables \in Seq(Nat \ {0})
      /\ Len(slot.tables) = Len(slot.volumes)
  BY DEF SlotOK, Volumes
<1>2. Len(slot.volumes) = 0 <=> slot.volumes = <<>>
  BY <1>1, EmptySeq
<1>3. Len(slot.tables) = 0 <=> slot.tables = <<>>
  BY <1>1, EmptySeq
<1>4. Len(slot.volumes) \in Nat
      /\ DOMAIN slot.volumes = 1 .. Len(slot.volumes)
      /\ DOMAIN slot.tables = 1 .. Len(slot.volumes)
  BY <1>1, LenProperties
<1>5. \A k \in 1 .. Len(slot.volumes) :
          slot.volumes[k] \in Volumes /\ slot.tables[k] \in Nat \ {0}
  BY <1>1, ElementOfSeq
<1>6. /\ slot.sys_id = "EXT_PART" => slot.tables # <<>>
      /\ slot.sys_id # "EXT_PART" => slot.volumes = <<>>
  BY DEF SlotOK
<1> QED
  BY <1>1, <1>2, <1>3, <1>4, <1>5, <1>6

\* In the sector of a table there is that table.
LEMMA TableIs ==
    ASSUME disk \in Disks, NEW i \in 1 .. NrPart, NEW k \in 1 .. NrSub,
           k <= Len(disk.slots[i].volumes)
    PROVE  Table(disk.slots[i].tables[k]) = SubTable(disk.slots[i], k)
<1> DEFINE slots == disk.slots
           sect_nr == slots[i].tables[k]
           Is(at) == at[2] \in DOMAIN slots[at[1]].tables /\ slots[at[1]].tables[at[2]] = sect_nr
           at0 == CHOOSE at \in (1 .. NrPart) \X (1 .. NrSub + 1) : Is(at)
<1>1. DOMAIN slots[i].tables = 1 .. Len(slots[i].volumes) /\ k \in 1 .. Len(slots[i].volumes)
      /\ sect_nr \in Nat \ {0}
  <2>1. k \in 1 .. Len(slots[i].volumes)
    BY SlotIs, VolumesAre
  <2> QED
    BY <2>1, SlotIs, VolumesAre
<1>2. <<i, k>> \in (1 .. NrPart) \X (1 .. NrSub + 1) /\ Is(<<i, k>>)
  <2>1. k \in 1 .. NrSub + 1
    BY PartitionAssumption
  <2>2. Is(<<i, k>>)
    BY <1>1
  <2> HIDE DEF Is
  <2> QED
    BY <2>1, <2>2
<1>3. at0 \in (1 .. NrPart) \X (1 .. NrSub + 1) /\ Is(at0)
  BY <1>2
<1> HIDE DEF at0
<1>4. at0[1] = i /\ at0[2] = k
  <2>1. \A m \in 1 .. NrPart :
          \A j \in DOMAIN slots[m].tables, l \in DOMAIN slots[i].tables :
            slots[m].tables[j] = slots[i].tables[l] => m = i /\ j = l
    BY StartupAssumption DEF DiskOK
  <2>2. at0[1] \in 1 .. NrPart
    BY <1>3
  <2>3. k \in DOMAIN slots[i].tables
    BY <1>1
  <2> QED
    BY <1>3, <2>1, <2>2, <2>3
<1>5. Table(sect_nr) = SubTable(slots[at0[1]], at0[2])
  BY <1>1 DEF Table, at0
<1> QED
  BY <1>4, <1>5

\* The place of volume n of slot i among the logical ones
Place(i, n) == (i - 1) * NrSub + n - 1

LEMMA PlaceIs ==
    ASSUME NEW i \in 1 .. NrPart, NEW n \in 1 .. NrSub
    PROVE  Place(i, n) \in 0 .. NrSubPerDrive - 1
<1>0. NrSub \in Nat \ {0} /\ NrPart \in Nat \ {0}
  BY PartitionAssumption
<1>1. (i - 1) * NrSub \in Nat /\ (i - 1) * NrSub <= (NrPart - 1) * NrSub
  BY <1>0
<1>2. (NrPart - 1) * NrSub = NrSub * NrPart - NrSub /\ NrSub * NrPart \in Nat
  BY <1>0
<1> QED
  BY <1>0, <1>1, <1>2 DEF Place, NrSubPerDrive

LEMMA PlacesApart ==
    ASSUME NEW i \in 1 .. NrPart, NEW n \in 1 .. NrSub,
           NEW j \in 1 .. NrPart, NEW m \in 1 .. NrSub, Place(i, n) = Place(j, m)
    PROVE  i = j /\ n = m
<1>0. NrSub \in Nat \ {0} /\ NrPart \in Nat \ {0}
  BY PartitionAssumption
<1>1. (NrSub * (i - 1) + (n - 1)) \div NrSub = i - 1 /\ (NrSub * (i - 1) + (n - 1)) % NrSub = n - 1
  <2>1. i - 1 \in Nat /\ n - 1 \in 0 .. NrSub - 1
    BY <1>0
  <2> QED
    BY <1>0, <2>1, DivModOf
<1>2. (NrSub * (j - 1) + (m - 1)) \div NrSub = j - 1 /\ (NrSub * (j - 1) + (m - 1)) % NrSub = m - 1
  <2>1. j - 1 \in Nat /\ m - 1 \in 0 .. NrSub - 1
    BY <1>0
  <2> QED
    BY <1>0, <2>1, DivModOf
<1>3. NrSub * (i - 1) + (n - 1) = NrSub * (j - 1) + (m - 1)
  BY <1>0 DEF Place
<1>4. i - 1 = j - 1 /\ n - 1 = m - 1
  BY <1>1, <1>2, <1>3
<1> QED
  BY <1>4

\* Slot i has been gone through as far as its volume n; n is 0 for the slot itself.
Passed(i, n) == i <= prim_i \/ (hd_at = "extended" /\ i = prim_i + 1 /\ n <= ext_i)

\* What is known of the volumes between the opening of the disk and the driver's verdict
Found ==
    /\ part_tbl = Table(0)
    /\ primary[0] = [base |-> 0, size |-> disk.size]
    /\ \A i \in 1 .. NrPart :
        primary[i] = IF Passed(i, 0)
                     THEN [base |-> disk.slots[i].base, size |-> disk.slots[i].size]
                     ELSE NoVolume
    /\ \A i \in 1 .. NrPart, n \in 1 .. NrSub :
        logical[Place(i, n)] = IF Passed(i, n) THEN Logical(disk.slots[i], n) ELSE NoVolume
    /\ nr_prim_parts = 0 <=>
        \A i \in 1 .. NrPart : Passed(i, 0) => disk.slots[i].sys_id = "NO_PART"

\* The table that is to be read next is that of the next volume.
Chain ==
    LET slot == disk.slots[prim_i + 1] IN
    /\ prim_i < NrPart
    /\ slot.sys_id = "EXT_PART"
    /\ ext_i < Len(slot.volumes)
    /\ ext_s = slot.tables[ext_i + 1]

PartitionInv ==
    /\ PartitionTypeOK
    /\ disk # NoDisk => disk \in Disks
    /\ disk = NoDisk => hd_at = "closed"
    /\ hd_at = "closed" => HdInit
    /\ hd_at \in {"primary", "extended", "open"} => Found
    /\ nr_prim_parts <= prim_i + (IF hd_at = "extended" THEN 1 ELSE 0)
    /\ hd_at = "extended" => Chain
    /\ hd_at = "open" => prim_i = NrPart /\ nr_prim_parts # 0
    /\ hd_at = "assert" => \A i \in 1 .. NrPart : disk.slots[i].sys_id = "NO_PART"

-----------------------------------------------------------------------------
(* Its volumes *)

LEMMA Sizes ==
    /\ NrPart \in Nat /\ NrPart > 1 /\ NrSub \in Nat /\ NrSub > 0
    /\ NrPrim = NrPart + 1
BY PartitionAssumption, StartupAssumption DEF NrPrim

LEMMA DisksAre ==
    ASSUME PartitionInv, disk # NoDisk
    PROVE  disk \in Disks /\ disk.size \in Nat
BY StartupAssumption DEF PartitionInv, DiskOK

\* The root device is on drive 0, and its place among the logical ones exists.
LEMMA RootIs ==
    /\ DrvOfDev(RootDevice) = 0
    /\ ~(RootDevice < MaxPrim)
    /\ LogIdx(RootDevice) \in 0 .. NrSubPerDrive - 1
<1> DEFINE k == NrSubPerDrive
<1>1. /\ MinorHd1a \in Nat /\ MaxPrim < MinorHd1a /\ MaxPrim \in Int
      /\ RootDevice = MinorHd1a + NrSub /\ RootDevice - MinorHd1a = NrSub
  BY PartitionAssumption DEF MaxPrim, NrPrim, RootDevice, MinorHd2a
<1>2. k \in Nat \ {0} /\ NrSub \in 0 .. k - 1
  <2>1. NrSub * NrPart >= NrSub * 2
    BY Sizes
  <2> QED
    BY Sizes, <2>1 DEF NrSubPerDrive
<1> HIDE DEF k
<1>3. (k * 0 + NrSub) \div k = 0
  BY <1>2, DivModOf
<1>4. NrSub \div k = 0
  BY <1>2, <1>3
<1>5. NrSub % k \in 0 .. k - 1
  BY <1>2, Sizes, DivMod
<1>6. ~(RootDevice <= MaxPrim) /\ ~(RootDevice < MaxPrim)
  BY <1>1, Sizes
<1> QED
  BY <1>1, <1>4, <1>5, <1>6 DEF DrvOfDev, LogIdx, k

LEMMA DiskStart == Init => PartitionInv
<1> SUFFICES ASSUME Init PROVE PartitionInv
  OBVIOUS
<1>1. HdInit /\ disk = NoDisk
  BY DEF Init
<1>2. PartitionTypeOK
  <2>1. NoVolume \in Volumes
    BY DEF NoVolume, Volumes
  <2> QED
    BY <1>1, <2>1, Sizes DEF HdInit, PartitionTypeOK
<1> QED
  BY <1>1, <1>2 DEF PartitionInv, HdInit

LEMMA OpenKeeps ==
    ASSUME PartitionInv, OpenRoot
    PROVE  PartitionInv'
<1>1. disk # NoDisk /\ hd_at = "closed" /\ HdInit /\ disk \in Disks /\ disk.size \in Nat
  BY DisksAre DEF OpenRoot, HdOpen, PartitionInv
<1>2. /\ hd_at' = "primary" /\ part_tbl' = Table(0)
      /\ primary' = [primary EXCEPT ![0] = [base |-> 0, size |-> disk.size]]
      /\ UNCHANGED <<disk, prim_i, nr_prim_parts, ext_s, ext_i, logical>>
  BY RootIs DEF OpenRoot, HdOpen, GetPartTable
<1>3. /\ prim_i = 0 /\ ext_i = 0 /\ ext_s = 0 /\ nr_prim_parts = 0
      /\ primary = [n \in 0 .. NrPart |-> NoVolume]
      /\ logical = [n \in 0 .. NrSubPerDrive - 1 |-> NoVolume]
  BY <1>1, Sizes DEF HdInit
<1>4. \A i \in 1 .. NrPart, n \in 0 .. NrSub : ~Passed(i, n)'
  BY <1>2, <1>3, Sizes DEF Passed
<1>5. PartitionTypeOK'
  <2>1. NoVolume \in Volumes /\ [base |-> 0, size |-> disk.size] \in Volumes
    BY <1>1 DEF NoVolume, Volumes
  <2> QED
    BY <1>2, <1>3, <2>1, Sizes DEF PartitionTypeOK
<1>6. Found'
  <2>1. Table(0)' = Table(0)
    BY <1>2 DEF Table, SubTable
  <2>2. primary'[0] = [base |-> 0, size |-> disk'.size]
    BY <1>2, <1>3, Sizes
  <2>3. \A i \in 1 .. NrPart : primary'[i] = NoVolume
    BY <1>2, <1>3, Sizes
  <2>4. \A i \in 1 .. NrPart, n \in 1 .. NrSub : logical'[Place(i, n)] = NoVolume
    BY <1>2, <1>3, PlaceIs
  <2>5. 0 \in 0 .. NrSub /\ \A n \in 1 .. NrSub : n \in 0 .. NrSub
    BY Sizes
  <2>6. \A i \in 1 .. NrPart : ~Passed(i, 0)'
    BY <1>4, <2>5
  <2>7. \A i \in 1 .. NrPart, n \in 1 .. NrSub : ~Passed(i, n)'
    BY <1>4, <2>5
  <2> QED
    BY <1>2, <1>3, <2>1, <2>2, <2>3, <2>4, <2>6, <2>7 DEF Found
<1> QED
  BY <1>1, <1>2, <1>3, <1>5, <1>6 DEF PartitionInv

\* The entry that partition(P_PRIMARY) looks at
LEMMA EntryIs ==
    ASSUME PartitionInv, hd_at = "primary", prim_i < NrPart
    PROVE  LET slot == disk.slots[prim_i + 1] IN
           /\ disk \in Disks /\ Found /\ prim_i \in Nat /\ prim_i + 1 \in 1 .. NrPart
           /\ SlotOK(slot)
           /\ TableEntry(prim_i + 1) = Entry(slot.sys_id, slot.base, slot.size)
<1>1. disk \in Disks /\ Found
  BY DEF PartitionInv
<1>2. prim_i \in Nat /\ prim_i + 1 \in 1 .. NrPart
  BY Sizes DEF PartitionInv, PartitionTypeOK
<1>3. part_tbl[prim_i + 1] = Table(0)[prim_i + 1]
  BY <1>1 DEF Found
<1> QED
  BY <1>1, <1>2, <1>3, SlotIs DEF TableEntry, Table

\* A slot without a chain has no logical volumes.
LEMMA NoneLogical ==
    ASSUME NEW slot, SlotOK(slot), slot.sys_id # "EXT_PART", NEW n
    PROVE  Logical(slot, n) = NoVolume
<1>1. DOMAIN slot.volumes = 1 .. 0
  BY VolumesAre
<1> QED
  BY <1>1 DEF Logical

LEMMA EmptyKeeps ==
    ASSUME PartitionInv, EmptyEntry
    PROVE  PartitionInv'
<1> DEFINE i0 == prim_i + 1
           slot == disk.slots[i0]
<1>1. /\ hd_at = "primary" /\ prim_i < NrPart /\ prim_i' = i0
      /\ UNCHANGED <<disk, hd_at, part_tbl, nr_prim_parts, ext_s, ext_i, primary, logical>>
  BY DEF EmptyEntry
<1>2. disk \in Disks /\ Found /\ prim_i \in Nat /\ i0 \in 1 .. NrPart /\ SlotOK(slot)
  BY <1>1, EntryIs
<1>3. slot.sys_id = "NO_PART" /\ slot.base = 0 /\ slot.size = 0
  BY <1>1, EntryIs DEF EmptyEntry, Entry, SlotOK
<1>4. \A i \in 1 .. NrPart, n \in Nat : Passed(i, n)' <=> Passed(i, n) \/ i = i0
  BY <1>1, <1>2 DEF Passed
<1>5. ~Passed(i0, 0) /\ \A n \in 1 .. NrSub : ~Passed(i0, n)
  BY <1>1, <1>2 DEF Passed
<1>6. \A n \in 1 .. NrSub : Logical(slot, n) = NoVolume
  BY <1>2, <1>3, NoneLogical
<1>7. Table(0)' = Table(0)
  BY <1>1 DEF Table, SubTable
<1>8. primary[i0] = NoVolume /\ NoVolume = [base |-> slot.base, size |-> slot.size]
  BY <1>2, <1>3, <1>5 DEF Found, NoVolume
<1> HIDE DEF i0
<1>9. Found'
  <2>1. \A i \in 1 .. NrPart :
          primary'[i] = IF Passed(i, 0)'
                        THEN [base |-> disk'.slots[i].base, size |-> disk'.slots[i].size]
                        ELSE NoVolume
    BY <1>1, <1>2, <1>4, <1>8 DEF Found
  <2>2. \A i \in 1 .. NrPart, n \in 1 .. NrSub :
          logical'[Place(i, n)] = IF Passed(i, n)' THEN Logical(disk'.slots[i], n) ELSE NoVolume
    BY <1>1, <1>2, <1>4, <1>5, <1>6 DEF Found
  <2>3. nr_prim_parts' = 0 <=>
          \A i \in 1 .. NrPart : Passed(i, 0)' => disk'.slots[i].sys_id = "NO_PART"
    BY <1>1, <1>2, <1>3, <1>4 DEF Found
  <2> QED
    BY <1>1, <1>2, <1>7, <2>1, <2>2, <2>3 DEF Found
<1>10. PartitionTypeOK' /\ nr_prim_parts' <= prim_i'
  <2>1. nr_prim_parts <= prim_i /\ nr_prim_parts \in Nat
    BY <1>1 DEF PartitionInv, PartitionTypeOK
  <2> QED
    BY <1>1, <1>2, <2>1 DEF PartitionInv, PartitionTypeOK, i0
<1> QED
  BY <1>1, <1>2, <1>9, <1>10 DEF PartitionInv

LEMMA PrimaryKeeps ==
    ASSUME PartitionInv, PrimaryEntry
    PROVE  PartitionInv'
<1> DEFINE i0 == prim_i + 1
           slot == disk.slots[i0]
           volume == [base |-> slot.base, size |-> slot.size]
<1>1. hd_at = "primary" /\ prim_i < NrPart
  BY DEF PrimaryEntry
<1>2. disk \in Disks /\ Found /\ prim_i \in Nat /\ i0 \in 1 .. NrPart /\ SlotOK(slot)
  BY <1>1, EntryIs
<1>3. TableEntry(i0) = Entry(slot.sys_id, slot.base, slot.size)
  BY <1>1, EntryIs
<1>4. /\ slot.sys_id # "NO_PART" /\ nr_prim_parts' = nr_prim_parts + 1
      /\ primary' = [primary EXCEPT ![i0] = volume]
      /\ UNCHANGED <<disk, part_tbl, logical>>
      /\ \/ /\ slot.sys_id = "EXT_PART"
            /\ hd_at' = "extended" /\ ext_s' = slot.base /\ ext_i' = 0 /\ UNCHANGED prim_i
         \/ /\ slot.sys_id # "EXT_PART"
            /\ prim_i' = i0 /\ UNCHANGED <<hd_at, ext_s, ext_i>>
  <2>1. slot.base \in Nat
    BY <1>2 DEF SlotOK
  <2>2. Volume(0, TableEntry(i0)) = volume
    BY <1>3, <2>1 DEF Volume, Entry
  <2>3. TableEntry(i0).sys_id = slot.sys_id /\ TableEntry(i0).start_sect = slot.base
    BY <1>3 DEF Entry
  <2> HIDE DEF slot, volume
  <2> QED
    BY <2>2, <2>3 DEF PrimaryEntry
<1>5. volume \in Volumes /\ slot.base \in Nat
  BY <1>2 DEF SlotOK, Volumes
<1>6. primary \in [0 .. NrPart -> Volumes] /\ nr_prim_parts <= prim_i /\ nr_prim_parts \in Nat
  BY <1>1, Sizes DEF PartitionInv, PartitionTypeOK
<1>7. ~Passed(i0, 0) /\ \A n \in 1 .. NrSub : ~Passed(i0, n)
  BY <1>1, <1>2 DEF Passed
<1>8. \A i \in 1 .. NrPart : Passed(i, 0)' <=> Passed(i, 0) \/ i = i0
  BY <1>1, <1>2, <1>4 DEF Passed
<1>9. Table(0)' = Table(0)
  BY <1>4 DEF Table, SubTable
<1>10. /\ primary'[0] = primary[0] /\ primary'[i0] = volume
       /\ \A i \in 1 .. NrPart : i # i0 => primary'[i] = primary[i]
  BY <1>2, <1>4, <1>6, Sizes
<1>11. \A i \in 1 .. NrPart :
         primary'[i] = IF Passed(i, 0)'
                       THEN [base |-> disk'.slots[i].base, size |-> disk'.slots[i].size]
                       ELSE NoVolume
  <2> HIDE DEF i0
  <2> QED
    BY <1>2, <1>4, <1>8, <1>10 DEF Found
<1>12. ~(nr_prim_parts' = 0)
       /\ ~ \A i \in 1 .. NrPart : Passed(i, 0)' => disk'.slots[i].sys_id = "NO_PART"
  <2> HIDE DEF i0
  <2>1. ~(nr_prim_parts' = 0)
    BY <1>4, <1>6
  <2> QED
    BY <2>1, <1>2, <1>4, <1>8
<1>13. primary' \in [0 .. NrPart -> Volumes]
  BY <1>4, <1>5, <1>6
<1>14. CASE slot.sys_id = "EXT_PART"
  <2>1. hd_at' = "extended" /\ ext_s' = slot.base /\ ext_i' = 0 /\ UNCHANGED prim_i
    BY <1>4, <1>14
  <2>2. \A i \in 1 .. NrPart, n \in 1 .. NrSub : Passed(i, n)' <=> Passed(i, n)
    BY <1>1, <1>2, <2>1, Sizes DEF Passed
  <2>3. Found'
    BY <1>2, <1>4, <1>9, <1>10, <1>11, <1>12, <2>2 DEF Found
  <2>4. Chain'
    <3>1. slot.tables[1] = slot.base
      BY <1>2, <1>14 DEF SlotOK
    <3>2. Len(slot.volumes) \in Nat /\ Len(slot.volumes) > 0
      BY <1>2, <1>14, VolumesAre
    <3> QED
      BY <1>1, <1>4, <1>14, <2>1, <3>1, <3>2 DEF Chain
  <2>5. PartitionTypeOK'
    <3>1. nr_prim_parts' \in 0 .. NrPart
      BY <1>1, <1>2, <1>4, <1>6, Sizes
    <3> QED
      BY <1>2, <1>4, <1>5, <1>13, <2>1, <3>1, Sizes DEF PartitionInv, PartitionTypeOK
  <2>6. nr_prim_parts' <= prim_i' + 1
    BY <1>2, <1>4, <1>6, <2>1
  <2> QED
    BY <1>1, <1>2, <1>4, <2>1, <2>3, <2>4, <2>5, <2>6 DEF PartitionInv
<1>15. CASE slot.sys_id # "EXT_PART"
  <2>1. prim_i' = i0 /\ UNCHANGED <<hd_at, ext_s, ext_i>>
    BY <1>4, <1>15
  <2>2. \A i \in 1 .. NrPart, n \in 1 .. NrSub : Passed(i, n)' <=> Passed(i, n) \/ i = i0
    BY <1>1, <1>2, <2>1 DEF Passed
  <2>3. \A n \in 1 .. NrSub : Logical(slot, n) = NoVolume
    BY <1>2, <1>15, NoneLogical
  <2>4. \A i \in 1 .. NrPart, n \in 1 .. NrSub :
          logical'[Place(i, n)] = IF Passed(i, n)' THEN Logical(disk'.slots[i], n) ELSE NoVolume
    <3> HIDE DEF i0
    <3> QED
      BY <1>2, <1>4, <1>7, <2>2, <2>3 DEF Found
  <2>5. Found'
    BY <1>2, <1>4, <1>9, <1>10, <1>11, <1>12, <2>4 DEF Found
  <2>6. PartitionTypeOK' /\ nr_prim_parts' <= prim_i'
    <3>1. nr_prim_parts' \in 0 .. NrPart /\ nr_prim_parts' <= prim_i'
      BY <1>1, <1>2, <1>4, <1>6, <2>1, Sizes
    <3> QED
      BY <1>2, <1>4, <1>13, <2>1, <3>1, Sizes DEF PartitionInv, PartitionTypeOK
  <2> QED
    BY <1>1, <1>2, <1>4, <2>1, <2>5, <2>6 DEF PartitionInv
<1> QED
  BY <1>14, <1>15

LEMMA AllKeeps ==
    ASSUME PartitionInv, AllEntries
    PROVE  PartitionInv'
<1>1. /\ hd_at = "primary" /\ prim_i = NrPart
      /\ hd_at' = IF nr_prim_parts = 0 THEN "assert" ELSE "open"
      /\ UNCHANGED <<disk, part_tbl, prim_i, nr_prim_parts, ext_s, ext_i, primary, logical>>
  BY DEF AllEntries
<1>2. Found /\ disk \in Disks
  BY <1>1 DEF PartitionInv
<1>3. \A i \in 1 .. NrPart, n \in Nat : Passed(i, n) /\ Passed(i, n)'
  BY <1>1, Sizes DEF Passed
<1>4. \A n \in 1 .. NrSub : n \in Nat
  OBVIOUS
<1>5. Table(0)' = Table(0)
  BY <1>1 DEF Table, SubTable
<1>6. Found'
  BY <1>1, <1>2, <1>3, <1>4, <1>5 DEF Found
<1>7. nr_prim_parts = 0 => \A i \in 1 .. NrPart : disk.slots[i].sys_id = "NO_PART"
  BY <1>2, <1>3 DEF Found
<1>8. PartitionTypeOK' /\ nr_prim_parts' <= prim_i'
  BY <1>1 DEF PartitionInv, PartitionTypeOK
<1> QED
  BY <1>1, <1>2, <1>6, <1>7, <1>8 DEF PartitionInv

\* The table that partition(P_EXTENDED) reads is that of the next volume.
LEMMA ChainTableIs ==
    ASSUME PartitionInv, ExtendedTable
    PROVE  LET slot == disk.slots[prim_i + 1]
               k == ext_i + 1
           IN
           /\ disk \in Disks /\ Found /\ Chain /\ prim_i \in Nat /\ prim_i + 1 \in 1 .. NrPart
           /\ SlotOK(slot) /\ k \in 1 .. NrSub /\ k \in 1 .. Len(slot.volumes)
           /\ Len(slot.volumes) \in Nat
           /\ hd_buf' = SubTable(slot, k)
           /\ slot.volumes[k] \in Volumes
           /\ logical' = [logical EXCEPT ![Place(prim_i + 1, k)] = slot.volumes[k]]
           /\ primary[prim_i + 1].base = slot.base
<1> DEFINE i0 == prim_i + 1
           slot == disk.slots[i0]
           k == ext_i + 1
<1>1. /\ hd_at = "extended" /\ hd_buf' = Table(ext_s)
      /\ logical' = [logical EXCEPT ![prim_i * NrSub + ext_i] = Volume(ext_s, hd_buf'[1])]
  BY DEF ExtendedTable, GetPartTable
<1>2. disk \in Disks /\ Found /\ Chain
  BY <1>1 DEF PartitionInv
<1>3. prim_i \in Nat /\ i0 \in 1 .. NrPart /\ k \in 1 .. NrSub /\ ext_i \in Nat
  BY <1>2, Sizes DEF PartitionInv, PartitionTypeOK, Chain
<1>4. SlotOK(slot)
  BY <1>2, <1>3, SlotIs
<1>5. Len(slot.volumes) \in Nat /\ k \in 1 .. Len(slot.volumes)
  <2>1. Len(slot.volumes) \in Nat
    BY <1>4, VolumesAre
  <2>2. ext_i < Len(slot.volumes)
    BY <1>2 DEF Chain
  <2> QED
    BY <1>3, <2>1, <2>2
<1>6. hd_buf' = SubTable(slot, k)
  <2>1. k <= Len(slot.volumes)
    BY <1>5
  <2>2. ext_s = slot.tables[k]
    BY <1>2 DEF Chain
  <2> QED
    BY <1>1, <1>2, <1>3, <2>1, <2>2, TableIs
<1>7. slot.volumes[k] \in Volumes /\ slot.tables[k] \in Nat
  BY <1>4, <1>5, VolumesAre
<1>8. Volume(ext_s, hd_buf'[1]) = slot.volumes[k]
  <2>1. ext_s = slot.tables[k]
    BY <1>2 DEF Chain
  <2>2. hd_buf'[1].start_sect = slot.volumes[k].base - slot.tables[k]
        /\ hd_buf'[1].nr_sects = slot.volumes[k].size
    BY <1>6 DEF SubTable, Entry
  <2>3. slot.volumes[k].base \in Nat
        /\ slot.volumes[k] = [base |-> slot.volumes[k].base, size |-> slot.volumes[k].size]
    BY <1>7 DEF Volumes
  <2>4. ext_s + (slot.volumes[k].base - slot.tables[k]) = slot.volumes[k].base
    BY <1>7, <2>1, <2>3
  <2> QED
    BY <2>2, <2>3, <2>4 DEF Volume
<1>9. prim_i * NrSub + ext_i = Place(i0, k)
  BY <1>3, Sizes DEF Place
<1>10. primary[i0].base = slot.base
  <2>1. Passed(i0, 0)
    BY <1>1, <1>3 DEF Passed
  <2>2. \A i \in 1 .. NrPart :
          Passed(i, 0) => primary[i] = [base |-> disk.slots[i].base, size |-> disk.slots[i].size]
    BY <1>2 DEF Found
  <2>3. primary[i0] = [base |-> slot.base, size |-> slot.size]
    BY <1>3, <2>1, <2>2
  <2> QED
    BY <2>3
<1> QED
  BY <1>1, <1>2, <1>3, <1>4, <1>5, <1>6, <1>7, <1>8, <1>9, <1>10

LEMMA ExtendedKeeps ==
    ASSUME PartitionInv, ExtendedTable
    PROVE  PartitionInv'
<1> DEFINE i0 == prim_i + 1
           slot == disk.slots[i0]
           k == ext_i + 1
           len == Len(slot.volumes)
           ends == k = len \/ k = NrSub
<1>1. /\ hd_at = "extended"
      /\ UNCHANGED <<disk, part_tbl, nr_prim_parts, primary>>
  BY DEF ExtendedTable
<1>2. /\ disk \in Disks /\ Found /\ Chain /\ prim_i \in Nat /\ i0 \in 1 .. NrPart
      /\ SlotOK(slot) /\ k \in 1 .. NrSub /\ k \in 1 .. len /\ len \in Nat
      /\ hd_buf' = SubTable(slot, k) /\ slot.volumes[k] \in Volumes
      /\ logical' = [logical EXCEPT ![Place(i0, k)] = slot.volumes[k]]
      /\ primary[i0].base = slot.base
  BY ChainTableIs
<1>3. /\ ext_i \in Nat /\ prim_i < NrPart
      /\ nr_prim_parts <= prim_i + 1 /\ nr_prim_parts \in 0 .. NrPart
      /\ logical \in [0 .. NrSubPerDrive - 1 -> Volumes]
      /\ primary \in [0 .. NrPrim - 1 -> Volumes]
  BY <1>1 DEF PartitionInv, PartitionTypeOK, Chain
<1>4. /\ ends => hd_at' = "primary" /\ prim_i' = i0 /\ ext_i' = 0
      /\ ~ends => ext_i' = k /\ UNCHANGED <<hd_at, prim_i>>
  <2>1. hd_buf'[2].sys_id = "NO_PART" <=> k = len
    BY <1>2 DEF SubTable, Entry
  <2> QED
    BY <2>1 DEF ExtendedTable
<1>5. /\ ext_s' \in Nat
      /\ k # len => ext_s' = slot.tables[k + 1]
  <2>1. ext_s' = slot.base + hd_buf'[2].start_sect /\ slot.base \in Nat
    BY <1>2 DEF ExtendedTable, SlotOK
  <2>2. CASE k = len
    <3>1. hd_buf'[2].start_sect = 0
      BY <1>2, <2>2 DEF SubTable, Entry
    <3> QED
      BY <2>1, <2>2, <3>1
  <2>3. CASE k # len
    <3>1. hd_buf'[2].start_sect = slot.tables[k + 1] - slot.base
      BY <1>2, <2>3 DEF SubTable, Entry
    <3>2. slot.tables[k + 1] \in Nat
      <4>1. k + 1 \in 1 .. len
        BY <1>2, <2>3
      <4> QED
        BY <1>2, <4>1, VolumesAre
    <3> QED
      BY <2>1, <3>1, <3>2
  <2> QED
    BY <2>2, <2>3
<1>6. /\ logical'[Place(i0, k)] = Logical(slot, k)
      /\ \A i \in 1 .. NrPart, n \in 1 .. NrSub :
            ~(i = i0 /\ n = k) => logical'[Place(i, n)] = logical[Place(i, n)]
  <2>1. k \in DOMAIN slot.volumes
    BY <1>2, VolumesAre
  <2>2. Logical(slot, k) = slot.volumes[k]
    BY <2>1 DEF Logical
  <2>3. \A i \in 1 .. NrPart, n \in 1 .. NrSub :
            Place(i, n) \in 0 .. NrSubPerDrive - 1
    BY PlaceIs
  <2>4. \A i \in 1 .. NrPart, n \in 1 .. NrSub :
            Place(i, n) = Place(i0, k) => i = i0 /\ n = k
    BY <1>2, PlacesApart
  <2> HIDE DEF i0, k, slot
  <2> QED
    BY <1>2, <1>3, <2>2, <2>3, <2>4
<1>7. logical' \in [0 .. NrSubPerDrive - 1 -> Volumes]
  BY <1>2, <1>3
<1>8. Passed(i0, 0) /\ \A i \in 1 .. NrPart : Passed(i, 0)' <=> Passed(i, 0)
  BY <1>1, <1>2, <1>3, <1>4 DEF Passed
<1>9. Table(0)' = Table(0)
  BY <1>1 DEF Table, SubTable
<1>10. \A i \in 1 .. NrPart, n \in 1 .. NrSub :
         logical'[Place(i, n)] = IF Passed(i, n)' THEN Logical(disk'.slots[i], n) ELSE NoVolume
  <2> SUFFICES ASSUME NEW i \in 1 .. NrPart, NEW n \in 1 .. NrSub
               PROVE  logical'[Place(i, n)] =
                        IF Passed(i, n)' THEN Logical(disk.slots[i], n) ELSE NoVolume
    BY <1>1
  <2>1. logical[Place(i, n)] = IF Passed(i, n) THEN Logical(disk.slots[i], n) ELSE NoVolume
    BY <1>2 DEF Found
  <2>2. CASE i # i0
    <3>1. Passed(i, n)' <=> Passed(i, n)
      BY <1>1, <1>2, <1>3, <1>4, <2>2 DEF Passed
    <3> QED
      BY <1>6, <2>1, <2>2, <3>1
  <2>3. CASE i = i0 /\ n = k
    <3>1. Passed(i, n)'
      BY <1>1, <1>2, <1>3, <1>4, <2>3 DEF Passed
    <3> QED
      BY <1>6, <2>3, <3>1
  <2>4. CASE i = i0 /\ n < k
    <3>1. Passed(i, n)' /\ Passed(i, n)
      BY <1>1, <1>2, <1>3, <1>4, <2>4 DEF Passed
    <3>2. n # k
      BY <1>2, <2>4
    <3> QED
      BY <1>6, <2>1, <2>4, <3>1, <3>2
  <2>5. CASE i = i0 /\ n > k
    <3>1. ~Passed(i, n) /\ n # k
      BY <1>1, <1>2, <1>3, <2>5 DEF Passed
    <3>2. Passed(i, n)' => Logical(slot, n) = NoVolume
      <4>1. Passed(i, n)' => ends /\ k # NrSub
        BY <1>1, <1>2, <1>3, <1>4, <2>5 DEF Passed
      <4>2. k = len => n \notin 1 .. len
        BY <1>2, <2>5
      <4>3. DOMAIN slot.volumes = 1 .. len
        BY <1>2, VolumesAre
      <4> QED
        BY <4>1, <4>2, <4>3 DEF Logical
    <3> QED
      BY <1>6, <2>1, <2>5, <3>1, <3>2
  <2>6. n \in Int /\ k \in Int
    BY <1>2
  <2> QED
    BY <2>2, <2>3, <2>4, <2>5, <2>6
<1>11. Found'
  <2>1. \A i \in 1 .. NrPart :
          primary'[i] = IF Passed(i, 0)'
                        THEN [base |-> disk'.slots[i].base, size |-> disk'.slots[i].size]
                        ELSE NoVolume
    BY <1>1, <1>2, <1>8 DEF Found
  <2>2. nr_prim_parts' = 0 <=>
          \A i \in 1 .. NrPart : Passed(i, 0)' => disk'.slots[i].sys_id = "NO_PART"
    BY <1>1, <1>2, <1>8 DEF Found
  <2> QED
    BY <1>1, <1>2, <1>9, <1>10, <2>1, <2>2 DEF Found
<1>12. CASE ends
  <2>1. PartitionTypeOK' /\ nr_prim_parts' <= prim_i'
    BY <1>1, <1>2, <1>3, <1>4, <1>5, <1>7, <1>12, Sizes DEF PartitionTypeOK
  <2> QED
    BY <1>1, <1>2, <1>4, <1>11, <1>12, <2>1 DEF PartitionInv
<1>13. CASE ~ends
  <2>1. PartitionTypeOK'
    <3>1. k \in 0 .. NrSub - 1 /\ prim_i \in 0 .. NrPart
      BY <1>2, <1>3, <1>13, Sizes
    <3> QED
      BY <1>1, <1>3, <1>4, <1>5, <1>7, <1>13, <3>1 DEF PartitionTypeOK
  <2>2. Chain'
    <3>1. k < len
      BY <1>2, <1>13
    <3> QED
      BY <1>1, <1>2, <1>4, <1>5, <1>13, <3>1 DEF Chain
  <2> QED
    BY <1>1, <1>2, <1>3, <1>4, <1>11, <1>13, <2>1, <2>2 DEF PartitionInv
<1> QED
  BY <1>12, <1>13

\* Every step keeps what is known of the volumes.
LEMMA DiskStays == PartitionInv /\ [Next]_vars => PartitionInv'
<1> SUFFICES ASSUME PartitionInv, [Next]_vars PROVE PartitionInv'
  OBVIOUS
<1>1. CASE InitHd
  <2>1. disk = NoDisk /\ disk' \in Disks /\ UNCHANGED hd
    BY <1>1 DEF InitHd
  <2>2. hd_at = "closed" /\ HdInit
    BY <2>1 DEF PartitionInv
  <2> QED
    BY <2>1, <2>2 DEF PartitionInv, PartitionTypeOK, HdInit, hd
<1>2. CASE OpenRoot
  BY <1>2, OpenKeeps
<1>3. CASE HdStep
  BY <1>3, EmptyKeeps, PrimaryKeeps, AllKeeps, ExtendedKeeps DEF HdStep, Partition
<1>4. CASE UNCHANGED <<disk, hd>>
  BY <1>4 DEF hd, PartitionInv, PartitionTypeOK, HdInit, Found, Chain, Passed, Table, SubTable
<1>5. InitHd \/ OpenRoot \/ HdStep \/ UNCHANGED <<disk, hd>>
  BY DEF Next, StartLoader, StartKernel, LoadStep, AskSize, FsStep, vars
<1> QED
  BY <1>1, <1>2, <1>3, <1>4, <1>5

\* The volumes that FS and the driver are told of are those of the disk.
LEMMA DiskGives == PartitionInv => PartitionTypeOK /\ RootFound
<1> SUFFICES ASSUME PartitionInv, disk # NoDisk PROVE VolumesFound
  BY DEF PartitionInv, RootFound
<1>1. ASSUME hd_at = "open"
      PROVE  /\ primary[0] = [base |-> 0, size |-> disk.size]
             /\ \A i \in 1 .. NrPart : LET slot == disk.slots[i] IN
                /\ primary[i] = [base |-> slot.base, size |-> slot.size]
                /\ \A n \in 1 .. NrSub : logical[(i - 1) * NrSub + n - 1] = Logical(slot, n)
             /\ ~ \A i \in 1 .. NrPart : disk.slots[i].sys_id = "NO_PART"
  <2>1. Found /\ prim_i = NrPart /\ nr_prim_parts # 0
    BY <1>1 DEF PartitionInv
  <2>2. \A i \in 1 .. NrPart, n \in Nat : Passed(i, n)
    BY <2>1, Sizes DEF Passed
  <2>3. 0 \in Nat /\ \A n \in 1 .. NrSub : n \in Nat
    OBVIOUS
  <2> QED
    BY <2>1, <2>2, <2>3 DEF Found, Place
<1>2. hd_at = "assert" => \A i \in 1 .. NrPart : disk.slots[i].sys_id = "NO_PART"
  BY DEF PartitionInv
<1> QED
  BY <1>1, <1>2 DEF VolumesFound

-----------------------------------------------------------------------------
(* The areas of the new file system *)

\* The super block, once it is computed
Super ==
    /\ nr_cluster_map \in Nat /\ nr_clusters \in Nat
    /\ file_table = 2 + nr_cluster_map /\ start_cluster = 3 + nr_cluster_map
    /\ nr_cluster_map >= 1 => start_cluster <= nr_clusters

\* Where each area is; the last one is written last.
Owner(c, what) ==
    \/ c = 1 /\ what = "super"
    \/ c \in 2 .. file_table - 1 /\ what = "map"
    \/ c = file_table /\ what = "table" /\ mkfs_at = "done"

Owned == \A c \in DOMAIN area : Owner(c, area[c])

Layout ==
    /\ mkfs_at = "super" => DOMAIN area = {}
    /\ Owned
    /\ mkfs_at \in {"clear", "map", "table", "done"} => 1 \in DOMAIN area
    /\ mkfs_at \in {"table", "done"} =>
        2 \in DOMAIN area /\ marked = 0 .. start_cluster - 1
    /\ mkfs_at = "done" => file_table \in DOMAIN area /\ area[file_table] = "table"

MkfsInv ==
    /\ MkfsTypeOK
    /\ mkfs_at = "ioctl" => DOMAIN area = {}
    /\ mkfs_at # "ioctl" => Super /\ (nr_cluster_map >= 1 => Layout)
    /\ mkfs_at = "clear" => map_i >= 2

\* A map of m clusters is m times a cluster's bits long, and more than the three
\* clusters in front of the files.
LEMMA MapFits ==
    ASSUME NEW n \in Nat, n \div ClustersPerMap >= 1
    PROVE  3 + n \div ClustersPerMap <= n
<1> DEFINE m == n \div ClustersPerMap
<1>1. ClustersPerMap \in Nat /\ ClustersPerMap >= 4
  BY MkfsAssumption
<1>2. m \in Nat /\ ClustersPerMap * m <= n
  BY <1>1
<1>3. 4 * m <= ClustersPerMap * m
  BY <1>1, <1>2
<1> QED BY <1>1, <1>2, <1>3

\* One more cluster is written.
LEMMA Written ==
    ASSUME NEW c, NEW what, WriteSect(c, what)
    PROVE  /\ DOMAIN area' = DOMAIN area \cup {c}
           /\ area'[c] = what
           /\ \A x \in DOMAIN area : x # c => area'[x] = area[x]
BY DEF WriteSect

\* A cluster written for its owner leaves every cluster with its owner.
LEMMA OwnersKept ==
    ASSUME Layout, NEW c, NEW what, WriteSect(c, what), Owner(c, what)',
           UNCHANGED file_table, mkfs_at # "done",
           \A x \in DOMAIN area : x = c => area[x] = what
    PROVE  Owned'
<1> SUFFICES ASSUME NEW x \in DOMAIN area' PROVE Owner(x, area[x])'
  BY DEF Owned
<1>1. CASE x = c
  BY <1>1, Written
<1>2. CASE x # c
  <2>1. x \in DOMAIN area /\ area'[x] = area[x]
    BY <1>2, Written
  <2>2. Owner(x, area[x])
    BY <2>1 DEF Layout, Owned
  <2> QED BY <2>1, <2>2 DEF Owner
<1> QED BY <1>1, <1>2

LEMMA MkfsStart == MkfsInit => MkfsInv
BY DEF MkfsInit, MkfsInv, MkfsTypeOK, Unwritten

LEMMA GetGeoInv ==
    ASSUME MkfsInv, NEW size \in Nat, GetGeo(size)
    PROVE  MkfsInv'
<1>1. nr_clusters' \in Nat
  BY MkfsAssumption DEF GetGeo
<1>2. nr_cluster_map' \in Nat
  BY <1>1, MkfsAssumption DEF GetGeo
<1>3. nr_cluster_map' >= 1 => 3 + nr_cluster_map' <= nr_clusters'
  BY <1>1, MapFits DEF GetGeo
<1>4. Super'
  BY <1>1, <1>2, <1>3 DEF Super, GetGeo, TableAfter
<1>5. mkfs_at' = "super" /\ DOMAIN area' = {}
  BY DEF GetGeo, MkfsInv
<1>6. Layout'
  BY <1>5 DEF Layout, Owned
<1>7. MkfsTypeOK'
  <2>1. DOMAIN area' \subseteq Nat /\ \A c \in DOMAIN area' : area'[c] \in {"super", "map", "table"}
    BY <1>5
  <2>2. nr_sectors' \in Nat /\ map_i' \in Nat /\ marked' \subseteq Nat
    BY DEF GetGeo, MkfsInv, MkfsTypeOK
  <2>3. file_table' \in Nat /\ start_cluster' \in Nat
    <3>1. file_table' = 2 + nr_cluster_map' /\ start_cluster' = 3 + nr_cluster_map'
      BY <1>4 DEF Super
    <3>2. \A n \in Nat : 2 + n \in Nat /\ 3 + n \in Nat
      OBVIOUS
    <3> QED
      BY <1>2, <3>1, <3>2
  <2> QED
    BY <1>1, <1>2, <1>5, <2>1, <2>2, <2>3 DEF MkfsTypeOK
<1> QED BY <1>4, <1>5, <1>6, <1>7 DEF MkfsInv

LEMMA TypeKept ==
    ASSUME MkfsTypeOK, MkfsStep
    PROVE  MkfsTypeOK'
<1> DEFINE Areas == {"super", "map", "table"}
<1>1. ASSUME NEW c \in Nat, NEW what \in Areas, WriteSect(c, what)
      PROVE  DOMAIN area' \subseteq Nat /\ \A x \in DOMAIN area' : area'[x] \in Areas
  <2>1. DOMAIN area' = DOMAIN area \cup {c} /\ area'[c] = what
        /\ \A x \in DOMAIN area : x # c => area'[x] = area[x]
    BY <1>1, Written
  <2>2. DOMAIN area \subseteq Nat /\ \A x \in DOMAIN area : area[x] \in Areas
    BY DEF MkfsTypeOK
  <2> HIDE DEF Areas
  <2> QED
    BY <2>1, <2>2
<1>2. CASE WriteSuper
  BY <1>1, <1>2 DEF WriteSuper, MkfsTypeOK, superblock
<1>3. CASE ClearMap
  BY <1>1, <1>3 DEF ClearMap, MkfsTypeOK, superblock
<1>4. CASE WriteMap
  BY <1>1, <1>4 DEF WriteMap, MkfsTypeOK, superblock
<1>5. CASE WriteTable
  BY <1>1, <1>5 DEF WriteTable, MkfsTypeOK, superblock
<1> QED BY <1>2, <1>3, <1>4, <1>5 DEF MkfsStep

\* The steps that write: each area at its place, behind those written before
LEMMA StepInv ==
    ASSUME MkfsInv, MkfsStep
    PROVE  MkfsInv'
<1>0. Super /\ Super' /\ MkfsTypeOK' /\ UNCHANGED superblock
  BY TypeKept DEF MkfsInv, MkfsStep, WriteSuper, ClearMap, WriteMap, WriteTable, superblock, Super
<1>1. CASE WriteSuper
  <2>1. mkfs_at = "super" /\ mkfs_at' = "clear" /\ map_i' = 2 /\ WriteSect(1, "super")
    BY <1>1 DEF WriteSuper
  <2> SUFFICES ASSUME nr_cluster_map >= 1 PROVE Layout'
    BY <1>0, <2>1 DEF MkfsInv, superblock
  <2>2. DOMAIN area = {}
    BY <2>1 DEF MkfsInv, Layout
  <2>3. DOMAIN area' = {1} /\ area'[1] = "super"
    BY <2>1, <2>2 DEF WriteSect
  <2>4. Owned'
    BY <2>3 DEF Owned, Owner
  <2> QED BY <2>1, <2>3, <2>4 DEF Layout
<1>2. CASE ClearMap
  <2>1. CASE map_i < nr_cluster_map
    <3>1. mkfs_at = "clear" /\ mkfs_at' = "clear" /\ map_i' = map_i + 1
          /\ WriteSect(map_i, "map") /\ UNCHANGED marked
      BY <1>2, <2>1 DEF ClearMap
    <3>2. map_i \in 2 .. file_table - 1
      BY <1>0, <2>1, <3>1 DEF MkfsInv, MkfsTypeOK, Super
    <3> SUFFICES ASSUME nr_cluster_map >= 1 PROVE Layout'
      BY <1>0, <3>1, <3>2 DEF MkfsInv, superblock
    <3>3. Layout /\ UNCHANGED <<file_table, start_cluster>>
      BY <1>0, <3>1 DEF MkfsInv, superblock
    <3>4. \A x \in DOMAIN area : x = map_i => area[x] = "map"
      BY <3>1, <3>2, <3>3 DEF Layout, Owned, Owner
    <3>5. Owned'
      BY <3>1, <3>2, <3>3, <3>4, OwnersKept DEF Owner
    <3>6. 1 \in DOMAIN area'
      BY <3>1, <3>3, Written DEF Layout
    <3> QED BY <3>1, <3>3, <3>5, <3>6 DEF Layout
  <2>2. CASE ~(map_i < nr_cluster_map)
    BY <1>0, <1>2, <2>2 DEF ClearMap, MkfsInv, Layout, Owned, Owner, superblock
  <2> QED BY <2>1, <2>2
<1>3. CASE WriteMap
  <2>1. mkfs_at = "map" /\ mkfs_at' = "table" /\ WriteSect(2, "map")
        /\ marked' = 0 .. 2 + nr_cluster_map
    BY <1>3 DEF WriteMap
  <2>2. marked' = 0 .. start_cluster' - 1
    BY <1>0, <2>1 DEF Super, superblock
  <2>3. nr_cluster_map >= 1 => 2 \in 2 .. file_table - 1
    BY <1>0 DEF Super
  <2> SUFFICES ASSUME nr_cluster_map >= 1 PROVE Layout'
    BY <1>0, <2>1 DEF MkfsInv, superblock
  <2>4. Layout /\ UNCHANGED <<file_table, start_cluster>>
    BY <1>0, <2>1 DEF MkfsInv, superblock
  <2>5. \A x \in DOMAIN area : x = 2 => area[x] = "map"
    BY <2>1, <2>3, <2>4 DEF Layout, Owned, Owner
  <2>6. Owned'
    BY <2>1, <2>3, <2>4, <2>5, OwnersKept DEF Owner
  <2>7. 1 \in DOMAIN area' /\ 2 \in DOMAIN area'
    <3>1. 1 \in DOMAIN area
      BY <2>1, <2>4 DEF Layout
    <3>2. DOMAIN area' = DOMAIN area \cup {2}
      BY <2>1, Written
    <3> QED BY <3>1, <3>2
  <2> QED BY <2>1, <2>2, <2>4, <2>6, <2>7 DEF Layout
<1>4. CASE WriteTable
  <2>1. mkfs_at = "table" /\ mkfs_at' = "done" /\ WriteSect(file_table, "table")
        /\ UNCHANGED marked
    BY <1>4 DEF WriteTable
  <2> SUFFICES ASSUME nr_cluster_map >= 1 PROVE Layout'
    BY <1>0, <2>1 DEF MkfsInv, superblock
  <2>2. Layout /\ UNCHANGED <<file_table, start_cluster>>
    BY <1>0, <2>1 DEF MkfsInv, superblock
  <2>3. \A x \in DOMAIN area : x # file_table
    BY <1>0, <2>1, <2>2 DEF Layout, Owned, Owner, Super
  <2>4. Owned'
    BY <2>1, <2>2, <2>3, OwnersKept DEF Owner
  <2>5. 1 \in DOMAIN area' /\ 2 \in DOMAIN area' /\ file_table \in DOMAIN area'
        /\ area'[file_table] = "table"
    <3>1. 1 \in DOMAIN area /\ 2 \in DOMAIN area
      BY <2>1, <2>2 DEF Layout
    <3>2. DOMAIN area' = DOMAIN area \cup {file_table} /\ area'[file_table] = "table"
      BY <2>1, Written
    <3> QED BY <3>1, <3>2
  <2> QED BY <2>1, <2>2, <2>4, <2>5 DEF Layout
<1> QED BY <1>1, <1>2, <1>3, <1>4 DEF MkfsStep

LEMMA StutterInv == MkfsInv /\ UNCHANGED mkfs => MkfsInv'
BY DEF MkfsInv, MkfsTypeOK, Super, Layout, Owned, Owner, mkfs, superblock

-----------------------------------------------------------------------------
(* The machine *)

IInv ==
    /\ running \in {"boot sector", "loader", "kernel"}
    /\ FatInv
    /\ PartitionInv
    /\ MkfsInv

LEMMA Start0 == Init => IInv
<1> SUFFICES ASSUME Init PROVE IInv
  OBVIOUS
<1>1. running = "boot sector" /\ MkfsInit
  BY DEF Init
<1> QED
  BY <1>1, FatStart, DiskStart, MkfsStart DEF IInv

LEMMA Stays == IInv /\ [Next]_vars => IInv'
<1> SUFFICES ASSUME IInv, [Next]_vars PROVE IInv'
  OBVIOUS
<1>1. FatInv' /\ PartitionInv'
  BY FatStays, DiskStays DEF IInv
<1>2. MkfsInv'
  <2>1. CASE AskSize
    <3>1. Geometry(RootDevice).size \in Nat
      <4>1. logical[LogIdx(RootDevice)] \in Volumes
        BY RootIs DEF IInv, PartitionInv, PartitionTypeOK
      <4> QED
        BY <4>1, RootIs DEF Geometry, Volumes
    <3> QED
      BY <2>1, <3>1, GetGeoInv DEF AskSize, IInv
  <2>2. CASE FsStep
    BY <2>2, StepInv DEF FsStep, IInv
  <2>3. CASE UNCHANGED mkfs
    BY <2>3, StutterInv DEF IInv
  <2>4. AskSize \/ FsStep \/ UNCHANGED mkfs
    BY DEF Next, StartLoader, StartKernel, LoadStep, InitHd, OpenRoot, HdStep, vars
  <2> QED
    BY <2>1, <2>2, <2>3, <2>4
<1>3. running' \in {"boot sector", "loader", "kernel"}
  BY DEF IInv, Next, StartLoader, StartKernel, LoadStep, InitHd, OpenRoot, HdStep, AskSize, FsStep, vars
<1> QED
  BY <1>1, <1>2, <1>3 DEF IInv

\* What is known of the floppy, of the disk and of the file system holds throughout.
THEOREM Invariant == Spec => []IInv
BY Start0, Stays, PTL DEF Spec

\* Every variable keeps its type: the search does not run beyond the directory, bx stays
\* within the segment, and the driver's indices within the entries and the volumes.
THEOREM TypeCorrect == Spec => []TypeOK
<1>1. IInv => TypeOK
  BY FatGives, DiskGives DEF IInv, TypeOK, MkfsInv
<1> QED
  BY <1>1, Invariant, PTL

\* For floppies of every size and files whose clusters lie anywhere and in any order, the
\* program that is started is the file of the name asked for, whole if it fits in front of
\* the end of a segment; and the search fails only if there is no such file.
THEOREM FilesAreLoaded == Spec => []FilesLoaded
<1>1. IInv => FilesLoaded
  BY FatGives DEF IInv
<1> QED
  BY <1>1, Invariant, PTL

\* For disks with every number of slots and chains of every length, once the disk is open
\* each device number has the volume the disk has in that place, and the driver stops
\* with its assertion if and only if there is no volume.
THEOREM RootIsFound == Spec => []RootFound
<1>1. IInv => RootFound
  BY DiskGives DEF IInv
<1> QED
  BY <1>1, Invariant, PTL

\* For every size of the volume and every size of a cluster, mkfs puts the super block,
\* the map and the file table in clusters of their own within the volume, and marks
\* them, if the volume is large enough for one cluster of map.
THEOREM AreasNeverOverlap == Spec => []AreasApart
<1>1. IInv => AreasApart
  <2> SUFFICES ASSUME MkfsInv, mkfs_at = "done", nr_cluster_map >= 1 PROVE AreasApart
    BY DEF IInv, AreasApart
  <2>1. Super /\ Layout
    BY DEF MkfsInv
  <2>2. 1 \in DOMAIN area /\ 2 \in DOMAIN area /\ file_table \in DOMAIN area
        /\ area[file_table] = "table" /\ marked = 0 .. start_cluster - 1
    BY <2>1 DEF Layout
  <2>3. area[1] = "super" /\ area[2] = "map"
    BY <2>1, <2>2 DEF Layout, Owned, Owner, Super
  <2>4. \A c \in DOMAIN area : area[c] = "map" => c \in 2 .. file_table - 1
    BY <2>1 DEF Layout, Owned, Owner
  <2>5. DOMAIN area \subseteq marked
    BY <2>1, <2>2 DEF Layout, Owned, Owner, Super
  <2> QED BY <2>1, <2>2, <2>3, <2>4, <2>5 DEF AreasApart, Super
<1> QED BY <1>1, Invariant, PTL
=============================================================================
