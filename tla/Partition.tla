------------------------------ MODULE Partition ------------------------------
(***************************************************************************)
(* Where the volumes of the disk are: hd_open and partition() of           *)
(* src/kernel/hd.c, which read the partition table of the disk and the     *)
(* chains of tables in its extended partitions, one sector at a time into  *)
(* hd_buf, and hd_ioctl and hd_rdwt, which look the volumes up.  Commands  *)
(* and interrupts are Hd's.                                                *)
(*                                                                         *)
(* A disk is told by its size and its NR_PART_PER_DRIVE slots: each empty, *)
(* a volume, or an extended partition with a sequence of volumes, each in  *)
(* a table of its own.  A table is a sequence of entries.                  *)
(***************************************************************************)
EXTENDS Integers, Sequences

CONSTANTS
    NrPart,         \* NR_PART_PER_DRIVE
    NrSub,          \* NR_SUB_PER_PART
    MaxDrivers,     \* MAX_DRIVERS
    MinorHd1a       \* MINOR_hd1a

NrSubPerDrive == NrSub * NrPart
NrPrim == NrPart + 1
MaxPrim == MaxDrivers * NrPrim - 1
MinorHd2a == MinorHd1a + NrSub

ASSUME PartitionAssumption ==
    /\ {NrPart, NrSub, MaxDrivers, MinorHd1a} \subseteq Nat \ {0}
    /\ MaxPrim < MinorHd1a

VARIABLES
    disk,       \* [size, slots]
    hd_at,      \* "closed", "primary", "extended", "open" or "assert"
    hd_buf,     \* the table read last
    part_tbl,   \* the copy of it that partition(P_PRIMARY) has
    prim_i,     \* that call's i
    nr_prim_parts,
    ext_s,      \* partition(P_EXTENDED)'s s and i
    ext_i,
    primary,    \* hd_info[0].primary
    logical     \* hd_info[0].logical

hd == <<hd_at, hd_buf, part_tbl, prim_i, nr_prim_parts, ext_s, ext_i, primary, logical>>

NoVolume == [base |-> 0, size |-> 0]
Volume(base, entry) == [base |-> base + entry.start_sect, size |-> entry.nr_sects]

\* A disk as its partitioner leaves it: an extended partition begins with the table of
\* its first volume, and no two tables are in one sector.
SlotOK(slot) ==
    /\ slot.base \in Nat /\ slot.size \in Nat
    /\ slot.tables \in Seq(Nat \ {0})
    /\ slot.volumes \in Seq([base : Nat, size : Nat])
    /\ Len(slot.tables) = Len(slot.volumes)
    /\ slot.sys_id \in {"NO_PART", "PART", "EXT_PART"}
    /\ slot.sys_id = "NO_PART" => slot.base = 0 /\ slot.size = 0
    /\ slot.sys_id # "EXT_PART" => slot.volumes = <<>>
    /\ slot.sys_id = "EXT_PART" => slot.tables # <<>> /\ slot.tables[1] = slot.base
DiskOK(d) ==
    /\ d.size \in Nat
    /\ DOMAIN d.slots = 1 .. NrPart
    /\ \A i \in 1 .. NrPart : SlotOK(d.slots[i])
    /\ \A i, m \in 1 .. NrPart :
        \A j \in DOMAIN d.slots[i].tables, k \in DOMAIN d.slots[m].tables :
            d.slots[i].tables[j] = d.slots[m].tables[k] => i = m /\ j = k

HdInit ==
    /\ hd_at = "closed"
    /\ hd_buf = <<>> /\ part_tbl = <<>>
    /\ prim_i = 0 /\ nr_prim_parts = 0 /\ ext_s = 0 /\ ext_i = 0
    /\ primary = [n \in 0 .. NrPrim - 1 |-> NoVolume]
    /\ logical = [n \in 0 .. NrSubPerDrive - 1 |-> NoVolume]

DrvOfDev(dev) ==
    IF dev <= MaxPrim THEN dev \div NrPrim ELSE (dev - MinorHd1a) \div NrSubPerDrive

Entry(sys_id, start_sect, nr_sects) ==
    [sys_id |-> sys_id, start_sect |-> start_sect, nr_sects |-> nr_sects]

\* The table of a slot's k-th volume: the volume, and the table of the next one
SubTable(slot, k) ==
    <<Entry("PART", slot.volumes[k].base - slot.tables[k], slot.volumes[k].size),
      IF k = Len(slot.volumes) THEN Entry("NO_PART", 0, 0)
      ELSE Entry("EXT_PART", slot.tables[k + 1] - slot.base, 1)>>

\* What the disk holds in a sector with a table
Table(sect_nr) ==
    IF sect_nr = 0
    THEN [i \in 1 .. NrPart |->
            Entry(disk.slots[i].sys_id, disk.slots[i].base, disk.slots[i].size)]
    ELSE LET at == CHOOSE at \in (1 .. NrPart) \X (1 .. NrSub + 1) :
                        /\ at[2] \in DOMAIN disk.slots[at[1]].tables
                        /\ disk.slots[at[1]].tables[at[2]] = sect_nr
         IN  SubTable(disk.slots[at[1]], at[2])

\* get_part_table
GetPartTable(sect_nr) == hd_buf' = Table(sect_nr)

\* hd_open, with hd_identify, up to the table of the disk
HdOpen(dev) ==
    /\ hd_at = "closed"
    /\ IF DrvOfDev(dev) = 0
       THEN /\ hd_at' = "primary"
            /\ GetPartTable(0)
            /\ part_tbl' = hd_buf'
            /\ primary' = [primary EXCEPT ![0] = [base |-> 0, size |-> disk.size]]
       ELSE /\ hd_at' = "assert"
            /\ UNCHANGED <<hd_buf, part_tbl, primary>>
    /\ UNCHANGED <<disk, prim_i, nr_prim_parts, ext_s, ext_i, logical>>

LastRead(n) == hd_buf[n]      \* mutant: the buffer, which other tables have gone through
\* part_tbl[i], counted from 1
TableEntry(n) == part_tbl[n]

\* The loop of partition(P_PRIMARY): an entry is passed over ...
EmptyEntry ==
    /\ hd_at = "primary" /\ prim_i < NrPart
    /\ TableEntry(prim_i + 1).sys_id = "NO_PART"
    /\ prim_i' = prim_i + 1
    /\ UNCHANGED <<disk, hd_at, hd_buf, part_tbl, nr_prim_parts, ext_s, ext_i, primary, logical>>

\* ... or is a volume, and its chain is walked first if it is extended.
PrimaryEntry ==
    /\ hd_at = "primary" /\ prim_i < NrPart
    /\ LET entry == TableEntry(prim_i + 1) IN
        /\ entry.sys_id # "NO_PART"
        /\ nr_prim_parts' = nr_prim_parts + 1
        /\ primary' = [primary EXCEPT ![prim_i + 1] = Volume(0, entry)]
        /\ IF entry.sys_id = "EXT_PART"
           THEN hd_at' = "extended" /\ ext_s' = entry.start_sect /\ ext_i' = 0 /\ UNCHANGED prim_i
           ELSE prim_i' = prim_i + 1 /\ UNCHANGED <<hd_at, ext_s, ext_i>>
    /\ UNCHANGED <<disk, hd_buf, part_tbl, logical>>

AllEntries ==
    /\ hd_at = "primary" /\ prim_i = NrPart
    /\ hd_at' = IF nr_prim_parts = 0 THEN "assert" ELSE "open"
    /\ UNCHANGED <<disk, hd_buf, part_tbl, prim_i, nr_prim_parts, ext_s, ext_i, primary, logical>>

\* One round of the loop of partition(P_EXTENDED).  A volume is found from its own
\* table, the next table from the beginning of the partition.
ExtendedTable ==
    /\ hd_at = "extended"
    /\ GetPartTable(ext_s)
    /\ logical' = [logical EXCEPT ![prim_i * NrSub + ext_i] = Volume(ext_s, hd_buf'[1])]
    /\ ext_s' = primary[prim_i + 1].base + hd_buf'[2].start_sect
    /\ IF hd_buf'[2].sys_id = "NO_PART" \/ ext_i + 1 = NrSub
       THEN hd_at' = "primary" /\ prim_i' = prim_i + 1 /\ ext_i' = 0
       ELSE ext_i' = ext_i + 1 /\ UNCHANGED <<hd_at, prim_i>>
    /\ UNCHANGED <<disk, part_tbl, nr_prim_parts, primary>>

Partition == EmptyEntry \/ PrimaryEntry \/ AllEntries \/ ExtendedTable

-----------------------------------------------------------------------------
(* The volume of a device *)

LogIdx(dev) == (dev - MinorHd1a) % NrSubPerDrive

\* hd_ioctl, DIOCTL_GET_GEO
Geometry(dev) == IF dev < MaxPrim THEN primary[dev] ELSE logical[LogIdx(dev)]

\* `primary' of struct hd_info with `logical' behind it, as an index finds them
PrimaryAt(n) == IF n < NrPrim THEN primary[n] ELSE logical[n - NrPrim]

\* hd_rdwt: the sector of the disk at which a request begins
SectorOf(dev, sect_nr) ==
    sect_nr + IF dev < MaxPrim THEN primary[dev].base ELSE PrimaryAt(LogIdx(dev)).base

-----------------------------------------------------------------------------
(* Properties *)

Volumes == [base : Nat, size : Nat]

PartitionTypeOK ==
    /\ hd_at \in {"closed", "primary", "extended", "open", "assert"}
    /\ prim_i \in 0 .. NrPart /\ nr_prim_parts \in 0 .. NrPart
    /\ ext_s \in Nat /\ ext_i \in 0 .. NrSub - 1
    /\ primary \in [0 .. NrPrim - 1 -> Volumes]
    /\ logical \in [0 .. NrSubPerDrive - 1 -> Volumes]

\* The volume that device number n of a slot's logical ones should be
Logical(slot, n) ==
    IF n \in DOMAIN slot.volumes THEN slot.volumes[n] ELSE NoVolume

\* Once the disk is open each device is the volume the disk has in that place, up to
\* the NR_SUB_PER_PART first of an extended partition, and no other: across tables
\* that share one buffer, two of them extended, whose chains run in any order and whose
\* addresses count from different places (hd.c:190-239).  And the driver refuses the
\* disk (line 214) if and only if it has no partition.
VolumesFound ==
    /\ hd_at = "open" =>
        /\ primary[0] = [base |-> 0, size |-> disk.size]
        /\ \A i \in 1 .. NrPart : LET slot == disk.slots[i] IN
            /\ primary[i] = [base |-> slot.base, size |-> slot.size]
            /\ \A n \in 1 .. NrSub : logical[(i - 1) * NrSub + n - 1] = Logical(slot, n)
    /\ hd_at \in {"open", "assert"} =>
        (hd_at = "assert" <=> \A i \in 1 .. NrPart : disk.slots[i].sys_id = "NO_PART")
=============================================================================
