------------------------------- MODULE Startup -------------------------------
(***************************************************************************)
(* From the boot sector to the file system, in the order the machine goes  *)
(* through it: the boot sector starts LOADER.BIN (Fat12), that one starts  *)
(* KERNEL.BIN (Fat12 again), and in the kernel FS has the driver open the  *)
(* root device (Partition), asks it for its size and lays a file system    *)
(* out on it (Mkfs; init_fs and mkfs in src/fs/main.c).                    *)
(***************************************************************************)
EXTENDS Fat12, Partition, Mkfs

CONSTANTS Floppies, Disks

\* The root device, hd2a, is on the first drive.
ASSUME StartupAssumption ==
    /\ NrPart > 1
    /\ \A f \in Floppies : FloppyOK(f)
    /\ \A d \in Disks : DiskOK(d)

VARIABLE running    \* "boot sector", "loader" or "kernel"

vars == <<running, fat12, disk, hd, mkfs>>

\* MINOR(ROOT_DEV)
RootDevice == MinorHd2a

NoDisk == [size |-> 0, slots |-> <<>>]

Init ==
    /\ running = "boot sector"
    /\ floppy \in Floppies
    /\ FatInit
    /\ disk = NoDisk
    /\ HdInit /\ MkfsInit

\* jmp BaseOfLoader:OffsetOfLoader
StartLoader ==
    /\ running = "boot sector" /\ place = "loaded"
    /\ running' = "loader"
    /\ Start("KERNEL", "search")
    /\ UNCHANGED <<floppy, disk, hd, mkfs>>

\* The kernel does not read the floppy: what was on it is no more of interest.
StartKernel ==
    /\ running = "loader" /\ place = "loaded"
    /\ running' = "kernel"
    /\ floppy' = [names |-> <<>>, chain |-> <<>>]
    /\ Start("KERNEL", "loaded")
    /\ UNCHANGED <<disk, hd, mkfs>>

\* There is a disk: init_hd asserts it.
InitHd ==
    /\ running = "kernel" /\ disk = NoDisk
    /\ disk' \in Disks
    /\ UNCHANGED <<running, fat12, hd, mkfs>>

LoadStep ==
    /\ running \in {"boot sector", "loader"}
    /\ FatStep
    /\ UNCHANGED <<running, disk, hd, mkfs>>

\* init_fs: DEV_OPEN
OpenRoot ==
    /\ disk # NoDisk
    /\ HdOpen(RootDevice)
    /\ UNCHANGED <<running, fat12, mkfs>>

HdStep ==
    /\ Partition
    /\ UNCHANGED <<running, fat12, mkfs>>

\* DIOCTL_GET_GEO
AskSize ==
    /\ hd_at = "open"
    /\ GetGeo(Geometry(RootDevice).size)
    /\ UNCHANGED <<running, fat12, disk, hd>>

FsStep ==
    /\ MkfsStep
    /\ UNCHANGED <<running, fat12, disk, hd>>

Next ==
    \/ StartLoader \/ StartKernel \/ LoadStep
    \/ InitHd \/ OpenRoot \/ HdStep \/ AskSize \/ FsStep

\* One program runs at a time, and the BIOS and the disk answer (boot.asm:123-127; Hd).
Spec == Init /\ [][Next]_vars /\ WF_vars(Next)

-----------------------------------------------------------------------------
(* Properties *)

TypeOK ==
    /\ running \in {"boot sector", "loader", "kernel"}
    /\ FatTypeOK /\ PartitionTypeOK /\ MkfsTypeOK

\* FileLoaded, for both programs that load one
FilesLoaded == running # "kernel" => FileLoaded

\* VolumesFound, once there is a disk
RootFound == disk # NoDisk => VolumesFound

\* What FS writes goes into the volume whose size it was told: the sector a request
\* names counts from that volume's base (hd.h:74, hd.c:302).
WritesInVolume ==
    \A c \in DOMAIN area :
        SectorOf(RootDevice, SectorsPerCluster * c)
            = Geometry(RootDevice).base + SectorsPerCluster * c

\* Every search, every chain of clusters and every chain of tables comes to an end:
\* the machine stops without a program or a partition, or there is a file system.
Ends == <>(place = "no file" \/ hd_at = "assert" \/ mkfs_at = "done")
=============================================================================
