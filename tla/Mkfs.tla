--------------------------------- MODULE Mkfs ---------------------------------
(***************************************************************************)
(* mkfs() of src/fs/main.c: the process FS lays a new file system out on   *)
(* the root device, a cluster at a time.  What a cluster holds is told by  *)
(* the name of the area it belongs to.                                     *)
(***************************************************************************)
EXTENDS Integers

CONSTANTS
    SectorsPerCluster,  \* CLUSTER_SIZE / SECTOR_SIZE
    ClustersPerMap      \* the clusters one cluster of the map has bits for, 8 * 512 * 8

ASSUME MkfsAssumption ==
    /\ SectorsPerCluster \in Nat \ {0}
    /\ ClustersPerMap \in Nat \ (0 .. 3)

VARIABLES
    mkfs_at,        \* "ioctl", "super", "clear", "map", "table" or "done"
    nr_sectors, nr_clusters, nr_cluster_map,
    file_table,     \* file_table_cluster[0]
    start_cluster,
    map_i,          \* the i of the loop that clears the map
    marked,         \* the clusters that are TRUE in the map
    area            \* what is written, by cluster

superblock == <<nr_sectors, nr_clusters, nr_cluster_map, file_table, start_cluster>>
mkfs == <<mkfs_at, superblock, map_i, marked, area>>

Unwritten == [c \in {} |-> ""]

MkfsInit ==
    /\ mkfs_at = "ioctl"
    /\ nr_sectors = 0 /\ nr_clusters = 0 /\ nr_cluster_map = 0
    /\ file_table = 0 /\ start_cluster = 0
    /\ map_i = 0 /\ marked = {} /\ area = Unwritten

\* WRITE_SECT
WriteSect(c, what) ==
    area' = [x \in DOMAIN area \cup {c} |-> IF x = c THEN what ELSE area[x]]

TableInMap(maps) == 1 + maps        \* mutant: the file table in the map's last cluster
\* The file table comes behind the map.
TableAfter(maps) == 1 + 1 + maps

\* DIOCTL_GET_GEO, and the super block computed from the size
GetGeo(size) ==
    /\ mkfs_at = "ioctl"
    /\ nr_sectors' = size
    /\ nr_clusters' = size \div SectorsPerCluster
    /\ nr_cluster_map' = nr_clusters' \div ClustersPerMap
    /\ file_table' = TableAfter(nr_cluster_map')
    /\ start_cluster' = 1 + 1 + nr_cluster_map' + 1
    /\ mkfs_at' = "super"
    /\ UNCHANGED <<map_i, marked, area>>

WriteSuper ==
    /\ mkfs_at = "super" /\ mkfs_at' = "clear"
    /\ WriteSect(1, "super")
    /\ map_i' = 2
    /\ UNCHANGED <<superblock, marked>>

\* for (int i = 2; i < fs.nr_cluster_map; i++)
ClearMap ==
    /\ mkfs_at = "clear"
    /\ IF map_i < nr_cluster_map
       THEN WriteSect(map_i, "map") /\ map_i' = map_i + 1 /\ UNCHANGED mkfs_at
       ELSE mkfs_at' = "map" /\ UNCHANGED <<area, map_i>>
    /\ UNCHANGED <<superblock, marked>>

WriteMap ==
    /\ mkfs_at = "map" /\ mkfs_at' = "table"
    /\ marked' = 0 .. 1 + 1 + nr_cluster_map
    /\ WriteSect(2, "map")
    /\ UNCHANGED <<superblock, map_i>>

WriteTable ==
    /\ mkfs_at = "table" /\ mkfs_at' = "done"
    /\ WriteSect(file_table, "table")
    /\ UNCHANGED <<superblock, map_i, marked>>

MkfsStep == WriteSuper \/ ClearMap \/ WriteMap \/ WriteTable

-----------------------------------------------------------------------------
(* Properties *)

MkfsTypeOK ==
    /\ mkfs_at \in {"ioctl", "super", "clear", "map", "table", "done"}
    /\ {nr_sectors, nr_clusters, nr_cluster_map, file_table, start_cluster, map_i} \subseteq Nat
    /\ marked \subseteq Nat
    /\ DOMAIN area \subseteq Nat
    /\ \A c \in DOMAIN area : area[c] \in {"super", "map", "table"}

\* When mkfs has finished with a volume large enough for one cluster of map, the super
\* block, the map and the file table are where the super block says, none written over
\* another; all that was written is marked in the map, and it ends within the volume
\* (fs/main.c:91-118).  With a smaller one the file table is written over the map.
AreasApart ==
    mkfs_at = "done" /\ nr_cluster_map >= 1 =>
        /\ {1, 2, file_table} \subseteq DOMAIN area
        /\ area[1] = "super" /\ area[2] = "map" /\ area[file_table] = "table"
        /\ \A c \in DOMAIN area : area[c] = "map" => c \in 2 .. file_table - 1
        /\ DOMAIN area \subseteq marked /\ marked = 0 .. start_cluster - 1
        /\ start_cluster <= nr_clusters
=============================================================================
