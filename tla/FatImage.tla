------------------------------ MODULE FatImage ------------------------------
(***************************************************************************)
(* A FAT32 archive of tp4 (src/tp4/src/main.c) and the functions that      *)
(* compute addresses in it and read it at an address.  An archive has the  *)
(* parameters of its boot block in `bpb` and its contents in `units`, the  *)
(* one of address 0 first: a unit is what a table or a directory holds at  *)
(* one address, a link or an entry, and as much of a text.                 *)
(***************************************************************************)
EXTENDS FatPath

CONSTANTS
    Word,           \* 2^32
    LinkMask,       \* 2^28: the other bits of a link are reserved
    FatEntrySize,   \* 4
    DirEntrySize,   \* FAT_DIR_ENTRY_SIZE
    ExtLength       \* 3: the characters of an extension

ASSUME ImageAssumption ==
    /\ LinkMask \in Nat /\ LinkMask > 8 /\ Word \in Nat /\ Word >= LinkMask
    /\ FatEntrySize \in Nat \ {0} /\ DirEntrySize \in Nat \ {0}
    /\ ExtLength \in Nat

\* FAT_EOC_TAG: this value and those above it end a chain.
Eoc == LinkMask - 8

\* What the bytes of a unit say, whatever they were written as: an entry has a
\* name, the flag of a directory and a first cluster; any four bytes are a link.
Kinds == {"boot", "link", "entry", "end", "text"}

IsUnit(unit) ==
    /\ unit.kind \in Kinds
    /\ unit.base \in Seq(Chars) /\ unit.ext \in Seq(Chars)
    /\ unit.dir \in BOOLEAN
    /\ unit.cluster \in 0 .. Word - 1 /\ unit.link \in 0 .. Word - 1

\* The reader divides by the size of a sector.
IsArchive(archive) ==
    /\ archive.bpb.RootEntCnt \in Nat /\ archive.bpb.RsvdSecCnt \in Nat
    /\ archive.bpb.NumFATs \in Nat /\ archive.bpb.FATSz32 \in Nat
    /\ archive.bpb.BytsPerSec \in Nat \ {0} /\ archive.bpb.SecPerClus \in Nat
    /\ archive.bpb.RootClus \in Nat
    /\ Len(archive.units) \in Nat
    /\ \A k \in 1 .. Len(archive.units) : IsUnit(archive.units[k])

get_first_data_sector(bpb) ==
    LET root_dir_sectors ==
            (bpb.RootEntCnt * 32 + bpb.BytsPerSec - 1) \div bpb.BytsPerSec
    IN bpb.RsvdSecCnt + bpb.NumFATs * bpb.FATSz32 + root_dir_sectors

\* Fault: clusters are counted from 0.
cluster_to_lba_from_0(bpb, cluster) ==
    (get_first_data_sector(bpb) + cluster * bpb.SecPerClus) % Word

\* In unsigned arithmetic, also for the clusters 0 and 1 that no file has.
cluster_to_lba(bpb, cluster) ==
    (get_first_data_sector(bpb) + (cluster - 2) * bpb.SecPerClus) % Word

\* The address of the first unit of a cluster.
ClusterAddress(bpb, cluster) ==
    (cluster_to_lba(bpb, cluster) * bpb.BytsPerSec) % Word

ClusterSize(bpb) == bpb.SecPerClus * bpb.BytsPerSec

\* The address where the link of a cluster is looked for: the reserved sectors
\* are taken for clusters.
LinkAddress(bpb, cluster) ==
    (bpb.RsvdSecCnt * bpb.SecPerClus * bpb.BytsPerSec + cluster * FatEntrySize) % Word

InArchive(archive, address) == address < Len(archive.units)

UnitAt(archive, address) == archive.units[address + 1]

\* Fault: the reserved bits of a link are kept.
Unmasked(link) == link

Masked(link) == link % LinkMask

\* get_cluster_chain_value.  Its error is ignored by the caller, whose cluster
\* is then the same as before.
NextCluster(archive, cluster) ==
    LET address == LinkAddress(archive.bpb, cluster)
    IN IF InArchive(archive, address) THEN Masked(UnitAt(archive, address).link)
       ELSE cluster

\* The first byte of the name is 0.
IsEnd(unit) == unit.kind = "end"

\* file_has_name, for a name whose base is not too long.  The entry's name is
\* compared with its spaces removed.  With a dot in the name, strncpy puts the
\* base of the name over that of the entry, whose rest stays behind it.  The
\* end of a directory has an empty name; a text is taken to name no file.
file_has_name(entry, name) ==
    LET dot       == SelectInSeq(name, LAMBDA c : c = ".")
        base      == SubSeq(name, 1, dot - 1)
        rest      == SubSeq(entry.base, dot, Len(entry.base))
        extension == SubSeq(name, dot + 1, Shortest(dot + ExtLength, Len(name)))
        wanted    == IF dot = 0 THEN name ELSE base \o rest \o extension
    IN /\ entry.kind \in {"entry", "end"}
       /\ Uppercase(entry.base \o entry.ext) = Uppercase(wanted)
=============================================================================
