---------------------------- MODULE MCFatReader -----------------------------
(***************************************************************************)
(* Archives of a small FAT32 volume: a root with a directory "B" and a     *)
(* file, and a file "A" of two clusters in "B".  The root, "B" and the two *)
(* parts of "A" lie anywhere on the disk; the root and "B" have two        *)
(* contiguous clusters each, since the chain of a directory is not         *)
(* followed.                                                               *)
(***************************************************************************)
EXTENDS FatReader

CONSTANTS SectorsPerCluster, UnitsPerSector, PathLength

Case == [c \in {"a", "A", "B", ".", "/"} |-> IF c = "a" THEN "A" ELSE c]

Blocks == {"root", "dir", "first", "second", "file"}
SizeOf(block) == IF block \in {"root", "dir"} THEN 2 ELSE 1
ClustersOf(at, block) == at[block] .. at[block] + SizeOf(block) - 1

\* The first cluster of each block; together they fill the volume.
At(root, dir, first, second, file) ==
    [root |-> root, dir |-> dir, first |-> first, second |-> second, file |-> file]
Arrangements ==
    << At(2, 4, 6, 7, 8), At(5, 2, 7, 4, 8), At(3, 7, 5, 2, 6),
       At(7, 5, 2, 4, 3), At(4, 2, 6, 8, 7), At(2, 7, 6, 5, 4) >>
SomeArrangement == Arrangements[2]

ASSUME \A k \in DOMAIN Arrangements :
           UNION {ClustersOf(Arrangements[k], b) : b \in Blocks} = 2 .. 8

ClusterUnits == SectorsPerCluster * UnitsPerSector
FatSize == 10
DataStart == UnitsPerSector + 2 * FatSize
ArchiveSize == DataStart + 7 * ClusterUnits

Boot(at) ==
    [RootEntCnt |-> 0, BytsPerSec |-> UnitsPerSector, RsvdSecCnt |-> 1,
     NumFATs |-> 2, FATSz32 |-> FatSize \div UnitsPerSector,
     SecPerClus |-> SectorsPerCluster, RootClus |-> at["root"]]

\* The links: the root and the directory are contiguous, the file "A" is not.
\* Reserved bits of some links are set.
LinkOf(at, c) ==
    CASE c \in {at["root"], at["dir"]} -> c + 1
      [] c = at["first"] -> at["second"] + 3 * LinkMask
      [] OTHER -> Eoc + (c % 8)

\* A text is read as an entry or a link of zeros.
Plain(kind) == [kind |-> kind, base |-> << >>, ext |-> << >>, dir |-> FALSE,
                cluster |-> 0, link |-> 0, text |-> << >>]
Text(file, k) == [Plain("text") EXCEPT !.text = << file, k >>]
Named(base, ext, isDir, c) ==
    [Plain("entry") EXCEPT !.base = base, !.ext = ext, !.dir = isDir, !.cluster = c]
End == Plain("end")

A == << "A" >>
B == << "B" >>
\* The file in the root has a short name, or a base and an extension.
FileName(long) ==
    IF long THEN [base |-> << "A", "B" >>, ext |-> A] ELSE [base |-> A, ext |-> << >>]

Entries(at, long, block) ==
    IF block = "root"
    THEN << Named(B, << >>, TRUE, at["dir"]),
            Named(FileName(long).base, FileName(long).ext, FALSE, at["file"]) >>
    ELSE << Named(Here, << >>, TRUE, at["dir"]),
            Named(Up, << >>, TRUE, 0),
            Named(A, << >>, FALSE, at["first"]) >>

\* The k-th unit of a block.
BlockUnit(at, long, block, k) ==
    CASE block \notin {"root", "dir"} -> Text(block, k)
      [] block \in {"root", "dir"} /\ k \in DOMAIN Entries(at, long, block) ->
            Entries(at, long, block)[k]
      [] OTHER -> End

DataUnit(at, long, d) ==
    LET block == CHOOSE b \in Blocks : 2 + d \div ClusterUnits \in ClustersOf(at, b)
    IN BlockUnit(at, long, block, 1 + d - (at[block] - 2) * ClusterUnits)

Units(at, long) ==
    [k \in 1 .. ArchiveSize |->
        LET a == k - 1
        IN CASE a < UnitsPerSector -> Plain("boot")
             [] a \in UnitsPerSector .. DataStart - 1 ->
                  [Plain("link") EXCEPT !.link = LinkOf(at, (a - UnitsPerSector) % FatSize)]
             [] OTHER -> DataUnit(at, long, a - DataStart)]

Archive(at, long) == [bpb |-> Boot(at), units |-> SubSeq(Units(at, long), 1, ArchiveSize)]

Contents(blocks) ==
    [k \in 1 .. Len(blocks) * ClusterUnits |->
        Text(blocks[1 + (k - 1) \div ClusterUnits], 1 + ((k - 1) % ClusterUnits))]

TreeOn(long) ==
    LET place(base) == << [base |-> base, ext |-> << >>] >>
        aDir        == [dir |-> TRUE, content |-> << >>]
        aFile(text) == [dir |-> FALSE, content |-> text]
    IN (<< >> :> aDir) @@ (place(B) :> aDir)
       @@ ((place(B) \o place(A)) :> aFile(Contents(<< "first", "second" >>)))
       @@ (<< FileName(long) >> :> aFile(Contents(<< "file" >>)))

(***************************************************************************)
(* Archives that are damaged: a chain that runs in a circle or goes on in  *)
(* a free cluster, an archive cut off in a file, behind the FAT, or empty, *)
(* directories without an end, and a directory that is in itself.  The     *)
(* last one is in order, but of the kind whose tree is not found: the      *)
(* second cluster of the directory "B" has changed places with the file of *)
(* the root.                                                               *)
(***************************************************************************)
Damages == {"cycle", "free", "cut", "noData", "empty", "noEnd", "circle", "scattered"}

DamagedArchive(damage) ==
    LET good    == Archive(SomeArrangement, FALSE)
        first   == SomeArrangement["first"]
        dir     == SomeArrangement["dir"]
        file    == SomeArrangement["file"]
        upTo(n) == [good EXCEPT !.units = SubSeq(good.units, 1, n)]
        other(c) == CASE c = dir + 1 -> file [] c = file -> dir + 1 [] OTHER -> c
        moved(a) == LET d == a - DataStart - 1
                    IN IF d < 0 THEN a
                       ELSE DataStart + 1 + (d % ClusterUnits)
                            + ClusterUnits * (other(2 + (d \div ClusterUnits)) - 2)
    IN CASE damage = "cycle"  -> [good EXCEPT !.units[UnitsPerSector + first + 1].link = first]
         [] damage = "free"   -> [good EXCEPT !.units[UnitsPerSector + first + 1].link = 0]
         [] damage = "cut"    -> upTo(DataStart + (first - 2) * ClusterUnits + 1)
         [] damage = "noData" -> upTo(DataStart)
         [] damage = "empty"  -> upTo(0)
         [] damage = "noEnd"  -> [good EXCEPT !.units =
                [a \in DOMAIN good.units |->
                    IF good.units[a].kind = "end" THEN Text("lost", 1) ELSE good.units[a]]]
         [] damage = "circle" -> [good EXCEPT !.units =
                [a \in DOMAIN good.units |->
                    IF good.units[a].kind = "entry" /\ good.units[a].cluster = first
                    THEN Named(B, << >>, TRUE, dir) ELSE good.units[a]]]
         [] damage = "scattered" -> [good EXCEPT !.units =
                [a \in DOMAIN good.units |->
                    LET unit == good.units[moved(a)]
                    IN [unit EXCEPT !.cluster = other(@),
                                    !.link = IF unit.kind = "link" THEN other(@) ELSE @]]]

OnVolume(at, long) == [archive |-> Archive(at, long), tree |-> TreeOn(long)]
Usual == OnVolume(SomeArrangement, FALSE)
Sound == {OnVolume(Arrangements[k], long) : k \in DOMAIN Arrangements, long \in BOOLEAN}
Broken == {[archive |-> DamagedArchive(d), tree |-> << >>] : d \in Damages}

-----------------------------------------------------------------------------
KnownPaths ==
    { << "B", "/", "a" >>, << "/", "B", "/", "/", "a", "/" >>,
      << "B", "/", ".", ".", "/", "a", "B", ".", "a" >>, << "a", "B", ".", "A" >>,
      << "B" >>, << "B", "/", "a", "/", "a" >>, << "a", "B", ".", "a", "/", "B" >>,
      << "B", "/", "a", "B", ".", "a" >> }

ShortPaths == UNION {[1 .. n -> DOMAIN Case \ {"A"}] : n \in 0 .. PathLength}

TreeFor(t, p) == IF LeavesNoDirectory(t, p) THEN << >> ELSE t

On(volumes, paths, lengths) ==
    {[archive |-> v.archive, tree |-> TreeFor(v.tree, p), path |-> p, max_len |-> n] :
        v \in volumes, p \in paths, n \in lengths}

BrokenPaths ==
    KnownPaths \cup {A, << "B", "/", "B" >>, << "B", "/", "B", "/", "B" >>,
                     << "B", "/", "B", "/", "a" >>}

MCRequests ==
    On(Sound, KnownPaths, 0 .. 5) \cup On({Usual}, ShortPaths, {3})
    \cup On(Broken, BrokenPaths, {0, 5})

\* The whole of the file of two clusters.
TwoClusterRequests == On(Sound, {<< "B", "/", "a" >>}, {2 * ClusterUnits})
=============================================================================
