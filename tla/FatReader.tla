----------------------------- MODULE FatReader ------------------------------
(***************************************************************************)
(* The reader of tp4 (src/tp4/src/main.c) as its tests use it: the boot    *)
(* block is read, a path is looked up, and the file found is read.  A step *)
(* is one turn of a loop.                                                  *)
(***************************************************************************)
EXTENDS FatImage

CONSTANTS
    Requests,       \* [archive, tree, path, max_len] of the calls
    LevelRange      \* 256: the level in break_up_path is an uint8_t

\* A path with a place in the tree goes on behind a file, or behind nothing, with
\* ".." or ".": get_simplified_path takes these away before any name is looked up,
\* and the reader finds the place.
LeavesNoDirectory(t, p) ==
    ~Escapes(p) /\ PlaceOf(p) \in DOMAIN t /\ ~UsesDirectories(t, p)

ASSUME ReaderAssumption ==
    /\ LevelRange \in Nat \ {0}
    /\ \A r \in Requests : r.path \in Seq(Chars) /\ r.max_len \in Nat
    /\ \A archive \in {r.archive : r \in Requests} : IsArchive(archive)
    /\ \A r \in Requests : ~LeavesNoDirectory(r.tree, r.path)

VARIABLES
    archive, path, max_len, \* the arguments of the calls
    tree,                   \* the names on the archive; none where no answer
                            \* is promised (see ImplementsFileTree)
    phase,                  \* which function runs, or how the calls ended
    depth,                  \* the level of the path that is looked for
    part,                   \* status and *name: what break_up_path said of it
    directory,              \* root_lba: the address of the directory
    index,                  \* i: the entry of it that is read next
    entry,                  \* *entry
    cluster,                \* cluster_current
    buff                    \* what was read; its length is bytes_read

request == << archive, path, max_len, tree >>
findVars == << depth, part, directory, index, entry >>
readVars == << cluster, buff >>
vars == << request, phase, findVars, readVars >>

bpb == archive.bpb

NoPart == [status |-> 0, name |-> << >>]
NoEntry == [kind |-> "none", base |-> << >>, ext |-> << >>, dir |-> FALSE, cluster |-> 0]

Init ==
    /\ \E r \in Requests :
          /\ archive = r.archive /\ tree = r.tree
          /\ path = r.path /\ max_len = r.max_len
    /\ phase = "closed"
    /\ depth = 0 /\ part = NoPart /\ directory = 0 /\ index = 0
    /\ entry = NoEntry
    /\ cluster = 0 /\ buff = << >>

Goto(p) == phase' = p /\ UNCHANGED request

-----------------------------------------------------------------------------
\* read_boot_block fails on a file that is too short for one.
ReadBootBlock ==
    /\ phase = "closed"
    /\ \/ InArchive(archive, 0) /\ Goto("booted")
       \/ ~InArchive(archive, 0) /\ Goto("error")
    /\ UNCHANGED << findVars, readVars >>

(***************************************************************************)
(* find_file_descriptor.                                                   *)
(***************************************************************************)
\* The level that a depth, which is an int, is passed as.
Level(d) == d % LevelRange

StartFind ==
    /\ phase = "booted"
    /\ directory' = ClusterAddress(bpb, bpb.RootClus)
    /\ depth' = 0 /\ part' = BreakUpPath(path, 0) /\ index' = 0
    /\ \/ part'.status = -1 /\ Goto("error")
       \/ part'.status # -1 /\ Goto("finding")
    /\ UNCHANGED << entry, readVars >>

EntryAddress == directory + index * DirEntrySize
Unit == UnitAt(archive, EntryAddress)

\* fseek or fread fails behind the end of the archive.
FindFails ==
    /\ phase = "finding"
    /\ ~InArchive(archive, EntryAddress)
    /\ Goto("error")
    /\ UNCHANGED << findVars, readVars >>

\* One entry is read.
Examine ==
    /\ phase = "finding"
    /\ InArchive(archive, EntryAddress)
    /\ entry' = Unit
    /\ UNCHANGED readVars

\* The path has no name at all: file_has_name is called with NULL.
NullName ==
    /\ Examine
    /\ part.status = -2
    /\ Goto("crashed")
    /\ UNCHANGED << depth, part, directory, index >>

Matches ==
    /\ Examine
    /\ part.status = 0
    /\ file_has_name(Unit, part.name)
    /\ depth' = depth + 1
    /\ part' = BreakUpPath(path, Level(depth'))

Found ==
    /\ Matches
    /\ part'.status = -2
    /\ Goto("found")
    /\ UNCHANGED << directory, index >>

Descend ==
    /\ Matches
    /\ part'.status = 0
    /\ Unit.dir
    /\ directory' = ClusterAddress(bpb, Unit.cluster)
    /\ index' = 0
    /\ Goto("finding")

\* The path goes on behind a file.
NotADirectory ==
    /\ Matches
    /\ part'.status = 0
    /\ ~Unit.dir
    /\ Goto("error")
    /\ UNCHANGED << directory, index >>

\* An entry with another name: the last one of the directory ends the search.
Differs ==
    /\ Examine
    /\ part.status = 0
    /\ ~file_has_name(Unit, part.name)
    /\ index' = index + 1
    /\ \/ IsEnd(Unit) /\ Goto("error")
       \/ ~IsEnd(Unit) /\ Goto("finding")
    /\ UNCHANGED << depth, part, directory >>

(***************************************************************************)
(* read_file, on an entry that is no directory.                            *)
(***************************************************************************)
StartRead ==
    /\ phase = "found"
    /\ ~entry.dir
    /\ cluster' = entry.cluster
    /\ buff' = << >>
    /\ Goto("reading")
    /\ UNCHANGED findVars

BuffIsFull == Len(buff) >= max_len

ReturnFull ==
    /\ phase = "reading"
    /\ BuffIsFull
    /\ Goto("done")
    /\ UNCHANGED << findVars, readVars >>

\* The addresses fread takes for the turn.
Wanted ==
    LET from == ClusterAddress(bpb, cluster)
        to_read == Shortest(ClusterSize(bpb), max_len - Len(buff))
    IN from .. from + to_read - 1

\* Fault: bytes_read is what the last turn read.
ReceivedLast(before, more) == more

\* What a turn reads comes behind what was read before.
Received(before, more) == before \o more

\* Nothing was asked for, or not all of it is in the archive.
ReadFails ==
    /\ phase = "reading"
    /\ ~BuffIsFull
    /\ Wanted = {} \/ \E a \in Wanted : ~InArchive(archive, a)
    /\ Goto("error")
    /\ UNCHANGED << findVars, readVars >>

ReadCluster ==
    /\ phase = "reading"
    /\ ~BuffIsFull
    /\ Wanted # {} /\ \A a \in Wanted : InArchive(archive, a)
    /\ LET from == ClusterAddress(bpb, cluster)
       IN buff' = Received(buff, [k \in 1 .. Cardinality(Wanted) |->
                                     UnitAt(archive, from + k - 1)])
    /\ cluster' = NextCluster(archive, cluster)
    /\ \/ cluster' >= Eoc /\ Goto("done")
       \/ cluster' < Eoc /\ Goto("reading")
    /\ UNCHANGED findVars

\* The calls have ended; a directory that was found is not read.
Returned ==
    \/ phase \in {"error", "crashed", "done"}
    \/ phase = "found" /\ entry.dir

Terminated == Returned /\ UNCHANGED vars

FindStep ==
    \/ StartFind \/ FindFails \/ NullName \/ Found \/ Descend \/ NotADirectory \/ Differs
ReadStep == StartRead \/ ReturnFull \/ ReadFails \/ ReadCluster

Next == ReadBootBlock \/ FindStep \/ ReadStep \/ Terminated

Spec == Init /\ [][Next]_vars /\ WF_vars(ReadBootBlock \/ FindStep \/ ReadStep)

-----------------------------------------------------------------------------
\* How many names the path has when "." and ".." are taken away.
NamesOf(p) == Len(Simplified(p).stack)

TypeOK ==
    /\ path \in Seq(Chars) /\ max_len \in Nat
    /\ phase \in {"closed", "booted", "finding", "found", "reading",
                  "done", "error", "crashed"}
    /\ depth \in Nat /\ (NamesOf(path) < LevelRange => depth <= NamesOf(path))
    /\ part.status \in {0, -1, -2} /\ part.name \in Seq(Chars)
    /\ directory \in 0 .. Word - 1
    /\ index \in Nat
    /\ entry.kind \in Kinds \cup {"none"} /\ entry.dir \in BOOLEAN
    /\ entry.cluster \in 0 .. Word - 1
    /\ cluster \in 0 .. LinkMask - 1 \/ cluster = entry.cluster
    /\ buff \in Seq({archive.units[k] : k \in 1 .. Len(archive.units)})
    /\ Len(buff) <= max_len

(***************************************************************************)
(* The names that get_simplified_path leaves of a path are those that no   *)
(* later ".." takes away, in their order, at every level; and a path is    *)
(* refused exactly when one of its prefixes leads above the root.  (The    *)
(* path does not change; it is compared before the calls.)                 *)
(***************************************************************************)
SplitsThePath ==
    LET resolved == Resolved(path)
    IN phase = "closed" => \A level \in 0 .. Len(path) :
          BreakUpPath(path, level) =
            IF Escapes(path) THEN [status |-> -1, name |-> << >>]
            ELSE IF level < Len(resolved)
                 THEN [status |-> 0, name |-> resolved[level + 1]]
                 ELSE [status |-> -2, name |-> << >>]

(***************************************************************************)
(* The only paths on which find_file_descriptor uses a name it does not    *)
(* have are those that name the root.                                      *)
(***************************************************************************)
CrashesOnRootOnly ==
    phase = "crashed" => ~Escapes(path) /\ Resolved(path) = << >>

(***************************************************************************)
(* Every sequence of calls returns, also on an archive whose chains or     *)
(* directories run in a circle or out of the archive: the length bounds a  *)
(* read, and the path and the archive bound a search, as long as the path  *)
(* has fewer names than there are levels.  With that many names the level  *)
(* wraps around (the uint8_t of break_up_path), and a search in a circle   *)
(* of directories begins again and again.                                  *)
(***************************************************************************)
CallsReturn == NamesOf(path) < LevelRange => <>Returned

(***************************************************************************)
(* On an archive that is not damaged a search finds what the tree of names *)
(* has at the path, wherever the files and directories lie, and a read     *)
(* returns the start of the contents of that file, whatever clusters it    *)
(* has.  The tree of an archive is given only if each directory has        *)
(* contiguous clusters, since the chain of a directory is never followed,  *)
(* and not for a path with LeavesNoDirectory.                              *)
(***************************************************************************)
NoTree == DOMAIN tree = {}

Status ==
    CASE NoTree \/ phase \in {"closed", "booted", "finding", "crashed"} -> "asked"
      [] ~NoTree /\ phase \in {"found", "reading"} -> "found"
      [] OTHER -> phase

Tree == INSTANCE FileTree WITH
    status  <- Status,
    content <- IF Status = "done" THEN buff ELSE << >>

ImplementsFileTree == Tree!Spec

(***************************************************************************)
(* What a read that ended returns is the start of the file's contents.     *)
(***************************************************************************)
ReadsTheContent == Status = "done" => buff = Tree!Wanted
=============================================================================
