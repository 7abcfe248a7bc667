-------------------------------- MODULE Vmm ---------------------------------
(***************************************************************************)
(* The virtual memory manager of tp3 (src/tp3/src/vmm.c): vmm_read and     *)
(* vmm_write over the TLB, the page table and the physical memory.  The    *)
(* program is sequential: one action is one command of the input, the      *)
(* whole translation included.                                             *)
(***************************************************************************)
EXTENDS Integers, FiniteSets, Tlb, PageTable, PhysicalMemory

CONSTANTS
    Char,          \* the characters a command may write
    Blank,         \* the '\0' the physical memory starts with
    Addresses,     \* the logical addresses the commands use
    MaxAccesses    \* bound on the number of commands

ASSUME VmmAssumption ==
    /\ NumPages \in Nat \ {0} /\ NumFrames \in Nat \ {0}
    /\ TlbSize \in Nat \ {0} /\ PageSize \in Nat \ {0}
    /\ NumPages <= NumFrames * PageSize   \* 256 <= 8192
    /\ Addresses \subseteq 0 .. NumPages * PageSize - 1
    /\ MaxAccesses \in Nat

VARIABLES
    tlb,        \* tlb_entries
    pt,         \* page_table
    bitmap,     \* the frames in use
    memory,     \* pm_memory
    store,      \* the backing store
    accesses,   \* number of commands so far, which bounds the counters
    used,       \* the command that used each page last (a history)
    modified    \* the pages written since they were loaded, but for writes to
                \* a page that is only in the page table (a history)

vars == << tlb, pt, bitmap, memory, store, accesses, used, modified >>

LogicalAddresses == 0 .. NumPages * PageSize - 1

\* The physical address of an access is computed and only logged: what is read
\* or written is the character at the page number.
Page(a) == a \div PageSize

Init ==
    /\ tlb = TlbInit
    /\ pt = PtInit
    /\ bitmap = [f \in Frames |-> FALSE]
    /\ memory = [a \in PhysicalAddresses |-> Blank]
    /\ store \in {[a \in LogicalAddresses |-> c] : c \in Char}
    /\ accesses = 0
    /\ used = [p \in Pages |-> 0]
    /\ modified = {}

-----------------------------------------------------------------------------
(***************************************************************************)
(* get_frame, as the state it leaves in each of its cases.                 *)
(***************************************************************************)

\* The frame is in the TLB: a write makes the page dirty.
OnTlbHit(page, write) ==
    [frame  |-> TlbFrame(tlb, page),
     tlb    |-> TlbLookup(tlb, page, write),
     pt     |-> IF write THEN PtSetDirty(pt, page) ELSE pt,
     bitmap |-> bitmap, memory |-> memory, store |-> store]

\* The page is only in the page table: it enters the TLB.
OnPtHit(page, write) ==
    [frame  |-> PtFrame(pt, page),
     tlb    |-> TlbAdd(TlbLookup(tlb, page, write), page, PtFrame(pt, page),
                       pt[page].readonly),
     pt     |-> pt,
     bitmap |-> bitmap, memory |-> memory, store |-> store]

\* A page fault: the page is loaded into the frame, after what the eviction
\* left in t (TLB), p (page table) and s (store).
Load(page, write, frame, t, p, s) ==
    LET set == PtSetEntry(p, page, frame)
        dirtied == IF write THEN PtSetDirty(set, page) ELSE set
    IN [frame  |-> frame,
        tlb    |-> TlbAdd(t, page, frame, dirtied[page].readonly),
        pt     |-> dirtied,
        bitmap |-> [bitmap EXCEPT ![frame] = TRUE],
        memory |-> Download(memory, s, page, frame),
        store  |-> s]

OnFreeFrame(page, write) ==
    Load(page, write, FreeFrame(bitmap), TlbLookup(tlb, page, write), pt, store)

\* No frame is free: the frame of a victim is taken, and the page it is
\* taken from is looked for in the TLB, then in the page table.
EvictedPage(t, frame) ==
    IF TlbPageOf(t, frame) # -1 THEN TlbPageOf(t, frame) ELSE PtFindPage(pt, frame)

OnVictim(page, write) ==
    LET looked == TlbLookup(tlb, page, write)
        frame == VictimFrame(pt)
        evicted == EvictedPage(looked, frame)
        saved == IF pt[evicted].readonly THEN store
                 ELSE Backup(memory, store, evicted, frame)
    IN Load(page, write, frame, TlbDrop(looked, frame), PtUnset(pt, evicted), saved)

GetFrame(page, write) ==
    IF TlbFrame(tlb, page) # -1 THEN OnTlbHit(page, write)
    ELSE IF PtFrame(pt, page) # -1 THEN OnPtHit(page, write)
    ELSE IF FreeFrames(bitmap) # {} THEN OnFreeFrame(page, write)
    ELSE OnVictim(page, write)

\* The translation, then pt_update_counters.
Translate(page, g) ==
    /\ accesses < MaxAccesses
    /\ accesses' = accesses + 1
    /\ tlb' = g.tlb
    /\ pt' = PtTick(g.pt, page)
    /\ bitmap' = g.bitmap
    /\ store' = g.store
    /\ used' = [used EXCEPT ![page] = accesses']

IsPtHit(page) == TlbFrame(tlb, page) = -1 /\ PtFrame(pt, page) # -1
IsFault(page) == TlbFrame(tlb, page) = -1 /\ PtFrame(pt, page) = -1

\* vmm_read, whose character is only printed.
Read(a) ==
    LET g == GetFrame(Page(a), FALSE) IN
    /\ Translate(Page(a), g)
    /\ memory' = g.memory
    /\ modified' = IF IsFault(Page(a)) THEN modified \ {Page(a)} ELSE modified

\* vmm_write: the character is written at the page number.
Write(a, c) ==
    LET g == GetFrame(Page(a), TRUE) IN
    /\ Translate(Page(a), g)
    /\ memory' = [g.memory EXCEPT ![Page(a)] = c]
    /\ modified' = IF IsPtHit(Page(a)) THEN modified ELSE modified \union {Page(a)}

\* End of the input, or the bound.
Terminated == UNCHANGED vars

Next == \/ \E a \in Addresses : Read(a)
        \/ \E a \in Addresses, c \in Char : Write(a, c)
        \/ Terminated

Spec == Init /\ [][Next]_vars

-----------------------------------------------------------------------------
(***************************************************************************)
(* Properties.                                                             *)
(***************************************************************************)
TypeOK ==
    /\ tlb \in [TlbIndex -> [page : Pages, frame : Frames \union {-1},
                             readonly : BOOLEAN, counter : Nat]]
    /\ pt \in [Pages -> [valid : BOOLEAN, readonly : BOOLEAN, frame : Frames,
                         counter : Nat]]
    /\ bitmap \in [Frames -> BOOLEAN]
    /\ memory \in [PhysicalAddresses -> Char \union {Blank}]
    /\ store \in [LogicalAddresses -> Char \union {Blank}]
    /\ accesses \in Nat
    /\ used \in [Pages -> 0 .. accesses]
    /\ modified \subseteq Pages

\* A page is in at most one TLB entry, whichever entries are replaced and
\* freed: an entry is added only after a lookup that missed.
TlbPagesDistinct ==
    \A i, j \in TlbUsed(tlb) : tlb[i].page = tlb[j].page => i = j

\* The counters are ages: that of a TLB entry in use, and that of a valid page,
\* is the number of commands since the page was used.  So there is always one
\* least recently used page and one least recently used entry, through
\* evictions, replacements and reloads.
CountersAreAges ==
    /\ \A i \in TlbUsed(tlb) : tlb[i].counter = accesses - used[tlb[i].page]
    /\ \A p \in ValidPages(pt) : pt[p].counter = accesses - used[p]

\* The frames in use are those of the valid pages, although an eviction may
\* unset a page that was not the owner of the frame it takes: once memory is
\* full find_victim_frame_number always has a valid page to choose, and never
\* reads page_table[-1].
UsedFramesAreMapped ==
    \A f \in Frames : bitmap[f] <=> \E p \in ValidPages(pt) : pt[p].frame = f

\* Every TLB entry is a copy of a valid entry of the page table with the same
\* frame: an eviction takes the page it unsets from the TLB entry it drops,
\* and falls back on the page table only when no entry has the frame, so that
\* a hit in the TLB never gives the frame of a page that is not loaded.
TlbWithinPt ==
    \A i \in TlbUsed(tlb) :
        pt[tlb[i].page].valid /\ pt[tlb[i].page].frame = tlb[i].frame

\* A page that was written through the TLB, or when it was loaded, is in the
\* backing store as its frame was when the page is unloaded, however long ago
\* the write was.  (Of a write to a page that is only in the page table the code
\* keeps no trace, and a page that is not the one the eviction unsets stays
\* valid while its frame is loaded with another: both writes may be lost.)
SavesModifiedPages ==
    [][\A p \in modified :
          pt[p].valid /\ ~pt'[p].valid =>
            \A k \in 0 .. PageSize - 1 :
               store'[p * PageSize + k] = memory[pt[p].frame * PageSize + k]]_vars

-----------------------------------------------------------------------------
(***************************************************************************)
(* What the comments and the README say and the code does not do.          *)
(***************************************************************************)
\* No frame belongs to two pages: the page a frame is taken from is found.
FramesNotShared ==
    \A p, q \in ValidPages(pt) : pt[p].frame = pt[q].frame => p = q
=============================================================================
