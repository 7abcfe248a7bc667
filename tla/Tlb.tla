-------------------------------- MODULE Tlb ---------------------------------
(***************************************************************************)
(* The TLB of tp3 (src/tp3/src/tlb.c): operators on a table `t`, a         *)
(* function from the indices to entries, as the static array tlb_entries.  *)
(***************************************************************************)
EXTENDS Integers, FiniteSets

CONSTANT TlbSize   \* TLB_NUM_ENTRIES

TlbIndex == 0 .. TlbSize - 1

\* A frame number of -1 marks a free entry.
TlbUsed(t) == {i \in TlbIndex : t[i].frame >= 0}

\* tlb_init, on an array that is zero when the program starts.
TlbInit == [i \in TlbIndex |->
               [page |-> 0, frame |-> -1, readonly |-> FALSE, counter |-> 0]]

Least(S) == CHOOSE i \in S : \A j \in S : i <= j
Greatest(S) == CHOOSE i \in S : \A j \in S : i >= j

\* increment_counters
TlbTick(t) == [i \in TlbIndex |->
                  IF i \in TlbUsed(t) THEN [t[i] EXCEPT !.counter = @ + 1] ELSE t[i]]

\* Fault: frame 0 is taken for no frame.
TlbHoldingPositive(t, page) == {i \in TlbUsed(t) : t[i].page = page /\ t[i].frame > 0}

\* The entries that hold a page; the lookup stops at the first.
TlbHolding(t, page) == {i \in TlbUsed(t) : t[i].page = page}

\* tlb_lookup: the frame found, or -1.
TlbFrame(t, page) ==
    IF TlbHolding(t, page) = {} THEN -1 ELSE t[Least(TlbHolding(t, page))].frame

\* tlb_lookup: every lookup ages the entries; a hit makes its entry the
\* youngest and, for a write, no longer readonly.
TlbLookup(t, page, write) ==
    LET ticked == TlbTick(t)
        i == Least(TlbHolding(t, page))
    IN IF TlbHolding(t, page) = {} THEN ticked
       ELSE [ticked EXCEPT ![i].counter = 0,
                           ![i].readonly = @ /\ ~write]

\* get_least_recently_used, called when no entry is free: the oldest, and
\* among the oldest the first dirty one if there is one.
TlbOldest(t) == {i \in TlbIndex : \A j \in TlbIndex : t[i].counter >= t[j].counter}

TlbVictim(t) ==
    LET dirty == {i \in TlbOldest(t) : ~t[i].readonly}
    IN Least(IF dirty = {} THEN TlbOldest(t) ELSE dirty)

\* tlb_add_entry: the last free entry, else the victim.
TlbAdd(t, page, frame, readonly) ==
    LET free == TlbIndex \ TlbUsed(t)
        i == IF free = {} THEN TlbVictim(t) ELSE Greatest(free)
    IN [t EXCEPT ![i] = [page |-> page, frame |-> frame,
                         readonly |-> readonly, counter |-> 0]]

\* remove_page_from_tlb: the first entry with the frame is freed; its page,
\* or -1.
TlbWithFrame(t, frame) == {i \in TlbIndex : t[i].frame = frame}

\* Fault: the index of the entry is returned for its page.
TlbIndexOf(t, frame) ==
    IF TlbWithFrame(t, frame) = {} THEN -1 ELSE Least(TlbWithFrame(t, frame))

TlbPageOf(t, frame) ==
    IF TlbWithFrame(t, frame) = {} THEN -1 ELSE t[Least(TlbWithFrame(t, frame))].page

\* Fault: the entry loses its page and keeps its frame.
TlbDropPage(t, frame) ==
    [i \in TlbIndex |-> IF t[i].frame = frame THEN [t[i] EXCEPT !.page = -1] ELSE t[i]]

\* Fault: the entry of an evicted page stays.
TlbDropNone(t, frame) == t

TlbDrop(t, frame) ==
    IF TlbWithFrame(t, frame) = {} THEN t
    ELSE [t EXCEPT ![Least(TlbWithFrame(t, frame))].frame = -1]
=============================================================================
