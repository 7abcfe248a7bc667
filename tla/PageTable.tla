----------------------------- MODULE PageTable ------------------------------
(***************************************************************************)
(* The page table of tp3 (src/tp3/src/pt.c): operators on a table `t`, a   *)
(* function from the page numbers to entries, as the array page_table.     *)
(***************************************************************************)
EXTENDS Integers, FiniteSets

CONSTANT NumPages   \* NUM_PAGES

Pages == 0 .. NumPages - 1

ValidPages(t) == {p \in Pages : t[p].valid}

\* pt_init only clears `valid`; the array is zero when the program starts, so
\* that every page names frame 0.
PtInit == [p \in Pages |->
              [valid |-> FALSE, readonly |-> FALSE, frame |-> 0, counter |-> 0]]

FirstPage(S) == CHOOSE p \in S : \A q \in S : p <= q

\* pt_lookup
PtFrame(t, page) == IF t[page].valid THEN t[page].frame ELSE -1

\* Fault: the other pages do not age.
PtTickNone(t, page) == [t EXCEPT ![page].counter = 0]

\* pt_update_counters
PtTick(t, page) ==
    [p \in Pages |->
        IF p = page THEN [t[p] EXCEPT !.counter = 0]
        ELSE IF t[p].valid THEN [t[p] EXCEPT !.counter = @ + 1]
        ELSE t[p]]

\* pt_set_entry: a page is loaded clean.
PtSetEntry(t, page, frame) ==
    [t EXCEPT ![page] = [valid |-> TRUE, readonly |-> TRUE,
                         frame |-> frame, counter |-> 0]]

\* pt_unset_entry leaves the frame number in the entry.
PtUnset(t, page) == [t EXCEPT ![page].valid = FALSE]

\* pt_set_readonly(page, false)
PtSetDirty(t, page) == [t EXCEPT ![page].readonly = FALSE]

\* pt_find_page: the first page with the frame number, valid or not.
PtFindPage(t, frame) ==
    LET found == {p \in Pages : t[p].frame = frame}
    IN IF found = {} THEN -1 ELSE FirstPage(found)

\* find_victim_frame_number: the frame of the oldest clean page, or of the
\* oldest dirty one when no page is clean.
Oldest(t, S) == FirstPage({p \in S : \A q \in S : t[p].counter >= t[q].counter})

VictimPage(t) ==
    LET clean == {p \in ValidPages(t) : t[p].readonly}
    IN Oldest(t, IF clean = {} THEN ValidPages(t) ELSE clean)

VictimFrame(t) == t[VictimPage(t)].frame
=============================================================================
