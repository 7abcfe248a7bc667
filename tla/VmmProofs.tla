----------------------------- MODULE VmmProofs ------------------------------
(***************************************************************************)
(* The virtual memory manager keeps its TLB, its page table, its bitmap    *)
(* and its backing store together, for every number of pages, frames and   *)
(* TLB entries, every size of a page and every sequence of commands.       *)
(***************************************************************************)
EXTENDS Vmm, DataProofs

-----------------------------------------------------------------------------
(* Choices among finitely many numbers.                                    *)

\* A set of numbers with a bound has a greatest one.
LEMMA GreatestExists ==
    ASSUME NEW n \in Nat, NEW S \in SUBSET (0 .. n), S # {}
    PROVE  \E x \in S : \A y \in S : x >= y
<1> DEFINE T == {n - x : x \in S}
<1>1. T \in SUBSET Nat /\ T # {}
  <2>1. \A x \in S : n - x \in Nat
    OBVIOUS
  <2> QED  BY <2>1, Zenon
<1>2. PICK z \in T : \A y \in T : z <= y
  BY <1>1, LeastExists
<1>3. PICK x \in S : z = n - x
  BY <1>2
<1>4. \A y \in S : n - x <= n - y
  BY <1>2, <1>3
<1> QED  BY <1>4

\* The elements with the greatest counter, when the counters have a bound.
LEMMA OldestExists ==
    ASSUME NEW S, S # {}, NEW n \in Nat, NEW c, \A p \in S : c[p] \in 0 .. n
    PROVE  \E p \in S : \A q \in S : c[p] >= c[q]
<1> DEFINE T == {c[p] : p \in S}
<1>1. T \in SUBSET (0 .. n) /\ T # {}
  OBVIOUS
<1>2. PICK x \in T : \A y \in T : x >= y
  BY <1>1, GreatestExists
<1>3. PICK p \in S : x = c[p]
  BY <1>2
<1> QED  BY <1>2, <1>3

LEMMA LeastIndex ==
    ASSUME NEW S \in SUBSET Nat, S # {}
    PROVE  Least(S) \in S /\ FirstPage(S) \in S
BY LeastExists DEF Least, FirstPage

-----------------------------------------------------------------------------
(* Addresses.                                                              *)

LEMMA InPage ==
    ASSUME NEW n \in Nat \ {0}, NEW p \in Nat, NEW k \in 0 .. n - 1
    PROVE  (p * n + k) \div n = p /\ (p * n + k) % n = k
OBVIOUS

LEMMA PageOfAddress ==
    ASSUME NEW n \in Nat \ {0}, NEW m \in Nat, NEW a \in 0 .. m * n - 1
    PROVE  a \div n \in 0 .. m - 1 /\ a % n \in 0 .. n - 1
OBVIOUS

LEMMA AddressInPage ==
    ASSUME NEW n \in Nat \ {0}, NEW m \in Nat, NEW p \in 0 .. m - 1,
           NEW k \in 0 .. n - 1
    PROVE  p * n + k \in 0 .. m * n - 1
OBVIOUS

-----------------------------------------------------------------------------
(* The components of the state.                                            *)

TlbEntry == [page : Pages, frame : Frames \union {-1}, readonly : BOOLEAN,
             counter : Nat]
TlbTables == [TlbIndex -> TlbEntry]
PageTables == [Pages -> [valid : BOOLEAN, readonly : BOOLEAN, frame : Frames,
                         counter : Nat]]
Memories == [PhysicalAddresses -> Char \union {Blank}]
Stores == [LogicalAddresses -> Char \union {Blank}]

USE VmmAssumption DEF TlbIndex, Pages, Frames

LEMMA TickKeeps ==
    ASSUME NEW t \in TlbTables
    PROVE  /\ TlbTick(t) \in TlbTables
           /\ \A i \in TlbIndex : /\ TlbTick(t)[i].page = t[i].page
                                  /\ TlbTick(t)[i].frame = t[i].frame
                                  /\ TlbTick(t)[i].counter =
                                        IF i \in TlbUsed(t) THEN t[i].counter + 1
                                        ELSE t[i].counter
<1>1. ASSUME NEW i \in TlbIndex
      PROVE  /\ TlbTick(t)[i] \in TlbEntry
             /\ TlbTick(t)[i].page = t[i].page
             /\ TlbTick(t)[i].frame = t[i].frame
             /\ TlbTick(t)[i].counter = IF i \in TlbUsed(t) THEN t[i].counter + 1
                                        ELSE t[i].counter
  <2>1. TlbTick(t)[i] = IF i \in TlbUsed(t) THEN [t[i] EXCEPT !.counter = @ + 1]
                        ELSE t[i]
    BY DEF TlbTick
  <2>2. t[i] \in TlbEntry
    BY DEF TlbTables
  <2> QED  BY <2>1, <2>2 DEF TlbEntry
<1>2. TlbTick(t) = [i \in TlbIndex |-> TlbTick(t)[i]]
  BY DEF TlbTick
<1> QED  BY <1>1, <1>2 DEF TlbTables

\* tlb_lookup moves no entry: it only ages the entries in use.
LEMMA LookupKeeps ==
    ASSUME NEW t \in TlbTables, NEW page \in Pages, NEW write \in BOOLEAN
    PROVE  /\ TlbLookup(t, page, write) \in TlbTables
           /\ \A i \in TlbIndex : /\ TlbLookup(t, page, write)[i].page = t[i].page
                                  /\ TlbLookup(t, page, write)[i].frame = t[i].frame
           /\ TlbUsed(TlbLookup(t, page, write)) = TlbUsed(t)
<1> DEFINE looked == TlbLookup(t, page, write)
           ticked == TlbTick(t)
           i == Least(TlbHolding(t, page))
<1>1. ticked \in TlbTables /\ \A j \in TlbIndex : ticked[j].page = t[j].page
                                              /\ ticked[j].frame = t[j].frame
  BY TickKeeps
<1>2. CASE TlbHolding(t, page) = {}
  BY <1>1, <1>2 DEF TlbLookup, TlbUsed
<1>3. CASE TlbHolding(t, page) # {}
  <2>1. i \in TlbHolding(t, page)
    <3>1. TlbHolding(t, page) \in SUBSET Nat
      BY DEF TlbHolding, TlbUsed
    <3> QED  BY <3>1, <1>3, LeastIndex
  <2>2. i \in TlbIndex
    BY <2>1 DEF TlbHolding, TlbUsed
  <2>3. looked = [ticked EXCEPT ![i].counter = 0, ![i].readonly = @ /\ ~write]
    BY <1>3 DEF TlbLookup
  <2> HIDE DEF ticked, i, looked
  <2>4. ASSUME NEW j \in TlbIndex
        PROVE  /\ looked[j] \in TlbEntry
               /\ looked[j].page = ticked[j].page
               /\ looked[j].frame = ticked[j].frame
    <3>1. ticked[j] \in TlbEntry /\ j \in DOMAIN ticked
      BY <1>1 DEF TlbTables
    <3>2. CASE j # i
      BY <2>3, <3>1, <3>2
    <3>3. CASE j = i
      <4>1. looked[j] = [[ticked[j] EXCEPT !.counter = 0]
                           EXCEPT !.readonly = @ /\ ~write]
        BY <2>3, <3>1, <3>3
      <4>2. /\ ticked[j].page \in Pages /\ ticked[j].frame \in Frames \union {-1}
            /\ ticked[j] = [page |-> ticked[j].page, frame |-> ticked[j].frame,
                            readonly |-> ticked[j].readonly,
                            counter |-> ticked[j].counter]
        BY <3>1 DEF TlbEntry
      <4>3. (ticked[j].readonly /\ ~write) \in BOOLEAN
        OBVIOUS
      <4>4. looked[j] = [page |-> ticked[j].page, frame |-> ticked[j].frame,
                         readonly |-> ticked[j].readonly /\ ~write, counter |-> 0]
        BY <4>1, <4>2
      <4>5. looked[j] \in TlbEntry
        BY <4>2, <4>3, <4>4 DEF TlbEntry
      <4> QED  BY <4>4, <4>5
    <3> QED  BY <3>2, <3>3
  <2>5. looked = [j \in TlbIndex |-> looked[j]]
    BY <2>3, <1>1 DEF TlbTables
  <2> QED  BY <1>1, <2>4, <2>5 DEF looked, TlbUsed, TlbTables
<1> QED  BY <1>2, <1>3

\* After tlb_lookup every entry in use is one command older, but for the entry
\* of the page, which is new.
LEMMA LookupAges ==
    ASSUME NEW t \in TlbTables, NEW page \in Pages, NEW write \in BOOLEAN,
           \A i, j \in TlbUsed(t) : t[i].page = t[j].page => i = j,
           NEW i \in TlbUsed(t)
    PROVE  TlbLookup(t, page, write)[i].counter =
              IF t[i].page = page THEN 0 ELSE t[i].counter + 1
<1> DEFINE ticked == TlbTick(t)
           first == Least(TlbHolding(t, page))
<1>1. i \in TlbIndex
  BY DEF TlbUsed
<1>2. ticked[i].counter = t[i].counter + 1
  BY <1>1, TickKeeps
<1>3. CASE TlbHolding(t, page) = {}
  BY <1>2, <1>3 DEF TlbLookup, TlbHolding
<1>4. CASE TlbHolding(t, page) # {}
  <2>1. TlbHolding(t, page) \in SUBSET Nat
    BY DEF TlbHolding, TlbUsed
  <2>2. first \in TlbHolding(t, page)
    BY <2>1, <1>4, LeastIndex
  <2>3. i = first <=> t[i].page = page
    BY <2>2 DEF TlbHolding
  <2>4. TlbLookup(t, page, write) = [ticked EXCEPT ![first].counter = 0,
                                                   ![first].readonly = @ /\ ~write]
    BY <1>4 DEF TlbLookup
  <2>5. ticked \in TlbTables
    BY TickKeeps
  <2>6. first \in TlbIndex /\ i \in TlbIndex
    BY <2>2 DEF TlbHolding, TlbUsed
  <2> HIDE DEF ticked, first
  <2> QED  BY <2>3, <2>4, <2>5, <2>6, <1>2 DEF TlbTables
<1> QED  BY <1>3, <1>4

\* tlb_add_entry replaces one entry, when the counters of a table in which no
\* entry is free have a bound.
LEMMA AddReplacesOne ==
    ASSUME NEW t \in TlbTables, NEW page \in Pages, NEW frame \in Frames,
           NEW readonly \in BOOLEAN, NEW n \in Nat,
           \A i \in TlbUsed(t) : t[i].counter <= n
    PROVE  \E i \in TlbIndex :
              TlbAdd(t, page, frame, readonly) =
                 [t EXCEPT ![i] = [page |-> page, frame |-> frame,
                                   readonly |-> readonly, counter |-> 0]]
<1> DEFINE free == TlbIndex \ TlbUsed(t)
<1>1. CASE free # {}
  <2>1. free \in SUBSET (0 .. TlbSize)
    OBVIOUS
  <2>2. Greatest(free) \in free
    BY <1>1, <2>1, GreatestExists DEF Greatest
  <2> QED  BY <1>1, <2>2 DEF TlbAdd
<1>2. CASE free = {}
  <2> DEFINE c == [i \in TlbIndex |-> t[i].counter]
             dirty == {i \in TlbOldest(t) : ~t[i].readonly}
  <2>1. \A i \in TlbIndex : t[i].counter \in 0 .. n
    <3>1. \A i \in TlbIndex : i \in TlbUsed(t)
      BY <1>2
    <3>2. \A i \in TlbIndex : t[i].counter \in Nat
      BY DEF TlbTables, TlbEntry
    <3> QED  BY <3>1, <3>2
  <2>2. TlbIndex # {} /\ \A i \in TlbIndex : c[i] \in 0 .. n
    <3>1. \A i \in TlbIndex : c[i] = t[i].counter
      OBVIOUS
    <3>2. 0 \in TlbIndex
      OBVIOUS
    <3> HIDE DEF c
    <3> QED  BY <2>1, <3>1, <3>2
  <2>3. \E i \in TlbIndex : \A j \in TlbIndex : c[i] >= c[j]
    <3> HIDE DEF c
    <3> QED  BY <2>2, OldestExists
  <2>4. TlbOldest(t) # {}
    BY <2>3 DEF TlbOldest
  <2>5. TlbOldest(t) \in SUBSET Nat /\ TlbOldest(t) \subseteq TlbIndex
    BY DEF TlbOldest
  <2>6. TlbVictim(t) \in TlbOldest(t)
    <3>1. dirty \subseteq TlbOldest(t)
      OBVIOUS
    <3> HIDE DEF dirty
    <3>2. CASE dirty = {}
      BY <3>2, <2>4, <2>5, LeastIndex DEF TlbVictim, dirty
    <3>3. CASE dirty # {}
      <4>1. Least(dirty) \in dirty
        BY <3>1, <3>3, <2>5, LeastIndex
      <4> QED  BY <4>1, <3>1, <3>3 DEF TlbVictim, dirty
    <3> QED  BY <3>2, <3>3
  <2> QED  BY <1>2, <2>5, <2>6 DEF TlbAdd
<1> QED  BY <1>1, <1>2

\* remove_page_from_tlb frees at most one entry; the page it returns is that of
\* an entry with the frame, and -1 only when no entry has the frame.
LEMMA DropFreesOne ==
    ASSUME NEW t \in TlbTables, NEW frame \in Frames
    PROVE  /\ TlbDrop(t, frame) \in TlbTables
           /\ \A i \in TlbUsed(TlbDrop(t, frame)) :
                 i \in TlbUsed(t) /\ TlbDrop(t, frame)[i] = t[i]
           /\ \/ /\ TlbPageOf(t, frame) = -1
                 /\ \A i \in TlbIndex : t[i].frame # frame
              \/ \E i \in TlbUsed(t) :
                    /\ i \notin TlbUsed(TlbDrop(t, frame))
                    /\ t[i].frame = frame /\ TlbPageOf(t, frame) = t[i].page
                    /\ TlbPageOf(t, frame) # -1
<1> DEFINE with == TlbWithFrame(t, frame)
           i == Least(with)
<1>1. CASE with = {}
  BY <1>1 DEF TlbDrop, TlbPageOf, TlbWithFrame
<1>2. CASE with # {}
  <2>1. i \in with
    <3>1. with \in SUBSET Nat
      BY DEF TlbWithFrame
    <3> QED  BY <3>1, <1>2, LeastIndex
  <2>2. i \in TlbIndex /\ t[i].frame = frame /\ t[i] \in TlbEntry
    BY <2>1 DEF TlbWithFrame, TlbTables
  <2>3. TlbDrop(t, frame) = [t EXCEPT ![i].frame = -1]
    BY <1>2 DEF TlbDrop
  <2>4. TlbPageOf(t, frame) = t[i].page
    BY <1>2 DEF TlbPageOf
  <2> HIDE DEF i
  <2>5. TlbDrop(t, frame) \in TlbTables
    BY <2>2, <2>3 DEF TlbTables, TlbEntry
  <2>6. TlbDrop(t, frame)[i].frame = -1
        /\ \A j \in TlbIndex : j # i => TlbDrop(t, frame)[j] = t[j]
    BY <2>2, <2>3 DEF TlbTables, TlbEntry
  <2> QED  BY <2>2, <2>4, <2>5, <2>6 DEF TlbUsed, TlbEntry
<1> QED  BY <1>1, <1>2

\* find_victim_frame_number chooses a valid page when there is one and the
\* counters of the valid pages have a bound.
LEMMA VictimIsValid ==
    ASSUME NEW t \in PageTables, NEW n \in Nat, ValidPages(t) # {},
           \A p \in ValidPages(t) : t[p].counter <= n
    PROVE  VictimPage(t) \in ValidPages(t)
<1>1. ASSUME NEW S \in SUBSET ValidPages(t), S # {}
      PROVE  Oldest(t, S) \in S
  <2> DEFINE c == [p \in S |-> t[p].counter]
             oldest == {p \in S : \A q \in S : t[p].counter >= t[q].counter}
  <2>1. \A p \in S : p \in Pages /\ t[p].counter \in 0 .. n
    BY <1>1 DEF ValidPages, PageTables
  <2>2. \A p \in S : c[p] \in 0 .. n
    BY <2>1
  <2>3. \E p \in S : \A q \in S : c[p] >= c[q]
    <3> HIDE DEF c
    <3> QED  BY <1>1, <2>2, OldestExists
  <2>4. oldest # {} /\ oldest \in SUBSET Nat
    BY <2>1, <2>3
  <2>5. FirstPage(oldest) \in oldest
    <3> HIDE DEF oldest
    <3> QED  BY <2>4, LeastIndex
  <2> QED  BY <2>5 DEF Oldest
<1> DEFINE clean == {p \in ValidPages(t) : t[p].readonly}
           among == IF clean = {} THEN ValidPages(t) ELSE clean
<1>2. among \in SUBSET ValidPages(t) /\ among # {}
  OBVIOUS
<1>3. VictimPage(t) = Oldest(t, among)
  BY DEF VictimPage
<1> HIDE DEF among
<1> QED  BY <1>1, <1>2, <1>3

-----------------------------------------------------------------------------
(* What get_frame leaves.                                                  *)

\* A page that was written, but for the writes the code keeps no trace of, is
\* not readonly in the page table.
ModifiedAreDirty ==
    \A p \in modified : pt[p].valid => ~pt[p].readonly

\* The inductive invariant.
IInv ==
    /\ TypeOK
    /\ TlbPagesDistinct
    /\ CountersAreAges
    /\ UsedFramesAreMapped
    /\ TlbWithinPt
    /\ ModifiedAreDirty

\* The result of get_frame for a page: the same facts of the state it leaves,
\* in which the page is already the youngest and the counters of the page
\* table have not moved yet.
Distinct(t) == \A i, j \in TlbUsed(t) : t[i].page = t[j].page => i = j

TlbAges(t, page) ==
    \A i \in TlbUsed(t) :
        t[i].counter = IF t[i].page = page THEN 0 ELSE accesses + 1 - used[t[i].page]

PtAges(p, page) ==
    \A q \in ValidPages(p) : q # page => p[q].counter = accesses - used[q]

Mapped(b, p) == \A f \in Frames : b[f] <=> \E q \in ValidPages(p) : p[q].frame = f

Within(t, p) == \A i \in TlbUsed(t) : p[t[i].page].valid /\ p[t[i].page].frame = t[i].frame

Result(g, page) ==
    /\ g.tlb \in TlbTables
    /\ g.pt \in PageTables
    /\ g.bitmap \in [Frames -> BOOLEAN]
    /\ g.memory \in Memories
    /\ g.store \in Stores
    /\ Distinct(g.tlb)
    /\ TlbAges(g.tlb, page)
    /\ PtAges(g.pt, page)
    /\ Mapped(g.bitmap, g.pt)
    /\ Within(g.tlb, g.pt)

LEMMA TypesNamed ==
    TypeOK <=> /\ tlb \in TlbTables
               /\ pt \in PageTables
               /\ bitmap \in [Frames -> BOOLEAN]
               /\ memory \in Memories
               /\ store \in Stores
               /\ accesses \in Nat
               /\ used \in [Pages -> 0 .. accesses]
               /\ modified \subseteq Pages
BY DEF TypeOK, TlbTables, TlbEntry, PageTables, Memories, Stores

\* tlb_lookup, in a state of the invariant.
LEMMA LookedUp ==
    ASSUME IInv, NEW page \in Pages, NEW write \in BOOLEAN
    PROVE  LET t == TlbLookup(tlb, page, write) IN
           /\ t \in TlbTables
           /\ TlbUsed(t) = TlbUsed(tlb)
           /\ \A i \in TlbIndex : t[i].page = tlb[i].page /\ t[i].frame = tlb[i].frame
           /\ Distinct(t)
           /\ TlbAges(t, page)
           /\ Within(t, pt)
           /\ \A i \in TlbUsed(t) : t[i].counter <= accesses + 1
<1> DEFINE t == TlbLookup(tlb, page, write)
<1>0. /\ tlb \in TlbTables /\ accesses \in Nat /\ used \in [Pages -> 0 .. accesses]
      /\ TlbPagesDistinct /\ CountersAreAges /\ TlbWithinPt
  BY TypesNamed DEF IInv
<1>1. /\ t \in TlbTables /\ TlbUsed(t) = TlbUsed(tlb)
      /\ \A i \in TlbIndex : t[i].page = tlb[i].page /\ t[i].frame = tlb[i].frame
  BY <1>0, LookupKeeps
<1>2. ASSUME NEW i \in TlbUsed(tlb)
      PROVE  /\ i \in TlbIndex
             /\ tlb[i].page \in Pages /\ tlb[i].counter = accesses - used[tlb[i].page]
             /\ t[i].counter = IF tlb[i].page = page THEN 0 ELSE tlb[i].counter + 1
  <2>1. i \in TlbIndex
    BY DEF TlbUsed
  <2>2. t[i].counter = IF tlb[i].page = page THEN 0 ELSE tlb[i].counter + 1
    BY <1>0, LookupAges DEF TlbPagesDistinct
  <2> QED  BY <1>0, <2>1, <2>2 DEF CountersAreAges, TlbTables, TlbEntry
<1> HIDE DEF t
<1>3. Distinct(t)
  BY <1>0, <1>1, <1>2 DEF Distinct, TlbPagesDistinct
<1>4. TlbAges(t, page) /\ \A i \in TlbUsed(t) : t[i].counter <= accesses + 1
  <2> SUFFICES ASSUME NEW i \in TlbUsed(tlb)
               PROVE  /\ t[i].counter = IF t[i].page = page THEN 0
                                        ELSE accesses + 1 - used[t[i].page]
                      /\ t[i].counter <= accesses + 1
    BY <1>1 DEF TlbAges
  <2>1. used[tlb[i].page] \in 0 .. accesses
    BY <1>0, <1>2
  <2>2. t[i].page = tlb[i].page
        /\ t[i].counter = IF tlb[i].page = page THEN 0
                          ELSE (accesses - used[tlb[i].page]) + 1
    BY <1>1, <1>2
  <2>3. accesses \in Nat
    BY <1>0
  <2> QED  BY <2>1, <2>2, <2>3
<1>5. Within(t, pt)
  BY <1>0, <1>1, <1>2 DEF Within, TlbWithinPt
<1> QED  BY <1>1, <1>3, <1>4, <1>5 DEF t

\* tlb_add_entry of a page that is not in the table.
LEMMA Added ==
    ASSUME NEW t \in TlbTables, NEW page \in Pages, NEW frame \in Frames,
           NEW readonly \in BOOLEAN, NEW n \in Nat, NEW p \in PageTables,
           \A i \in TlbUsed(t) : t[i].counter <= n,
           \A i \in TlbUsed(t) : t[i].page # page,
           Distinct(t), TlbAges(t, page), Within(t, p),
           p[page].valid, p[page].frame = frame
    PROVE  LET u == TlbAdd(t, page, frame, readonly) IN
           u \in TlbTables /\ Distinct(u) /\ TlbAges(u, page) /\ Within(u, p)
<1> DEFINE u == TlbAdd(t, page, frame, readonly)
           new == [page |-> page, frame |-> frame, readonly |-> readonly, counter |-> 0]
<1>1. PICK i \in TlbIndex : u = [t EXCEPT ![i] = new]
  BY AddReplacesOne
<1>2. new \in TlbEntry
  BY DEF TlbEntry
<1> HIDE DEF u
<1>3. u \in TlbTables
  BY <1>1, <1>2 DEF TlbTables
<1>4. u[i] = new /\ \A j \in TlbIndex : j # i => u[j] = t[j]
  BY <1>1, <1>2 DEF TlbTables
<1>5. \A j \in TlbUsed(u) : j = i \/ j \in TlbUsed(t)
  BY <1>4 DEF TlbUsed
<1>6. \A j \in TlbUsed(u) : j \in TlbIndex
  BY DEF TlbUsed
<1>7. Distinct(u)
  BY <1>4, <1>5, <1>6 DEF Distinct
<1>8. TlbAges(u, page)
  BY <1>4, <1>5, <1>6 DEF TlbAges
<1>9. Within(u, p)
  BY <1>4, <1>5, <1>6 DEF Within
<1> QED  BY <1>3, <1>7, <1>8, <1>9 DEF u

\* The page is in the TLB.
LEMMA TlbHitResult ==
    ASSUME IInv, NEW page \in Pages, NEW write \in BOOLEAN, TlbFrame(tlb, page) # -1
    PROVE  Result(OnTlbHit(page, write), page)
<1> DEFINE t == TlbLookup(tlb, page, write)
           p == IF write THEN PtSetDirty(pt, page) ELSE pt
<1>1. /\ t \in TlbTables /\ Distinct(t) /\ TlbAges(t, page) /\ Within(t, pt)
  BY LookedUp
<1>2. /\ pt \in PageTables /\ bitmap \in [Frames -> BOOLEAN] /\ memory \in Memories
      /\ store \in Stores /\ CountersAreAges /\ UsedFramesAreMapped
  BY TypesNamed DEF IInv
<1>3. p \in PageTables
  BY <1>2 DEF PtSetDirty, PageTables
<1>4. \A q \in Pages : p[q].valid = pt[q].valid /\ p[q].frame = pt[q].frame
                        /\ p[q].counter = pt[q].counter
  BY <1>2 DEF PtSetDirty, PageTables
<1>5. OnTlbHit(page, write) =
         [frame |-> TlbFrame(tlb, page), tlb |-> t, pt |-> p, bitmap |-> bitmap,
          memory |-> memory, store |-> store]
  BY DEF OnTlbHit
<1> HIDE DEF t, p
<1>6. ValidPages(p) = ValidPages(pt)
  BY <1>4 DEF ValidPages
<1>7. PtAges(p, page)
  BY <1>2, <1>4, <1>6 DEF PtAges, CountersAreAges, ValidPages
<1>8. Mapped(bitmap, p)
  <2> SUFFICES ASSUME NEW f \in Frames
               PROVE  bitmap[f] <=> \E q \in ValidPages(p) : p[q].frame = f
    BY DEF Mapped
  <2>1. bitmap[f] <=> \E q \in ValidPages(pt) : pt[q].frame = f
    BY <1>2 DEF UsedFramesAreMapped
  <2>2. \A q \in ValidPages(pt) : p[q].frame = pt[q].frame
    BY <1>4 DEF ValidPages
  <2> QED  BY <1>6, <2>1, <2>2
<1>9. Within(t, p)
  BY <1>1, <1>4 DEF Within, TlbUsed, TlbTables, TlbEntry
<1> QED  BY <1>1, <1>2, <1>3, <1>5, <1>7, <1>8, <1>9 DEF Result

\* A lookup that misses leaves no entry for the page.
LEMMA MissedPage ==
    ASSUME tlb \in TlbTables, NEW page \in Pages, TlbFrame(tlb, page) = -1
    PROVE  \A i \in TlbUsed(tlb) : tlb[i].page # page
<1>1. SUFFICES ASSUME TlbHolding(tlb, page) # {} PROVE FALSE
  BY DEF TlbHolding
<1>2. Least(TlbHolding(tlb, page)) \in TlbHolding(tlb, page)
  <2>1. TlbHolding(tlb, page) \in SUBSET Nat
    BY DEF TlbHolding, TlbUsed
  <2> QED  BY <2>1, <1>1, LeastIndex
<1> QED  BY <1>1, <1>2 DEF TlbFrame, TlbHolding, TlbUsed

\* The page is only in the page table.
LEMMA PtHitResult ==
    ASSUME IInv, NEW page \in Pages, NEW write \in BOOLEAN,
           TlbFrame(tlb, page) = -1, PtFrame(pt, page) # -1
    PROVE  Result(OnPtHit(page, write), page)
<1> DEFINE t == TlbLookup(tlb, page, write)
           frame == PtFrame(pt, page)
           u == TlbAdd(t, page, frame, pt[page].readonly)
<1>1. /\ t \in TlbTables /\ Distinct(t) /\ TlbAges(t, page) /\ Within(t, pt)
      /\ TlbUsed(t) = TlbUsed(tlb)
      /\ \A i \in TlbIndex : t[i].page = tlb[i].page
      /\ \A i \in TlbUsed(t) : t[i].counter <= accesses + 1
  BY LookedUp
<1>2. /\ tlb \in TlbTables /\ accesses \in Nat
      /\ pt \in PageTables /\ bitmap \in [Frames -> BOOLEAN] /\ memory \in Memories
      /\ store \in Stores /\ CountersAreAges /\ UsedFramesAreMapped
  BY TypesNamed DEF IInv
<1>3. /\ pt[page].valid /\ pt[page].frame = frame /\ frame \in Frames
      /\ pt[page].readonly \in BOOLEAN
  BY <1>2 DEF PtFrame, PageTables
<1>4. \A i \in TlbUsed(t) : t[i].page # page
  BY <1>1, <1>2, MissedPage DEF TlbUsed
<1>5. OnPtHit(page, write) =
         [frame |-> frame, tlb |-> u, pt |-> pt, bitmap |-> bitmap,
          memory |-> memory, store |-> store]
  BY DEF OnPtHit
<1> HIDE DEF t, frame
<1>6. u \in TlbTables /\ Distinct(u) /\ TlbAges(u, page) /\ Within(u, pt)
  <2>1. accesses + 1 \in Nat
    BY <1>2
  <2> QED  BY <2>1, <1>1, <1>2, <1>3, <1>4, Added
<1>7. PtAges(pt, page) /\ Mapped(bitmap, pt)
  BY <1>2 DEF PtAges, CountersAreAges, Mapped, UsedFramesAreMapped
<1> HIDE DEF u
<1> QED  BY <1>2, <1>5, <1>6, <1>7 DEF Result

\* pt_set_readonly clears a flag of one entry.
LEMMA DirtyType ==
    ASSUME NEW t \in PageTables, NEW page \in Pages
    PROVE  PtSetDirty(t, page) \in PageTables
<1> DEFINE e == [t[page] EXCEPT !.readonly = FALSE]
<1>1. t[page] \in [valid : BOOLEAN, readonly : BOOLEAN, frame : Frames, counter : Nat]
  BY DEF PageTables
<1>2. e \in [valid : BOOLEAN, readonly : BOOLEAN, frame : Frames, counter : Nat]
  BY ONLY <1>1
<1>3. PtSetDirty(t, page) = [t EXCEPT ![page] = e]
  BY DEF PtSetDirty
<1> HIDE DEF e
<1> QED  BY <1>2, <1>3 DEF PageTables

\* A page is loaded into a frame, after an eviction that left t, p and s: the
\* frame is the only one that may have lost its page.
LEMMA LoadResult ==
    ASSUME IInv, NEW page \in Pages, NEW write \in BOOLEAN, NEW frame \in Frames,
           NEW t \in TlbTables, NEW p \in PageTables, NEW s \in Stores,
           \A i \in TlbUsed(t) : t[i].counter <= accesses + 1,
           \A i \in TlbUsed(t) : t[i].page # page,
           Distinct(t), TlbAges(t, page), Within(t, p), PtAges(p, page),
           ~p[page].valid,
           \A f \in Frames \ {frame} :
              bitmap[f] <=> \E q \in ValidPages(p) : p[q].frame = f
    PROVE  Result(Load(page, write, frame, t, p, s), page)
<1> DEFINE set == PtSetEntry(p, page, frame)
           dirtied == IF write THEN PtSetDirty(set, page) ELSE set
           u == TlbAdd(t, page, frame, dirtied[page].readonly)
           b == [bitmap EXCEPT ![frame] = TRUE]
           m == Download(memory, s, page, frame)
<1>1. accesses \in Nat /\ bitmap \in [Frames -> BOOLEAN] /\ memory \in Memories
  BY TypesNamed DEF IInv
<1>2. set \in PageTables
  BY DEF PtSetEntry, PageTables
<1>3. /\ set[page] = [valid |-> TRUE, readonly |-> TRUE, frame |-> frame, counter |-> 0]
      /\ \A q \in Pages : q # page => set[q] = p[q]
  BY DEF PtSetEntry, PageTables
<1> HIDE DEF set
<1>4. dirtied \in PageTables
  <2>1. PtSetDirty(set, page) \in PageTables
    BY <1>2, DirtyType
  <2> QED  BY <2>1, <1>2
<1>5. /\ dirtied[page].valid /\ dirtied[page].frame = frame /\ dirtied[page].counter = 0
      /\ dirtied[page].readonly \in BOOLEAN
      /\ \A q \in Pages : q # page => dirtied[q] = p[q]
  <2>1. dirtied[page].readonly \in BOOLEAN
    BY <1>4 DEF PageTables
  <2>2. /\ dirtied[page].valid = set[page].valid
        /\ dirtied[page].frame = set[page].frame
        /\ dirtied[page].counter = set[page].counter
    BY <1>2 DEF PtSetDirty, PageTables
  <2>3. \A q \in Pages : q # page => dirtied[q] = set[q]
    BY <1>2 DEF PtSetDirty, PageTables
  <2> HIDE DEF dirtied
  <2> QED  BY <1>3, <2>1, <2>2, <2>3
<1> HIDE DEF dirtied
<1>6. Within(t, dirtied)
  BY <1>5 DEF Within, TlbUsed, TlbTables, TlbEntry
<1>7. u \in TlbTables /\ Distinct(u) /\ TlbAges(u, page) /\ Within(u, dirtied)
  <2>1. accesses + 1 \in Nat /\ dirtied[page].readonly \in BOOLEAN
    BY <1>1, <1>5
  <2>2. dirtied[page].valid /\ dirtied[page].frame = frame
    BY <1>5
  <2> QED  BY <2>1, <2>2, <1>4, <1>6, Added
<1>8. ValidPages(dirtied) = ValidPages(p) \union {page}
  BY <1>5 DEF ValidPages
<1>9. PtAges(dirtied, page)
  BY <1>5, <1>8 DEF PtAges, ValidPages
<1>10. b \in [Frames -> BOOLEAN] /\ Mapped(b, dirtied)
  <2>1. b \in [Frames -> BOOLEAN]
    BY <1>1
  <2>2. ASSUME NEW f \in Frames
        PROVE  b[f] <=> \E q \in ValidPages(dirtied) : dirtied[q].frame = f
    <3>1. CASE f = frame
      BY <3>1, <1>1, <1>5, <1>8
    <3>2. CASE f # frame
      <4>1. b[f] = bitmap[f]
        BY <3>2, <1>1
      <4>2. (\E q \in ValidPages(dirtied) : dirtied[q].frame = f)
            <=> \E q \in ValidPages(p) : p[q].frame = f
        BY <3>2, <1>5, <1>8 DEF ValidPages
      <4> QED  BY <4>1, <4>2, <3>2
    <3> QED  BY <3>1, <3>2
  <2> QED  BY <2>1, <2>2 DEF Mapped
<1>11. m \in Memories
  <2>1. ASSUME NEW a \in PhysicalAddresses
        PROVE  m[a] \in Char \union {Blank}
    <3>1. page * PageSize + (a % PageSize) \in LogicalAddresses
      <4>1. a % PageSize \in 0 .. PageSize - 1
        BY PageOfAddress DEF PhysicalAddresses
      <4> QED  BY <4>1, AddressInPage DEF LogicalAddresses
    <3>2. m[a] = IF a \div PageSize = frame THEN s[page * PageSize + (a % PageSize)]
                 ELSE memory[a]
      BY DEF Download
    <3> QED  BY <3>1, <3>2, <1>1 DEF Stores, Memories
  <2>2. m = [a \in PhysicalAddresses |-> m[a]]
    BY DEF Download
  <2> HIDE DEF m
  <2> QED  BY <2>1, <2>2 DEF Memories
<1>12. Load(page, write, frame, t, p, s) =
          [frame |-> frame, tlb |-> u, pt |-> dirtied, bitmap |-> b, memory |-> m,
           store |-> s]
  BY DEF Load, dirtied, set
<1> HIDE DEF u, b, m
<1> QED  BY <1>4, <1>7, <1>9, <1>10, <1>11, <1>12 DEF Result

\* A frame is free.
LEMMA FreeFrameResult ==
    ASSUME IInv, NEW page \in Pages, NEW write \in BOOLEAN,
           TlbFrame(tlb, page) = -1, PtFrame(pt, page) = -1, FreeFrames(bitmap) # {}
    PROVE  Result(OnFreeFrame(page, write), page)
<1> DEFINE t == TlbLookup(tlb, page, write)
           frame == FreeFrame(bitmap)
<1>1. /\ t \in TlbTables /\ Distinct(t) /\ TlbAges(t, page) /\ Within(t, pt)
      /\ TlbUsed(t) = TlbUsed(tlb)
      /\ \A i \in TlbIndex : t[i].page = tlb[i].page
      /\ \A i \in TlbUsed(t) : t[i].counter <= accesses + 1
  BY LookedUp
<1>2. /\ tlb \in TlbTables
      /\ pt \in PageTables /\ store \in Stores /\ CountersAreAges /\ UsedFramesAreMapped
  BY TypesNamed DEF IInv
<1>3. \A i \in TlbUsed(t) : t[i].page # page
  BY <1>1, <1>2, MissedPage DEF TlbUsed
<1>4. ~pt[page].valid
  BY <1>2 DEF PtFrame, PageTables
<1>5. frame \in Frames
  <2>1. FreeFrames(bitmap) \in SUBSET Nat /\ FreeFrames(bitmap) \subseteq Frames
    BY DEF FreeFrames
  <2>2. frame \in FreeFrames(bitmap)
    BY <2>1, LeastExists DEF FreeFrame
  <2> QED  BY <2>1, <2>2
<1>6. PtAges(pt, page)
      /\ \A f \in Frames : bitmap[f] <=> \E q \in ValidPages(pt) : pt[q].frame = f
  BY <1>2 DEF PtAges, CountersAreAges, UsedFramesAreMapped
<1> HIDE DEF t, frame
<1>7. Result(Load(page, write, frame, t, pt, store), page)
  BY <1>1, <1>2, <1>3, <1>4, <1>5, <1>6, LoadResult
<1> QED  BY <1>7 DEF OnFreeFrame, t, frame

\* When memory is full there is a valid page to evict, and the page found for
\* its frame has the frame in the page table.
LEMMA EvictedHasFrame ==
    ASSUME IInv, NEW page \in Pages, NEW write \in BOOLEAN, FreeFrames(bitmap) = {}
    PROVE  LET t == TlbLookup(tlb, page, write)
               frame == VictimFrame(pt)
               evicted == EvictedPage(t, frame)
           IN /\ frame \in Frames
              /\ evicted \in Pages /\ pt[evicted].frame = frame
              /\ \A i \in TlbUsed(TlbDrop(t, frame)) : t[i].page # evicted
<1> DEFINE t == TlbLookup(tlb, page, write)
           frame == VictimFrame(pt)
           evicted == EvictedPage(t, frame)
<1>1. /\ t \in TlbTables /\ Distinct(t) /\ Within(t, pt)
  BY LookedUp
<1>2. /\ pt \in PageTables /\ bitmap \in [Frames -> BOOLEAN] /\ accesses \in Nat
      /\ used \in [Pages -> 0 .. accesses] /\ CountersAreAges /\ UsedFramesAreMapped
  BY TypesNamed DEF IInv
<1>3. VictimPage(pt) \in ValidPages(pt)
  <2>1. 0 \in Frames /\ bitmap[0]
    <3>1. 0 \in Frames
      OBVIOUS
    <3>2. \A f \in Frames : bitmap[f]
      BY <1>2, Zenon DEF FreeFrames
    <3> QED  BY <3>1, <3>2
  <2>2. ValidPages(pt) # {}
    BY <2>1, <1>2 DEF UsedFramesAreMapped
  <2>3. \A p \in ValidPages(pt) : p \in Pages /\ pt[p].counter = accesses - used[p]
    BY <1>2 DEF CountersAreAges, ValidPages
  <2>4. \A p \in ValidPages(pt) : pt[p].counter <= accesses
    BY <2>3, <1>2
  <2> QED  BY <2>2, <2>4, <1>2, VictimIsValid
<1>4. frame \in Frames /\ \E p \in Pages : pt[p].frame = frame
  BY <1>2, <1>3 DEF VictimFrame, ValidPages, PageTables
<1> HIDE DEF frame
<1>5. CASE TlbPageOf(t, frame) # -1
  <2>1. evicted = TlbPageOf(t, frame)
    BY <1>5 DEF EvictedPage
  <2> HIDE DEF t, evicted
  <2>2. PICK i \in TlbUsed(t) : /\ i \notin TlbUsed(TlbDrop(t, frame))
                               /\ t[i].frame = frame /\ evicted = t[i].page
    BY <2>1, <1>5, <1>1, <1>4, DropFreesOne
  <2>3. evicted \in Pages /\ pt[evicted].frame = frame
    BY <2>2, <1>1 DEF Within, TlbUsed, TlbTables, TlbEntry
  <2>4. \A j \in TlbUsed(TlbDrop(t, frame)) : j \in TlbUsed(t)
    BY <1>1, <1>4, DropFreesOne
  <2>5. \A j \in TlbUsed(TlbDrop(t, frame)) : t[j].page # evicted
    BY <2>2, <2>4, <1>1 DEF Distinct
  <2> QED  BY <2>3, <2>5, <1>4 DEF t, frame, evicted
<1>6. CASE TlbPageOf(t, frame) = -1
  <2> DEFINE found == {p \in Pages : pt[p].frame = frame}
  <2>1. evicted = PtFindPage(pt, frame)
    BY <1>6 DEF EvictedPage
  <2>2. found # {} /\ found \in SUBSET Nat
    BY <1>4
  <2>3. FirstPage(found) \in found
    <3> HIDE DEF found
    <3> QED  BY <2>2, LeastIndex
  <2>4. evicted \in found
    BY <2>1, <2>2, <2>3 DEF PtFindPage
  <2> HIDE DEF t, evicted
  <2>5. \A i \in TlbIndex : t[i].frame # frame
    BY <1>6, <1>1, <1>4, DropFreesOne
  <2>6. \A j \in TlbUsed(TlbDrop(t, frame)) : j \in TlbUsed(t)
    BY <1>1, <1>4, DropFreesOne
  <2>7. \A j \in TlbUsed(t) : t[j].page # evicted
    BY <2>4, <2>5, <1>1 DEF Within, TlbUsed
  <2> QED  BY <2>4, <2>6, <2>7, <1>4 DEF t, frame, evicted
<1> QED  BY <1>5, <1>6

LEMMA BackupType ==
    ASSUME NEW m \in Memories, NEW s \in Stores, NEW page \in Pages, NEW frame \in Frames
    PROVE  Backup(m, s, page, frame) \in Stores
<1>1. DOMAIN s = LogicalAddresses
  BY DEF Stores
<1>2. ASSUME NEW a \in LogicalAddresses
      PROVE  Backup(m, s, page, frame)[a] \in Char \union {Blank}
  <2>1. frame * PageSize + (a % PageSize) \in PhysicalAddresses
    <3>1. a % PageSize \in 0 .. PageSize - 1
      BY PageOfAddress DEF LogicalAddresses
    <3> QED  BY <3>1, AddressInPage DEF PhysicalAddresses
  <2>2. Backup(m, s, page, frame)[a] =
           IF a \div PageSize = page THEN m[frame * PageSize + (a % PageSize)] ELSE s[a]
    BY <1>1 DEF Backup
  <2> QED  BY <2>1, <2>2 DEF Memories, Stores
<1>3. Backup(m, s, page, frame) =
         [a \in LogicalAddresses |-> Backup(m, s, page, frame)[a]]
  BY <1>1 DEF Backup
<1> QED  BY <1>2, <1>3 DEF Stores

\* No frame is free: the frame of a victim is taken.
LEMMA VictimResult ==
    ASSUME IInv, NEW page \in Pages, NEW write \in BOOLEAN,
           TlbFrame(tlb, page) = -1, PtFrame(pt, page) = -1, FreeFrames(bitmap) = {}
    PROVE  Result(OnVictim(page, write), page)
<1> DEFINE t == TlbLookup(tlb, page, write)
           frame == VictimFrame(pt)
           evicted == EvictedPage(t, frame)
           saved == IF pt[evicted].readonly THEN store
                    ELSE Backup(memory, store, evicted, frame)
           d == TlbDrop(t, frame)
           p == PtUnset(pt, evicted)
<1>1. /\ t \in TlbTables /\ Distinct(t) /\ TlbAges(t, page) /\ Within(t, pt)
      /\ TlbUsed(t) = TlbUsed(tlb)
      /\ \A i \in TlbIndex : t[i].page = tlb[i].page
      /\ \A i \in TlbUsed(t) : t[i].counter <= accesses + 1
  BY LookedUp
<1>2. /\ tlb \in TlbTables /\ memory \in Memories
      /\ pt \in PageTables /\ store \in Stores /\ CountersAreAges /\ UsedFramesAreMapped
  BY TypesNamed DEF IInv
<1>3. \A i \in TlbUsed(t) : t[i].page # page
  BY <1>1, <1>2, MissedPage DEF TlbUsed
<1>4. ~pt[page].valid
  BY <1>2 DEF PtFrame, PageTables
<1>5. /\ frame \in Frames /\ evicted \in Pages /\ pt[evicted].frame = frame
      /\ \A i \in TlbUsed(d) : t[i].page # evicted
  BY EvictedHasFrame
<1> HIDE DEF t, frame, evicted
<1>6. saved \in Stores
  BY <1>2, <1>5, BackupType
<1>7. d \in TlbTables /\ \A i \in TlbUsed(d) : i \in TlbUsed(t) /\ d[i] = t[i]
  BY <1>1, <1>5, DropFreesOne
<1>8. /\ p \in PageTables
      /\ p[evicted].valid = FALSE
      /\ \A q \in Pages : q # evicted => p[q] = pt[q]
  BY <1>2, <1>5 DEF PtUnset, PageTables
<1>9. OnVictim(page, write) = Load(page, write, frame, d, p, saved)
  BY DEF OnVictim, t, frame, evicted
<1> HIDE DEF saved, d, p
<1>10. /\ \A i \in TlbUsed(d) : d[i].counter <= accesses + 1
       /\ \A i \in TlbUsed(d) : d[i].page # page
       /\ Distinct(d) /\ TlbAges(d, page)
  BY <1>1, <1>3, <1>7 DEF Distinct, TlbAges
<1>11. Within(d, p)
  <2> SUFFICES ASSUME NEW i \in TlbUsed(d)
               PROVE  p[d[i].page].valid /\ p[d[i].page].frame = d[i].frame
    BY DEF Within
  <2>1. d[i] = t[i] /\ t[i].page \in Pages /\ t[i].page # evicted /\ i \in TlbUsed(t)
    BY <1>1, <1>5, <1>7 DEF TlbUsed, TlbTables, TlbEntry
  <2> QED  BY <2>1, <1>1, <1>8 DEF Within
<1>12. ValidPages(p) = ValidPages(pt) \ {evicted} /\ ~p[page].valid
  BY <1>4, <1>8 DEF ValidPages
<1>13. PtAges(p, page)
  BY <1>2, <1>8, <1>12 DEF PtAges, CountersAreAges, ValidPages
<1>14. \A f \in Frames \ {frame} :
          bitmap[f] <=> \E q \in ValidPages(p) : p[q].frame = f
  <2> SUFFICES ASSUME NEW f \in Frames \ {frame}
               PROVE  (\E q \in ValidPages(pt) : pt[q].frame = f)
                      <=> \E q \in ValidPages(p) : p[q].frame = f
    BY <1>2 DEF UsedFramesAreMapped
  <2> QED  BY <1>5, <1>8, <1>12 DEF ValidPages
<1>15. Result(Load(page, write, frame, d, p, saved), page)
  BY <1>5, <1>6, <1>7, <1>8, <1>10, <1>11, <1>12, <1>13, <1>14, LoadResult
<1> QED  BY <1>9, <1>15

\* get_frame, in each of its cases.
LEMMA GetFrameResult ==
    ASSUME IInv, NEW page \in Pages, NEW write \in BOOLEAN
    PROVE  Result(GetFrame(page, write), page)
<1>1. CASE TlbFrame(tlb, page) # -1
  BY <1>1, TlbHitResult DEF GetFrame
<1>2. CASE TlbFrame(tlb, page) = -1 /\ PtFrame(pt, page) # -1
  BY <1>2, PtHitResult DEF GetFrame
<1>3. CASE TlbFrame(tlb, page) = -1 /\ PtFrame(pt, page) = -1 /\ FreeFrames(bitmap) # {}
  BY <1>3, FreeFrameResult DEF GetFrame
<1>4. CASE TlbFrame(tlb, page) = -1 /\ PtFrame(pt, page) = -1 /\ FreeFrames(bitmap) = {}
  BY <1>4, VictimResult DEF GetFrame
<1> QED  BY <1>1, <1>2, <1>3, <1>4

\* What get_frame does to the flags of the pages: it never loads another page
\* or makes it readonly, and the page of a write is readonly only when it was
\* found in the page table and not in the TLB.
LEMMA FlagsOf ==
    ASSUME IInv, NEW page \in Pages, NEW write \in BOOLEAN
    PROVE  LET p == GetFrame(page, write).pt IN
           /\ \A q \in Pages : q # page /\ p[q].valid =>
                 pt[q].valid /\ (p[q].readonly <=> pt[q].readonly)
           /\ write /\ ~IsPtHit(page) => ~p[page].readonly
           /\ IsPtHit(page) \/ (~write /\ ~IsFault(page)) => p[page] = pt[page]
<1> DEFINE g == GetFrame(page, write)
<1>1. pt \in PageTables
  BY TypesNamed DEF IInv
<1>2. CASE TlbFrame(tlb, page) # -1
  <2>1. g.pt = IF write THEN PtSetDirty(pt, page) ELSE pt
    BY <1>2 DEF GetFrame, OnTlbHit
  <2> HIDE DEF g
  <2> QED  BY <2>1, <1>1, <1>2 DEF PtSetDirty, PageTables, IsPtHit, g
<1>3. CASE TlbFrame(tlb, page) = -1 /\ PtFrame(pt, page) # -1
  <2>1. g.pt = pt
    BY <1>3 DEF GetFrame, OnPtHit
  <2> QED  BY <2>1, <1>3 DEF IsPtHit, IsFault
<1>4. CASE TlbFrame(tlb, page) = -1 /\ PtFrame(pt, page) = -1
  <2>1. PICK p \in PageTables, frame \in Frames :
           /\ g.pt = IF write THEN PtSetDirty(PtSetEntry(p, page, frame), page)
                     ELSE PtSetEntry(p, page, frame)
           /\ \A q \in Pages : p[q].valid =>
                 pt[q].valid /\ (p[q].readonly <=> pt[q].readonly)
    <3>1. CASE FreeFrames(bitmap) # {}
      <4>1. FreeFrame(bitmap) \in Frames
        <5>1. FreeFrames(bitmap) \in SUBSET Nat /\ FreeFrames(bitmap) \subseteq Frames
          BY DEF FreeFrames
        <5>2. FreeFrame(bitmap) \in FreeFrames(bitmap)
          BY <3>1, <5>1, LeastExists DEF FreeFrame
        <5> QED  BY <5>1, <5>2
      <4>2. g = OnFreeFrame(page, write)
        BY <1>4, <3>1 DEF GetFrame
      <4>3. g.pt = IF write THEN PtSetDirty(PtSetEntry(pt, page, FreeFrame(bitmap)), page)
                   ELSE PtSetEntry(pt, page, FreeFrame(bitmap))
        BY <4>2 DEF OnFreeFrame, Load
      <4> HIDE DEF g
      <4> QED  BY <4>1, <4>3, <1>1
    <3>2. CASE FreeFrames(bitmap) = {}
      <4> DEFINE t == TlbLookup(tlb, page, write)
                 victim == VictimFrame(pt)
                 evicted == EvictedPage(t, victim)
                 p == PtUnset(pt, evicted)
      <4>1. victim \in Frames /\ evicted \in Pages
        BY <3>2, EvictedHasFrame
      <4>2. g = OnVictim(page, write)
        BY <1>4, <3>2 DEF GetFrame
      <4>3. g.pt = IF write THEN PtSetDirty(PtSetEntry(p, page, victim), page)
                   ELSE PtSetEntry(p, page, victim)
        BY <4>2 DEF OnVictim, Load
      <4> HIDE DEF g, t, victim, evicted
      <4>4. p \in PageTables
        BY <4>1, <1>1 DEF PtUnset, PageTables
      <4>5. \A q \in Pages : p[q].valid =>
               pt[q].valid /\ (p[q].readonly <=> pt[q].readonly)
        BY <4>1, <1>1 DEF PtUnset, PageTables
      <4> HIDE DEF p
      <4> QED  BY <4>1, <4>3, <4>4, <4>5
    <3> QED  BY <3>1, <3>2
  <2> DEFINE set == PtSetEntry(p, page, frame)
  <2>2. set \in PageTables /\ \A q \in Pages : q # page => set[q] = p[q]
    BY DEF PtSetEntry, PageTables
  <2> HIDE DEF g, set
  <2>3. g.pt = IF write THEN PtSetDirty(set, page) ELSE set
    BY <2>1 DEF set
  <2>4. \A q \in Pages : q # page => g.pt[q] = p[q]
    BY <2>2, <2>3 DEF PtSetDirty, PageTables
  <2>5. write => ~g.pt[page].readonly
    BY <2>2, <2>3 DEF PtSetDirty, PageTables
  <2> QED  BY <2>1, <2>4, <2>5, <1>4 DEF IsPtHit, IsFault, g
<1> QED  BY <1>2, <1>3, <1>4

\* A valid page that get_frame unsets is the page it evicts, and a dirty one is
\* backed up from the frame it has.
LEMMA UnsetIsSaved ==
    ASSUME IInv, NEW page \in Pages, NEW write \in BOOLEAN, NEW q \in Pages,
           pt[q].valid, ~pt[q].readonly, ~GetFrame(page, write).pt[q].valid
    PROVE  GetFrame(page, write).store = Backup(memory, store, q, pt[q].frame)
<1> DEFINE g == GetFrame(page, write)
<1>1. pt \in PageTables
  BY TypesNamed DEF IInv
<1>2. CASE TlbFrame(tlb, page) # -1
  <2>1. g.pt = IF write THEN PtSetDirty(pt, page) ELSE pt
    BY <1>2 DEF GetFrame, OnTlbHit
  <2> HIDE DEF g
  <2>2. g.pt[q].valid
    BY <2>1, <1>1 DEF PtSetDirty, PageTables
  <2> QED  BY <2>2 DEF g
<1>3. CASE TlbFrame(tlb, page) = -1 /\ PtFrame(pt, page) # -1
  BY <1>3 DEF GetFrame, OnPtHit
<1>4. CASE TlbFrame(tlb, page) = -1 /\ PtFrame(pt, page) = -1 /\ FreeFrames(bitmap) # {}
  <2>1. g = OnFreeFrame(page, write)
    BY <1>4 DEF GetFrame
  <2>2. g.pt = IF write THEN PtSetDirty(PtSetEntry(pt, page, FreeFrame(bitmap)), page)
               ELSE PtSetEntry(pt, page, FreeFrame(bitmap))
    BY <2>1 DEF OnFreeFrame, Load
  <2> HIDE DEF g
  <2>3. g.pt[q].valid
    BY <2>2, <1>1 DEF PtSetDirty, PtSetEntry, PageTables
  <2> QED  BY <2>3 DEF g
<1>5. CASE TlbFrame(tlb, page) = -1 /\ PtFrame(pt, page) = -1 /\ FreeFrames(bitmap) = {}
  <2> DEFINE t == TlbLookup(tlb, page, write)
             victim == VictimFrame(pt)
             evicted == EvictedPage(t, victim)
             p == PtUnset(pt, evicted)
  <2>1. victim \in Frames /\ evicted \in Pages /\ pt[evicted].frame = victim
    BY <1>5, EvictedHasFrame
  <2>2. g = OnVictim(page, write)
    BY <1>5 DEF GetFrame
  <2>3. /\ g.pt = IF write THEN PtSetDirty(PtSetEntry(p, page, victim), page)
                  ELSE PtSetEntry(p, page, victim)
        /\ g.store = IF pt[evicted].readonly THEN store
                     ELSE Backup(memory, store, evicted, victim)
    BY <2>2 DEF OnVictim, Load
  <2>4. ~g.pt[q].valid
    OBVIOUS
  <2> HIDE DEF g, t, victim, evicted
  <2>5. p \in PageTables /\ \A r \in Pages : r # evicted => p[r] = pt[r]
    BY <2>1, <1>1 DEF PtUnset, PageTables
  <2> HIDE DEF p
  <2>6. p[q].valid => g.pt[q].valid
    BY <2>3, <2>5 DEF PtSetDirty, PtSetEntry, PageTables
  <2>7. q = evicted
    BY <2>4, <2>5, <2>6
  <2> QED  BY <2>1, <2>3, <2>7 DEF g
<1> QED  BY <1>2, <1>3, <1>4, <1>5

-----------------------------------------------------------------------------
(* The steps.                                                              *)

\* The commands use addresses of pages.
LEMMA PageType ==
    ASSUME NEW a \in Addresses
    PROVE  Page(a) \in Pages /\ Page(a) \in PhysicalAddresses
<1>1. a \in 0 .. NumPages * PageSize - 1
  OBVIOUS
<1>2. Page(a) \in Pages
  BY <1>1, PageOfAddress DEF Page
<1> QED  BY <1>2 DEF PhysicalAddresses

\* The translation of one command, which ages the page table.
LEMMA Translated ==
    ASSUME IInv, NEW page \in Pages, NEW write \in BOOLEAN,
           Translate(page, GetFrame(page, write))
    PROVE  /\ tlb' \in TlbTables
           /\ pt' \in PageTables
           /\ bitmap' \in [Frames -> BOOLEAN]
           /\ store' \in Stores
           /\ accesses' \in Nat
           /\ used' \in [Pages -> 0 .. accesses']
           /\ TlbPagesDistinct'
           /\ CountersAreAges'
           /\ UsedFramesAreMapped'
           /\ TlbWithinPt'
           /\ \A q \in Pages : /\ pt'[q].valid <=> GetFrame(page, write).pt[q].valid
                               /\ pt'[q].readonly <=> GetFrame(page, write).pt[q].readonly
<1> DEFINE g == GetFrame(page, write)
<1>1. /\ g.tlb \in TlbTables /\ g.pt \in PageTables /\ g.bitmap \in [Frames -> BOOLEAN]
      /\ g.store \in Stores /\ Distinct(g.tlb) /\ TlbAges(g.tlb, page)
      /\ PtAges(g.pt, page) /\ Mapped(g.bitmap, g.pt) /\ Within(g.tlb, g.pt)
  BY GetFrameResult DEF Result
<1>2. accesses \in Nat /\ used \in [Pages -> 0 .. accesses]
  BY TypesNamed DEF IInv
<1>3. /\ accesses' = accesses + 1 /\ tlb' = g.tlb /\ pt' = PtTick(g.pt, page)
      /\ bitmap' = g.bitmap /\ store' = g.store
      /\ used' = [used EXCEPT ![page] = accesses + 1]
  BY DEF Translate
<1> HIDE DEF g
<1>4. used' \in [Pages -> 0 .. accesses']
      /\ used'[page] = accesses' /\ \A q \in Pages : q # page => used'[q] = used[q]
  BY <1>2, <1>3
<1>5. ASSUME NEW q \in Pages
      PROVE  /\ pt'[q] \in [valid : BOOLEAN, readonly : BOOLEAN, frame : Frames, counter : Nat]
             /\ pt'[q].valid = g.pt[q].valid /\ pt'[q].readonly = g.pt[q].readonly
             /\ pt'[q].frame = g.pt[q].frame
             /\ pt'[q].counter = IF q = page THEN 0
                                 ELSE IF g.pt[q].valid THEN g.pt[q].counter + 1
                                 ELSE g.pt[q].counter
  <2>1. pt'[q] = IF q = page THEN [g.pt[q] EXCEPT !.counter = 0]
                 ELSE IF g.pt[q].valid THEN [g.pt[q] EXCEPT !.counter = @ + 1]
                 ELSE g.pt[q]
    BY <1>3 DEF PtTick
  <2>2. g.pt[q] \in [valid : BOOLEAN, readonly : BOOLEAN, frame : Frames, counter : Nat]
    BY <1>1 DEF PageTables
  <2> QED  BY <2>1, <2>2
<1>6. pt' \in PageTables
  <2>1. pt' = [q \in Pages |-> pt'[q]]
    BY <1>3 DEF PtTick
  <2> QED  BY <2>1, <1>5 DEF PageTables
<1>7. ValidPages(pt') = ValidPages(g.pt)
  BY <1>5 DEF ValidPages
<1>8. TlbPagesDistinct'
  BY <1>1, <1>3 DEF TlbPagesDistinct, Distinct
<1>9. CountersAreAges'
  <2>1. ASSUME NEW i \in TlbUsed(tlb')
        PROVE  tlb'[i].counter = accesses' - used'[tlb'[i].page]
    <3>1. tlb'[i].page \in Pages
      BY <1>1, <1>3 DEF TlbUsed, TlbTables, TlbEntry
    <3>2. tlb'[i].counter = IF tlb'[i].page = page THEN 0
                            ELSE accesses + 1 - used[tlb'[i].page]
      BY <1>1, <1>3 DEF TlbAges
    <3>3. CASE tlb'[i].page = page
      BY <3>2, <3>3, <1>2, <1>3, <1>4
    <3>4. CASE tlb'[i].page # page
      <4>1. used'[tlb'[i].page] = used[tlb'[i].page]
        BY <3>1, <3>4, <1>4
      <4>2. tlb'[i].counter = accesses + 1 - used[tlb'[i].page]
        BY <3>2, <3>4
      <4>3. used[tlb'[i].page] \in 0 .. accesses /\ accesses \in Nat
        BY <3>1, <1>2
      <4> QED  BY <4>1, <4>2, <4>3, <1>3
    <3> QED  BY <3>3, <3>4
  <2>2. ASSUME NEW q \in ValidPages(pt')
        PROVE  pt'[q].counter = accesses' - used'[q]
    <3>1. q \in Pages /\ q \in ValidPages(g.pt) /\ g.pt[q].valid
      BY <1>7 DEF ValidPages
    <3>2. CASE q = page
      BY <3>1, <3>2, <1>2, <1>3, <1>4, <1>5
    <3>3. CASE q # page
      <4>1. g.pt[q].counter = accesses - used[q]
        BY <3>1, <3>3, <1>1 DEF PtAges
      <4>2. pt'[q].counter = (accesses - used[q]) + 1
        BY <3>1, <3>3, <4>1, <1>5
      <4>3. used'[q] = used[q] /\ used[q] \in 0 .. accesses
        BY <3>1, <3>3, <1>2, <1>4
      <4> QED  BY <4>2, <4>3, <1>2, <1>3
    <3> QED  BY <3>2, <3>3
  <2> QED  BY <2>1, <2>2 DEF CountersAreAges
<1>10. UsedFramesAreMapped'
  <2> SUFFICES ASSUME NEW f \in Frames
               PROVE  bitmap'[f] <=> \E q \in ValidPages(pt') : pt'[q].frame = f
    BY DEF UsedFramesAreMapped
  <2>1. \A q \in ValidPages(pt') : pt'[q].frame = g.pt[q].frame
    BY <1>5 DEF ValidPages
  <2>2. bitmap'[f] <=> \E q \in ValidPages(g.pt) : g.pt[q].frame = f
    BY <1>1, <1>3 DEF Mapped
  <2> QED  BY <2>1, <2>2, <1>7
<1>11. TlbWithinPt'
  <2> SUFFICES ASSUME NEW i \in TlbUsed(tlb')
               PROVE  pt'[tlb'[i].page].valid /\ pt'[tlb'[i].page].frame = tlb'[i].frame
    BY DEF TlbWithinPt
  <2>1. tlb'[i].page \in Pages /\ i \in TlbUsed(g.tlb)
    BY <1>1, <1>3 DEF TlbUsed, TlbTables, TlbEntry
  <2>2. tlb'[i].page = g.tlb[i].page /\ tlb'[i].frame = g.tlb[i].frame
    BY <2>1, <1>1, <1>3
  <2>3. g.pt[g.tlb[i].page].valid /\ g.pt[g.tlb[i].page].frame = g.tlb[i].frame
    BY <2>1, <1>1 DEF Within
  <2> QED  BY <2>1, <2>2, <2>3, <1>5
<1>12. \A q \in Pages : (pt'[q].valid <=> g.pt[q].valid)
                         /\ (pt'[q].readonly <=> g.pt[q].readonly)
  BY ONLY <1>5
<1>13. /\ tlb' \in TlbTables /\ bitmap' \in [Frames -> BOOLEAN] /\ store' \in Stores
       /\ accesses' \in Nat
  BY <1>1, <1>2, <1>3
<1> QED  BY <1>4, <1>6, <1>8, <1>9, <1>10, <1>11, <1>12, <1>13 DEF g

LEMMA InitInvariant == Init => IInv
<1> SUFFICES ASSUME Init PROVE IInv
  OBVIOUS
<1> USE DEF Init
<1>1. TlbUsed(tlb) = {} /\ ValidPages(pt) = {}
  BY DEF TlbUsed, TlbInit, ValidPages, PtInit
<1>2. TypeOK
  BY DEF TypeOK, TlbInit, PtInit, LogicalAddresses
<1>3. TlbPagesDistinct /\ CountersAreAges /\ TlbWithinPt
  BY <1>1 DEF TlbPagesDistinct, CountersAreAges, TlbWithinPt
<1>4. UsedFramesAreMapped
  BY <1>1 DEF UsedFramesAreMapped
<1>5. ModifiedAreDirty
  BY DEF ModifiedAreDirty
<1> QED  BY <1>2, <1>3, <1>4, <1>5 DEF IInv

LEMMA ReadKeeps ==
    ASSUME IInv, NEW a \in Addresses, Read(a)
    PROVE  IInv'
<1> DEFINE page == Page(a)
           g == GetFrame(page, FALSE)
<1>1. page \in Pages
  BY PageType
<1>2. /\ Translate(page, g) /\ memory' = g.memory
      /\ modified' = IF IsFault(page) THEN modified \ {page} ELSE modified
  BY DEF Read
<1>3. memory' \in Memories
  BY <1>1, <1>2, GetFrameResult DEF Result
<1>4. modified \subseteq Pages /\ ModifiedAreDirty
  BY DEF IInv, TypeOK
<1> HIDE DEF page
<1>5. TypeOK'
  <2>1. modified' \subseteq Pages
    BY <1>2, <1>4
  <2> QED  BY <2>1, <1>1, <1>2, <1>3, Translated DEF TypeOK, TlbTables, TlbEntry,
              PageTables, Memories, Stores
<1>6. ModifiedAreDirty'
  <2> SUFFICES ASSUME NEW q \in modified', pt'[q].valid PROVE ~pt'[q].readonly
    BY DEF ModifiedAreDirty
  <2>1. q \in Pages /\ q \in modified /\ (q = page => ~IsFault(page))
    BY <1>2, <1>4
  <2>2. g.pt[q].valid /\ (pt'[q].readonly <=> g.pt[q].readonly)
    BY <2>1, <1>1, <1>2, Translated
  <2> HIDE DEF g
  <2>3. CASE q # page
    BY <2>1, <2>2, <2>3, <1>1, <1>4, FlagsOf DEF ModifiedAreDirty, g
  <2>4. CASE q = page
    <3>1. g.pt[q] = pt[q]
      BY <2>1, <2>4, <1>1, FlagsOf DEF g
    <3> QED  BY <3>1, <2>1, <2>2, <1>4 DEF ModifiedAreDirty
  <2> QED  BY <2>3, <2>4
<1> QED  BY <1>1, <1>2, <1>5, <1>6, Translated DEF IInv

LEMMA WriteKeeps ==
    ASSUME IInv, NEW a \in Addresses, NEW c \in Char, Write(a, c)
    PROVE  IInv'
<1> DEFINE page == Page(a)
           g == GetFrame(page, TRUE)
<1>1. page \in Pages
  BY PageType
<1>2. /\ Translate(page, g) /\ memory' = [g.memory EXCEPT ![page] = c]
      /\ modified' = IF IsPtHit(page) THEN modified ELSE modified \union {page}
  BY DEF Write
<1>3. memory' \in Memories
  <2>1. g.memory \in Memories
    BY <1>1, GetFrameResult DEF Result
  <2> HIDE DEF g
  <2> QED  BY <2>1, <1>2 DEF Memories
<1>4. modified \subseteq Pages /\ ModifiedAreDirty
  BY DEF IInv, TypeOK
<1> HIDE DEF page
<1>5. TypeOK'
  <2>1. modified' \subseteq Pages
    BY <1>1, <1>2, <1>4
  <2> QED  BY <2>1, <1>1, <1>2, <1>3, Translated DEF TypeOK, TlbTables, TlbEntry,
              PageTables, Memories, Stores
<1>6. ModifiedAreDirty'
  <2> SUFFICES ASSUME NEW q \in modified', pt'[q].valid PROVE ~pt'[q].readonly
    BY DEF ModifiedAreDirty
  <2>1. q \in Pages /\ (q # page \/ IsPtHit(page) => q \in modified)
    BY <1>1, <1>2, <1>4
  <2>2. g.pt[q].valid /\ (pt'[q].readonly <=> g.pt[q].readonly)
    BY <2>1, <1>1, <1>2, Translated
  <2> HIDE DEF g
  <2>3. CASE q # page
    BY <2>1, <2>2, <2>3, <1>1, <1>4, FlagsOf DEF ModifiedAreDirty, g
  <2>4. CASE q = page /\ IsPtHit(page)
    <3>1. g.pt[q] = pt[q]
      BY <2>1, <2>4, <1>1, FlagsOf DEF g
    <3> QED  BY <3>1, <2>1, <2>2, <2>4, <1>4 DEF ModifiedAreDirty
  <2>5. CASE q = page /\ ~IsPtHit(page)
    BY <2>2, <2>5, <1>1, FlagsOf DEF g
  <2> QED  BY <2>3, <2>4, <2>5
<1> QED  BY <1>1, <1>2, <1>5, <1>6, Translated DEF IInv

LEMMA NextInvariant == IInv /\ [Next]_vars => IInv'
<1> SUFFICES ASSUME IInv, [Next]_vars PROVE IInv'
  OBVIOUS
<1>1. ASSUME NEW a \in Addresses, Read(a) PROVE IInv'
  BY <1>1, ReadKeeps
<1>2. ASSUME NEW a \in Addresses, NEW c \in Char, Write(a, c) PROVE IInv'
  BY <1>2, WriteKeeps
<1>3. CASE UNCHANGED vars
  BY <1>3 DEF vars, IInv, TypeOK, TlbPagesDistinct, CountersAreAges,
     UsedFramesAreMapped, TlbWithinPt, ModifiedAreDirty
<1> QED  BY <1>1, <1>2, <1>3 DEF Next, Terminated

-----------------------------------------------------------------------------
(* The theorems.                                                           *)

LEMMA Invariant == Spec => []IInv
BY InitInvariant, NextInvariant, PTL DEF Spec

\* The tables, the memory and the backing store are arrays of what they are
\* declared to hold after every sequence of commands: no index is out of range
\* and no counter negative.
THEOREM TypeCorrect == Spec => []TypeOK
<1>1. IInv => TypeOK
  BY DEF IInv
<1> QED  BY <1>1, Invariant, PTL

\* tlb_add_entry, called by get_frame after a lookup that missed, never makes a
\* second entry for a page.
THEOREM OneEntryPerPage == Spec => []TlbPagesDistinct
<1>1. IInv => TlbPagesDistinct
  BY DEF IInv
<1> QED  BY <1>1, Invariant, PTL

\* increment_counters and pt_update_counters keep the least recently used page
\* and entry the ones with the greatest counter, through every eviction.
THEOREM LruIsExact == Spec => []CountersAreAges
<1>1. IInv => CountersAreAges
  BY DEF IInv
<1> QED  BY <1>1, Invariant, PTL

\* A frame is in use exactly when a valid page has it, so that
\* find_victim_frame_number always finds a page when memory is full.
THEOREM NoFrameIsLost == Spec => []UsedFramesAreMapped
<1>1. IInv => UsedFramesAreMapped
  BY DEF IInv
<1> QED  BY <1>1, Invariant, PTL

\* A hit in the TLB gives the frame the page table gives: an eviction leaves no
\* entry of the page it unsets behind.
THEOREM TlbIsCoherent == Spec => []TlbWithinPt
<1>1. IInv => TlbWithinPt
  BY DEF IInv
<1> QED  BY <1>1, Invariant, PTL

\* When a page is unloaded, a write to it that hit the TLB, or that loaded it, is
\* saved: however long ago the write was, and whichever of the TLB and the page
\* table the eviction found the page in.  Nothing is said of a write that hit
\* only the page table (vmm.c:130), which leaves no mark, nor of a page that
\* stays valid while its frame is given away.
THEOREM MarkedPagesAreSavedWhenUnloaded == Spec => SavesModifiedPages
<1>1. ASSUME IInv, [Next]_vars, NEW p \in modified, pt[p].valid, ~pt'[p].valid,
             NEW k \in 0 .. PageSize - 1
      PROVE  store'[p * PageSize + k] = memory[pt[p].frame * PageSize + k]
  <2>1. /\ p \in Pages /\ ~pt[p].readonly /\ pt \in PageTables /\ store \in Stores
    BY <1>1, TypesNamed DEF IInv, ModifiedAreDirty
  <2>2. PICK page \in Pages, write \in BOOLEAN : Translate(page, GetFrame(page, write))
    <3>1. CASE \E a \in Addresses : Read(a)
      BY <3>1, PageType DEF Read
    <3>2. CASE \E a \in Addresses, c \in Char : Write(a, c)
      BY <3>2, PageType DEF Write
    <3>3. CASE UNCHANGED vars
      BY <3>3, <1>1 DEF vars
    <3> QED  BY <1>1, <3>1, <3>2, <3>3 DEF Next, Terminated
  <2>3. ~GetFrame(page, write).pt[p].valid
    BY <1>1, <2>1, <2>2, Translated
  <2>4. store' = Backup(memory, store, p, pt[p].frame)
    BY <1>1, <2>1, <2>2, <2>3, UnsetIsSaved DEF Translate
  <2>5. p * PageSize + k \in DOMAIN store
    BY <2>1, AddressInPage DEF Stores, LogicalAddresses
  <2>6. (p * PageSize + k) \div PageSize = p /\ (p * PageSize + k) % PageSize = k
    BY <2>1, InPage
  <2> QED  BY <2>4, <2>5, <2>6 DEF Backup
<1>2. IInv /\ [Next]_vars =>
         [\A p \in modified :
             pt[p].valid /\ ~pt'[p].valid =>
               \A k \in 0 .. PageSize - 1 :
                  store'[p * PageSize + k] = memory[pt[p].frame * PageSize + k]]_vars
  BY <1>1
<1> QED  BY <1>2, Invariant, PTL DEF Spec, SavesModifiedPages
=============================================================================
