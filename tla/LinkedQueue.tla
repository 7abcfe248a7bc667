---------------------------- MODULE LinkedQueue -----------------------------
(***************************************************************************)
(* One level of the ready queue of tp2 as ready_queue.c stores it: a       *)
(* doubly linked list of nodes, `next` leading from the tail to the head   *)
(* and `prev` from the head to the tail, and a separate size.  Each action *)
(* is one critical section of queue_mutex[priority].                       *)
(***************************************************************************)
EXTENDS ReadyQueue, FiniteSets

CONSTANTS
    Process, NULL, Key,   \* as in ListSpec
    Node,                 \* the nodes malloc can return
    Nil                   \* the null pointer

ASSUME LinkedAssumption ==
    /\ NULL \notin Process
    /\ Nil \notin Node
    /\ Key \in [Process -> Nat]

VARIABLES
    head, tail, size,   \* queue->head[i], tail[i], size[i]
    proc,               \* node->process of the allocated nodes
    next, prev,         \* node->next and node->prev
    fifo                \* whether priority is MAX_PRIORITY_LEVEL

vars == << head, tail, size, proc, next, prev, fifo >>

Allocated == DOMAIN proc

Init == /\ head = Nil
        /\ tail = Nil
        /\ size = 0
        /\ proc = [n \in {} |-> NULL]
        /\ next = [n \in {} |-> Nil]
        /\ prev = [n \in {} |-> Nil]
        /\ fifo \in BOOLEAN

\* f with the value of n set, when n is a node (the code tests for NULL).
Set(f, n, x) == IF n = Nil THEN f ELSE [f EXCEPT ![n] = x]

\* malloc of a node that holds x.
Extend(f, n, x) == [m \in DOMAIN f \union {n} |-> IF m = n THEN x ELSE f[m]]
Shrink(f, n) == [m \in DOMAIN f \ {n} |-> f[m]]

Push(n, x) ==
    /\ n \in Node \ Allocated
    /\ size' = size + 1
    /\ proc' = Extend(proc, n, x)

\* Fault: prev of the new node is left uninitialised.
LinkWithoutPrev(n, x) ==
    /\ Push(n, x)
    /\ next' = Extend(next, n, tail)
    /\ prev' = Set(prev, tail, n)
    /\ head' = IF tail = Nil THEN n ELSE head
    /\ tail' = n

\* Fault: the old tail is not linked back to the new one.
LinkOneWay(n, x) ==
    /\ Push(n, x)
    /\ next' = Extend(next, n, tail)
    /\ prev' = Extend(prev, n, Nil)
    /\ head' = IF tail = Nil THEN n ELSE head
    /\ tail' = n

\* The branch of the pills and of level 0.
LinkAtTail(n, x) ==
    /\ Push(n, x)
    /\ next' = Extend(next, n, tail)
    /\ prev' = Extend(Set(prev, tail, n), n, Nil)
    /\ head' = IF tail = Nil THEN n ELSE head
    /\ tail' = n

\* The walks that start at a node and follow the links, of any number of nodes.
Paths(first, link) ==
    {path \in UNION {[1 .. k -> DOMAIN link] : k \in 0 .. Cardinality(DOMAIN link)} :
        \A i \in DOMAIN path :
           path[i] = (IF i = 1 THEN first ELSE link[path[i - 1]])}

\* The walk of the ordered push: the nodes from the tail that it passes, all
\* of them with a key at least that of the new process.
PathFromTail == Paths(tail, next)

WalkedBy(p) ==
    CHOOSE path \in PathFromTail :
        LET last == IF path = << >> THEN Nil ELSE path[Len(path)]
            current == IF path = << >> THEN tail ELSE next[last]
        IN /\ \A i \in DOMAIN path : Key[proc[path[i]]] >= Key[p]
           /\ current = Nil \/ Key[proc[current]] < Key[p]

\* Fault: the branch of the ordered push is gone.
LinkUnordered(n, p) == LinkAtTail(n, p)

LinkOrdered(n, p) ==
    LET path == WalkedBy(p)
        before == IF path = << >> THEN Nil ELSE path[Len(path)]
        current == IF path = << >> THEN tail ELSE next[before]
    IN
    /\ Push(n, p)
    /\ next' = Extend(Set(next, before, n), n, current)
    /\ prev' = Extend(Set(prev, current, n), n, before)
    /\ tail' = IF before = Nil THEN n ELSE tail
    /\ head' = IF current = Nil THEN n ELSE head

\* ready_queue_push.  The ordered walk reads the key of every node it visits,
\* so a process is pushed to such a level only while it has no pill.
PushProcess(p) ==
    \E n \in Node :
        IF fifo THEN LinkAtTail(n, p)
        ELSE /\ \A m \in Allocated : proc[m] # NULL
             /\ LinkOrdered(n, p)

\* Pills go to PillLevel, never to level 0.
PushPill == ~fifo /\ \E n \in Node : LinkAtTail(n, NULL)

\* ready_queue_pop, once it chose this level.
Pop ==
    /\ size > 0
    /\ size' = size - 1
    /\ head # Nil
    /\ LET below == prev[head] IN
       /\ head' = below
       /\ tail' = IF below = Nil THEN Nil ELSE tail
       /\ next' = Shrink(Set(next, below, Nil), head)
       /\ prev' = Shrink(prev, head)
       /\ proc' = Shrink(proc, head)

\* ready_queue_remove of a process that is in the list: the walk from the
\* tail stops at the first node that holds it.
RemoveProcess(p) ==
    \E path \in PathFromTail :
        LET current == path[Len(path)]
            before == IF Len(path) = 1 THEN Nil ELSE path[Len(path) - 1]
            after == next[current]
        IN
        /\ path # << >>
        /\ proc[current] = p
        /\ \A i \in 1 .. Len(path) - 1 : proc[path[i]] # p
        /\ tail' = IF before = Nil THEN after ELSE tail
        /\ head' = IF after = Nil THEN prev[current] ELSE head
        /\ next' = Shrink(Set(next, before, after), current)
        /\ prev' = Shrink(Set(prev, after, before), current)
        /\ proc' = Shrink(proc, current)
        /\ size' = size - 1

Next == /\ PushPill \/ Pop \/ \E p \in Process : PushProcess(p) \/ RemoveProcess(p)
        /\ UNCHANGED fifo

Spec == Init /\ [][Next]_vars

-----------------------------------------------------------------------------
(***************************************************************************)
(* Properties.                                                             *)
(***************************************************************************)
TypeOK ==
    /\ head \in Node \union {Nil}
    /\ tail \in Node \union {Nil}
    /\ size \in Nat
    /\ Allocated \subseteq Node
    /\ proc \in [Allocated -> Process \union {NULL}]
    /\ next \in [Allocated -> Node \union {Nil}]
    /\ prev \in [Allocated -> Node \union {Nil}]
    /\ fifo \in BOOLEAN

\* The nodes from the head, along prev: the longest walk.
NodesFromHead ==
    CHOOSE path \in Paths(head, prev) :
        \A other \in Paths(head, prev) : Len(other) <= Len(path)

\* The two chains are mirror images and end in head and tail, no node is
\* dropped or freed while linked, and size is the number of nodes: a pop that
\* saw size > 0 finds a head.
WellLinked ==
    LET nodes == NodesFromHead IN
    /\ ToSet(nodes) = Allocated
    /\ Len(nodes) = size
    /\ Cardinality(Allocated) = size
    /\ \A i \in 1 .. size : next[nodes[i]] = IF i = 1 THEN Nil ELSE nodes[i - 1]
    /\ tail = IF size = 0 THEN Nil ELSE nodes[size]

\* A level other than 0 is popped by increasing key.
PopsShortestFirst ==
    LET nodes == NodesFromHead IN
    ~fifo => \A i, j \in 1 .. size :
                LET a == proc[nodes[i]]
                    b == proc[nodes[j]]
                IN i < j /\ a # NULL /\ b # NULL => Key[a] <= Key[b]

\* The linked list implements the list of ListSpec.
List == INSTANCE ListSpec WITH
            list <- LET nodes == NodesFromHead
                    IN [i \in DOMAIN nodes |-> proc[nodes[i]]]
ImplementsList == List!Spec
=============================================================================
