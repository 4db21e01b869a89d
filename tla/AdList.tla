------------------------------- MODULE AdList -------------------------------
(***************************************************************************)
(* The doubly linked list of output/adlist.c that keeps the output hashes  *)
(* of a connection: heap cells with prev and next pointers, a list header  *)
(* with head, tail and len, an iterator that caches the next cell, and the *)
(* copy a listDup makes.  A cell is taken from a pool of PoolSize; zmalloc *)
(* may return NULL at any call, which ends the operation without effect,   *)
(* except where listDup and listSearchKey use the iterator they asked for  *)
(* without a look at it: listNext then reads through NULL.                 *)
(* A value is the pointer a cell holds: what the dup, free and match        *)
(* methods do with the memory behind it is not modelled.                    *)
(***************************************************************************)
EXTENDS Integers, Sequences, FiniteSets

CONSTANTS PoolSize, Value

ASSUME AdListAssumption == PoolSize \in Nat \ {0}

VARIABLES
    heap,   \* cell -> [prev, next, value], or Free
    lst,    \* the list header: [head, tail, len]
    copy,   \* the header of the last listDup, or NoList
    iter,   \* [next, direction]
    faulted \* listNext has read through NULL

adListVars == <<heap, lst, copy, iter, faulted>>

NULL == 0
Cells == 1..PoolSize
Free == [free |-> TRUE]
NoList == [none |-> TRUE]
listCreate == [head |-> NULL, tail |-> NULL, len |-> 0]
listNode(prev, next, value) == [prev |-> prev, next |-> next, value |-> value]

FreeCells(h) == {c \in Cells : h[c] = Free}
zmalloc(h) == CHOOSE c \in FreeCells(h) : \A d \in FreeCells(h) : c <= d

\* The cells met from cell c on, along next or along prev.
RECURSIVE Walk(_, _, _)
Walk(h, c, f) ==
    IF c = NULL THEN <<>>
    ELSE <<c>> \o Walk(h, IF f = "next" THEN h[c].next ELSE h[c].prev, f)

AdListInit ==
    /\ heap = [c \in Cells |-> Free]
    /\ lst = listCreate
    /\ copy = NoList
    /\ iter = [next |-> NULL, direction |-> "head"]
    /\ faulted = FALSE

-----------------------------------------------------------------------------

(* The list and heap after the addition of a new cell.                     *)

\* Mutant: the old head does not point back.
AddHeadOneWay(l, h, node, value) ==
    IF l.len = 0
    THEN [l |-> [head |-> node, tail |-> node, len |-> 1],
          h |-> [h EXCEPT ![node] = listNode(NULL, NULL, value)]]
    ELSE [l |-> [l EXCEPT !.head = node, !.len = @ + 1],
          h |-> [h EXCEPT ![node] = listNode(NULL, l.head, value)]]

AddHead(l, h, node, value) ==
    IF l.len = 0
    THEN [l |-> [head |-> node, tail |-> node, len |-> 1],
          h |-> [h EXCEPT ![node] = listNode(NULL, NULL, value)]]
    ELSE [l |-> [l EXCEPT !.head = node, !.len = @ + 1],
          h |-> [h EXCEPT ![l.head].prev = node,
                          ![node] = listNode(NULL, l.head, value)]]

AddTail(l, h, node, value) ==
    IF l.len = 0
    THEN [l |-> [head |-> node, tail |-> node, len |-> 1],
          h |-> [h EXCEPT ![node] = listNode(NULL, NULL, value)]]
    ELSE [l |-> [l EXCEPT !.tail = node, !.len = @ + 1],
          h |-> [h EXCEPT ![l.tail].next = node,
                          ![node] = listNode(l.tail, NULL, value)]]

listAddNodeHead(value) ==
    /\ FreeCells(heap) # {}
    /\ LET new == AddHead(lst, heap, zmalloc(heap), value)
       IN  lst' = new.l /\ heap' = new.h
    /\ UNCHANGED <<copy, iter, faulted>>

listAddNodeTail(value) ==
    /\ FreeCells(heap) # {}
    /\ LET new == AddTail(lst, heap, zmalloc(heap), value)
       IN  lst' = new.l /\ heap' = new.h
    /\ UNCHANGED <<copy, iter, faulted>>

listInsertNode(old_node, value, after) ==
    /\ FreeCells(heap) # {}
    /\ LET node == zmalloc(heap)
           prev == IF after THEN old_node ELSE heap[old_node].prev
           next == IF after THEN heap[old_node].next ELSE old_node
       IN  /\ heap' = [c \in Cells |->
                 CASE c = node -> listNode(prev, next, value)
                   [] c = prev -> [heap[c] EXCEPT !.next = node]
                   [] c = next -> [heap[c] EXCEPT !.prev = node]
                   [] OTHER -> heap[c]]
           /\ lst' = [head |-> IF ~after /\ lst.head = old_node THEN node ELSE lst.head,
                      tail |-> IF after /\ lst.tail = old_node THEN node ELSE lst.tail,
                      len |-> lst.len + 1]
    /\ UNCHANGED <<copy, iter, faulted>>

\* The cell the iterator would return next may not be removed.
listDelNode(node) ==
    /\ node # iter.next
    /\ LET prev == heap[node].prev
           next == heap[node].next
       IN  /\ heap' = [c \in Cells |->
                 CASE c = node -> Free
                   [] c = prev -> [heap[c] EXCEPT !.next = next]
                   [] c = next -> [heap[c] EXCEPT !.prev = prev]
                   [] OTHER -> heap[c]]
           /\ lst' = [head |-> IF prev = NULL THEN next ELSE lst.head,
                      tail |-> IF next = NULL THEN prev ELSE lst.tail,
                      len |-> lst.len - 1]
    /\ UNCHANGED <<copy, iter, faulted>>

listRotate ==
    /\ lst.len > 1
    /\ LET tail == lst.tail
           last == heap[tail].prev
           cut == [heap EXCEPT ![last].next = NULL]
       IN  /\ heap' = [[cut EXCEPT ![lst.head].prev = tail]
                         EXCEPT ![tail].prev = NULL, ![tail].next = lst.head]
           /\ lst' = [lst EXCEPT !.head = tail, !.tail = last]
    /\ UNCHANGED <<copy, iter, faulted>>

\* listGetIterator, listRewind and listRewindTail.
listGetIterator(direction) ==
    /\ iter' = [next |-> IF direction = "head" THEN lst.head ELSE lst.tail,
                direction |-> direction]
    /\ UNCHANGED <<heap, lst, copy, faulted>>

\* Mutant: the direction is not looked at.
listNext_Forward ==
    /\ iter.next # NULL
    /\ iter' = [iter EXCEPT !.next = heap[@].next]
    /\ UNCHANGED <<heap, lst, copy, faulted>>

listNext ==
    /\ iter.next # NULL
    /\ iter' = [iter EXCEPT !.next = IF iter.direction = "head"
                                     THEN heap[@].next ELSE heap[@].prev]
    /\ UNCHANGED <<heap, lst, copy, faulted>>

\* The cells of a list, as listRelease meets them: len of them from the head.
Released(l, h) == LET cells == Walk(h, l.head, "next") IN {cells[k] : k \in 1..l.len}

\* Mutant: the last cell is not freed.
FreeListButLast(l, h) ==
    LET gone == Released(l, h) \ {l.tail} IN [n \in Cells |-> IF n \in gone THEN Free ELSE h[n]]

FreeList(l, h) ==
    LET gone == Released(l, h) IN [n \in Cells |-> IF n \in gone THEN Free ELSE h[n]]

\* Copy cell after cell; when zmalloc fails at some cell, the part that was
\* copied is released and the caller gets NULL.  The iterator is not checked.
listDup ==
    /\ copy = NoList
    /\ LET orig == Walk(heap, lst.head, "next")
           dup[k \in 0..Len(orig)] ==
             IF k = 0 THEN [l |-> listCreate, h |-> heap]
             ELSE LET c == dup[k - 1]
                  IN  AddTail(c.l, c.h, zmalloc(c.h), heap[orig[k]].value)
       IN  \/ /\ Cardinality(FreeCells(heap)) >= lst.len
              /\ copy' = dup[lst.len].l
              /\ heap' = dup[lst.len].h
              /\ UNCHANGED faulted
           \/ \E k \in 0..(lst.len - 1) :
                 /\ Cardinality(FreeCells(heap)) >= k
                 /\ heap' = FreeList(dup[k].l, dup[k].h)
                 /\ UNCHANGED <<copy, faulted>>
           \/ faulted' = TRUE /\ UNCHANGED <<heap, copy>>
    /\ UNCHANGED <<lst, iter>>

\* A search changes nothing, unless zmalloc has no memory for its iterator.
listSearchKey == faulted' = TRUE /\ UNCHANGED <<heap, lst, copy, iter>>

\* The list is released with no iterator open, and a new one created.
listRelease ==
    /\ iter.next = NULL
    /\ heap' = FreeList(lst, heap)
    /\ lst' = listCreate
    /\ UNCHANGED <<copy, iter, faulted>>

listReleaseCopy ==
    /\ copy # NoList
    /\ heap' = FreeList(copy, heap)
    /\ copy' = NoList
    /\ UNCHANGED <<lst, iter, faulted>>

AdListNext ==
    /\ ~faulted
    /\ \/ \E value \in Value : listAddNodeHead(value) \/ listAddNodeTail(value)
       \/ \E node \in Released(lst, heap), value \in Value, after \in BOOLEAN :
             listInsertNode(node, value, after)
       \/ \E node \in Released(lst, heap) : listDelNode(node)
       \/ listRotate
       \/ \E direction \in {"head", "tail"} : listGetIterator(direction)
       \/ listNext
       \/ listDup \/ listSearchKey
       \/ listRelease
       \/ listReleaseCopy

AdListSpec == AdListInit /\ [][AdListNext]_adListVars

-----------------------------------------------------------------------------

\* The cell at an index counted from the head, or from the tail if negative.
listIndex(index) ==
    LET cells == IF index < 0 THEN Walk(heap, lst.tail, "prev")
                              ELSE Walk(heap, lst.head, "next")
        steps == IF index < 0 THEN (-index) - 1 ELSE index
    IN  IF steps < Len(cells) THEN cells[steps + 1] ELSE NULL

-----------------------------------------------------------------------------

Forward == Walk(heap, lst.head, "next")

Position(c) ==
    LET cells == Forward
    IN  IF c = NULL THEN 0 ELSE CHOOSE k \in 1..Len(cells) : cells[k] = c

Abstract == INSTANCE ListSpec WITH
    elems <- LET cells == Forward IN [k \in 1..Len(cells) |-> heap[cells[k]].value],
    pos <- Position(iter.next),
    dir <- iter.direction

\* The linked cells behave as the sequence of ListSpec: every operation on
\* head, tail, prev and next does to the values met from the head, and to the
\* element an open iterator returns next, what the operation promises.
ImplementsList == Abstract!ListSpecification

\* The two directions agree: the cells met from the tail along prev are those
\* met from the head along next, reversed, len of them, and counting from
\* either end with listIndex meets the same cells.
BothWays ==
    /\ LET cells == Forward
       IN  /\ Len(cells) = lst.len
           /\ \A k \in 1..lst.len :
                 listIndex(k - 1) = cells[k] /\ listIndex(k - 1 - lst.len) = cells[k]
    /\ listIndex(lst.len) = NULL /\ listIndex(-lst.len - 1) = NULL

\* No cell leaks and none is shared: the cells in use are those of the list
\* and those of the copy, whether a listDup succeeded or ran out of memory
\* at one of its cells.
NoCellLost ==
    LET own == Released(lst, heap)
        dup == IF copy = NoList THEN {} ELSE Released(copy, heap)
    IN  own \cap dup = {} /\ own \cup dup = Cells \ FreeCells(heap)
=============================================================================
