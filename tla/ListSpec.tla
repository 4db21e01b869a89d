------------------------------ MODULE ListSpec ------------------------------
(***************************************************************************)
(* What output/adlist.c promises: the list is a sequence of values, and an *)
(* iterator is the position of the next element it will return (0 once it  *)
(* has returned them all).  Elements may be added anywhere, and removed    *)
(* anywhere but under the iterator, without it skipping or repeating one.  *)
(***************************************************************************)
EXTENDS Integers, Sequences, SequencesExt

CONSTANT Value

VARIABLES
    elems,  \* the values, head first
    pos,    \* the element the iterator returns next; 0 when it is exhausted
    dir     \* "head" or "tail": where the iterator started

listSpecVars == <<elems, pos, dir>>

ListSpecInit == elems = <<>> /\ pos = 0 /\ dir = "head"

\* A new element at index i: what the iterator was about to return moves up.
Insert(i, value) ==
    /\ elems' = InsertAt(elems, i, value)
    /\ pos' = IF pos >= i THEN pos + 1 ELSE pos
    /\ UNCHANGED dir

Drop(i) ==
    /\ i # pos
    /\ elems' = RemoveAt(elems, i)
    /\ pos' = IF pos > i THEN pos - 1 ELSE pos
    /\ UNCHANGED dir

\* The whole list is given up, with no iterator open on it.
Clear == pos = 0 /\ elems' = <<>> /\ UNCHANGED <<pos, dir>>

\* The last element becomes the first one; the iterator stays on its element.
Rotate ==
    /\ elems' = <<Last(elems)>> \o Front(elems)
    /\ pos' = CASE pos = 0 -> 0 [] pos = Len(elems) -> 1 [] OTHER -> pos + 1
    /\ UNCHANGED dir

Rewind(d) ==
    /\ pos' = IF d = "tail" \/ elems = <<>> THEN Len(elems) ELSE 1
    /\ dir' = d
    /\ UNCHANGED elems

Advance ==
    /\ pos # 0
    /\ pos' = CASE dir = "tail" -> pos - 1
                [] pos = Len(elems) -> 0
                [] OTHER -> pos + 1
    /\ UNCHANGED <<elems, dir>>

ListSpecNext ==
    \/ Clear
    \/ Advance
    \/ \E d \in {"head", "tail"} : Rewind(d)
    \/ elems # <<>> /\ Rotate
    \/ \E i \in 1..Len(elems) : Drop(i)
    \/ \E i \in 1..(Len(elems) + 1), value \in Value : Insert(i, value)

ListSpecification == ListSpecInit /\ [][ListSpecNext]_listSpecVars
=============================================================================
