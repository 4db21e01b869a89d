------------------------------- MODULE UtHash -------------------------------
(***************************************************************************)
(* The hash table under the connection maps of the event manager           *)
(* (include/ev_mgr/uthash.h): elements linked in the order they were added *)
(* and, through hh_prev and hh_next, in the chain of their bucket; the     *)
(* number of buckets doubles when a chain gets too long.  An element is    *)
(* its key.  A key is added when it is not in the table: most callers ask  *)
(* HASH_FIND first; mgr_on_accept does not, but its key is a descriptor    *)
(* just handed out, whose last pair mgr_on_close has deleted.  One call at *)
(* a time is modelled: nothing locks the leader's maps, and what two       *)
(* threads inside one table do to it is not shown here.  The hash function *)
(* may be any element of HashFcns.                                         *)
(***************************************************************************)
EXTENDS Integers, Sequences, FiniteSets

CONSTANTS
    Key,                        \* positive numbers
    HASH_INITIAL_NUM_BUCKETS,   \* a power of 2
    HASH_BKT_CAPACITY_THRESH,
    HashFcns,                   \* functions from Key to hash values
    MaxBuckets                  \* bound: no key is added to a larger table

ASSUME UtHashAssumption ==
    /\ Key \subseteq Nat \ {0}
    /\ {HASH_INITIAL_NUM_BUCKETS, HASH_BKT_CAPACITY_THRESH} \subseteq Nat \ {0}
    /\ MaxBuckets \in Nat

VARIABLES
    hashv,  \* the hash function
    head,   \* the first element, or Nil
    tbl,    \* [buckets, num_buckets, num_items, tail, ineff_expands, noexpand]
    hh      \* key -> [prev, next, hh_prev, hh_next], or Out

utHashVars == <<hashv, head, tbl, hh>>

Nil == 0
Out == [out |-> TRUE]
NoTable == [none |-> TRUE]
Bucket(first, count, mult) == [hh_head |-> first, count |-> count, expand_mult |-> mult]
Buckets(n) == [b \in 0..(n - 1) |-> Bucket(Nil, 0, 0)]

HASH_TO_BKT(k, num_buckets) == hashv[k] % num_buckets

UtHashInit ==
    /\ hashv \in HashFcns
    /\ head = Nil
    /\ tbl = NoTable
    /\ hh = [k \in Key |-> Out]

\* The elements met from k on, in the chain of a bucket or in order of addition.
RECURSIVE Chain(_, _)
Chain(h, k) == IF k = Nil THEN <<>> ELSE <<k>> \o Chain(h, h[k].hh_next)
RECURSIVE Order(_, _, _)
Order(h, k, f) ==
    IF k = Nil THEN <<>> ELSE <<k>> \o Order(h, IF f = "next" THEN h[k].next ELSE h[k].prev, f)

-----------------------------------------------------------------------------

\* Put k at the head of its chain: [buckets, hh] afterwards.
PushHead(buckets, h, b, k) ==
    LET first == buckets[b].hh_head
        linked == [h EXCEPT ![k].hh_prev = Nil, ![k].hh_next = first]
    IN  [buckets |-> [buckets EXCEPT ![b].hh_head = k, ![b].count = @ + 1],
         hh |-> IF first = Nil THEN linked ELSE [linked EXCEPT ![first].hh_prev = k]]

\* The loop of HASH_EXPAND_BUCKETS over the elements of all old chains.
RECURSIVE Redistribute(_, _, _)
Redistribute(s, keys, ideal) ==
    IF keys = <<>> THEN s
    ELSE LET k == Head(keys)
             b == HASH_TO_BKT(k, Cardinality(DOMAIN s.buckets))
             pushed == PushHead(s.buckets, s.hh, b, k)
             count == pushed.buckets[b].count
         IN  Redistribute(
               IF count > ideal
               THEN [buckets |-> [pushed.buckets EXCEPT ![b].expand_mult = count \div ideal],
                     hh |-> pushed.hh, nonideal |-> s.nonideal + 1]
               ELSE [buckets |-> pushed.buckets, hh |-> pushed.hh, nonideal |-> s.nonideal],
               Tail(keys), ideal)

RECURSIVE Chains(_, _, _)
Chains(t, h, b) ==
    IF b = t.num_buckets THEN <<>> ELSE Chain(h, t.buckets[b].hh_head) \o Chains(t, h, b + 1)

\* Mutant: the number of buckets is not doubled with the buckets.
ExpandKeepsCount(t, h) ==
    LET moved == Redistribute([buckets |-> Buckets(2 * t.num_buckets), hh |-> h, nonideal |-> 0],
                              Chains(t, h, 0), t.num_items)
    IN  [tbl |-> [t EXCEPT !.buckets = moved.buckets], hh |-> moved.hh]

HASH_EXPAND_BUCKETS(t, h) ==
    LET twice == 2 * t.num_buckets
        ideal == (t.num_items \div twice) + (IF t.num_items % twice = 0 THEN 0 ELSE 1)
        moved == Redistribute([buckets |-> Buckets(twice), hh |-> h, nonideal |-> 0],
                              Chains(t, h, 0), ideal)
        ineff == IF moved.nonideal > t.num_items \div 2 THEN t.ineff_expands + 1 ELSE 0
    IN  [tbl |-> [t EXCEPT !.buckets = moved.buckets, !.num_buckets = twice,
                           !.ineff_expands = ineff, !.noexpand = @ \/ ineff > 1],
         hh |-> moved.hh]

HASH_ADD_TO_BKT(t, h, k) ==
    LET b == HASH_TO_BKT(k, t.num_buckets)
        pushed == PushHead(t.buckets, h, b, k)
        added == [t EXCEPT !.buckets = pushed.buckets]
        bkt == pushed.buckets[b]
    IN  IF bkt.count >= (bkt.expand_mult + 1) * HASH_BKT_CAPACITY_THRESH /\ ~t.noexpand
        THEN HASH_EXPAND_BUCKETS(added, pushed.hh)
        ELSE [tbl |-> added, hh |-> pushed.hh]

HASH_MAKE_TABLE(k) ==
    [buckets |-> Buckets(HASH_INITIAL_NUM_BUCKETS), num_buckets |-> HASH_INITIAL_NUM_BUCKETS,
     num_items |-> 0, tail |-> k, ineff_expands |-> 0, noexpand |-> FALSE]

HASH_ADD(k) ==
    LET t == IF head = Nil THEN HASH_MAKE_TABLE(k) ELSE tbl
        handle == [prev |-> IF head = Nil THEN Nil ELSE t.tail, next |-> Nil,
                   hh_prev |-> Nil, hh_next |-> Nil]
        linked == [x \in Key |-> CASE x = k -> handle
                                   [] head # Nil /\ x = t.tail -> [hh[x] EXCEPT !.next = k]
                                   [] OTHER -> hh[x]]
        new == HASH_ADD_TO_BKT([t EXCEPT !.tail = k, !.num_items = @ + 1], linked, k)
    IN  /\ hh[k] = Out
        /\ head # Nil => tbl.num_buckets <= MaxBuckets
        /\ head' = IF head = Nil THEN k ELSE head
        /\ tbl' = new.tbl /\ hh' = new.hh
        /\ UNCHANGED hashv

\* Mutant: the count of the chain stays.
DelKeepsCount(t, b, k) == [t EXCEPT !.buckets[b].hh_head = IF @ = k THEN hh[k].hh_next ELSE @]

HASH_DEL_IN_BKT(t, b, k) ==
    [t EXCEPT !.buckets[b].count = @ - 1,
              !.buckets[b].hh_head = IF @ = k THEN hh[k].hh_next ELSE @]

\* The last element takes the table with it.
HASH_DELETE(k) ==
    LET d == hh[k]
        cut(x) == [prev |-> IF x = d.next THEN d.prev ELSE hh[x].prev,
                   next |-> IF x = d.prev THEN d.next ELSE hh[x].next,
                   hh_prev |-> IF x = d.hh_next THEN d.hh_prev ELSE hh[x].hh_prev,
                   hh_next |-> IF x = d.hh_prev THEN d.hh_next ELSE hh[x].hh_next]
        less == HASH_DEL_IN_BKT(tbl, HASH_TO_BKT(k, tbl.num_buckets), k)
    IN  /\ d # Out
        /\ hh' = [x \in Key |-> IF x = k \/ hh[x] = Out THEN Out ELSE cut(x)]
        /\ IF d.prev = Nil /\ d.next = Nil
           THEN head' = Nil /\ tbl' = NoTable
           ELSE /\ head' = IF d.prev = Nil THEN d.next ELSE head
                /\ tbl' = [less EXCEPT !.tail = IF @ = k THEN d.prev ELSE @,
                                       !.num_items = @ - 1]
        /\ UNCHANGED hashv

UtHashNext == \E k \in Key : HASH_ADD(k) \/ HASH_DELETE(k)

UtHashSpec == UtHashInit /\ [][UtHashNext]_utHashVars

-----------------------------------------------------------------------------

\* The element found, or Nil.
HASH_FIND(k) ==
    IF head = Nil THEN Nil
    ELSE LET chain == Chain(hh, tbl.buckets[HASH_TO_BKT(k, tbl.num_buckets)].hh_head)
         IN  IF \E i \in DOMAIN chain : chain[i] = k THEN k ELSE Nil

HASH_COUNT == IF head = Nil THEN 0 ELSE tbl.num_items

-----------------------------------------------------------------------------

\* An element is found exactly while it is in the table, through deletions and
\* across the doublings that move it to another bucket, and HASH_COUNT, on which
\* check_point_condtion decides, is the number of elements.
FindsWhatWasAdded ==
    /\ \A k \in Key : (HASH_FIND(k) = k) <=> (hh[k] # Out)
    /\ HASH_COUNT = Cardinality({k \in Key : hh[k] # Out})

\* What HASH_FSCK tests after every addition and deletion in a build with
\* HASH_DEBUG: chains linked in both directions, as long as their count says and
\* num_items long together; the order of addition linked in both directions.
HASH_FSCK ==
    head # Nil =>
      LET order == Order(hh, head, "next")
          chain(b) == Chain(hh, tbl.buckets[b].hh_head)
          back(s, k, prev) == prev = IF k = 1 THEN Nil ELSE s[k - 1]
      IN  /\ \A b \in DOMAIN tbl.buckets :
                /\ tbl.buckets[b].count = Len(chain(b))
                /\ \A k \in DOMAIN chain(b) : back(chain(b), k, hh[chain(b)[k]].hh_prev)
          /\ Len(Chains(tbl, hh, 0)) = tbl.num_items
          /\ Len(order) = tbl.num_items
          /\ \A k \in DOMAIN order : back(order, k, hh[order[k]].prev)
          /\ tbl.tail = order[Len(order)]
=============================================================================
