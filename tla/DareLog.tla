------------------------------ MODULE DareLog ------------------------------
(***************************************************************************)
(* The log as a ring of bytes (include/rdma/dare_log.h) under its two      *)
(* users: leader_handle_submit_req, which places entries and posts them,    *)
(* and handle_accept_req, which looks for the next entry at "end" of a      *)
(* replica.  Consensus numbers the entries; this module is about the        *)
(* offsets behind the numbers.  A cell of memory stands for some bytes of   *)
(* an entry, and the last cell for DUMMY_END.                               *)
(***************************************************************************)
EXTENDS Naturals, Sequences, FiniteSets

CONSTANTS LogLen,      \* log->len
          Header,      \* sizeof(dare_log_entry_t)
          DataSizes,   \* data_size of an entry, DUMMY_END included
          InlineMax,   \* rc_max_inline_data
          MaxEntry,    \* bound: entries added
          MaxReset     \* bound: times the replica comes back with a new log

ASSUME DareLogAssumption ==
    /\ Header \in Nat \ {0} /\ LogLen \in Nat /\ LogLen > Header
    /\ DataSizes \subseteq Nat \ {0}
    /\ {InlineMax, MaxEntry, MaxReset} \subseteq Nat

VARIABLES logEnd,     \* end of the leader's log
          logTail,    \* tail of the leader's log
          added,      \* added[n]: where entry n was put, announced, and its length
          posted,     \* writes to the replica that have not landed completely
          qpError,    \* the queue pair to the replica is in the error state
          memory,     \* the entries[] of the replica: what was last written to a cell
          repEnd,     \* end of the replica's log
          taken,      \* the entries the replica took, in order
          resets

logVars == <<logEnd, logTail, added, posted, qpError, memory, repEnd, taken, resets>>

Cells == 0 .. LogLen - 1
Zero == [entry |-> 0, cell |-> 0]

is_log_empty(end) == end = LogLen
\* The difference is unsigned: past the end of the ring there is always room.
log_fit_entry_header(offset) == offset > LogLen \/ LogLen - offset >= Header
log_add_new_entry(end) == IF is_log_empty(end) THEN 0 ELSE end
log_get_entry(offset) == IF log_fit_entry_header(offset) THEN offset ELSE 0
log_entry_len(data_size) == Header + data_size

\* log_new
DareLogInit ==
    /\ logEnd = LogLen /\ logTail = LogLen /\ added = <<>>
    /\ posted = {} /\ qpError = FALSE
    /\ memory = [c \in Cells |-> Zero] /\ repEnd = LogLen
    /\ taken = <<>> /\ resets = 0

\* The part of leader_handle_submit_req that finds room for an entry, and its
\* post_send: the entry lies at "place" and is written to the offset "tail".
AddEntry(data_size) ==
    LET start == IF log_fit_entry_header(logEnd) THEN logEnd ELSE 0
        entry == [place |-> log_add_new_entry(logEnd), tail |-> start,
                  len |-> log_entry_len(data_size)]
    IN  /\ Len(added) < MaxEntry
        /\ logTail' = start
        /\ logEnd' = start + entry.len
        /\ added' = Append(added, entry)
        /\ posted' = posted \cup {[entry |-> Len(added) + 1, from |-> 0]}
        /\ UNCHANGED <<qpError, memory, repEnd, taken, resets>>

\* The device checks a write against the memory regions of both sides; the local
\* one is not used for inline data.
InRegion(e) == e.tail + e.len <= LogLen /\ (e.len <= InlineMax \/ e.place + e.len <= LogLen)

\* A write lands from its first to its last byte; writes overtake each other,
\* because threads post them outside of the lock.
LandPart(w, n) ==
    LET e == added[w.entry]
    IN  /\ ~qpError /\ InRegion(e)
        /\ n \in w.from + 1 .. e.len
        /\ memory' = [c \in Cells |->
                        IF c >= e.tail + w.from /\ c < e.tail + n
                        THEN [entry |-> w.entry, cell |-> c - e.tail + 1] ELSE memory[c]]
        /\ posted' = (posted \ {w}) \cup (IF n = e.len THEN {} ELSE {[w EXCEPT !.from = n]})
        /\ UNCHANGED <<logEnd, logTail, added, qpError, repEnd, taken, resets>>

\* A write outside of the regions is refused and nothing is sent any more.
WriteRefused(w) ==
    /\ ~qpError /\ ~InRegion(added[w.entry])
    /\ qpError' = TRUE /\ posted' = {}
    /\ UNCHANGED <<logEnd, logTail, added, memory, repEnd, taken, resets>>

\* What lies at an offset; past the ring there is memory of others.
Foreign == [entry |-> 0, cell |-> 1]
CellAt(offset) == IF offset \in Cells THEN memory[offset] ELSE Foreign

\* What handle_accept_req reads as data_size, the last cell of the header: 0 where
\* nothing was written, any size where the bytes are not those of a header.
SizeRead(c) ==
    IF c = Zero THEN {0}
    ELSE IF c # Foreign /\ c.cell = Header THEN {added[c.entry].len - Header}
    ELSE DataSizes \cup {0}

\* What *dummy == DUMMY_END can be: other bytes of an entry, and bytes past the
\* ring, may happen to be equal to DUMMY_END.
EndRead(offset) ==
    LET c == CellAt(offset)
    IN  IF c = Zero THEN {FALSE}
        ELSE IF c # Foreign /\ c.cell = added[c.entry].len THEN {TRUE} ELSE BOOLEAN

\* What lies at an offset is one entry as the leader wrote it.
Whole(offset, len) ==
    \A c \in 1 .. len :
        /\ offset + c - 1 \in Cells
        /\ memory[offset + c - 1] = [entry |-> CellAt(offset).entry, cell |-> c]

\* Mutant of TakeEntry: DUMMY_END is not looked for.
TakeEntryAtOnce ==
    LET offset == log_get_entry(repEnd)
        first == CellAt(offset + Header - 1)
    IN  \E data_size \in SizeRead(first) \ {0} :
            LET len == log_entry_len(data_size)
            IN  /\ Len(taken) < MaxEntry
                /\ repEnd' = offset + len
                /\ taken' = Append(taken, [entry |-> first.entry, whole |-> Whole(offset, len)])
                /\ UNCHANGED <<logEnd, logTail, added, posted, qpError, memory, resets>>

\* Mutant of TakeEntry: the header is not counted.
TakeEntryShort ==
    LET offset == log_get_entry(repEnd)
        first == CellAt(offset + Header - 1)
    IN  \E data_size \in SizeRead(first) \ {0} :
            LET len == log_entry_len(data_size)
            IN  /\ Len(taken) < MaxEntry
                /\ TRUE \in EndRead(offset + len - 1)
                /\ repEnd' = offset + data_size
                /\ taken' = Append(taken, [entry |-> first.entry, whole |-> Whole(offset, len)])
                /\ UNCHANGED <<logEnd, logTail, added, posted, qpError, memory, resets>>

\* One entry in handle_accept_req.
TakeEntry ==
    LET offset == log_get_entry(repEnd)
        first == CellAt(offset + Header - 1)
    IN  \E data_size \in SizeRead(first) \ {0} :
            LET len == log_entry_len(data_size)
            IN  /\ Len(taken) < MaxEntry
                /\ TRUE \in EndRead(offset + len - 1)
                /\ repEnd' = offset + len
                /\ taken' = Append(taken, [entry |-> first.entry, whole |-> Whole(offset, len)])
                /\ UNCHANGED <<logEnd, logTail, added, posted, qpError, memory, resets>>

\* handle_accept_req finds no entry; log_get_entry may already have reset end.
NoNewEntry ==
    LET offset == log_get_entry(repEnd)
    IN  /\ \E data_size \in SizeRead(CellAt(offset + Header - 1)) :
             data_size = 0 \/ FALSE \in EndRead(offset + log_entry_len(data_size) - 1)
        /\ repEnd' = offset
        /\ UNCHANGED <<logEnd, logTail, added, posted, qpError, memory, taken, resets>>

\* The replica comes back from a checkpoint: launch_rdma makes a new log, and the
\* writes under way are lost.
NewLog ==
    /\ resets < MaxReset
    /\ resets' = resets + 1
    /\ memory' = [c \in Cells |-> Zero] /\ repEnd' = LogLen
    /\ posted' = {} /\ qpError' = FALSE
    /\ UNCHANGED <<logEnd, logTail, added, taken>>

DareLogNext ==
    \/ \E data_size \in DataSizes : AddEntry(data_size)
    \/ \E w \in posted : WriteRefused(w) \/ \E n \in 1 .. added[w.entry].len : LandPart(w, n)
    \/ TakeEntry \/ NoNewEntry
    \/ NewLog

DareLogSpec == DareLogInit /\ [][DareLogNext]_logVars

-----------------------------------------------------------------------------
(* Properties *)

InOrder == \A k \in 1 .. Len(taken) : taken[k].entry = k
FirstLap ==
    /\ \A n \in 2 .. Len(added) : added[n].tail > 0
    /\ added # <<>> => log_fit_entry_header(logEnd)

\* While there is room in the leader's first lap, a replica takes the entries one after the
\* other, each once and complete, whatever order their bytes land in; one that came
\* back with a new log takes nothing wrong.
TakesInOrder == FirstLap => InOrder /\ \A k \in 1 .. Len(taken) : taken[k].whole

\* The two sides advance through the ring by the same rule: a replica that took the
\* first k entries looks for the next one where the leader puts it, also where the
\* ring starts again.  This is what lets Consensus number the offsets.
SameOffsets ==
    LET k == Len(taken)
    IN  resets = 0 /\ InOrder /\ k \in 1 .. Len(added) - 1 =>
            log_get_entry(repEnd) = added[k + 1].tail

\* "tail: offset of the last entry" (dare_log.h:49): the leader fills the entry, and
\* waits for its acks, where tail says that it is.
TailIsLastEntry == added # <<>> => added[Len(added)].place = logTail
=============================================================================
