--------------------------- MODULE DareLogProofs ---------------------------
(***************************************************************************)
(* Proofs about DareLog, for any length of the ring, any sizes of header   *)
(* and data and any number of entries and of new logs.                     *)
(***************************************************************************)
EXTENDS DareLog, Integers, SequenceTheorems, TLAPS

EntryType == [place : Nat, tail : Nat, len : Nat]

LogType ==
    /\ added \in Seq(EntryType) /\ logEnd \in Nat /\ repEnd \in Nat /\ resets \in Nat
    /\ \A n \in 1 .. Len(added) : added[n].len > Header
    /\ posted \subseteq [entry : 1 .. Len(added), from : Nat]
    /\ memory \in [Cells -> [entry : Nat, cell : Nat]]
    /\ taken \in Seq([entry : Nat, whole : BOOLEAN])

EntryEnd(n) == added[n].tail + added[n].len

\* Every entry starts where the one before it ends, or at the start of the ring.
Chain ==
    /\ added = <<>> => logEnd = LogLen
    /\ added # <<>> => added[1].tail = 0 /\ logEnd = EntryEnd(Len(added))
    /\ \A n \in 1 .. Len(added) - 1 : added[n + 1].tail = log_get_entry(EntryEnd(n))

\* A cell that was written holds what the leader put at that offset.
Written ==
    \A c \in Cells : memory[c] # Zero =>
        LET n == memory[c].entry
        IN  /\ n \in 1 .. Len(added) /\ EntryEnd(n) <= LogLen
            /\ c >= added[n].tail /\ c < EntryEnd(n)
            /\ memory[c].cell = c - added[n].tail + 1

\* Where a replica that took the first k entries looks for the next one.
NextOffset(k) == IF k = 0 THEN 0 ELSE log_get_entry(EntryEnd(k))
AtNext == Len(taken) <= Len(added) /\ log_get_entry(repEnd) = NextOffset(Len(taken))
InStep == resets = 0 /\ InOrder => AtNext

\* In the first lap no two entries share a cell.
Apart ==
    /\ \A i, j \in 1 .. Len(added) : i < j => EntryEnd(i) <= added[j].tail
    /\ \A i \in 1 .. Len(added) : EntryEnd(i) <= logEnd

\* A write that has landed up to a cell has landed up to all cells before it.
Prefix ==
    /\ \A c, d \in Cells :
          memory[c] # Zero /\ d <= c /\ d >= added[memory[c].entry].tail => memory[d] # Zero
    /\ \A w \in posted, c \in Cells :
          c >= added[w.entry].tail /\ c < added[w.entry].tail + w.from => memory[c] # Zero

\* A replica with a new log waits for the first entry, which nobody writes again.
Stranded ==
    /\ added # <<>> /\ log_get_entry(repEnd) = 0
    /\ \A w \in posted : w.entry # 1
    /\ \A c \in Cells : memory[c].entry # 1

Following == AtNext /\ (taken # <<>> => EntryEnd(Len(taken)) <= LogLen)
AllWhole == \A k \in 1 .. Len(taken) : taken[k].whole
LapInv == FirstLap => Apart /\ Prefix /\ InOrder /\ AllWhole /\ (Following \/ Stranded)

LogInv == LogType /\ Chain /\ Written /\ InStep /\ LapInv

-----------------------------------------------------------------------------
\* The sizes are positive and a header fits in the log.
LEMMA Sizes ==
  /\ Header \in Nat \ {0} /\ LogLen \in Nat /\ LogLen > Header
  /\ \A d \in DataSizes : d \in Nat \ {0}
  BY DareLogAssumption

\* An offset at the end of the log stands for offset 0, once and for all.
LEMMA GetEntry ==
  /\ \A o \in Nat : log_get_entry(o) \in Nat /\ log_get_entry(log_get_entry(o)) = log_get_entry(o)
  /\ log_get_entry(0) = 0 /\ log_get_entry(LogLen) = 0
  BY Sizes DEF log_get_entry, log_fit_entry_header

\* A cleared cell belongs to no entry.
LEMMA ZeroCell == Zero = [entry |-> 0, cell |-> 0] /\ Zero.entry = 0
  BY DEF Zero

\* The cleared log satisfies the invariant.
LEMMA InitLogInv == DareLogInit => LogInv
<1>. SUFFICES ASSUME DareLogInit PROVE LogInv
  OBVIOUS
<1>1. added = <<>> /\ Len(added) = 0 /\ taken = <<>> /\ Len(taken) = 0 /\ posted = {} /\ resets = 0
      /\ logEnd = LogLen /\ repEnd = LogLen /\ memory = [c \in Cells |-> Zero]
  BY DEF DareLogInit
<1>2. LogType
  <2>1. memory \in [Cells -> [entry : Nat, cell : Nat]]
    BY <1>1 DEF Zero
  <2>. QED  BY <1>1, <2>1, Sizes DEF LogType
<1>3. Chain /\ Written
  BY <1>1 DEF Chain, Written
<1>4. AtNext
  BY <1>1, GetEntry DEF AtNext, NextOffset
<1>5. InOrder /\ AllWhole /\ Following
  BY <1>1, <1>4 DEF InOrder, AllWhole, Following
<1>6. Apart /\ Prefix
  BY <1>1 DEF Apart, Prefix
<1>. QED
  BY <1>2, <1>3, <1>4, <1>5, <1>6 DEF LogInv, InStep, LapInv

-----------------------------------------------------------------------------
\* Appending an entry keeps the invariant.
LEMMA AddStep ==
  ASSUME LogInv, NEW data_size \in DataSizes, AddEntry(data_size)
  PROVE  LogInv'
<1>. DEFINE N == Len(added)
            start == log_get_entry(logEnd)
            e == [place |-> log_add_new_entry(logEnd), tail |-> start, len |-> log_entry_len(data_size)]
<1>0. LogType /\ Chain /\ Written /\ InStep /\ LapInv
  BY DEF LogInv
<1>1. /\ added' = Append(added, e) /\ logEnd' = start + e.len
      /\ posted' = posted \cup {[entry |-> N + 1, from |-> 0]}
      /\ UNCHANGED <<memory, repEnd, taken, resets>>
  BY DEF AddEntry, log_get_entry
<1>2. added \in Seq(EntryType) /\ N \in Nat /\ logEnd \in Nat /\ start \in Nat
  BY <1>0, GetEntry DEF LogType
<1>3. e \in EntryType /\ e.tail = start /\ e.len \in Nat /\ e.len > Header
  <2>1. log_entry_len(data_size) \in Nat /\ log_entry_len(data_size) > Header
    BY Sizes DEF log_entry_len
  <2>2. log_add_new_entry(logEnd) \in Nat
    BY <1>2 DEF log_add_new_entry
  <2>. QED  BY <1>2, <2>1, <2>2 DEF EntryType
<1>. HIDE DEF e
<1>4. added' \in Seq(EntryType) /\ Len(added') = N + 1 /\ added'[N + 1] = e
      /\ \A n \in 1 .. N : added'[n] = added[n]
  BY <1>1, <1>2, <1>3
<1>. HIDE DEF N, start
<1>5. \A n \in 1 .. N : EntryEnd(n)' = EntryEnd(n) /\ EntryEnd(n) \in Nat /\ added[n].tail \in Nat
  <2>1. \A n \in 1 .. N : added[n] \in EntryType
    BY <1>2 DEF N
  <2>. QED  BY <1>4, <2>1, SMTT(30) DEF EntryEnd, EntryType
<1>7. LogType'
  <2>1. \A n \in 1 .. N + 1 : added'[n].len > Header
    <3>1. \A n \in 1 .. N : added[n].len > Header
      BY <1>0 DEF LogType, N
    <3>. QED  BY <1>2, <1>3, <1>4, <3>1
  <2>2. posted' \subseteq [entry : 1 .. N + 1, from : Nat]
    <3>1. posted \subseteq [entry : 1 .. N, from : Nat]
      BY <1>0 DEF LogType, N
    <3>2. [entry |-> N + 1, from |-> 0] \in [entry : 1 .. N + 1, from : Nat]
      BY <1>2
    <3>3. [entry : 1 .. N, from : Nat] \subseteq [entry : 1 .. N + 1, from : Nat]
      BY <1>2
    <3>. QED  BY <1>1, <3>1, <3>2, <3>3
  <2>3. logEnd' \in Nat
    BY <1>1, <1>2, <1>3
  <2>. QED  BY <1>0, <1>1, <1>4, <2>1, <2>2, <2>3 DEF LogType
<1>8. added' # <<>>
  BY <1>2, <1>4
<1>9. N >= 1 => logEnd = EntryEnd(N)
  BY <1>0, <1>2 DEF Chain, N
<1>10. Chain'
  <2>1. added'[1].tail = 0
    <3>1. CASE N = 0
      <4>1. added = <<>>
        BY <1>2, <3>1 DEF N
      <4>2. start = 0
        BY <1>0, <4>1, GetEntry DEF Chain, start
      <4>. QED  BY <1>3, <1>4, <3>1, <4>2
    <3>2. CASE N # 0
      <4>1. added # <<>> /\ 1 \in 1 .. N
        BY <1>2, <3>2 DEF N
      <4>. QED  BY <1>0, <1>4, <4>1 DEF Chain
    <3>. QED  BY <3>1, <3>2
  <2>2. ASSUME NEW n \in 1 .. N PROVE added'[n + 1].tail = log_get_entry(EntryEnd(n)')
    <3>1. CASE n = N
      BY <1>2, <1>3, <1>4, <1>5, <1>9, <3>1 DEF start
    <3>2. CASE n # N
      <4>1. n \in 1 .. N - 1 /\ n + 1 \in 1 .. N
        BY <1>2, <3>2
      <4>2. added[n + 1].tail = log_get_entry(EntryEnd(n))
        BY <1>0, <4>1 DEF Chain, N
      <4>. QED  BY <1>4, <1>5, <4>1, <4>2
    <3>. QED  BY <3>1, <3>2
  <2>3. logEnd' = EntryEnd(Len(added))'
    <3>1. EntryEnd(Len(added))' = added'[N + 1].tail + added'[N + 1].len
      BY <1>4 DEF EntryEnd
    <3>. QED  BY <1>1, <1>3, <1>4, <3>1
  <2>4. \A n \in 1 .. Len(added') - 1 : (added[n + 1].tail = log_get_entry(EntryEnd(n)))'
    <3>1. Len(added') - 1 = N
      BY <1>2, <1>4
    <3>. QED  BY <2>2, <3>1 DEF log_get_entry, log_fit_entry_header
  <2>. QED  BY <1>8, <2>1, <2>3, <2>4 DEF Chain
<1>11. Written'
  <2>1. ASSUME NEW c \in Cells, memory[c] # Zero, NEW n, n = memory[c].entry
        PROVE  /\ n \in 1 .. Len(added') /\ added'[n].tail + added'[n].len <= LogLen
               /\ c >= added'[n].tail /\ c < added'[n].tail + added'[n].len
               /\ memory[c].cell = c - added'[n].tail + 1
    <3>1. n \in 1 .. N /\ EntryEnd(n) <= LogLen /\ c >= added[n].tail /\ c < EntryEnd(n)
          /\ memory[c].cell = c - added[n].tail + 1
      BY <1>0, <2>1 DEF Written, N
    <3>2. n \in 1 .. N + 1 /\ added'[n] = added[n]
      BY <1>2, <1>4, <3>1
    <3>. QED  BY <1>4, <3>1, <3>2 DEF EntryEnd
  <2>. QED  BY <1>1, <2>1 DEF Written, EntryEnd, Cells, Zero
<1>12. AtNext => AtNext'
  <2>. SUFFICES ASSUME AtNext PROVE AtNext'
    OBVIOUS
  <2>1. Len(taken) <= N /\ log_get_entry(repEnd) = NextOffset(Len(taken)) /\ Len(taken) \in Nat
    BY <1>0 DEF AtNext, N, LogType
  <2>2. NextOffset(Len(taken))' = NextOffset(Len(taken))
    <3>1. CASE Len(taken) = 0
      BY <1>1, <3>1 DEF NextOffset
    <3>2. CASE Len(taken) # 0
      <4>1. Len(taken) \in 1 .. N
        BY <1>2, <2>1, <3>2
      <4>2. EntryEnd(Len(taken))' = EntryEnd(Len(taken))
        BY <1>1, <1>4, <4>1, ZenonT(30) DEF EntryEnd
      <4>. QED  BY <1>1, <3>2, <4>2 DEF NextOffset, log_get_entry, log_fit_entry_header
    <3>. QED  BY <3>1, <3>2
  <2>3. Len(taken') <= Len(added')
    BY <1>1, <1>2, <1>4, <2>1
  <2>. QED  BY <1>1, <2>1, <2>2, <2>3 DEF AtNext, log_get_entry, log_fit_entry_header
<1>13. InStep'
  BY <1>0, <1>1, <1>12 DEF InStep, InOrder
<1>14. LapInv'
  <2>. SUFFICES ASSUME FirstLap' PROVE (Apart /\ Prefix /\ InOrder /\ AllWhole /\ (Following \/ Stranded))'
    BY DEF LapInv
  <2>1. \A n \in 2 .. N + 1 : added'[n].tail > 0
    BY <1>4 DEF FirstLap
  <2>2. N >= 1 => log_fit_entry_header(logEnd) /\ start = logEnd
    <3>. SUFFICES ASSUME N >= 1 PROVE log_fit_entry_header(logEnd) /\ start = logEnd
      OBVIOUS
    <3>1. start > 0
      BY <1>2, <1>3, <1>4, <2>1
    <3>. QED  BY <3>1 DEF start, log_get_entry
  <2>3. FirstLap
    <3>1. \A n \in 2 .. N : added[n].tail > 0
      BY <1>2, <1>4, <2>1
    <3>2. added # <<>> => N >= 1
      BY <1>2 DEF N
    <3>. QED  BY <2>2, <3>1, <3>2 DEF FirstLap, N
  <2>4. Apart /\ Prefix /\ InOrder /\ AllWhole /\ (Following \/ Stranded)
    BY <1>0, <2>3 DEF LapInv
  <2>5. Apart'
    <3>1. \A i \in 1 .. N : EntryEnd(i) <= logEnd
      BY <2>4 DEF Apart, N
    <3>2. ASSUME NEW i \in 1 .. N + 1 PROVE EntryEnd(i)' <= logEnd'
      <4>1. CASE i \in 1 .. N
        <5>1. start = logEnd
          BY <1>2, <2>2, <4>1
        <5>. QED  BY <1>1, <1>2, <1>3, <1>5, <3>1, <4>1, <5>1, SMTT(30)
      <4>2. CASE i = N + 1
        <5>1. EntryEnd(i)' = added'[i].tail + added'[i].len
          BY DEF EntryEnd
        <5>. QED  BY <1>1, <1>2, <1>3, <1>4, <4>2, <5>1
      <4>. QED  BY <1>2, <4>1, <4>2
    <3>3. ASSUME NEW i \in 1 .. N + 1, NEW j \in 1 .. N + 1, i < j PROVE EntryEnd(i)' <= added'[j].tail
      <4>0. i \in 1 .. N
        BY <1>2, <3>3
      <4>1. CASE j \in 1 .. N
        <5>1. EntryEnd(i) <= added[j].tail
          BY <2>4, <3>3, <4>0, <4>1 DEF Apart, N
        <5>. QED  BY <1>4, <1>5, <4>0, <4>1, <5>1
      <4>2. CASE j = N + 1
        <5>1. start = logEnd
          BY <1>2, <2>2, <4>0
        <5>. QED  BY <1>3, <1>4, <1>5, <3>1, <4>0, <4>2, <5>1
      <4>. QED  BY <1>2, <4>1, <4>2
    <3>. QED  BY <1>4, <3>2, <3>3 DEF Apart
  <2>6. Prefix'
    <3>1. ASSUME NEW c \in Cells, NEW d \in Cells, memory[c] # Zero, d <= c, d >= added'[memory[c].entry].tail
          PROVE  memory[d] # Zero
      <4>1. memory[c].entry \in 1 .. N
        BY <1>0, <3>1 DEF Written, N
      <4>. QED  BY <1>4, <2>4, <3>1, <4>1 DEF Prefix
    <3>2. ASSUME NEW w \in posted', NEW c \in Cells,
                 c >= added'[w.entry].tail, c < added'[w.entry].tail + w.from
          PROVE  memory[c] # Zero
      <4>1. CASE w \in posted
        <5>1. w.entry \in 1 .. N
          BY <1>0, <4>1 DEF LogType, N
        <5>. QED  BY <1>4, <2>4, <3>2, <4>1, <5>1 DEF Prefix
      <4>2. CASE w = [entry |-> N + 1, from |-> 0]
        BY <1>2, <1>3, <1>4, <3>2, <4>2 DEF Cells
      <4>. QED  BY <1>1, <4>1, <4>2
    <3>. QED  BY <1>1, <3>1, <3>2, ZenonT(30) DEF Prefix, Zero, Cells
  <2>7. InOrder' /\ AllWhole'
    BY <1>1, <2>4 DEF InOrder, AllWhole
  <2>8. Following => Following'
    <3>. SUFFICES ASSUME Following PROVE Following'
      OBVIOUS
    <3>1. AtNext' /\ Len(taken) <= N /\ Len(taken) \in Nat
      BY <1>0, <1>12 DEF Following, AtNext, N, LogType
    <3>2. taken # <<>> => EntryEnd(Len(taken))' <= LogLen
      <4>. SUFFICES ASSUME taken # <<>> PROVE EntryEnd(Len(taken))' <= LogLen
        OBVIOUS
      <4>1. Len(taken) \in 1 .. N
        BY <1>0, <1>2, <3>1 DEF LogType
      <4>2. EntryEnd(Len(taken))' = EntryEnd(Len(taken))
        BY <1>1, <1>4, <4>1, ZenonT(30) DEF EntryEnd
      <4>. QED  BY <4>2 DEF Following
    <3>. QED  BY <1>1, <3>1, <3>2 DEF Following
  <2>9. Stranded => Stranded'
    <3>. SUFFICES ASSUME Stranded PROVE Stranded'
      OBVIOUS
    <3>1. N >= 1
      BY <1>2 DEF Stranded, N
    <3>2. \A w \in posted' : w.entry # 1
      BY <1>1, <1>2, <3>1 DEF Stranded
    <3>. QED  BY <1>1, <1>8, <3>2 DEF Stranded, log_get_entry, log_fit_entry_header
  <2>. QED  BY <2>4, <2>5, <2>6, <2>7, <2>8, <2>9
<1>. QED  BY <1>7, <1>10, <1>11, <1>13, <1>14 DEF LogInv

\* Any part of a remote write that lands keeps the invariant.
LEMMA LandStep ==
  ASSUME LogInv, NEW w \in posted, NEW n, LandPart(w, n)
  PROVE  LogInv'
<1>. DEFINE m == w.entry
            t == added[m].tail
            Lands(c) == c >= t + w.from /\ c < t + n
<1>0. LogType /\ Chain /\ Written /\ InStep /\ LapInv
  BY DEF LogInv
<1>1. /\ EntryEnd(m) <= LogLen /\ n \in w.from + 1 .. added[m].len
      /\ memory' = [c \in Cells |-> IF Lands(c) THEN [entry |-> m, cell |-> c - t + 1] ELSE memory[c]]
      /\ posted' \subseteq posted \cup {[w EXCEPT !.from = n]}
      /\ UNCHANGED <<logEnd, added, repEnd, taken, resets>>
  BY DEF LandPart, InRegion, EntryEnd
<1>2. m \in 1 .. Len(added) /\ w \in [entry : 1 .. Len(added), from : Nat] /\ w.from \in Nat
      /\ added[m] \in EntryType /\ t \in Nat /\ added[m].len \in Nat /\ n \in Nat /\ n > w.from
  <2>1. w \in [entry : 1 .. Len(added), from : Nat]
    BY <1>0 DEF LogType
  <2>2. m \in 1 .. Len(added) /\ w.from \in Nat
    BY <2>1
  <2>3. added[m] \in EntryType
    BY <1>0, <2>2 DEF LogType
  <2>. QED  BY <1>1, <2>1, <2>2, <2>3 DEF EntryType
<1>3. [w EXCEPT !.from = n] = [entry |-> m, from |-> n]
  BY <1>2
<1>11. EntryEnd(m) = t + added[m].len /\ n <= added[m].len /\ LogLen \in Nat /\ t = added[m].tail
  BY <1>1, <1>2, Sizes DEF EntryEnd
<1>. HIDE DEF m, t, Lands
<1>4. \A c \in Cells : memory'[c] = IF Lands(c) THEN [entry |-> m, cell |-> c - t + 1] ELSE memory[c]
  BY <1>1
<1>5. \A c \in Cells : c \in Nat /\ (Lands(c) => c >= t + w.from /\ c < t + n /\ c < EntryEnd(m) /\ c >= t)
  <2>. TAKE c \in Cells
  <2>1. c \in Nat
    BY <1>11 DEF Cells
  <2>. QED  BY <1>2, <1>11, <2>1, SMTT(30) DEF Lands
<1>6. \A c \in Cells : /\ Lands(c) => /\ memory'[c].entry = m /\ memory'[c].cell = c - t + 1
                                       /\ memory'[c] # Zero /\ memory'[c] \in [entry : Nat, cell : Nat]
                       /\ ~Lands(c) => memory'[c] = memory[c]
                       /\ memory[c] # Zero => memory'[c] # Zero
  <2>. TAKE c \in Cells
  <2>1. CASE Lands(c)
    <3>. DEFINE a == c - t + 1
    <3>1. a \in Nat /\ m \in Nat /\ m # 0
      BY <1>2, <1>5, <2>1, SMTT(30)
    <3>2. memory'[c] = [entry |-> m, cell |-> a]
      BY <1>4, <2>1
    <3>. HIDE DEF a
    <3>3. memory'[c].entry = m /\ memory'[c].cell = a /\ memory'[c] \in [entry : Nat, cell : Nat]
      BY <3>1, <3>2
    <3>4. memory'[c] # Zero
      BY <3>1, <3>3 DEF Zero
    <3>. QED  BY <2>1, <3>3, <3>4 DEF a
  <2>2. CASE ~Lands(c)
    BY <1>4, <2>2, ZenonT(30)
  <2>. QED  BY <2>1, <2>2
<1>7. LogType'
  <2>1. memory' \in [Cells -> [entry : Nat, cell : Nat]]
    <3>1. \A c \in Cells : memory'[c] \in [entry : Nat, cell : Nat]
      <4>. TAKE c \in Cells
      <4>1. CASE Lands(c)
        BY <1>6, <4>1
      <4>2. CASE ~Lands(c)
        BY <1>0, <1>6, <4>2 DEF LogType
      <4>. QED  BY <4>1, <4>2
    <3>. QED  BY <1>1, <3>1
  <2>2. posted' \subseteq [entry : 1 .. Len(added), from : Nat]
    BY <1>0, <1>1, <1>2, <1>3, SMTT(30) DEF LogType
  <2>. QED  BY <1>0, <1>1, <2>1, <2>2 DEF LogType
<1>8. Chain' /\ InStep'
  BY <1>0, <1>1 DEF Chain, InStep, InOrder, AtNext, NextOffset, EntryEnd, log_get_entry, log_fit_entry_header
<1>9. Written'
  <2>1. ASSUME NEW c \in Cells, memory'[c] # Zero, NEW k, k = memory'[c].entry
        PROVE  /\ k \in 1 .. Len(added) /\ EntryEnd(k) <= LogLen
               /\ c >= added[k].tail /\ c < EntryEnd(k)
               /\ memory'[c].cell = c - added[k].tail + 1
    <3>1. CASE Lands(c)
      <4>1. k = m /\ memory'[c].cell = c - t + 1
        BY <1>6, <2>1, <3>1
      <4>. QED  BY <1>1, <1>2, <1>5, <3>1, <4>1 DEF t
    <3>2. CASE ~Lands(c)
      <4>1. memory'[c] = memory[c]
        BY <1>6, <3>2
      <4>. QED  BY <1>0, <2>1, <4>1 DEF Written
    <3>. QED  BY <3>1, <3>2
  <2>. QED  BY <1>1, <2>1 DEF Written, EntryEnd, Cells, Zero
<1>10. LapInv'
  <2>. SUFFICES ASSUME FirstLap PROVE (Apart /\ Prefix /\ InOrder /\ AllWhole /\ (Following \/ Stranded))'
    BY <1>1 DEF LapInv, FirstLap, log_fit_entry_header
  <2>1. Apart /\ Prefix /\ InOrder /\ AllWhole /\ (Following \/ Stranded)
    BY <1>0 DEF LapInv
  <2>2. Apart' /\ InOrder' /\ AllWhole'
    BY <1>1, <2>1 DEF Apart, InOrder, AllWhole, EntryEnd
  <2>3. ASSUME NEW c \in Cells, c >= t, c < t + n PROVE memory'[c] # Zero
    <3>1. CASE c < t + w.from
      <4>1. memory[c] # Zero
        BY <2>1, <2>3, <3>1 DEF Prefix, t, m
      <4>. QED  BY <1>6, <4>1
    <3>2. CASE c >= t + w.from
      BY <1>6, <2>3, <3>2 DEF Lands
    <3>. QED  BY <1>2, <1>5, <3>1, <3>2
  <2>4. ASSUME NEW c \in Cells, NEW d \in Cells, memory'[c] # Zero, d <= c, d >= added[memory'[c].entry].tail
        PROVE  memory'[d] # Zero
    <3>1. CASE Lands(c)
      <4>1. d >= t /\ c < t + n
        BY <1>5, <1>6, <2>4, <3>1 DEF t
      <4>2. d < t + n
        BY <1>2, <1>5, <2>4, <4>1, SMTT(30)
      <4>. QED  BY <2>3, <4>1, <4>2
    <3>2. CASE ~Lands(c)
      <4>1. memory'[c] = memory[c]
        BY <1>6, <3>2
      <4>2. memory[d] # Zero
        BY <2>1, <2>4, <4>1 DEF Prefix
      <4>. QED  BY <1>6, <4>2
    <3>. QED  BY <3>1, <3>2
  <2>5. ASSUME NEW v \in posted', NEW c \in Cells, c >= added[v.entry].tail, c < added[v.entry].tail + v.from
        PROVE  memory'[c] # Zero
    <3>1. CASE v \in posted
      <4>1. memory[c] # Zero
        BY <2>1, <2>5, <3>1 DEF Prefix
      <4>. QED  BY <1>6, <4>1
    <3>2. CASE v = [entry |-> m, from |-> n]
      BY <2>3, <2>5, <3>2 DEF t
    <3>. QED  BY <1>1, <1>3, <3>1, <3>2
  <2>6. Prefix'
    BY <1>1, <2>4, <2>5 DEF Prefix, Cells, Zero
  <2>7. Following => Following'
    BY <1>1 DEF Following, AtNext, NextOffset, EntryEnd, log_get_entry, log_fit_entry_header
  <2>8. Stranded => Stranded'
    <3>. SUFFICES ASSUME Stranded PROVE Stranded'
      OBVIOUS
    <3>1. m # 1
      BY DEF Stranded, m
    <3>2. \A v \in posted' : v.entry # 1
      BY <1>1, <1>3, <3>1 DEF Stranded
    <3>3. \A c \in Cells : memory'[c].entry # 1
      BY <1>6, <3>1 DEF Stranded
    <3>. QED  BY <1>1, <3>2, <3>3 DEF Stranded, Cells, log_get_entry, log_fit_entry_header
  <2>. QED  BY <2>1, <2>2, <2>6, <2>7, <2>8
<1>. QED  BY <1>7, <1>8, <1>9, <1>10 DEF LogInv

\* Where the next entry of the order has landed, its header is read as the leader
\* wrote it.
LEMMA NextHeader ==
  ASSUME LogType, Chain, Written, AtNext,
         NEW c, c = CellAt(log_get_entry(repEnd) + Header - 1), c.entry = Len(taken) + 1
  PROVE  /\ Len(taken) + 1 \in 1 .. Len(added)
         /\ log_get_entry(repEnd) = added[Len(taken) + 1].tail
         /\ SizeRead(c) = {added[Len(taken) + 1].len - Header}
<1>. DEFINE k == Len(taken)
            o == log_get_entry(repEnd)
<1>0. k \in Nat /\ o \in Nat /\ repEnd \in Nat /\ Len(added) \in Nat
  BY GetEntry DEF LogType
<1>1. o + Header - 1 \in Cells /\ c = memory[o + Header - 1]
  BY <1>0 DEF CellAt, Foreign
<1>2. c # Zero /\ c # Foreign
  BY <1>0 DEF Zero, Foreign
<1>3. /\ k + 1 \in 1 .. Len(added) /\ o + Header - 1 >= added[k + 1].tail
      /\ c.cell = (o + Header - 1) - added[k + 1].tail + 1
  BY <1>1, <1>2 DEF Written
<1>4. o = added[k + 1].tail
  <2>1. o = NextOffset(k)
    BY DEF AtNext
  <2>2. CASE k = 0
    BY <1>3, <2>1, <2>2 DEF NextOffset, Chain
  <2>3. CASE k # 0
    <3>1. k \in 1 .. Len(added) - 1
      BY <1>0, <1>3, <2>3
    <3>. QED  BY <2>1, <2>3, <3>1 DEF NextOffset, Chain
  <2>. QED  BY <2>2, <2>3
<1>5. c.cell = Header
  BY <1>0, <1>3, <1>4, Sizes
<1>. QED
  BY <1>2, <1>3, <1>4, <1>5 DEF SizeRead

\* The replica that takes an entry keeps the invariant.
LEMMA TakeStep ==
  ASSUME LogInv, TakeEntry
  PROVE  LogInv'
<1>. DEFINE k == Len(taken)
            o == log_get_entry(repEnd)
            first == CellAt(o + Header - 1)
<1>0. LogType /\ Chain /\ Written /\ InStep /\ LapInv
  BY DEF LogInv
<1>1. PICK data_size \in SizeRead(first) \ {0} :
        /\ TRUE \in EndRead(o + log_entry_len(data_size) - 1)
        /\ repEnd' = o + log_entry_len(data_size)
        /\ taken' = Append(taken, [entry |-> first.entry, whole |-> Whole(o, log_entry_len(data_size))])
        /\ UNCHANGED <<logEnd, added, posted, memory, resets>>
  BY ZenonT(30) DEF TakeEntry
<1>. DEFINE len == log_entry_len(data_size)
            new == [entry |-> first.entry, whole |-> Whole(o, len)]
<1>2. k \in Nat /\ o \in Nat /\ Len(added) \in Nat /\ taken \in Seq([entry : Nat, whole : BOOLEAN])
  BY <1>0, GetEntry DEF LogType
<1>3. first \in [entry : Nat, cell : Nat]
  BY <1>0 DEF LogType, CellAt, Foreign
<1>4. data_size \in Nat
  <2>1. CASE first = Zero
    BY <2>1 DEF SizeRead
  <2>2. CASE first # Zero /\ first # Foreign /\ first.cell = Header
    <3>. DEFINE p == o + Header - 1
    <3>1. p \in Cells /\ memory[p] = first
      BY <2>2 DEF CellAt
    <3>2. first.entry \in 1 .. Len(added)
      BY <1>0, <2>2, <3>1 DEF Written
    <3>3. added[first.entry] \in EntryType /\ added[first.entry].len > Header
      BY <1>0, <3>2 DEF LogType
    <3>4. data_size = added[first.entry].len - Header
      BY <1>1, <2>2 DEF SizeRead
    <3>. QED  BY <3>3, <3>4, Sizes DEF EntryType
  <2>3. CASE first # Zero /\ ~(first # Foreign /\ first.cell = Header)
    <3>1. data_size \in DataSizes \cup {0}
      BY <1>1, <2>3, Zenon DEF SizeRead
    <3>. QED  BY <3>1, Sizes
  <2>. QED  BY <2>1, <2>2, <2>3
<1>5. len \in Nat /\ new \in [entry : Nat, whole : BOOLEAN]
  <2>1. Whole(o, len) \in BOOLEAN
    BY DEF Whole
  <2>2. len \in Nat
    BY <1>4, Sizes DEF log_entry_len
  <2>. QED  BY <1>3, <2>1, <2>2
<1>6. /\ taken' = Append(taken, new) /\ repEnd' = o + len
      /\ TRUE \in EndRead(o + len - 1)
      /\ UNCHANGED <<logEnd, added, posted, memory, resets>>
  BY <1>1, ZenonT(30)
<1>7. first # Zero
  BY <1>1 DEF SizeRead
<1>. HIDE DEF new, len, k, o
<1>8. taken' \in Seq([entry : Nat, whole : BOOLEAN]) /\ Len(taken') = k + 1 /\ taken'[k + 1] = new
      /\ \A i \in 1 .. k : taken'[i] = taken[i]
  BY <1>2, <1>5, <1>6 DEF k
<1>9. LogType'
  <2>1. repEnd' \in Nat
    BY <1>2, <1>5, <1>6
  <2>. QED  BY <1>0, <1>6, <1>8, <2>1 DEF LogType, Cells
<1>10. Chain' /\ Written'
  BY <1>0, <1>6 DEF Chain, Written, EntryEnd, log_get_entry, log_fit_entry_header, Cells, Zero
<1>11. InOrder' => InOrder /\ first.entry = k + 1
  <2>. SUFFICES ASSUME InOrder' PROVE InOrder /\ first.entry = k + 1
    OBVIOUS
  <2>1. \A i \in 1 .. k + 1 : taken'[i].entry = i
    BY <1>8 DEF InOrder
  <2>2. \A i \in 1 .. k : taken[i].entry = i
    BY <1>2, <1>8, <2>1, SMTT(30)
  <2>3. new.entry = k + 1
    BY <1>2, <1>8, <2>1
  <2>. QED  BY <2>2, <2>3 DEF InOrder, k, new
<1>12. ASSUME AtNext, first.entry = k + 1
       PROVE  /\ AtNext' /\ k + 1 \in 1 .. Len(added) /\ o = added[k + 1].tail
              /\ len = added[k + 1].len /\ repEnd' = EntryEnd(k + 1)
  <2>1. /\ k + 1 \in 1 .. Len(added) /\ o = added[k + 1].tail
        /\ SizeRead(first) = {added[k + 1].len - Header}
    BY <1>0, <1>12, NextHeader DEF k, o
  <2>2. added[k + 1].len \in Nat
    <3>1. added[k + 1] \in EntryType
      BY <1>0, <2>1 DEF LogType
    <3>. QED  BY <3>1 DEF EntryType
  <2>3. len = added[k + 1].len
    <3>1. data_size = added[k + 1].len - Header
      BY <1>1, <2>1, SMTT(30)
    <3>. QED  BY <2>2, <3>1, Sizes DEF len, log_entry_len
  <2>4. repEnd' = EntryEnd(k + 1)
    BY <1>6, <2>1, <2>3 DEF EntryEnd
  <2>5. NextOffset(Len(taken))' = log_get_entry(EntryEnd(k + 1))
    BY <1>2, <1>6, <1>8 DEF NextOffset, EntryEnd, log_get_entry, log_fit_entry_header
  <2>6. AtNext'
    BY <1>6, <1>8, <2>1, <2>4, <2>5 DEF AtNext, log_get_entry, log_fit_entry_header
  <2>. QED  BY <2>1, <2>3, <2>4, <2>6
<1>13. InStep'
  <2>. SUFFICES ASSUME resets = 0, InOrder' PROVE AtNext'
    BY <1>6 DEF InStep
  <2>. QED  BY <1>0, <1>11, <1>12 DEF InStep
<1>14. LapInv'
  <2>. SUFFICES ASSUME FirstLap PROVE (Apart /\ Prefix /\ InOrder /\ AllWhole /\ (Following \/ Stranded))'
    BY <1>6 DEF LapInv, FirstLap, log_fit_entry_header
  <2>1. Apart /\ Prefix /\ InOrder /\ AllWhole /\ (Following \/ Stranded)
    BY <1>0, SMTT(30) DEF LapInv
  <2>2. Apart' /\ Prefix'
    BY <1>6, <2>1 DEF Apart, Prefix, EntryEnd, Cells, Zero
  <2>3. \A c \in Cells, i, j \in 1 .. Len(added) :
            c >= added[i].tail /\ c < EntryEnd(i) /\ c >= added[j].tail /\ c < EntryEnd(j) => i = j
    <3>. TAKE c \in Cells, i, j \in 1 .. Len(added)
    <3>1. added[i] \in EntryType /\ added[j] \in EntryType
      BY <1>0 DEF LogType
    <3>2. i < j => EntryEnd(i) <= added[j].tail
      BY <2>1 DEF Apart
    <3>3. j < i => EntryEnd(j) <= added[i].tail
      BY <2>1 DEF Apart
    <3>4. i \in Nat /\ j \in Nat /\ c \in Nat
      BY <1>2, Sizes DEF Cells
    <3>5. \A x \in {i, j} : added[x].tail \in Nat /\ EntryEnd(x) \in Nat
      BY <3>1 DEF EntryType, EntryEnd
    <3>6. i < j \/ j < i \/ i = j
      BY <3>4
    <3>7. CASE i < j
      BY <3>2, <3>4, <3>5, <3>7
    <3>8. CASE j < i
      BY <3>3, <3>4, <3>5, <3>8
    <3>. QED  BY <3>6, <3>7, <3>8
  <2>4. ASSUME Stranded PROVE FALSE
    <3>1. o = 0 /\ added # <<>>
      BY <2>4 DEF Stranded, o
    <3>2. Header - 1 \in Cells /\ o + Header - 1 = Header - 1
      BY <3>1, Sizes DEF Cells
    <3>3. first = memory[Header - 1]
      BY <3>2 DEF CellAt
    <3>. DEFINE n == first.entry
    <3>4. n \in 1 .. Len(added) /\ Header - 1 >= added[n].tail /\ Header - 1 < EntryEnd(n)
      BY <1>0, <1>7, <3>2, <3>3 DEF Written
    <3>5. 1 \in 1 .. Len(added) /\ added[1].tail = 0 /\ added[1] \in EntryType /\ added[1].len > Header
      BY <1>0, <1>2, <3>1 DEF Chain, LogType
    <3>6. Header - 1 >= added[1].tail /\ Header - 1 < EntryEnd(1)
      BY <3>5, Sizes, SMTT(30) DEF EntryEnd, EntryType
    <3>7. n = 1
      BY <2>3, <3>2, <3>4, <3>5, <3>6
    <3>. QED  BY <2>4, <3>2, <3>3, <3>7 DEF Stranded
  <2>5. Following
    BY <2>1, <2>4
  <2>6. AtNext /\ k <= Len(added) /\ o = NextOffset(k) /\ (k # 0 => EntryEnd(k) <= LogLen)
    BY <1>0, <2>5 DEF Following, AtNext, k, o
  <2>7. \A i \in 1 .. Len(added) : EntryEnd(i) \in Nat /\ added[i].tail \in Nat /\ added[i].len \in Nat
            /\ added[i].len > Header /\ EntryEnd(i) = added[i].tail + added[i].len
    <3>. TAKE i \in 1 .. Len(added)
    <3>1. added[i] \in EntryType /\ added[i].len > Header
      BY <1>0 DEF LogType
    <3>2. added[i].tail \in Nat /\ added[i].len \in Nat
      BY <3>1 DEF EntryType
    <3>. QED  BY <3>1, <3>2 DEF EntryEnd
  <2>8. /\ k # 0 => o = EntryEnd(k) /\ LogLen - o >= Header
        /\ k = 0 => o = 0
    <3>1. CASE k = 0
      BY <2>6, <3>1 DEF NextOffset
    <3>2. CASE k # 0
      <4>1. k \in 1 .. Len(added) /\ EntryEnd(k) <= LogLen /\ EntryEnd(k) \in Nat
        BY <1>2, <2>6, <2>7, <3>2
      <4>2. log_fit_entry_header(EntryEnd(k))
        <5>1. CASE k = Len(added)
          <6>1. logEnd = EntryEnd(k) /\ added # <<>>
            BY <1>0, <1>2, <3>2, <5>1 DEF Chain
          <6>. QED  BY <6>1 DEF FirstLap
        <5>2. CASE k # Len(added)
          <6>1. k \in 1 .. Len(added) - 1 /\ k + 1 \in 2 .. Len(added)
            BY <1>2, <4>1, <5>2
          <6>2. added[k + 1].tail = log_get_entry(EntryEnd(k)) /\ added[k + 1].tail > 0
            BY <1>0, <6>1 DEF Chain, FirstLap
          <6>. QED  BY <6>2 DEF log_get_entry
        <5>. QED  BY <5>1, <5>2
      <4>3. o = EntryEnd(k)
        BY <2>6, <3>2, <4>2 DEF NextOffset, log_get_entry
      <4>4. LogLen - EntryEnd(k) >= Header
        BY <4>1, <4>2, Sizes DEF log_fit_entry_header
      <4>. QED  BY <3>2, <4>3, <4>4
    <3>. QED  BY <3>1, <3>2
  <2>9. o + Header - 1 \in Cells /\ o + Header - 1 >= o /\ first = memory[o + Header - 1]
    <3>1. LogLen - o >= Header
      BY <1>2, <2>8, Sizes
    <3>2. o + Header - 1 \in Cells /\ o + Header - 1 >= o
      BY <1>2, <3>1, Sizes DEF Cells
    <3>. QED  BY <3>2 DEF CellAt
  <2>. DEFINE n == first.entry
  <2>10. /\ n \in 1 .. Len(added) /\ o + Header - 1 >= added[n].tail /\ o + Header - 1 < EntryEnd(n)
         /\ EntryEnd(n) <= LogLen
    BY <1>0, <1>7, <2>9 DEF Written
  <2>11. n = k + 1
    <3>1. CASE k = Len(added)
      <4>1. EntryEnd(n) <= logEnd
        BY <2>1, <2>10 DEF Apart
      <4>2. added # <<>> /\ k # 0
        BY <1>2, <2>10, <3>1
      <4>3. logEnd = EntryEnd(k)
        BY <1>0, <3>1, <4>2 DEF Chain
      <4>4. k \in 1 .. Len(added)
        BY <1>2, <3>1, <4>2, SMTT(30)
      <4>. QED  BY <1>2, <2>7, <2>8, <2>9, <2>10, <4>1, <4>2, <4>3, <4>4, Sizes, SMTT(30)
    <3>2. CASE k # Len(added)
      <4>1. k + 1 \in 1 .. Len(added)
        BY <1>2, <2>6, <3>2
      <4>2. o = added[k + 1].tail
        <5>1. CASE k = 0
          BY <1>0, <2>8, <2>10, <5>1 DEF Chain
        <5>2. CASE k # 0
          <6>1. k \in 1 .. Len(added) - 1
            BY <1>2, <4>1, <5>2
          <6>. QED  BY <1>0, <2>6, <5>2, <6>1 DEF Chain, NextOffset
        <5>. QED  BY <5>1, <5>2
      <4>3. o + Header - 1 < EntryEnd(k + 1)
        BY <1>2, <2>7, <4>1, <4>2, Sizes, SMTT(30)
      <4>. QED  BY <2>3, <2>9, <2>10, <4>1, <4>2, <4>3
    <3>. QED  BY <3>1, <3>2
  <2>12. /\ AtNext' /\ k + 1 \in 1 .. Len(added) /\ o = added[k + 1].tail
         /\ len = added[k + 1].len /\ repEnd' = EntryEnd(k + 1)
    BY <1>12, <2>6, <2>11
  <2>13. InOrder'
    <3>1. \A i \in 1 .. k : taken[i].entry = i
      BY <2>1 DEF InOrder, k
    <3>2. new.entry = k + 1
      BY <2>11 DEF new
    <3>3. \A i \in 1 .. k + 1 : taken'[i].entry = i
      BY <1>2, <1>8, <3>1, <3>2
    <3>. QED  BY <1>8, <3>3 DEF InOrder
  <2>. DEFINE last == o + len - 1
  <2>14. EntryEnd(k + 1) = o + len /\ EntryEnd(k + 1) <= LogLen /\ len > Header
    BY <2>7, <2>10, <2>11, <2>12
  <2>15. last \in Cells
    BY <1>2, <1>5, <2>14, Sizes DEF Cells
  <2>16. memory[last] # Zero
    <3>1. EndRead(last) = {FALSE} \/ CellAt(last) # Zero
      BY ZenonT(30) DEF EndRead
    <3>2. EndRead(last) # {FALSE}
      BY <1>6, ZenonT(30)
    <3>. QED  BY <2>15, <3>1, <3>2, ZenonT(30) DEF CellAt
  <2>17. memory[last].entry = k + 1
    <3>. DEFINE q == memory[last].entry
    <3>1. q \in 1 .. Len(added) /\ last >= added[q].tail /\ last < EntryEnd(q)
      BY <1>0, <2>15, <2>16 DEF Written
    <3>2. last >= added[k + 1].tail /\ last < EntryEnd(k + 1)
      BY <1>2, <1>5, <2>12, <2>14, Sizes, SMTT(30)
    <3>. HIDE DEF q, last
    <3>3. q = k + 1
      BY <2>3, <2>12, <2>15, <3>1, <3>2
    <3>. QED  BY <3>3 DEF q
  <2>18. ASSUME NEW c \in 1 .. len
         PROVE  o + c - 1 \in Cells /\ memory[o + c - 1] = [entry |-> k + 1, cell |-> c]
    <3>. DEFINE d == o + c - 1
    <3>1. d \in Cells /\ d <= last /\ d >= added[k + 1].tail /\ d < EntryEnd(k + 1) /\ d - added[k + 1].tail + 1 = c
      <4>1. c \in Nat /\ c >= 1 /\ c <= len /\ o + len <= LogLen /\ LogLen \in Nat
        BY <1>2, <1>5, <2>14, Sizes
      <4>2. d \in Nat /\ d <= last /\ d >= o /\ d < o + len /\ d - o + 1 = c /\ d < LogLen
        BY <1>2, <1>5, <4>1
      <4>3. d \in Cells
        BY <4>1, <4>2 DEF Cells
      <4>. HIDE DEF d, last
      <4>. QED  BY <2>12, <2>14, <4>2, <4>3
    <3>. HIDE DEF d, last
    <3>2. memory[d] # Zero
      BY <2>1, <2>15, <2>16, <2>17, <3>1, SMTT(30) DEF Prefix
    <3>3. memory[d].entry \in 1 .. Len(added) /\ d >= added[memory[d].entry].tail /\ d < EntryEnd(memory[d].entry)
          /\ memory[d].cell = d - added[memory[d].entry].tail + 1
      BY <1>0, <3>1, <3>2, SMTT(30) DEF Written
    <3>4. memory[d].entry = k + 1
      BY <2>3, <2>12, <3>1, <3>3
    <3>5. memory[d].cell = c
      BY <3>1, <3>3, <3>4
    <3>6. memory[d] \in [entry : Nat, cell : Nat]
      BY <1>0, <3>1 DEF LogType
    <3>7. memory[d] = [entry |-> k + 1, cell |-> c]
      BY <3>4, <3>5, <3>6
    <3>. QED  BY <3>1, <3>7 DEF d
  <2>19. Whole(o, len)
    <3>1. 1 \in 1 .. len /\ o + 1 - 1 = o
      BY <1>2, <1>5, <2>14, Sizes
    <3>2. o \in Cells /\ memory[o] = [entry |-> k + 1, cell |-> 1]
      BY <2>18, <3>1
    <3>3. CellAt(o).entry = k + 1
      BY <3>2 DEF CellAt
    <3>. QED  BY <2>18, <3>3 DEF Whole
  <2>20. AllWhole'
    <3>1. \A i \in 1 .. k : taken[i].whole
      BY <2>1 DEF AllWhole, k
    <3>2. new.whole
      BY <2>19 DEF new
    <3>3. \A i \in 1 .. k + 1 : taken'[i].whole
      BY <1>2, <1>8, <3>1, <3>2
    <3>. QED  BY <1>8, <3>3 DEF AllWhole
  <2>21. Following'
    <3>1. EntryEnd(Len(taken))' = EntryEnd(k + 1)
      BY <1>6, <1>8 DEF EntryEnd
    <3>. QED  BY <2>12, <2>14, <3>1 DEF Following
  <2>. QED  BY <2>2, <2>13, <2>20, <2>21
<1>. QED  BY <1>9, <1>10, <1>13, <1>14 DEF LogInv

\* Losing writes and wrapping the replica's end keep the invariant.
LEMMA QuietStep ==
  ASSUME LogInv, UNCHANGED <<logEnd, added, memory, taken, resets>>,
         posted' \subseteq posted, repEnd' \in {repEnd, log_get_entry(repEnd)}
  PROVE  LogInv'
<1>0. LogType /\ Chain /\ Written /\ InStep /\ LapInv
  BY DEF LogInv
<1>1. repEnd' \in Nat /\ log_get_entry(repEnd') = log_get_entry(repEnd)
  BY <1>0, GetEntry DEF LogType
<1>2. LogType'
  BY <1>0, <1>1, SMTT(30) DEF LogType, Cells
<1>3. Chain' /\ Written'
  BY <1>0 DEF Chain, Written, EntryEnd, log_get_entry, log_fit_entry_header, Cells, Zero
<1>4. NextOffset(Len(taken))' = NextOffset(Len(taken)) /\ log_get_entry(repEnd)' = log_get_entry(repEnd)
  BY <1>1 DEF NextOffset, EntryEnd, log_get_entry, log_fit_entry_header
<1>5. AtNext' = AtNext /\ InOrder' = InOrder /\ AllWhole' = AllWhole /\ FirstLap' = FirstLap
  BY <1>4 DEF AtNext, InOrder, AllWhole, FirstLap, log_fit_entry_header
<1>6. InStep'
  BY <1>0, <1>5 DEF InStep
<1>7. LapInv'
  <2>. SUFFICES ASSUME FirstLap PROVE (Apart /\ Prefix /\ InOrder /\ AllWhole /\ (Following \/ Stranded))'
    BY <1>5 DEF LapInv
  <2>1. Apart /\ Prefix /\ InOrder /\ AllWhole /\ (Following \/ Stranded)
    BY <1>0, SMTT(30) DEF LapInv
  <2>2. Apart' /\ Prefix'
    BY <2>1 DEF Apart, Prefix, EntryEnd, Cells, Zero
  <2>3. Following => Following'
    BY <1>5 DEF Following, EntryEnd
  <2>4. Stranded => Stranded'
    BY <1>4 DEF Stranded, Cells
  <2>. QED  BY <1>5, <2>1, <2>2, <2>3, <2>4
<1>. QED  BY <1>2, <1>3, <1>6, <1>7 DEF LogInv

\* A new log keeps the invariant.
LEMMA NewLogStep ==
  ASSUME LogInv, NewLog
  PROVE  LogInv'
<1>0. LogType /\ Chain /\ Written /\ InStep /\ LapInv
  BY DEF LogInv
<1>1. /\ resets' = resets + 1 /\ memory' = [c \in Cells |-> Zero] /\ repEnd' = LogLen /\ posted' = {}
      /\ UNCHANGED <<logEnd, added, taken>>
  BY DEF NewLog
<1>2. LogType'
  <2>1. memory' \in [Cells -> [entry : Nat, cell : Nat]]
    BY <1>1 DEF Zero
  <2>2. resets' \in Nat /\ resets' # 0 /\ repEnd' \in Nat
    BY <1>0, <1>1, Sizes DEF LogType
  <2>. QED  BY <1>0, <1>1, <2>1, <2>2, ZenonT(30) DEF LogType, Cells
<1>3. Chain' /\ Written'
  <2>1. \A c \in Cells : memory'[c] = Zero
    BY <1>1
  <2>2. Written'
    BY <2>1 DEF Written, Cells, Zero
  <2>3. Chain'
    BY <1>0, <1>1 DEF Chain, EntryEnd, log_get_entry, log_fit_entry_header
  <2>. QED  BY <2>2, <2>3
<1>4. InStep'
  BY <1>0, <1>1 DEF InStep, LogType
<1>5. LapInv'
  <2>. SUFFICES ASSUME FirstLap PROVE (Apart /\ Prefix /\ InOrder /\ AllWhole /\ (Following \/ Stranded))'
    BY <1>1 DEF LapInv, FirstLap, log_fit_entry_header
  <2>1. Apart /\ Prefix /\ InOrder /\ AllWhole /\ (Following \/ Stranded)
    BY <1>0 DEF LapInv
  <2>2. Apart' /\ InOrder' /\ AllWhole'
    BY <1>1, <2>1 DEF Apart, InOrder, AllWhole, EntryEnd
  <2>3. \A c \in Cells : memory'[c] = Zero
    BY <1>1
  <2>4. Prefix'
    BY <1>1, <2>3 DEF Prefix, Cells, Zero
  <2>5. log_get_entry(repEnd)' = 0
    BY <1>1, GetEntry DEF log_get_entry, log_fit_entry_header
  <2>6. CASE added = <<>>
    <3>1. Len(added) = 0 /\ ~Stranded
      BY <2>6 DEF Stranded
    <3>2. Len(taken) = 0 /\ taken = <<>>
      BY <1>0, <2>1, <3>1 DEF Following, AtNext, LogType
    <3>3. AtNext'
      BY <1>1, <2>5, <3>1, <3>2 DEF AtNext, NextOffset
    <3>4. Following'
      BY <1>1, <3>2, <3>3 DEF Following
    <3>. QED  BY <2>2, <2>4, <3>4
  <2>7. CASE added # <<>>
    <3>1. \A c \in Cells : memory'[c].entry # 1
      BY <2>3 DEF Zero
    <3>2. Stranded'
      BY <1>1, <2>5, <2>7, <3>1 DEF Stranded, Cells
    <3>. QED  BY <2>2, <2>4, <3>2
  <2>. QED  BY <2>6, <2>7
<1>. QED  BY <1>2, <1>3, <1>4, <1>5 DEF LogInv

\* Every step keeps the invariant.
LEMMA LogInvStep == LogInv /\ [DareLogNext]_logVars => LogInv'
<1>. SUFFICES ASSUME LogInv, [DareLogNext]_logVars PROVE LogInv'
  OBVIOUS
<1>1. ASSUME NEW data_size \in DataSizes, AddEntry(data_size) PROVE LogInv'
  BY <1>1, AddStep
<1>2. ASSUME NEW w \in posted, WriteRefused(w) PROVE LogInv'
  BY <1>2, QuietStep DEF WriteRefused
<1>3. ASSUME NEW w \in posted, NEW n, LandPart(w, n) PROVE LogInv'
  BY <1>3, LandStep
<1>4. CASE TakeEntry
  BY <1>4, TakeStep
<1>5. CASE NoNewEntry
  BY <1>5, QuietStep DEF NoNewEntry
<1>6. CASE NewLog
  BY <1>6, NewLogStep
<1>7. CASE UNCHANGED logVars
  BY <1>7, QuietStep DEF logVars
<1>. QED
  BY <1>1, <1>2, <1>3, <1>4, <1>5, <1>6, <1>7, Zenon DEF DareLogNext

-----------------------------------------------------------------------------
\* While the leader is in its first lap, handle_accept_req takes the entries one after
\* the other, each once and with all its bytes, whatever order their writes land in
\* and wherever they are torn; for every length of the ring, size of the entries and
\* number of new logs.
THEOREM TakesEntriesInOrder == DareLogSpec => []TakesInOrder
<1>1. LogInv => TakesInOrder
  BY DEF LogInv, LapInv, TakesInOrder, AllWhole
<1>. QED
  BY <1>1, InitLogInv, LogInvStep, PTL DEF DareLogSpec

\* A replica that took the first k entries looks for the next one where
\* leader_handle_submit_req puts it, in every lap: log_get_entry of the one side and
\* log_fit_entry_header of the other agree for every ring and all sizes.
THEOREM OffsetsAgree == DareLogSpec => []SameOffsets
<1>1. LogInv => SameOffsets
  <2>. SUFFICES ASSUME LogInv, resets = 0, InOrder, NEW k, k = Len(taken), k \in 1 .. Len(added) - 1
                PROVE  log_get_entry(repEnd) = added[k + 1].tail
    BY DEF SameOffsets
  <2>1. LogType /\ Chain /\ AtNext
    BY DEF LogInv, InStep
  <2>2. log_get_entry(repEnd) = log_get_entry(EntryEnd(k))
    BY <2>1 DEF AtNext, NextOffset
  <2>. QED  BY <2>1, <2>2 DEF Chain
<1>. QED
  BY <1>1, InitLogInv, LogInvStep, PTL DEF DareLogSpec
=============================================================================
