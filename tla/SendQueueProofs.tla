-------------------------- MODULE SendQueueProofs --------------------------
(* Proofs about SendQueue, for any depth, number of threads and of requests.  *)
EXTENDS SendQueue, FiniteSetTheorems, TLAPS

\* A leaf is for Zenon unless it names another prover.
USE Zenon

Polling == {t \in Sender : sender[t].at = "post" /\ sender[t].poll}
Signalling == {t \in Sender : sender[t].at = "post" /\ sender[t].flags = "signalled"}
Unposted == {t \in Sender : sender[t].at = "post"}
Active == {t \in Sender : sender[t].at # "idle"}
Open == IF send_count % S_DEPTH = 0 THEN 0 ELSE 1
Round == IF send_count % S_DEPTH = 0 THEN 0 ELSE (send_count % S_DEPTH) - S_DEPTH

QueueType ==
    /\ sender \in [Sender -> [at : {"idle", "post", "wait"}, number : Nat,
                              flags : {"signalled", "plain", "unset"}, poll : BOOLEAN]]
    /\ send_count \in Nat /\ cq \in Nat /\ sq \in Seq(BOOLEAN) /\ requests \in Nat
    /\ committed \in Nat /\ lost \in [first : Nat, signals : Nat]

\* Every S_DEPTH sends reserve one signal and, S_DEPTH - 1 sends later, one poll:
\* the signals are ahead by one inside of a round, and level between two.  What is
\* lost on the way still counts here.
Excess ==
    cq + Signals(sq) + Cardinality(Signalling) + lost.signals - Cardinality(Polling) - Open

\* The loop skips a peer only before the first signal is reserved for it.
CoverInv == QueueType /\ Excess >= 0 /\ (link = "none" => Signalling = {})

\* Without a failing store_record the requests that have not returned are the last ones.
Numbers ==
    /\ send_count = requests /\ committed <= requests
    /\ \A t \in Active : sender[t].number \in 1 .. requests
    /\ \A t, u \in Active : sender[t].number = sender[u].number => t = u
    /\ \A t \in Polling : sender[t].number % S_DEPTH = 0
    /\ \A n \in 1 .. requests :
          n > committed <=> \E t \in Active : sender[t].number = n

\* The sends after the first i of a queue.
Rest(s, i) == SubSeq(s, i + 1, Len(s))

\* With g signals still to be posted: behind the last reclaimed send, and behind each
\* signalled one, there are at most S_DEPTH sends for every signal, and k more.
AheadOn(s, g, k) ==
    \A i \in 0 .. Len(s) : (i = 0 \/ s[i]) =>
        Len(s) - i <= (Signals(Rest(s, i)) + g + 1) * S_DEPTH + k

\* The sends between the signals are no further ahead than the threads can be.
Slack == Cardinality(Sender) - 2 - Cardinality(Unposted) + Round
Ahead == AheadOn(unreclaimed, Cardinality(Signalling), Slack)

\* What is posted and not reclaimed holds the signals that nobody has polled for.
Queued == unreclaimed \in Seq(BOOLEAN) /\ Signals(unreclaimed) = cq + Signals(sq)

\* After a failing store_record: the requests before it may still post and return, and
\* of those after it every thread posts at most one.
Bound == 2 * S_DEPTH - 4 + 2 * Cardinality(Sender)
Before == {t \in Sender : sender[t].at = "post" /\ sender[t].number < lost.first}
Behind == {t \in Sender : sender[t].at = "wait" /\ sender[t].number > lost.first}
Stalled ==
    /\ committed < lost.first /\ lost.first <= requests
    /\ \A t \in Active : sender[t].number # lost.first
    /\ Len(unreclaimed) + Cardinality(Before) <= Bound + Cardinality(Behind)

BoundInv == ~late =>
    /\ link = "ready" /\ Queued /\ \A t \in Sender : sender[t].flags # "unset"
    /\ lost.first = 0 => Excess = 0 /\ lost.signals = 0 /\ Numbers /\ Ahead
    /\ lost.first # 0 => Stalled

-----------------------------------------------------------------------------
\* A function is one to one.
LEMMA IsOneToOne ==
  ASSUME NEW S, NEW T, NEW f \in [S -> T], \A a, b \in S : f[a] = f[b] => a = b
  PROVE  f \in Injection(S, T)
BY DEF Injection, IsInjective

\* A function is onto.
LEMMA IsOnto ==
  ASSUME NEW S, NEW T, NEW f \in [S -> T], \A t \in T : \E s \in S : f[s] = t
  PROVE  f \in Surjection(S, T)
BY DEF Surjection

\* A function is one to one and onto.
LEMMA IsOneToOneAndOnto ==
  ASSUME NEW S, NEW T, NEW f \in [S -> T], \A a, b \in S : f[a] = f[b] => a = b,
         \A t \in T : \E s \in S : f[s] = t
  PROVE  f \in Bijection(S, T)
BY IsOneToOne, IsOnto DEF Bijection

\* Sequences are equal that have the same elements.
LEMMA SameElements ==
  ASSUME NEW S, NEW s \in Seq(S), NEW t \in Seq(S), Len(s) = Len(t),
         \A i \in 1 .. Len(s) : s[i] = t[i]
  PROVE  s = t
BY SMTT(30)

\* The remainder of the next number.
LEMMA NextMod ==
  ASSUME NEW S \in Nat \ {0, 1}, NEW n \in Nat
  PROVE  /\ n % S \in 0 .. S - 1
         /\ (n + 1) % S = IF n % S = S - 1 THEN 0 ELSE (n % S) + 1
<1>1. n % S \in 0 .. S - 1 /\ n \div S \in Nat /\ n = S * (n \div S) + (n % S)
  BY SMTT(30)
<1>. DEFINE q == n \div S
            r == n % S
<1>2. \A p \in Nat, x \in 0 .. S - 1 : (S * p + x) % S = x
  BY SMTT(30)
<1>3. CASE r = S - 1
  <2>1. n + 1 = S * (q + 1) + 0
    <3>. HIDE DEF q, r
    <3>1. n = S * q + r /\ q \in Nat
      BY <1>1 DEF q, r
    <3>. QED  BY <1>3, <3>1, SMTT(30)
  <2>2. 0 \in 0 .. S - 1 /\ q + 1 \in Nat
    BY <1>1, SMTT(30)
  <2>3. (S * (q + 1) + 0) % S = 0
    BY <1>2, <2>2
  <2>4. (n + 1) % S = 0
    BY <2>1, <2>3
  <2>. QED  BY <1>1, <1>3, <2>4
<1>4. CASE r # S - 1
  <2>1. r + 1 \in 0 .. S - 1 /\ q \in Nat
    BY <1>1, <1>4, SMTT(30)
  <2>2. n + 1 = S * q + (r + 1)
    <3>. HIDE DEF q, r
    <3>1. n = S * q + r /\ q \in Nat /\ r \in Nat
      BY <1>1, SMTT(30) DEF q, r
    <3>. QED  BY <3>1, SMTT(30)
  <2>3. (n + 1) % S = r + 1
    BY <1>2, <2>1, <2>2
  <2>. QED  BY <1>1, <1>4, <2>3
<1>. QED  BY <1>3, <1>4

Marks(s) == {n \in 1 .. Len(s) : s[n]}

\* The signalled requests of a queue can be counted.
LEMMA MarksFinite ==
  ASSUME NEW s \in Seq(BOOLEAN)
  PROVE  IsFiniteSet(Marks(s)) /\ Signals(s) \in Nat /\ Signals(s) = Cardinality(Marks(s))
<1>1. IsFiniteSet(1 .. Len(s))
  BY FS_Interval, SMTT(30)
<1>2. IsFiniteSet(Marks(s))
  BY <1>1, FS_Subset DEF Marks
<1>. QED  BY <1>2, FS_CardinalityType DEF Signals, Marks

\* The signals of a longer queue.
LEMMA SignalsAppend ==
  ASSUME NEW s \in Seq(BOOLEAN), NEW b \in BOOLEAN
  PROVE  Signals(Append(s, b)) = Signals(s) + (IF b THEN 1 ELSE 0)
<1>0. Append(s, b) \in Seq(BOOLEAN) /\ Len(Append(s, b)) = Len(s) + 1 /\ Len(s) \in Nat
      /\ Append(s, b)[Len(s) + 1] = b /\ \A n \in 1 .. Len(s) : Append(s, b)[n] = s[n]
  BY SMTT(30)
<1>1. CASE b
  <2>1. Marks(Append(s, b)) = Marks(s) \cup {Len(s) + 1}
    BY <1>0, <1>1, SMTT(30) DEF Marks
  <2>2. Len(s) + 1 \notin Marks(s)
    BY <1>0, SMTT(30) DEF Marks
  <2>3. Cardinality(Marks(s) \cup {Len(s) + 1}) = Cardinality(Marks(s)) + 1
    BY <2>2, MarksFinite, FS_AddElement
  <2>. QED  BY <1>0, <1>1, <2>1, <2>3, MarksFinite
<1>2. CASE ~b
  <2>1. Marks(Append(s, b)) = Marks(s)
    BY <1>0, <1>2, SMTT(30) DEF Marks
  <2>2. Signals(Append(s, b)) = Signals(s) /\ Signals(s) \in Nat
    BY <1>0, <2>1, MarksFinite
  <2>3. Signals(s) = Signals(s) + 0
    BY <2>2, SMTT(30)
  <2>. QED  BY <1>2, <2>2, <2>3
<1>. QED  BY <1>1, <1>2

\* The signals of a shorter queue.
LEMMA SignalsTail ==
  ASSUME NEW s \in Seq(BOOLEAN), s # <<>>
  PROVE  Signals(s) = Signals(Tail(s)) + (IF Head(s) THEN 1 ELSE 0)
<1>. DEFINE T == Marks(Tail(s))
            S == Marks(s) \ {1}
            f == [n \in T |-> n + 1]
<1>0. /\ Tail(s) \in Seq(BOOLEAN) /\ Len(s) \in Nat \ {0} /\ Len(Tail(s)) = Len(s) - 1 /\ Head(s) = s[1]
      /\ \A n \in 1 .. Len(s) - 1 : Tail(s)[n] = s[n + 1]
  BY SMTT(30)
<1>1. \A n \in T : n \in Nat /\ n + 1 \in S
  BY <1>0, SMTT(30) DEF Marks
<1>2. \A m \in S : m - 1 \in T /\ m \in Nat
  BY <1>0, SMTT(30) DEF Marks
<1>3. f \in Bijection(T, S)
  <2>. HIDE DEF T, S
  <2>1. f \in [T -> S] /\ \A a, b \in T : f[a] = f[b] => a = b
    BY <1>1, SMTT(30)
  <2>2. \A m \in S : \E n \in T : f[n] = m
    BY <1>1, <1>2, SMTT(30)
  <2>. HIDE DEF f
  <2>. QED  BY <2>1, <2>2, IsOneToOneAndOnto
<1>4. ExistsBijection(T, S)
  BY <1>3 DEF ExistsBijection
<1>5. Cardinality(S) = Cardinality(T)
  <2>1. IsFiniteSet(T)
    BY <1>0, MarksFinite
  <2>. QED  BY <1>4, <2>1, FS_Bijection
<1>6. Cardinality(S) = IF 1 \in Marks(s) THEN Cardinality(Marks(s)) - 1 ELSE Cardinality(Marks(s))
  BY MarksFinite, FS_RemoveElement
<1>7. 1 \in Marks(s) <=> s[1]
  <2>1. 1 \in 1 .. Len(s)
    BY <1>0, SMTT(30)
  <2>. QED  BY <2>1 DEF Marks
<1>8. Signals(s) = Cardinality(Marks(s)) /\ Signals(Tail(s)) = Cardinality(T) /\ Signals(s) \in Nat
  BY <1>0, MarksFinite
<1>. HIDE DEF S, T
<1>9. CASE s[1]
  <2>1. Signals(s) = Signals(Tail(s)) + 1
    BY <1>5, <1>6, <1>7, <1>8, <1>9, SMTT(30)
  <2>. QED  BY <1>0, <1>9, <2>1
<1>10. CASE ~s[1]
  <2>1. Signals(s) = Signals(Tail(s)) + 0
    BY <1>5, <1>6, <1>7, <1>8, <1>10, SMTT(30)
  <2>. QED  BY <1>0, <1>10, <2>1
<1>. QED  BY <1>9, <1>10

\* A nonempty set of numbers has a least one.
LEMMA LeastNumber ==
  ASSUME NEW T \in SUBSET Nat, T # {}
  PROVE  \E m \in T : \A k \in T : m <= k
<1>. DEFINE R == OpToRel(<, Nat)
<1>1. IsWellFoundedOn(R, Nat)
  BY NatLessThanWellFounded
<1>2. \A x, y \in Nat : x < y => <<x, y>> \in R
  <2>. TAKE x, y \in Nat
  <2>1. <<x, y>> \in Nat \X Nat /\ <<x, y>>[1] = x /\ <<x, y>>[2] = y
    OBVIOUS
  <2>. QED  BY <2>1 DEF OpToRel
<1>. HIDE DEF R
<1>3. PICK m \in T : \A y \in T : ~(<<y, m>> \in R)
  BY <1>1, WFMin
<1>4. \A y \in T : ~(y < m)
  BY <1>2, <1>3
<1>. QED
  BY <1>4, SMTT(30)

\* The elements of the rest of a queue.
LEMMA RestProperties ==
  ASSUME NEW s \in Seq(BOOLEAN), NEW i \in 0 .. Len(s)
  PROVE  /\ Rest(s, i) \in Seq(BOOLEAN) /\ Len(Rest(s, i)) = Len(s) - i
         /\ \A n \in 1 .. Len(s) - i : Rest(s, i)[n] = s[i + n]
         /\ i = 0 => Rest(s, i) = s
<1>1. Len(s) \in Nat /\ i \in Nat /\ i <= Len(s)
  BY SMTT(30)
<1>2. Rest(s, i) \in Seq(BOOLEAN) /\ Len(Rest(s, i)) = Len(s) - i
  BY <1>1, SMTT(30) DEF Rest
<1>3. \A n \in 1 .. Len(s) - i : Rest(s, i)[n] = s[i + n]
  <2>1. \A n \in 1 .. Len(s) - i : Rest(s, i)[n] = s[(i + 1) + n - 1]
    BY <1>1, SMTT(30) DEF Rest
  <2>2. \A n \in 1 .. Len(s) - i : (i + 1) + n - 1 = i + n
    BY <1>1, SMTT(30)
  <2>. QED  BY <2>1, <2>2
<1>4. i = 0 => Rest(s, i) = s
  BY <1>1, <1>2, <1>3, SameElements, SMTT(30)
<1>. QED  BY <1>2, <1>3, <1>4

\* The rest of a rest.
LEMMA RestOfRest ==
  ASSUME NEW s \in Seq(BOOLEAN), NEW f \in 0 .. Len(s), NEW i \in 0 .. Len(s) - f
  PROVE  Rest(Rest(s, f), i) = Rest(s, f + i)
<1>1. Len(s) \in Nat /\ f + i \in 0 .. Len(s) /\ Len(Rest(s, f)) = Len(s) - f /\ Rest(s, f) \in Seq(BOOLEAN)
  BY RestProperties, SMTT(30)
<1>2. i \in 0 .. Len(Rest(s, f))
  BY <1>1
<1>3. Rest(Rest(s, f), i) \in Seq(BOOLEAN) /\ Len(Rest(Rest(s, f), i)) = Len(s) - (f + i)
  BY <1>1, <1>2, RestProperties, SMTT(30)
<1>4. Rest(s, f + i) \in Seq(BOOLEAN) /\ Len(Rest(s, f + i)) = Len(s) - (f + i)
  BY <1>1, RestProperties
<1>5. ASSUME NEW n \in 1 .. Len(s) - (f + i) PROVE Rest(Rest(s, f), i)[n] = Rest(s, f + i)[n]
  <2>1. n \in 1 .. Len(Rest(s, f)) - i /\ i + n \in 1 .. Len(s) - f /\ f + (i + n) = (f + i) + n
    BY <1>1, SMTT(30)
  <2>2. Rest(Rest(s, f), i)[n] = Rest(s, f)[i + n]
    BY <1>1, <1>2, <2>1, RestProperties
  <2>3. Rest(s, f)[i + n] = s[f + (i + n)]
    BY <2>1, RestProperties
  <2>4. Rest(s, f + i)[n] = s[(f + i) + n]
    BY <1>1, RestProperties
  <2>. QED  BY <2>1, <2>2, <2>3, <2>4
<1>. QED  BY <1>3, <1>4, <1>5, SameElements

\* The rest of a longer queue.
LEMMA RestOfAppend ==
  ASSUME NEW s \in Seq(BOOLEAN), NEW b \in BOOLEAN, NEW i \in 0 .. Len(s)
  PROVE  Rest(Append(s, b), i) = Append(Rest(s, i), b)
<1>. DEFINE a == Append(s, b)
<1>1. a \in Seq(BOOLEAN) /\ Len(a) = Len(s) + 1 /\ Len(s) \in Nat /\ a[Len(s) + 1] = b
      /\ \A n \in 1 .. Len(s) : a[n] = s[n]
  BY SMTT(30)
<1>. HIDE DEF a
<1>2. i \in 0 .. Len(a)
  BY <1>1, SMTT(30)
<1>3. Rest(a, i) \in Seq(BOOLEAN) /\ Len(Rest(a, i)) = Len(s) - i + 1
      /\ \A n \in 1 .. Len(s) - i + 1 : Rest(a, i)[n] = a[i + n]
  BY <1>1, <1>2, RestProperties, SMTT(30)
<1>. DEFINE r == Rest(s, i)
            c == Append(r, b)
<1>4. r \in Seq(BOOLEAN) /\ Len(r) = Len(s) - i /\ \A n \in 1 .. Len(s) - i : r[n] = s[i + n]
  BY RestProperties
<1>. HIDE DEF r
<1>5. c \in Seq(BOOLEAN) /\ Len(c) = Len(r) + 1 /\ c[Len(r) + 1] = b /\ \A n \in 1 .. Len(r) : c[n] = r[n]
  BY <1>4, SMTT(30)
<1>. HIDE DEF c
<1>6. ASSUME NEW n \in 1 .. Len(s) - i + 1 PROVE Rest(a, i)[n] = c[n]
  <2>1. CASE n = Len(s) - i + 1
    <3>1. i + n = Len(s) + 1
      BY <1>1, <2>1, SMTT(30)
    <3>2. c[n] = b
      BY <1>4, <1>5, <2>1
    <3>. QED  BY <1>1, <1>3, <3>1, <3>2
  <2>2. CASE n # Len(s) - i + 1
    <3>1. n \in 1 .. Len(s) - i /\ i + n \in 1 .. Len(s)
      BY <1>1, <2>2, SMTT(30)
    <3>2. c[n] = s[i + n]
      BY <1>4, <1>5, <3>1
    <3>. QED  BY <1>1, <1>3, <3>1, <3>2
  <2>. QED  BY <2>1, <2>2
<1>7. Len(Rest(a, i)) = Len(c)
  BY <1>3, <1>4, <1>5
<1>8. Rest(a, i) = c
  BY <1>3, <1>5, <1>6, <1>7, SameElements
<1>. QED  BY <1>8 DEF a, c, r

\* Taking the completion of the first signalled send takes one signal.
LEMMA SignalsReclaimed ==
  ASSUME NEW s \in Seq(BOOLEAN), NEW f \in 1 .. Len(s), s[f], \A m \in 1 .. f - 1 : ~s[m]
  PROVE  Signals(s) = Signals(Rest(s, f)) + 1
<1>. DEFINE T == Marks(Rest(s, f))
            S == Marks(s) \ {f}
            g == [n \in T |-> f + n]
<1>0. /\ Len(s) \in Nat /\ f \in 0 .. Len(s) /\ Rest(s, f) \in Seq(BOOLEAN)
      /\ Len(Rest(s, f)) = Len(s) - f /\ \A n \in 1 .. Len(s) - f : Rest(s, f)[n] = s[f + n]
  BY RestProperties, SMTT(30)
<1>1. \A n \in T : n \in Nat /\ f + n \in S
  <2>. TAKE n \in T
  <2>1. n \in 1 .. Len(s) - f /\ Rest(s, f)[n]
    BY <1>0 DEF Marks
  <2>2. f + n \in 1 .. Len(s) /\ s[f + n] /\ f + n # f
    BY <1>0, <2>1, SMTT(30)
  <2>. QED  BY <2>1, <2>2, SMTT(30) DEF Marks
<1>2. \A m \in S : m - f \in T /\ m \in Nat
  <2>. TAKE m \in S
  <2>1. m \in 1 .. Len(s) /\ s[m] /\ m # f
    BY DEF Marks
  <2>2. m > f
    BY <1>0, <2>1, SMTT(30)
  <2>3. m - f \in 1 .. Len(s) - f /\ f + (m - f) = m
    BY <1>0, <2>1, <2>2, SMTT(30)
  <2>4. Rest(s, f)[m - f]
    BY <1>0, <2>1, <2>3
  <2>. QED  BY <1>0, <2>1, <2>3, <2>4, SMTT(30) DEF Marks
<1>3. g \in Bijection(T, S)
  <2>. HIDE DEF T, S
  <2>1. g \in [T -> S] /\ \A a, b \in T : g[a] = g[b] => a = b
    BY <1>1, SMTT(30)
  <2>2. \A m \in S : \E n \in T : g[n] = m
    <3>. TAKE m \in S
    <3>1. m - f \in T /\ f + (m - f) = m
      BY <1>2, SMTT(30)
    <3>. QED  BY <3>1
  <2>. HIDE DEF g
  <2>. QED  BY <2>1, <2>2, IsOneToOneAndOnto
<1>4. ExistsBijection(T, S)
  BY <1>3 DEF ExistsBijection
<1>5. Cardinality(S) = Cardinality(T)
  <2>1. IsFiniteSet(T)
    BY <1>0, MarksFinite
  <2>. QED  BY <1>4, <2>1, FS_Bijection
<1>6. f \in Marks(s)
  BY DEF Marks
<1>7. Cardinality(S) = Cardinality(Marks(s)) - 1
  BY <1>6, MarksFinite, FS_RemoveElement
<1>8. Signals(s) = Cardinality(Marks(s)) /\ Signals(Rest(s, f)) = Cardinality(T) /\ Signals(s) \in Nat
  BY <1>0, MarksFinite
<1>9. Signals(Rest(s, f)) \in Nat
  BY <1>0, MarksFinite
<1>10. Signals(Rest(s, f)) = Signals(s) - 1
  BY <1>5, <1>7, <1>8
<1>. HIDE DEF S, T
<1>. QED  BY <1>8, <1>9, <1>10, SMTT(30)

\* A queue with a signal has a first one.
LEMMA HasFirst ==
  ASSUME NEW s \in Seq(BOOLEAN), Signals(s) # 0
  PROVE  \E n \in 1 .. Len(s) : s[n] /\ \A m \in 1 .. n - 1 : ~s[m]
<1>1. Marks(s) # {}
  BY MarksFinite, FS_EmptySet
<1>2. Marks(s) \in SUBSET Nat
  BY SMTT(30) DEF Marks
<1>3. PICK n \in Marks(s) : \A k \in Marks(s) : n <= k
  BY <1>1, <1>2, LeastNumber
<1>4. n \in 1 .. Len(s) /\ s[n]
  BY DEF Marks
<1>5. ASSUME NEW m \in 1 .. n - 1, s[m] PROVE FALSE
  <2>1. m \in Marks(s)
    BY <1>4, <1>5, SMTT(30) DEF Marks
  <2>. QED  BY <1>3, <1>4, <2>1, SMTT(30)
<1>. QED  BY <1>4, <1>5

\* Reclaiming up to a signal keeps AheadOn.
LEMMA ReclaimAhead ==
  ASSUME NEW s \in Seq(BOOLEAN), NEW g, NEW k, AheadOn(s, g, k), NEW f \in 1 .. Len(s), s[f]
  PROVE  AheadOn(Rest(s, f), g, k)
<1>1. Len(s) \in Nat /\ f \in 0 .. Len(s)
  BY SMTT(30)
<1>2. Len(Rest(s, f)) = Len(s) - f /\ \A n \in 1 .. Len(s) - f : Rest(s, f)[n] = s[f + n]
  BY <1>1, RestProperties
<1>. SUFFICES ASSUME NEW i \in 0 .. Len(s) - f, i = 0 \/ Rest(s, f)[i]
              PROVE  Len(s) - f - i <= (Signals(Rest(Rest(s, f), i)) + g + 1) * S_DEPTH + k
  BY <1>2 DEF AheadOn
<1>3. f + i \in 0 .. Len(s) /\ Len(s) - f - i = Len(s) - (f + i) /\ (i = 0 => f + i = f)
      /\ (i # 0 => i \in 1 .. Len(s) - f)
  BY <1>1, SMTT(30)
<1>5. s[f + i]
  BY <1>2, <1>3
<1>4. Len(s) - (f + i) <= (Signals(Rest(s, f + i)) + g + 1) * S_DEPTH + k
  BY <1>3, <1>5 DEF AheadOn
<1>. QED  BY <1>1, <1>3, <1>4, RestOfRest

\* Posting a request keeps AheadOn.
LEMMA AppendAhead ==
  ASSUME NEW s \in Seq(BOOLEAN), NEW g \in Nat, NEW k \in Int, AheadOn(s, g, k),
         NEW b \in BOOLEAN, b => g > 0 /\ S_DEPTH + k + 1 >= 0
  PROVE  AheadOn(Append(s, b), IF b THEN g - 1 ELSE g, k + 1)
<1>. DEFINE a == Append(s, b)
            h == IF b THEN g - 1 ELSE g
<1>0. S_DEPTH \in Nat
  BY SendQueueAssumption
<1>1. a \in Seq(BOOLEAN) /\ Len(a) = Len(s) + 1 /\ Len(s) \in Nat /\ a[Len(s) + 1] = b
      /\ \A n \in 1 .. Len(s) : a[n] = s[n]
  BY SMTT(30)
<1>2. h \in Nat
  BY SMTT(30)
<1>. HIDE DEF a, h
<1>. SUFFICES ASSUME NEW i \in 0 .. Len(s) + 1, i = 0 \/ a[i]
              PROVE  Len(s) + 1 - i <= (Signals(Rest(a, i)) + h + 1) * S_DEPTH + (k + 1)
  BY <1>1, SMTT(30) DEF AheadOn, a, h
<1>3. CASE i \in 0 .. Len(s)
  <2>1. i = 0 \/ s[i]
    BY <1>1, <1>3, SMTT(30)
  <2>2. Len(s) - i <= (Signals(Rest(s, i)) + g + 1) * S_DEPTH + k
    BY <1>3, <2>1 DEF AheadOn
  <2>3. Rest(s, i) \in Seq(BOOLEAN)
    BY <1>3, RestProperties
  <2>4. Signals(Rest(s, i)) \in Nat
    BY <2>3, MarksFinite
  <2>5. Signals(Rest(a, i)) = Signals(Rest(s, i)) + (IF b THEN 1 ELSE 0)
    BY <1>3, <2>3, RestOfAppend, SignalsAppend DEF a
  <2>6. Signals(Rest(a, i)) + h + 1 = Signals(Rest(s, i)) + g + 1
    <3>1. CASE b
      <4>1. Signals(Rest(a, i)) = Signals(Rest(s, i)) + 1 /\ h = g - 1
        BY <2>5, <3>1 DEF h
      <4>. QED  BY <2>4, <4>1, SMTT(30)
    <3>2. CASE ~b
      <4>1. Signals(Rest(a, i)) = Signals(Rest(s, i)) + 0 /\ h = g
        BY <2>5, <3>2 DEF h
      <4>. QED  BY <2>4, <4>1, SMTT(30)
    <3>. QED  BY <3>1, <3>2
  <2>. DEFINE p == (Signals(Rest(s, i)) + g + 1) * S_DEPTH
  <2>7. p \in Int
    BY <1>0, <2>4, SMTT(30)
  <2>8. Len(s) - i <= p + k /\ (Signals(Rest(a, i)) + h + 1) * S_DEPTH = p
    BY <2>2, <2>6
  <2>. HIDE DEF p
  <2>. QED  BY <1>1, <2>7, <2>8, SMTT(30)
<1>4. CASE i = Len(s) + 1
  <2>1. b
    BY <1>1, <1>4, SMTT(30)
  <2>2. Rest(a, i) \in Seq(BOOLEAN) /\ Signals(Rest(a, i)) \in Nat
    BY <1>1, RestProperties, MarksFinite
  <2>3. (Signals(Rest(a, i)) + h + 1) * S_DEPTH >= S_DEPTH
    <3>1. \A q \in Nat : (q + 1) * S_DEPTH >= S_DEPTH
      BY <1>0, SMTT(30)
    <3>2. Signals(Rest(a, i)) + h \in Nat
      BY <1>2, <2>2, SMTT(30)
    <3>. QED  BY <3>1, <3>2
  <2>. DEFINE p == (Signals(Rest(a, i)) + h + 1) * S_DEPTH
  <2>4. p \in Int
    BY <1>0, <1>2, <2>2, SMTT(30)
  <2>. HIDE DEF p
  <2>5. p >= S_DEPTH
    BY <2>3 DEF p
  <2>6. Len(s) + 1 - i <= p + (k + 1)
    BY <1>0, <1>1, <1>4, <2>1, <2>4, <2>5, SMTT(30)
  <2>. QED  BY <2>6 DEF p
<1>. QED  BY <1>1, <1>3, <1>4, SMTT(30)

\* Reserving a signal moves AheadOn by S_DEPTH.
LEMMA ReserveAhead ==
  ASSUME NEW s \in Seq(BOOLEAN), NEW g \in Nat, NEW k \in Int, AheadOn(s, g, k)
  PROVE  AheadOn(s, g + 1, k - S_DEPTH)
<1>0. S_DEPTH \in Nat /\ Len(s) \in Nat
  BY SendQueueAssumption, SMTT(30)
<1>. SUFFICES ASSUME NEW i \in 0 .. Len(s), i = 0 \/ s[i]
              PROVE  Len(s) - i <= (Signals(Rest(s, i)) + (g + 1) + 1) * S_DEPTH + (k - S_DEPTH)
  BY DEF AheadOn
<1>1. Len(s) - i <= (Signals(Rest(s, i)) + g + 1) * S_DEPTH + k
  BY Zenon DEF AheadOn
<1>. DEFINE q == Signals(Rest(s, i)) + g + 1
<1>2. q \in Nat /\ Signals(Rest(s, i)) + (g + 1) + 1 = q + 1
  <2>1. Signals(Rest(s, i)) \in Nat
    BY RestProperties, MarksFinite
  <2>. QED  BY <2>1, SMTT(30)
<1>3. Len(s) - i <= q * S_DEPTH + k
  BY <1>1
<1>. HIDE DEF q
<1>4. (q + 1) * S_DEPTH = q * S_DEPTH + S_DEPTH /\ q * S_DEPTH \in Int
  BY <1>0, <1>2, SMTT(30)
<1>5. Len(s) - i <= (q + 1) * S_DEPTH + (k - S_DEPTH)
  <2>. DEFINE p == q * S_DEPTH
  <2>1. p \in Int /\ Len(s) - i <= p + k /\ (q + 1) * S_DEPTH = p + S_DEPTH
    BY <1>3, <1>4
  <2>. HIDE DEF p
  <2>. QED  BY <1>0, <2>1, SMTT(30)
<1>. QED  BY <1>2, <1>5

-----------------------------------------------------------------------------
\* The senders of each kind can be counted.
LEMMA Finite ==
  /\ IsFiniteSet(Polling) /\ Cardinality(Polling) \in Nat
  /\ IsFiniteSet(Signalling) /\ Cardinality(Signalling) \in Nat
  /\ IsFiniteSet(Unposted) /\ Cardinality(Unposted) \in Nat
  /\ IsFiniteSet(Sender) /\ Cardinality(Sender) \in Nat \ {0}
  /\ Cardinality(Unposted) <= Cardinality(Sender)
<1>1. IsFiniteSet(Sender) /\ Sender # {}
  BY SendQueueAssumption
<1>2. Cardinality(Sender) \in Nat \ {0}
  BY <1>1, FS_CardinalityType, FS_EmptySet
<1>3. /\ IsFiniteSet(Polling) /\ Cardinality(Polling) \in Nat
      /\ IsFiniteSet(Signalling) /\ Cardinality(Signalling) \in Nat
  BY <1>1, FS_Subset, FS_CardinalityType DEF Polling, Signalling
<1>4. /\ IsFiniteSet(Unposted) /\ Cardinality(Unposted) \in Nat
      /\ Cardinality(Unposted) <= Cardinality(Sender)
  BY <1>1, FS_Subset, FS_CardinalityType DEF Unposted
<1>. QED
  BY <1>1, <1>2, <1>3, <1>4

\* The threads before and behind a failed request can be counted.
LEMMA FiniteStalled ==
  /\ IsFiniteSet(Before) /\ Cardinality(Before) \in Nat
  /\ IsFiniteSet(Behind) /\ Cardinality(Behind) \in Nat
  /\ Cardinality(Behind) <= Cardinality(Sender)
<1>1. Before \in SUBSET Sender /\ Behind \in SUBSET Sender
  BY DEF Before, Behind
<1>. QED
  BY <1>1, Finite, FS_Subset, FS_CardinalityType

\* The terms of Excess are numbers.
LEMMA Terms == QueueType =>
         /\ cq \in Nat /\ Signals(sq) \in Nat /\ lost.signals \in Nat /\ lost.first \in Nat
         /\ Cardinality(Signalling) \in Nat /\ Cardinality(Polling) \in Nat /\ Open \in 0 .. 1
         /\ Excess \in Int
<1>. SUFFICES ASSUME QueueType
              PROVE  /\ cq \in Nat /\ Signals(sq) \in Nat /\ lost.signals \in Nat /\ lost.first \in Nat
                     /\ Cardinality(Signalling) \in Nat /\ Cardinality(Polling) \in Nat /\ Open \in 0 .. 1
                     /\ Excess \in Int
  OBVIOUS
<1>1. cq \in Nat /\ Signals(sq) \in Nat /\ lost.signals \in Nat /\ lost.first \in Nat
  BY MarksFinite DEF QueueType
<1>2. Cardinality(Signalling) \in Nat /\ Cardinality(Polling) \in Nat
  BY Finite
<1>3. Open \in 0 .. 1
  BY SMTT(30) DEF Open
<1>4. Excess \in Int
  BY <1>1, <1>2, <1>3, SMTT(30) DEF Excess
<1>. QED  BY <1>1, <1>2, <1>3, <1>4

\* How Excess changes: by g on the side of the signals, by p on the side of the polls.
LEMMA ExcessChange ==
  ASSUME QueueType, QueueType', NEW g \in Int, NEW p \in Int,
         cq' + Signals(sq') + Cardinality(Signalling') + lost.signals'
           = cq + Signals(sq) + Cardinality(Signalling) + lost.signals + g,
         Cardinality(Polling') + Open' = Cardinality(Polling) + Open + p
  PROVE  Excess' = Excess + g - p
<1>1. /\ cq \in Nat /\ Signals(sq) \in Nat /\ lost.signals \in Nat
      /\ Cardinality(Signalling) \in Nat /\ Cardinality(Polling) \in Nat /\ Open \in 0 .. 1
  BY Terms
<1>2. (/\ cq \in Nat /\ Signals(sq) \in Nat /\ lost.signals \in Nat
       /\ Cardinality(Signalling) \in Nat /\ Cardinality(Polling) \in Nat /\ Open \in 0 .. 1)'
  BY Terms, PTL
<1>3. /\ cq' \in Nat /\ Signals(sq') \in Nat /\ lost.signals' \in Nat
      /\ Cardinality(Signalling') \in Nat /\ Cardinality(Polling') \in Nat /\ Open' \in 0 .. 1
  BY <1>2 DEF Signals
<1>4. Excess' = cq' + Signals(sq') + Cardinality(Signalling') + lost.signals' - Cardinality(Polling') - Open'
  BY DEF Excess, Signals
<1>. QED  BY <1>1, <1>3, <1>4, SMTT(30) DEF Excess

\* What reserving a number does to the thread.
LEMMA Reserved ==
  ASSUME QueueType, NEW t \in Sender, Reserve(t)
  PROVE  /\ sender[t].at = "idle" /\ sender'[t].at = "post" /\ sender'[t].number = requests + 1
         /\ sender'[t].flags = (IF ~rc_connected THEN "unset"
                                ELSE IF send_count % S_DEPTH = 0 THEN "signalled" ELSE "plain")
         /\ sender'[t].poll = (rc_connected /\ send_count % S_DEPTH = S_DEPTH - 1)
         /\ \A u \in Sender \ {t} : sender'[u] = sender[u]
         /\ requests' = requests + 1
         /\ send_count' = IF rc_connected THEN send_count + 1 ELSE send_count
         /\ UNCHANGED <<link, late, committed, sq, cq, unreclaimed, lost>>
         /\ QueueType'
<1>. DEFINE f == IF ~rc_connected THEN "unset"
                 ELSE IF send_count % S_DEPTH = 0 THEN "signalled" ELSE "plain"
            b == rc_connected /\ send_count % S_DEPTH = S_DEPTH - 1
<1>1. /\ sender' = [sender EXCEPT ![t] = [at |-> "post", number |-> requests + 1,
                                          flags |-> f, poll |-> b]]
      /\ sender[t].at = "idle" /\ requests' = requests + 1
      /\ send_count' = (IF rc_connected THEN send_count + 1 ELSE send_count)
      /\ UNCHANGED <<link, late, committed, sq, cq, unreclaimed, lost>>
  BY DEF Reserve, ReserveWith
<1>2. f \in {"signalled", "plain", "unset"} /\ b \in BOOLEAN
  OBVIOUS
<1>. HIDE DEF f, b
<1>3. /\ sender'[t] = [at |-> "post", number |-> requests + 1, flags |-> f, poll |-> b]
      /\ \A u \in Sender \ {t} : sender'[u] = sender[u]
  BY <1>1 DEF QueueType
<1>4. QueueType'
  <2>1. requests + 1 \in Nat /\ send_count' \in Nat
    BY <1>1, SMTT(30) DEF QueueType
  <2>. QED  BY <1>1, <1>2, <2>1, SMTT(30) DEF QueueType
<1>5. sender'[t].at = "post" /\ sender'[t].number = requests + 1 /\ sender'[t].flags = f /\ sender'[t].poll = b
  BY <1>3, SMTT(30)
<1>. QED  BY <1>1, <1>3, <1>4, <1>5, ZenonT(30) DEF f, b

\* Reserving a number keeps Excess.
LEMMA ReserveStep ==
  ASSUME QueueType, NEW t \in Sender, Reserve(t)
  PROVE  Excess' = Excess /\ (link = "none" /\ Signalling = {} => Signalling' = {})
<1>. DEFINE n == send_count
            sig == n % S_DEPTH = 0
            pol == n % S_DEPTH = S_DEPTH - 1
<1>0. sig \in BOOLEAN /\ pol \in BOOLEAN /\ S_DEPTH \in Nat \ {0, 1} /\ n \in Nat
  BY SendQueueAssumption DEF QueueType
<1>1. /\ sender[t].at = "idle" /\ sender'[t].at = "post"
      /\ \A u \in Sender \ {t} : sender'[u] = sender[u]
      /\ sq' = sq /\ cq' = cq /\ lost' = lost /\ QueueType'
  BY Reserved
<1>2. t \notin Polling /\ t \notin Signalling
  BY <1>1 DEF Polling, Signalling
<1>3. /\ Cardinality(Polling \cup {t}) = Cardinality(Polling) + 1
      /\ Cardinality(Signalling \cup {t}) = Cardinality(Signalling) + 1
      /\ Cardinality(Polling) \in Nat /\ Cardinality(Signalling) \in Nat
  BY <1>2, Finite, FS_AddElement
<1>4. Signals(sq) \in Nat /\ cq \in Nat /\ lost.signals \in Nat /\ Open \in 0 .. 1
      /\ Signals(sq') = Signals(sq) /\ lost.signals' = lost.signals
  BY <1>1, Terms
<1>5. CASE ~rc_connected
  <2>1. sender'[t].flags = "unset" /\ ~sender'[t].poll /\ send_count' = send_count
    BY <1>5, Reserved
  <2>2. Polling' = Polling /\ Signalling' = Signalling
    BY <1>1, <1>2, <2>1 DEF Polling, Signalling
  <2>3. Open' = Open
    BY <2>1 DEF Open
  <2>4. Excess' = Excess
    BY <1>1, <2>2, <2>3 DEF Excess, Signals
  <2>. QED  BY <2>2, <2>4
<1>6. CASE rc_connected
  <2>1. /\ sender'[t].flags = (IF sig THEN "signalled" ELSE "plain") /\ sender'[t].poll = pol
        /\ send_count' = n + 1
    BY <1>6, Reserved
  <2>2. n % S_DEPTH \in 0 .. S_DEPTH - 1 /\ (n + 1) % S_DEPTH = IF pol THEN 0 ELSE (n % S_DEPTH) + 1
    BY <1>0, NextMod
  <2>3. (sig => ~pol) /\ Open = (IF sig THEN 0 ELSE 1) /\ Open' = (IF pol THEN 0 ELSE 1)
    BY <1>0, <2>1, <2>2, SMTT(30) DEF Open
  <2>. HIDE DEF n, sig, pol
  <2>4. Polling' = (IF pol THEN Polling \cup {t} ELSE Polling)
    BY <1>0, <1>1, <1>2, <2>1 DEF Polling
  <2>5. Signalling' = (IF sig THEN Signalling \cup {t} ELSE Signalling)
    BY <1>0, <1>1, <1>2, <2>1 DEF Signalling
  <2>6. link # "none"
    BY <1>6 DEF rc_connected
  <2>. DEFINE d == IF sig THEN 1 ELSE 0
  <2>7. d \in Int /\ Excess' = Excess + d - d
    <3>1. CASE sig
      <4>1. /\ Open = 0 /\ Open' = 1 /\ Cardinality(Polling') = Cardinality(Polling)
            /\ Cardinality(Signalling') = Cardinality(Signalling) + 1 /\ d = 1
        BY <1>3, <2>3, <2>4, <2>5, <3>1
      <4>2. Cardinality(Polling') + Open' = Cardinality(Polling) + Open + 1
        BY <1>3, <4>1, SMTT(30)
      <4>3. cq' + Signals(sq') + Cardinality(Signalling') + lost.signals'
             = cq + Signals(sq) + Cardinality(Signalling) + lost.signals + 1
        BY <1>1, <1>3, <1>4, <4>1, SMTT(30)
      <4>4. 1 \in Int
        BY SMTT(30)
      <4>. QED  BY <1>1, <4>1, <4>2, <4>3, <4>4, ExcessChange
    <3>2. CASE ~sig
      <4>1. /\ Cardinality(Polling') + Open' = Cardinality(Polling) + Open
            /\ Cardinality(Signalling') = Cardinality(Signalling) /\ d = 0
        <5>1. Cardinality(Signalling') = Cardinality(Signalling) /\ d = 0 /\ Open = 1
          BY <2>3, <2>5, <3>2
        <5>2. CASE pol
          <6>1. Cardinality(Polling') = Cardinality(Polling) + 1 /\ Open' = 0
            BY <1>3, <2>3, <2>4, <5>2
          <6>. QED  BY <1>3, <5>1, <6>1, SMTT(30)
        <5>3. CASE ~pol
          <6>1. Cardinality(Polling') = Cardinality(Polling) /\ Open' = 1
            BY <2>3, <2>4, <5>3
          <6>. QED  BY <5>1, <6>1
        <5>. QED  BY <5>2, <5>3
      <4>2. Cardinality(Polling') + Open' = Cardinality(Polling) + Open + 0
        BY <1>3, <1>4, <4>1, SMTT(30)
      <4>3. cq' + Signals(sq') + Cardinality(Signalling') + lost.signals'
             = cq + Signals(sq) + Cardinality(Signalling) + lost.signals + 0
        BY <1>1, <1>3, <1>4, <4>1, SMTT(30)
      <4>4. 0 \in Int
        BY SMTT(30)
      <4>. QED  BY <1>1, <4>1, <4>2, <4>3, <4>4, ExcessChange
    <3>. QED  BY <3>1, <3>2
  <2>8. Excess \in Int
    BY Terms
  <2>. HIDE DEF d
  <2>9. Excess' = Excess
    BY <2>7, <2>8, SMTT(30)
  <2>. QED  BY <2>6, <2>9
<1>. QED  BY <1>5, <1>6

\* What posting does to the thread and to the queue.
LEMMA Posted ==
  ASSUME QueueType, NEW t \in Sender, post_send(t)
  PROVE  /\ sender[t].at = "post" /\ sender'[t].at = "wait"
         /\ \A u \in Sender : sender'[u].number = sender[u].number /\ sender'[u].flags = sender[u].flags
         /\ \A u \in Sender \ {t} : sender'[u] = sender[u]
         /\ UNCHANGED <<link, late, send_count, requests, committed>>
         /\ (sender[t].poll => cq > 0)
         /\ cq' = IF sender[t].poll THEN cq - 1 ELSE cq
         /\ (link = "ready" => /\ lost' = lost
                               /\ \E s \in Signalled(sender[t].flags) :
                                     /\ sq' = Append(sq, s)
                                     /\ unreclaimed' = Append(Reclaimed(sender[t].poll), s))
         /\ (link # "ready" => /\ sq' = sq /\ lost'.first = lost.first
                               /\ lost.signals' = lost.signals
                                     + IF sender[t].flags = "signalled" THEN 1 ELSE 0)
         /\ QueueType'
<1>1. /\ sender[t].at = "post" /\ (sender[t].poll => cq > 0)
      /\ cq' = (IF sender[t].poll THEN cq - 1 ELSE cq)
      /\ sender' = [sender EXCEPT ![t].at = "wait"]
      /\ UNCHANGED <<link, late, send_count, requests, committed>>
  BY DEF post_send
<1>2. link = "ready" => /\ lost' = lost
                        /\ \E s \in Signalled(sender[t].flags) :
                              /\ sq' = Append(sq, s)
                              /\ unreclaimed' = Append(Reclaimed(sender[t].poll), s)
  BY DEF post_send
<1>3. link # "ready" =>
        /\ sq' = sq
        /\ lost' = [lost EXCEPT !.signals = @ + IF sender[t].flags = "signalled" THEN 1 ELSE 0]
  BY DEF post_send
<1>4. /\ sender'[t].at = "wait" /\ \A u \in Sender \ {t} : sender'[u] = sender[u]
      /\ \A u \in Sender : sender'[u].number = sender[u].number /\ sender'[u].flags = sender[u].flags
  BY <1>1 DEF QueueType
<1>5. lost \in [first : Nat, signals : Nat]
  BY DEF QueueType
<1>. DEFINE d == IF sender[t].flags = "signalled" THEN 1 ELSE 0
<1>6. d \in Nat
  BY SMTT(30)
<1>7. link # "ready" => /\ sq' = sq /\ lost'.first = lost.first /\ lost.signals' = lost.signals + d
                        /\ lost' \in [first : Nat, signals : Nat]
  <2>. HIDE DEF d
  <2>1. ASSUME lost' = [lost EXCEPT !.signals = @ + d]
        PROVE  /\ lost'.first = lost.first /\ lost'.signals = lost.signals + d
               /\ lost' \in [first : Nat, signals : Nat]
    BY <1>5, <1>6, <2>1, SMTT(30)
  <2>. QED  BY <1>3, <2>1 DEF d
<1>8. QueueType'
  <2>1. cq' \in Nat
    BY <1>1, SMTT(30) DEF QueueType
  <2>2. sq' \in Seq(BOOLEAN) /\ lost' \in [first : Nat, signals : Nat]
    <3>1. CASE link = "ready"
      <4>1. PICK s \in Signalled(sender[t].flags) : sq' = Append(sq, s)
        BY <1>2, <3>1
      <4>2. s \in BOOLEAN
        BY DEF Signalled
      <4>3. sq \in Seq(BOOLEAN)
        BY DEF QueueType
      <4>4. sq' \in Seq(BOOLEAN)
        BY <4>1, <4>2, <4>3, SMTT(30)
      <4>. QED  BY <1>2, <1>5, <3>1, <4>4
    <3>2. CASE link # "ready"
      BY <1>7, <3>2 DEF QueueType
    <3>. QED  BY <3>1, <3>2
  <2>. QED  BY <1>1, <2>1, <2>2, ZenonT(30) DEF QueueType
<1>. QED  BY <1>1, <1>2, <1>4, <1>7, <1>8

\* Posting a request does not lower Excess, and keeps it when the flag is set.
LEMMA PostStep ==
  ASSUME QueueType, NEW t \in Sender, post_send(t)
  PROVE  /\ Excess' >= Excess /\ (sender[t].flags # "unset" => Excess' = Excess)
         /\ (Signalling = {} => Signalling' = {})
<1>. DEFINE sig == sender[t].flags = "signalled"
            pol == sender[t].poll
            d == IF sig THEN 1 ELSE 0
            e == IF pol THEN -1 ELSE 0
<1>0. /\ sig \in BOOLEAN /\ pol \in BOOLEAN /\ cq \in Nat /\ sq \in Seq(BOOLEAN)
      /\ Signals(sq) \in Nat /\ lost.signals \in Nat /\ Open \in 0 .. 1 /\ Excess \in Int
  BY Terms DEF QueueType
<1>1. /\ sender[t].at = "post" /\ sender'[t].at = "wait"
      /\ \A u \in Sender \ {t} : sender'[u] = sender[u]
      /\ send_count' = send_count /\ QueueType'
  BY Posted
<1>2. cq' = cq + e
  BY <1>0, Posted, SMTT(30)
<1>3. (t \in Polling <=> pol) /\ (t \in Signalling <=> sig)
  BY <1>1 DEF Polling, Signalling
<1>4. Polling' = Polling \ {t} /\ Signalling' = Signalling \ {t}
  BY <1>1 DEF Polling, Signalling
<1>5. /\ Cardinality(Polling') = IF pol THEN Cardinality(Polling) - 1 ELSE Cardinality(Polling)
      /\ Cardinality(Signalling') = IF sig THEN Cardinality(Signalling) - 1 ELSE Cardinality(Signalling)
      /\ Cardinality(Polling) \in Nat /\ Cardinality(Signalling) \in Nat
  BY <1>3, <1>4, Finite, FS_RemoveElement
<1>6. Open' = Open
  BY <1>1 DEF Open
<1>. HIDE DEF sig, pol
<1>7. /\ Cardinality(Polling') = Cardinality(Polling) + e /\ e \in Int
      /\ Cardinality(Signalling') = Cardinality(Signalling) - d /\ d \in Int
  BY <1>5, SMTT(30)
<1>8. Cardinality(Polling') + Open' = Cardinality(Polling) + Open + e
  BY <1>0, <1>5, <1>6, <1>7, SMTT(30)
<1>9. CASE link = "ready"
  <2>1. PICK s \in Signalled(sender[t].flags) : sq' = Append(sq, s)
    BY <1>9, Posted
  <2>2. s \in BOOLEAN /\ (sender[t].flags # "unset" => s = sig) /\ (sig => s)
    BY DEF Signalled, sig
  <2>. DEFINE x == IF s THEN 1 ELSE 0
  <2>3. Signals(sq') = Signals(sq) + x /\ lost.signals' = lost.signals
    BY <1>0, <1>9, <2>1, <2>2, SignalsAppend, Posted
  <2>4. x \in Int /\ x >= d /\ (sender[t].flags # "unset" => x = d)
    BY <2>2, SMTT(30)
  <2>. HIDE DEF x, d, e
  <2>5. x - d + e \in Int
    BY <1>7, <2>4, SMTT(30)
  <2>6. cq' + Signals(sq') + Cardinality(Signalling') + lost.signals'
          = cq + Signals(sq) + Cardinality(Signalling) + lost.signals + (x - d + e)
    <3>1. /\ cq \in Int /\ Signals(sq) \in Int /\ lost.signals \in Int
          /\ Cardinality(Signalling) \in Int
      BY <1>0, <1>5, SMTT(30)
    <3>2. (cq + e) + (Signals(sq) + x) + (Cardinality(Signalling) - d) + lost.signals
           = cq + Signals(sq) + Cardinality(Signalling) + lost.signals + (x - d + e)
      BY ONLY <1>7, <2>4, <3>1, SMTT(30)
    <3>3. /\ cq' = cq + e /\ Signals(sq') = Signals(sq) + x /\ lost.signals' = lost.signals
          /\ Cardinality(Signalling') = Cardinality(Signalling) - d
      BY <1>2, <1>7, <2>3
    <3>. QED  BY ONLY <3>2, <3>3, SMTT(30)
  <2>7. Excess' = Excess + (x - d + e) - e
    BY <1>1, <1>7, <1>8, <2>5, <2>6, ExcessChange
  <2>8. Excess' >= Excess /\ (x = d => Excess' = Excess)
    BY <1>0, <1>7, <2>4, <2>7, SMTT(30)
  <2>. QED  BY <1>4, <2>4, <2>8
<1>10. CASE link # "ready"
  <2>1. sq' = sq /\ lost.signals' = lost.signals + d
    BY <1>10, Posted DEF sig
  <2>. HIDE DEF d, e
  <2>2. Signals(sq') = Signals(sq)
    BY <2>1
  <2>3. cq' + Signals(sq') + Cardinality(Signalling') + lost.signals'
          = cq + Signals(sq) + Cardinality(Signalling) + lost.signals + e
    <3>1. /\ cq \in Int /\ Signals(sq) \in Int /\ lost.signals \in Int
          /\ Cardinality(Signalling) \in Int
      BY <1>0, <1>5, SMTT(30)
    <3>2. (cq + e) + Signals(sq) + (Cardinality(Signalling) - d) + (lost.signals + d)
           = cq + Signals(sq) + Cardinality(Signalling) + lost.signals + e
      BY ONLY <1>7, <3>1, SMTT(30)
    <3>3. /\ cq' = cq + e /\ Signals(sq') = Signals(sq) /\ lost.signals' = lost.signals + d
          /\ Cardinality(Signalling') = Cardinality(Signalling) - d
      BY <1>2, <1>7, <2>1, <2>2
    <3>. QED  BY ONLY <3>2, <3>3, SMTT(30)
  <2>4. Excess' = Excess + e - e
    BY <1>1, <1>7, <1>8, <2>3, ExcessChange
  <2>5. Excess' = Excess /\ Excess' >= Excess
    BY <1>0, <1>7, <2>4, SMTT(30)
  <2>. QED  BY <1>4, <2>5
<1>. QED  BY <1>9, <1>10

\* A completion keeps Excess.
LEMMA CompleteStep ==
  ASSUME QueueType, CompleteSend
  PROVE  /\ QueueType' /\ Excess' = Excess /\ cq' + Signals(sq') = cq + Signals(sq)
         /\ UNCHANGED <<link, late, send_count, sender, requests, committed, unreclaimed, lost>>
         /\ Signalling' = Signalling
<1>. DEFINE g == IF Head(sq) THEN 1 ELSE 0
<1>0. sq \in Seq(BOOLEAN) /\ sq # <<>> /\ cq \in Nat
  BY DEF QueueType, CompleteSend
<1>1. sq' = Tail(sq) /\ cq' = (IF Head(sq) THEN cq + 1 ELSE cq)
      /\ UNCHANGED <<link, late, send_count, sender, requests, committed, unreclaimed, lost>>
  BY DEF CompleteSend
<1>2. Tail(sq) \in Seq(BOOLEAN) /\ Signals(sq) = Signals(Tail(sq)) + g
  <2>1. Tail(sq) \in Seq(BOOLEAN)
    BY <1>0, SMTT(30)
  <2>. QED  BY <1>0, <2>1, SignalsTail
<1>3. sq' \in Seq(BOOLEAN)
  BY <1>1, <1>2
<1>4. Signals(Tail(sq)) \in Nat /\ Signals(sq') = Signals(Tail(sq))
  BY <1>1, <1>2, MarksFinite DEF Signals
<1>5. cq' = cq + g /\ g \in Nat
  <2>1. CASE Head(sq)
    <3>1. cq' = cq + 1 /\ g = 1
      BY <1>1, <2>1
    <3>. QED  BY <3>1
  <2>2. CASE ~Head(sq)
    <3>1. cq' = cq /\ g = 0
      BY <1>1, <2>2
    <3>2. cq = cq + 0
      BY <1>0, SMTT(30)
    <3>. QED  BY <3>1, <3>2
  <2>. QED  BY <2>1, <2>2
<1>. HIDE DEF g
<1>6. QueueType'
  <2>1. cq' \in Nat
    BY <1>0, <1>5, SMTT(30)
  <2>. QED  BY <1>1, <1>3, <2>1 DEF QueueType
<1>7. Polling' = Polling /\ Signalling' = Signalling /\ Open' = Open
  BY <1>1 DEF Polling, Signalling, Open
<1>8. cq' + Signals(sq') = cq + Signals(sq)
  BY <1>0, <1>2, <1>4, <1>5, SMTT(30)
<1>9. Excess' = Excess
  BY <1>1, <1>7, <1>8 DEF Excess, Signals
<1>. QED
  BY <1>1, <1>6, <1>7, <1>8, <1>9

\* A thread that leaves the posting loop.
LEMMA Leaving ==
  ASSUME QueueType, NEW t \in Sender, sender[t].at = "post", sender'[t].at # "post",
         \A u \in Sender \ {t} : sender'[u] = sender[u]
  PROVE  /\ Polling' = Polling \ {t} /\ Signalling' = Signalling \ {t}
         /\ (sender[t].flags = "signalled" <=> t \in Signalling)
         /\ Cardinality(Polling') <= Cardinality(Polling) /\ Cardinality(Polling') \in Nat
         /\ Cardinality(Signalling') = Cardinality(Signalling)
              - IF sender[t].flags = "signalled" THEN 1 ELSE 0
<1>1. Polling' = Polling \ {t} /\ Signalling' = Signalling \ {t}
  BY DEF Polling, Signalling
<1>2. sender[t].flags = "signalled" <=> t \in Signalling
  BY DEF Signalling
<1>3. Cardinality(Polling') <= Cardinality(Polling) /\ Cardinality(Polling') \in Nat
  <2>1. Polling \ {t} \in SUBSET Polling
    OBVIOUS
  <2>. QED  BY <1>1, <2>1, Finite, FS_Subset, FS_CardinalityType
<1>4. /\ (t \in Signalling => Cardinality(Signalling') = Cardinality(Signalling) - 1)
      /\ (t \notin Signalling => Signalling' = Signalling)
      /\ Cardinality(Signalling) \in Nat
  <2>1. t \notin Signalling => Signalling \ {t} = Signalling
    OBVIOUS
  <2>2. t \in Signalling => Cardinality(Signalling \ {t}) = Cardinality(Signalling) - 1
    BY Finite, FS_RemoveElement
  <2>. QED  BY <1>1, <2>1, <2>2, Finite
<1>5. Cardinality(Signalling') = Cardinality(Signalling)
              - IF sender[t].flags = "signalled" THEN 1 ELSE 0
  BY <1>2, <1>4, SMTT(30)
<1>. QED  BY <1>1, <1>2, <1>3, <1>5

\* What is lost with a failing store_record counts in Excess.
LEMMA StoreFailsStep ==
  ASSUME QueueType, NEW t \in Sender, StoreFails(t)
  PROVE  /\ QueueType' /\ Excess' >= Excess /\ (Signalling = {} => Signalling' = {})
         /\ sender[t].at = "post" /\ sender'[t] = IdleSender
         /\ \A u \in Sender \ {t} : sender'[u] = sender[u]
         /\ lost'.first = (IF lost.first = 0 THEN sender[t].number ELSE lost.first)
         /\ UNCHANGED <<link, late, send_count, requests, committed, sq, cq, unreclaimed>>
<1>. DEFINE d == IF sender[t].flags = "signalled" THEN 1 ELSE 0
<1>1. /\ sender[t].at = "post" /\ sender' = [sender EXCEPT ![t] = IdleSender]
      /\ lost' = [first |-> IF lost.first = 0 THEN sender[t].number ELSE lost.first,
                  signals |-> lost.signals + d]
      /\ UNCHANGED <<link, late, send_count, requests, committed, sq, cq, unreclaimed>>
  BY DEF StoreFails
<1>2. d \in Nat
  BY SMTT(30)
<1>. HIDE DEF d
<1>3. /\ lost'.first = (IF lost.first = 0 THEN sender[t].number ELSE lost.first)
      /\ lost.signals' = lost.signals + d
  BY <1>1
<1>4. sender'[t] = IdleSender /\ \A u \in Sender \ {t} : sender'[u] = sender[u]
  BY <1>1 DEF QueueType
<1>5. IdleSender \in [at : {"idle", "post", "wait"}, number : Nat,
                      flags : {"signalled", "plain", "unset"}, poll : BOOLEAN]
      /\ IdleSender.at = "idle"
  BY SMTT(30) DEF IdleSender
<1>6. QueueType'
  <2>1. sender' \in [Sender -> [at : {"idle", "post", "wait"}, number : Nat,
                              flags : {"signalled", "plain", "unset"}, poll : BOOLEAN]]
    BY <1>1, <1>5 DEF QueueType
  <2>2. sender[t].number \in Nat /\ lost.first \in Nat /\ lost.signals \in Nat
    BY SMTT(30) DEF QueueType
  <2>3. lost' \in [first : Nat, signals : Nat]
    BY <1>1, <1>2, <2>2, SMTT(30)
  <2>. QED  BY <1>1, <2>1, <2>3 DEF QueueType
<1>7. /\ Signalling' = Signalling \ {t}
      /\ Cardinality(Polling') <= Cardinality(Polling) /\ Cardinality(Polling') \in Nat
      /\ Cardinality(Signalling') = Cardinality(Signalling) - d
  BY <1>1, <1>4, <1>5, Leaving DEF d
<1>8. /\ cq \in Nat /\ Signals(sq) \in Nat /\ lost.signals \in Nat /\ Excess \in Int
      /\ Cardinality(Signalling) \in Nat /\ Cardinality(Polling) \in Nat /\ Open \in 0 .. 1
  BY Terms
<1>9. cq' = cq /\ Signals(sq') = Signals(sq) /\ Open' = Open
  BY <1>1 DEF Open
<1>. DEFINE p == Cardinality(Polling') - Cardinality(Polling)
<1>10. /\ cq' + Signals(sq') + Cardinality(Signalling') + lost.signals'
           = cq + Signals(sq) + Cardinality(Signalling) + lost.signals + 0
       /\ 0 \in Int /\ p \in Int /\ p <= 0
  BY <1>2, <1>3, <1>7, <1>8, <1>9, SMTT(30)
<1>11. Cardinality(Polling') + Open' = Cardinality(Polling) + Open + p
  BY <1>7, <1>8, <1>9, SMTT(30)
<1>. HIDE DEF p
<1>12. Excess' = Excess + 0 - p
  BY <1>6, <1>10, <1>11, ExcessChange
<1>13. Excess' >= Excess
  BY <1>8, <1>10, <1>12, SMTT(30)
<1>. QED  BY <1>1, <1>3, <1>4, <1>6, <1>7, <1>13

\* A peer that is not connected is skipped by threads that hold no signal for it.
LEMMA SkipStep ==
  ASSUME QueueType, NEW t \in Sender, SkipPeer(t), link = "none" => Signalling = {}
  PROVE  QueueType' /\ Excess' >= Excess /\ Signalling' = {} /\ link = "none"
<1>1. /\ sender[t].at = "post" /\ sender' = [sender EXCEPT ![t].at = "wait"] /\ link = "none"
      /\ UNCHANGED <<link, late, send_count, requests, committed, sq, cq, unreclaimed, lost>>
  BY DEF SkipPeer, rc_connected
<1>2. sender'[t].at = "wait" /\ \A u \in Sender \ {t} : sender'[u] = sender[u]
  BY <1>1 DEF QueueType
<1>3. QueueType'
  BY <1>1 DEF QueueType
<1>4. /\ Signalling' = Signalling \ {t}
      /\ Cardinality(Polling') <= Cardinality(Polling) /\ Cardinality(Polling') \in Nat
  BY <1>1, <1>2, Leaving
<1>5. Signalling = {} /\ Signalling' = {}
  BY <1>1, <1>4
<1>6. /\ cq \in Nat /\ Signals(sq) \in Nat /\ lost.signals \in Nat /\ Excess \in Int
      /\ Cardinality(Signalling) \in Nat /\ Cardinality(Polling) \in Nat /\ Open \in 0 .. 1
  BY Terms
<1>7. /\ cq' = cq /\ Signals(sq') = Signals(sq) /\ Open' = Open /\ lost.signals' = lost.signals
      /\ Cardinality(Signalling') = Cardinality(Signalling)
  BY <1>1, <1>5 DEF Open
<1>. DEFINE p == Cardinality(Polling') - Cardinality(Polling)
<1>8. /\ cq' + Signals(sq') + Cardinality(Signalling') + lost.signals'
           = cq + Signals(sq) + Cardinality(Signalling) + lost.signals + 0
      /\ 0 \in Int /\ p \in Int /\ p <= 0
  BY <1>4, <1>6, <1>7, SMTT(30)
<1>9. Cardinality(Polling') + Open' = Cardinality(Polling) + Open + p
  BY <1>4, <1>6, <1>7, SMTT(30)
<1>. HIDE DEF p
<1>10. Excess' = Excess + 0 - p
  BY <1>3, <1>8, <1>9, ExcessChange
<1>11. Excess' >= Excess
  BY <1>6, <1>8, <1>10, SMTT(30)
<1>. QED  BY <1>1, <1>3, <1>5, <1>11

\* The return of a request keeps Excess.
LEMMA ReturnStep ==
  ASSUME QueueType, NEW t \in Sender, RequestReturns(t)
  PROVE  /\ QueueType' /\ Excess' = Excess /\ Signalling' = Signalling /\ Unposted' = Unposted
         /\ Polling' = Polling
         /\ sender[t].at = "wait" /\ sender[t].number = committed + 1 /\ sender'[t] = IdleSender
         /\ \A u \in Sender \ {t} : sender'[u] = sender[u]
         /\ committed' = committed + 1
         /\ UNCHANGED <<link, late, send_count, requests, sq, cq, unreclaimed, lost>>
<1>1. /\ sender[t].at = "wait" /\ sender[t].number = committed + 1
      /\ sender' = [sender EXCEPT ![t] = IdleSender] /\ committed' = committed + 1
      /\ UNCHANGED <<link, late, send_count, requests, sq, cq, unreclaimed, lost>>
  BY DEF RequestReturns
<1>2. sender'[t] = IdleSender /\ \A u \in Sender \ {t} : sender'[u] = sender[u]
  BY <1>1 DEF QueueType
<1>3. IdleSender \in [at : {"idle", "post", "wait"}, number : Nat,
                      flags : {"signalled", "plain", "unset"}, poll : BOOLEAN]
      /\ IdleSender.at = "idle"
  BY SMTT(30) DEF IdleSender
<1>4. QueueType'
  <2>1. sender' \in [Sender -> [at : {"idle", "post", "wait"}, number : Nat,
                              flags : {"signalled", "plain", "unset"}, poll : BOOLEAN]]
    BY <1>1, <1>3 DEF QueueType
  <2>2. committed + 1 \in Nat
    BY SMTT(30) DEF QueueType
  <2>. QED  BY <1>1, <2>1, <2>2 DEF QueueType
<1>5. Polling' = Polling /\ Signalling' = Signalling /\ Unposted' = Unposted
  <2>1. sender'[t].at # "post" /\ sender[t].at # "post"
    BY <1>1, <1>2, <1>3
  <2>2. Polling' = Polling
    BY <1>2, <2>1 DEF Polling
  <2>3. Signalling' = Signalling
    BY <1>2, <2>1 DEF Signalling
  <2>4. Unposted' = Unposted
    BY <1>2, <2>1 DEF Unposted
  <2>. QED  BY <2>2, <2>3, <2>4
<1>6. Excess' = Excess
  BY <1>1, <1>5 DEF Excess, Signals, Open
<1>. QED  BY <1>1, <1>2, <1>4, <1>5, <1>6

\* The count that starts again ends a round early.
LEMMA ConnectingStep ==
  ASSUME QueueType, ConnectStep
  PROVE  QueueType' /\ Excess' >= Excess /\ link' # "none"
<1>1. /\ UNCHANGED <<late, sender, requests, committed, sq, cq, unreclaimed, lost>>
      /\ link' # "none" /\ send_count' \in {0, send_count}
  BY DEF ConnectStep
<1>2. QueueType'
  <2>1. send_count' \in Nat
    BY <1>1, SMTT(30) DEF QueueType
  <2>. QED  BY <1>1, <2>1 DEF QueueType
<1>3. Polling' = Polling /\ Signalling' = Signalling
  BY <1>1 DEF Polling, Signalling
<1>4. \E p \in Int : Open' = Open + p /\ p <= 0
  <2>1. S_DEPTH \in Nat \ {0, 1}
    BY SendQueueAssumption
  <2>2. 0 % S_DEPTH = 0
    BY <2>1, SMTT(30)
  <2>3. CASE send_count' = 0
    <3>1. Open' = 0
      BY <2>2, <2>3 DEF Open
    <3>2. 0 = Open + (0 - Open) /\ 0 - Open <= 0 /\ 0 - Open \in Int
      BY Terms, SMTT(30)
    <3>. QED  BY <3>1, <3>2
  <2>4. CASE send_count' = send_count
    <3>1. Open' = Open
      BY <2>4 DEF Open
    <3>2. Open = Open + 0 /\ 0 <= 0 /\ 0 \in Int
      BY Terms, SMTT(30)
    <3>. QED  BY <3>1, <3>2
  <2>. QED  BY <1>1, <2>3, <2>4
<1>5. /\ cq \in Nat /\ Signals(sq) \in Nat /\ lost.signals \in Nat /\ Excess \in Int
      /\ Cardinality(Signalling) \in Nat /\ Cardinality(Polling) \in Nat /\ Open \in 0 .. 1
  BY Terms
<1>6. /\ cq' = cq /\ Signals(sq') = Signals(sq) /\ lost.signals' = lost.signals
      /\ Cardinality(Signalling') = Cardinality(Signalling)
      /\ Cardinality(Polling') = Cardinality(Polling)
  BY <1>1, <1>3
<1>. PICK p \in Int : Open' = Open + p /\ p <= 0
  BY <1>4
<1>7. cq' + Signals(sq') + Cardinality(Signalling') + lost.signals'
        = cq + Signals(sq) + Cardinality(Signalling) + lost.signals + 0
  <2>1. cq + Signals(sq) + Cardinality(Signalling) + lost.signals
          = cq + Signals(sq) + Cardinality(Signalling) + lost.signals + 0
    BY ONLY <1>5, SMTT(30)
  <2>. QED  BY <1>6, <2>1
<1>8. Cardinality(Polling') + Open' = Cardinality(Polling) + Open + p
  <2>1. Cardinality(Polling) + (Open + p) = Cardinality(Polling) + Open + p
    BY <1>5, SMTT(30)
  <2>. QED  BY <1>6, <2>1
<1>9. Excess' = Excess + 0 - p
  <2>1. 0 \in Int
    BY SMTT(30)
  <2>. QED  BY <1>2, <1>7, <1>8, <2>1, ExcessChange
<1>10. Excess' >= Excess
  BY <1>5, <1>9, SMTT(30)
<1>. QED  BY <1>1, <1>2, <1>10

\* In the first state nothing is reserved.
LEMMA InitCounts ==
  ASSUME SendQueueInit
  PROVE  /\ QueueType /\ Excess = 0 /\ Signals(<<>>) = 0
         /\ Polling = {} /\ Signalling = {} /\ Active = {} /\ Unposted = {}
<1>1. QueueType
  BY SMTT(30) DEF SendQueueInit, QueueType, IdleSender
<1>2. Polling = {} /\ Signalling = {} /\ Active = {} /\ Unposted = {}
  BY DEF SendQueueInit, IdleSender, Polling, Signalling, Active, Unposted
<1>3. Signals(<<>>) = 0
  <2>1. Marks(<<>>) = {} /\ <<>> \in Seq(BOOLEAN)
    BY SMTT(30) DEF Marks
  <2>. QED  BY <2>1, MarksFinite, FS_EmptySet
<1>4. Open = 0
  BY SendQueueAssumption, SMTT(30) DEF SendQueueInit, Open
<1>5. Cardinality(Polling) = 0 /\ Cardinality(Signalling) = 0 /\ cq = 0 /\ Signals(sq) = 0 /\ lost.signals = 0
  BY <1>2, <1>3, FS_EmptySet DEF SendQueueInit
<1>6. Excess = 0
  BY <1>4, <1>5, SMTT(30) DEF Excess
<1>. QED  BY <1>1, <1>2, <1>3, <1>6

\* Excess is a number.
LEMMA ExcessInt == QueueType => Excess \in Int
BY Terms

\* No step lets the threads wait for more completions than there are signals, sent,
\* to be sent or lost.
LEMMA CoverStep == CoverInv /\ [SendQueueNext]_queueVars => CoverInv'
<1>. SUFFICES ASSUME CoverInv, [SendQueueNext]_queueVars
              PROVE  CoverInv'
  OBVIOUS
<1>1. QueueType /\ Excess >= 0 /\ Excess \in Int /\ (link = "none" => Signalling = {})
  BY Terms DEF CoverInv
<1>2. (QueueType => Excess \in Int)'
  BY ExcessInt, PTL
<1>3. ASSUME QueueType', Excess' >= Excess PROVE Excess' >= 0
  BY <1>1, <1>2, <1>3, SMTT(30)
<1>4. ASSUME Excess' = Excess PROVE Excess' >= 0
  BY <1>1, <1>4
<1>5. ASSUME NEW t \in Sender, Reserve(t) PROVE CoverInv'
  <2>1. QueueType' /\ link' = link
    BY <1>1, <1>5, Reserved
  <2>. QED  BY <1>1, <1>4, <1>5, <2>1, ReserveStep DEF CoverInv
<1>6. ASSUME NEW t \in Sender, StoreFails(t) PROVE CoverInv'
  BY <1>1, <1>3, <1>6, StoreFailsStep DEF CoverInv
<1>7. ASSUME NEW t \in Sender, SkipPeer(t) PROVE CoverInv'
  BY <1>1, <1>3, <1>7, SkipStep DEF CoverInv
<1>8. ASSUME NEW t \in Sender, post_send(t) PROVE CoverInv'
  <2>1. QueueType' /\ link' = link
    BY <1>1, <1>8, Posted
  <2>. QED  BY <1>1, <1>3, <1>8, <2>1, PostStep DEF CoverInv
<1>9. ASSUME NEW t \in Sender, RequestReturns(t) PROVE CoverInv'
  BY <1>1, <1>4, <1>9, ReturnStep DEF CoverInv
<1>10. CASE CompleteSend
  BY <1>1, <1>4, <1>10, CompleteStep DEF CoverInv
<1>11. CASE ConnectStep
  BY <1>1, <1>3, <1>11, ConnectingStep DEF CoverInv
<1>12. CASE UNCHANGED queueVars
  <2>1. UNCHANGED <<link, late, send_count, sender, requests, committed, sq, cq, unreclaimed, lost>>
    BY <1>12 DEF queueVars
  <2>. QED  BY <1>1, <2>1 DEF CoverInv, QueueType, Excess, Signalling, Polling, Open, Signals
<1>. QED
  BY <1>5, <1>6, <1>7, <1>8, <1>9, <1>10, <1>11, <1>12 DEF SendQueueNext

\* A thread that polls the completion queue finds a completion in the end, or a signalled
\* send was counted and never reached the queue: whatever the depth and the number of
\* threads, however their posts overlap, and also when the peer connects late.
THEOREM PollsAreCovered == SendQueueSpec => []PollIsCovered
<1>1. SendQueueInit => CoverInv
  <2>. SUFFICES ASSUME SendQueueInit PROVE CoverInv
    OBVIOUS
  <2>1. QueueType /\ Excess = 0 /\ Signalling = {}
    BY InitCounts
  <2>2. Excess >= 0
    BY <2>1, SMTT(30)
  <2>. QED  BY <2>1, <2>2 DEF CoverInv
<1>2. CoverInv => PollIsCovered
  <2>. SUFFICES ASSUME CoverInv PROVE PollIsCovered
    OBVIOUS
  <2>1. QueueType /\ Excess >= 0
    BY DEF CoverInv
  <2>2. /\ cq \in Nat /\ Signals(sq) \in Nat /\ lost.signals \in Nat
        /\ Cardinality(Signalling) \in Nat /\ Cardinality(Polling) \in Nat /\ Open \in 0 .. 1
    BY <2>1, Terms
  <2>3. Cardinality(Polling) <= cq + Signals(sq) + Cardinality(Signalling) + lost.signals
    BY <2>1, <2>2, SMTT(30) DEF Excess
  <2>. QED
    BY <2>3 DEF PollIsCovered, Pending, IsPoll, IsSignalled, Polling, Signalling
<1>. QED
  BY <1>1, <1>2, CoverStep, PTL DEF SendQueueSpec

-----------------------------------------------------------------------------
\* Reserving a number keeps Numbers.
LEMMA ReserveNumbers ==
  ASSUME QueueType, Numbers, link = "ready", NEW t \in Sender, Reserve(t)
  PROVE  Numbers'
<1>0. S_DEPTH \in Nat \ {0, 1} /\ requests \in Nat /\ send_count = requests
  BY SendQueueAssumption DEF QueueType, Numbers
<1>1. /\ requests' = requests + 1 /\ send_count' = requests + 1 /\ committed' = committed
      /\ sender[t].at = "idle" /\ sender'[t].at = "post" /\ sender'[t].number = requests + 1
      /\ sender'[t].poll = (send_count % S_DEPTH = S_DEPTH - 1)
      /\ \A u \in Sender \ {t} : sender'[u] = sender[u]
  <2>1. rc_connected
    BY DEF rc_connected
  <2>. QED  BY <1>0, <2>1, Reserved
<1>2. t \notin Active /\ Active' = Active \cup {t}
  BY <1>1 DEF Active
<1>3. \A u \in Active : sender'[u] = sender[u] /\ sender[u].number \in 1 .. requests
  BY <1>1, <1>2 DEF Active, Numbers
<1>4. \A u \in Active' : sender'[u].number \in 1 .. requests'
  BY <1>0, <1>1, <1>2, <1>3, SMTT(30)
<1>5. \A u, v \in Active' : sender'[u].number = sender'[v].number => u = v
  <2>1. \A u, v \in Active : sender[u].number = sender[v].number => u = v
    BY DEF Numbers
  <2>2. \A u \in Active : sender'[u].number # sender'[t].number
    BY <1>0, <1>1, <1>3, SMTT(30)
  <2>3. \A u \in Active : sender'[u].number = sender[u].number
    BY <1>3
  <2>. SUFFICES ASSUME NEW u \in Active \cup {t}, NEW v \in Active \cup {t},
                       sender'[u].number = sender'[v].number
                PROVE  u = v
    BY <1>2
  <2>4. CASE u \in Active /\ v \in Active
    BY <2>1, <2>3, <2>4
  <2>. QED  BY <2>2, <2>4
<1>6. \A u \in Polling' : sender'[u].number % S_DEPTH = 0
  <2>1. \A u \in Polling' \ {t} : u \in Polling /\ sender'[u] = sender[u]
    BY <1>1 DEF Polling
  <2>2. t \in Polling' => (requests + 1) % S_DEPTH = 0
    <3>1. (requests + 1) % S_DEPTH = IF requests % S_DEPTH = S_DEPTH - 1 THEN 0 ELSE (requests % S_DEPTH) + 1
      BY <1>0, NextMod
    <3>. QED  BY <1>0, <1>1, <3>1 DEF Polling
  <2>3. \A u \in Polling : sender[u].number % S_DEPTH = 0
    BY DEF Numbers
  <2>. QED  BY <1>1, <2>1, <2>2, <2>3, SMTT(30)
<1>7. committed \in Nat /\ committed <= requests
      /\ \A n \in 1 .. requests : n > committed <=> \E u \in Active : sender[u].number = n
  BY DEF Numbers, QueueType
<1>8. \A n \in 1 .. requests' : n > committed' <=> \E u \in Active' : sender'[u].number = n
  <2>. TAKE n \in 1 .. requests'
  <2>1. CASE n = requests + 1
    <3>1. n > committed
      BY <1>0, <1>7, <2>1, SMTT(30)
    <3>. QED  BY <1>1, <1>2, <2>1, <3>1
  <2>2. CASE n \in 1 .. requests
    <3>1. n # sender'[t].number
      BY <1>0, <1>1, <2>2, SMTT(30)
    <3>2. (\E u \in Active' : sender'[u].number = n) <=> \E u \in Active : sender[u].number = n
      BY <1>2, <1>3, <3>1
    <3>3. n > committed <=> \E u \in Active : sender[u].number = n
      BY <1>7, <2>2
    <3>4. committed' = committed
      BY <1>1
    <3>. QED  BY <3>2, <3>3, <3>4
  <2>. QED  BY <1>0, <1>1, <2>1, <2>2, SMTT(30)
<1>9. committed' <= requests'
  BY <1>0, <1>1, <1>7, SMTT(30)
<1>. QED
  BY <1>0, <1>1, <1>4, <1>5, <1>6, <1>8, <1>9, ZenonT(30) DEF Numbers

\* Reserving a number keeps Ahead.
LEMMA ReserveAheadStep ==
  ASSUME QueueType, Queued, Ahead, link = "ready", NEW t \in Sender, Reserve(t)
  PROVE  Ahead'
<1>. DEFINE n == send_count
            sig == n % S_DEPTH = 0
            g == Cardinality(Signalling)
<1>0. sig \in BOOLEAN /\ S_DEPTH \in Nat \ {0, 1} /\ n \in Nat
  BY SendQueueAssumption DEF QueueType
<1>1. /\ send_count' = n + 1 /\ sender[t].at = "idle" /\ unreclaimed' = unreclaimed
      /\ sender'[t].at = "post" /\ sender'[t].flags = (IF sig THEN "signalled" ELSE "plain")
      /\ \A u \in Sender \ {t} : sender'[u] = sender[u]
  <2>1. rc_connected
    BY DEF rc_connected
  <2>. QED  BY <2>1, Reserved
<1>2. n % S_DEPTH \in 0 .. S_DEPTH - 1 /\ (n + 1) % S_DEPTH = IF n % S_DEPTH = S_DEPTH - 1 THEN 0 ELSE (n % S_DEPTH) + 1
  BY <1>0, NextMod
<1>3. Round \in Int /\ Round' = Round + 1 - (IF sig THEN S_DEPTH ELSE 0)
  BY <1>0, <1>1, <1>2, SMTT(30) DEF Round
<1>. HIDE DEF n, sig
<1>4. t \notin Signalling /\ t \notin Unposted /\ Unposted' = Unposted \cup {t}
  BY <1>1 DEF Signalling, Unposted
<1>5. Signalling' = (IF sig THEN Signalling \cup {t} ELSE Signalling)
  BY <1>0, <1>1, <1>4 DEF Signalling
<1>6. /\ Cardinality(Unposted') = Cardinality(Unposted) + 1
      /\ Cardinality(Signalling \cup {t}) = g + 1
      /\ Cardinality(Unposted) \in Nat /\ g \in Nat /\ Cardinality(Sender) \in Nat
  BY <1>4, Finite, FS_AddElement, ZenonT(30)
<1>7. Slack \in Int /\ Slack' = Slack - (IF sig THEN S_DEPTH ELSE 0)
  BY <1>0, <1>3, <1>6, SMTT(30) DEF Slack
<1>8. AheadOn(unreclaimed, g, Slack) /\ unreclaimed \in Seq(BOOLEAN)
  BY DEF Ahead, Queued
<1>9. AheadOn(unreclaimed, Cardinality(Signalling'), Slack')
  <2>1. CASE sig
    <3>1. Cardinality(Signalling') = g + 1 /\ Slack' = Slack - S_DEPTH
      BY <1>5, <1>6, <1>7, <2>1
    <3>2. AheadOn(unreclaimed, g + 1, Slack - S_DEPTH)
      BY <1>6, <1>7, <1>8, ReserveAhead
    <3>. QED  BY <3>1, <3>2
  <2>2. CASE ~sig
    <3>1. Cardinality(Signalling') = g /\ Slack' = Slack - 0
      BY <1>5, <1>7, <2>2
    <3>2. Slack' = Slack
      BY <1>7, <3>1, SMTT(30)
    <3>. QED  BY <1>8, <3>1, <3>2
  <2>. QED  BY <2>1, <2>2
<1>10. AheadOn(unreclaimed, Cardinality(Signalling), Slack)'
  BY <1>1, <1>9 DEF AheadOn
<1>. QED
  BY <1>10 DEF Ahead

\* Posting a request keeps Numbers.
LEMMA PostNumbers ==
  ASSUME QueueType, Numbers, NEW t \in Sender, post_send(t)
  PROVE  Numbers'
<1>1. sender[t].at = "post" /\ send_count' = send_count /\ requests' = requests /\ committed' = committed
  BY Posted
<1>2. /\ sender'[t].at = "wait" /\ \A u \in Sender : sender'[u].number = sender[u].number
      /\ \A u \in Sender \ {t} : sender'[u] = sender[u]
  BY Posted
<1>3. Active' = Active
  BY <1>1, <1>2 DEF Active
<1>4. \A u \in Polling' : u \in Polling
  BY <1>2 DEF Polling
<1>5. \A u \in Active \cup Polling : sender'[u].number = sender[u].number
  BY <1>2 DEF Active, Polling
<1>. QED
  BY <1>1, <1>3, <1>4, <1>5, SMTT(30) DEF Numbers

\* A poll takes the sends up to the first signal from the queue.
LEMMA Polled ==
  ASSUME QueueType, Queued, NEW p \in BOOLEAN, p => cq > 0, NEW g, NEW k
  PROVE  /\ Reclaimed(p) \in Seq(BOOLEAN)
         /\ Signals(Reclaimed(p)) = (IF p THEN cq - 1 ELSE cq) + Signals(sq)
         /\ Len(Reclaimed(p)) <= Len(unreclaimed)
         /\ (AheadOn(unreclaimed, g, k) => AheadOn(Reclaimed(p), g, k))
<1>. DEFINE r == Reclaimed(p)
            c == IF p THEN cq - 1 ELSE cq
<1>0. cq \in Nat /\ sq \in Seq(BOOLEAN) /\ unreclaimed \in Seq(BOOLEAN) /\ Len(unreclaimed) \in Nat
  <2>1. cq \in Nat /\ sq \in Seq(BOOLEAN) /\ unreclaimed \in Seq(BOOLEAN)
    BY DEF QueueType, Queued
  <2>. QED  BY <2>1, SMTT(30)
<1>1. Signals(unreclaimed) = cq + Signals(sq)
  BY DEF Queued
<1>2. Signals(sq) \in Nat /\ Signals(unreclaimed) \in Nat
  BY <1>0, MarksFinite
<1>3. CASE ~p
  <2>1. r = unreclaimed /\ c = cq
    BY <1>3 DEF Reclaimed
  <2>2. Len(unreclaimed) <= Len(unreclaimed)
    BY <1>0, SMTT(30)
  <2>. QED  BY <1>0, <1>1, <2>1, <2>2
<1>4. CASE p
  <2>1. Signals(unreclaimed) # 0 /\ c = cq - 1
    BY <1>0, <1>1, <1>2, <1>4, SMTT(30)
  <2>2. \E n \in 1 .. Len(unreclaimed) : unreclaimed[n] /\ \A m \in 1 .. n - 1 : ~unreclaimed[m]
    BY <1>0, <2>1, HasFirst
  <2>. DEFINE f == FirstSignalled
  <2>3. f \in 1 .. Len(unreclaimed) /\ unreclaimed[f] /\ \A m \in 1 .. f - 1 : ~unreclaimed[m]
    BY <2>2 DEF FirstSignalled
  <2>4. r = Rest(unreclaimed, f)
    BY <1>4 DEF Reclaimed, Rest
  <2>. HIDE DEF f, r, c
  <2>5. Signals(unreclaimed) = Signals(r) + 1
    BY <1>0, <2>3, <2>4, SignalsReclaimed
  <2>6. AheadOn(unreclaimed, g, k) => AheadOn(r, g, k)
    BY <1>0, <2>3, <2>4, ReclaimAhead
  <2>7. r \in Seq(BOOLEAN) /\ Len(r) = Len(unreclaimed) - f
    <3>1. f \in 0 .. Len(unreclaimed)
      BY <1>0, <2>3, SMTT(30)
    <3>. QED  BY <1>0, <2>4, <3>1, RestProperties
  <2>8. Signals(r) \in Nat
    BY <2>7, MarksFinite
  <2>9. Signals(r) = c + Signals(sq)
    BY <1>0, <1>1, <1>2, <2>1, <2>5, <2>8, SMTT(30)
  <2>10. Len(r) <= Len(unreclaimed)
    BY <1>0, <2>3, <2>7, SMTT(30)
  <2>. QED  BY <2>6, <2>7, <2>9, <2>10 DEF r, c
<1>. QED  BY <1>3, <1>4

\* Posting a request keeps Queued, and lengthens the queue by at most one.
LEMMA PostQueued ==
  ASSUME QueueType, Queued, link = "ready", NEW t \in Sender, post_send(t),
         sender[t].flags # "unset"
  PROVE  /\ Queued' /\ Len(unreclaimed') <= Len(unreclaimed) + 1
         /\ unreclaimed' = Append(Reclaimed(sender[t].poll), sender[t].flags = "signalled")
<1>. DEFINE sig == sender[t].flags = "signalled"
            pol == sender[t].poll
            r == Reclaimed(pol)
<1>0. sig \in BOOLEAN /\ pol \in BOOLEAN /\ cq \in Nat /\ sq \in Seq(BOOLEAN)
      /\ unreclaimed \in Seq(BOOLEAN)
  BY DEF QueueType, Queued
<1>1. (pol => cq > 0) /\ cq' = IF pol THEN cq - 1 ELSE cq
  BY Posted
<1>2. sq' = Append(sq, sig) /\ unreclaimed' = Append(r, sig)
  <2>1. PICK s \in Signalled(sender[t].flags) : sq' = Append(sq, s) /\ unreclaimed' = Append(r, s)
    BY Posted
  <2>2. s = sig
    BY DEF Signalled
  <2>. QED  BY <2>1, <2>2
<1>3. r \in Seq(BOOLEAN) /\ Signals(r) = cq' + Signals(sq) /\ Len(r) <= Len(unreclaimed)
  BY <1>0, <1>1, Polled
<1>4. cq' \in Nat
  BY <1>0, <1>1, SMTT(30)
<1>. HIDE DEF sig, pol, r
<1>5. unreclaimed' \in Seq(BOOLEAN) /\ Len(unreclaimed') <= Len(unreclaimed) + 1
  BY <1>0, <1>2, <1>3, SMTT(30)
<1>6. Signals(unreclaimed') = cq' + Signals(sq')
  <2>. DEFINE x == IF sig THEN 1 ELSE 0
  <2>1. Signals(unreclaimed') = Signals(r) + x /\ Signals(sq') = Signals(sq) + x
    BY <1>0, <1>2, <1>3, SignalsAppend
  <2>2. x \in Nat
    BY SMTT(30)
  <2>. HIDE DEF x
  <2>3. Signals(sq) \in Nat
    BY <1>0, MarksFinite
  <2>. QED  BY <1>3, <1>4, <2>1, <2>2, <2>3, SMTT(30)
<1>7. (Signals(unreclaimed) = cq + Signals(sq))'
  BY <1>6 DEF Signals
<1>8. Queued'
  BY <1>5, <1>7 DEF Queued
<1>. QED
  BY <1>2, <1>5, <1>8 DEF sig, pol, r

\* Posting a request keeps Ahead.
LEMMA PostAheadStep ==
  ASSUME QueueType, Queued, Ahead, link = "ready", NEW t \in Sender, post_send(t),
         sender[t].flags # "unset"
  PROVE  Ahead'
<1>. DEFINE sig == sender[t].flags = "signalled"
            pol == sender[t].poll
            g == Cardinality(Signalling)
            r == Reclaimed(pol)
<1>0. sig \in BOOLEAN /\ pol \in BOOLEAN /\ send_count \in Nat /\ S_DEPTH \in Nat \ {0, 1}
  BY SendQueueAssumption DEF QueueType
<1>1. sender[t].at = "post" /\ (pol => cq > 0) /\ send_count' = send_count /\ unreclaimed' = Append(r, sig)
  BY Posted, PostQueued
<1>4. r \in Seq(BOOLEAN) /\ AheadOn(r, g, Slack)
  BY <1>0, <1>1, Polled DEF Ahead
<1>. HIDE DEF r
<1>5. sender'[t].at = "wait" /\ \A u \in Sender \ {t} : sender'[u] = sender[u]
  BY Posted
<1>6. t \in Unposted /\ (t \in Signalling <=> sig)
  BY <1>1 DEF Unposted, Signalling
<1>7. Signalling' = Signalling \ {t} /\ Unposted' = Unposted \ {t}
  BY <1>5 DEF Signalling, Unposted
<1>8. /\ Cardinality(Signalling') = (IF sig THEN g - 1 ELSE g)
      /\ Cardinality(Unposted') = Cardinality(Unposted) - 1
  BY <1>6, <1>7, Finite, FS_RemoveElement
<1>9. g \in Nat /\ Cardinality(Unposted) \in Nat /\ Cardinality(Sender) \in Nat
      /\ Cardinality(Unposted) <= Cardinality(Sender)
  BY Finite
<1>10. Round \in Int /\ Round' = Round /\ Round > -S_DEPTH
  <2>1. send_count % S_DEPTH \in 0 .. S_DEPTH - 1
    BY <1>0, NextMod
  <2>. QED  BY <1>0, <1>1, <2>1, SMTT(30) DEF Round
<1>11. Slack \in Int /\ Slack' = Slack + 1
  BY <1>8, <1>9, <1>10, SMTT(30) DEF Slack
<1>12. sig => g > 0
  <2>1. CASE sig
    <3>1. Signalling # {}
      BY <1>6, <2>1
    <3>. QED  BY <1>9, <3>1, Finite, FS_EmptySet, SMTT(30)
  <2>. QED  BY <2>1
<1>13. S_DEPTH + Slack + 1 >= 0
  BY <1>0, <1>9, <1>10, SMTT(30) DEF Slack
<1>. HIDE DEF g, sig, pol
<1>14. AheadOn(Append(r, sig), IF sig THEN g - 1 ELSE g, Slack + 1)
  <2>1. sig => g > 0 /\ S_DEPTH + Slack + 1 >= 0
    BY <1>12, <1>13
  <2>2. g \in Nat
    BY <1>9 DEF g
  <2>. QED  BY <1>0, <1>4, <1>11, <2>1, <2>2, AppendAhead
<1>15. AheadOn(unreclaimed', Cardinality(Signalling'), Slack')
  BY <1>1, <1>8, <1>11, <1>14
<1>16. AheadOn(unreclaimed, Cardinality(Signalling), Slack)'
  BY <1>15 DEF AheadOn
<1>. QED  BY <1>16 DEF Ahead

\* The return of a request keeps Numbers.
LEMMA ReturnNumbers ==
  ASSUME QueueType, Numbers, NEW t \in Sender, RequestReturns(t)
  PROVE  Numbers'
<1>. DEFINE k == committed + 1
<1>1. /\ sender[t].at = "wait" /\ sender[t].number = k /\ sender'[t].at = "idle"
      /\ \A u \in Sender \ {t} : sender'[u] = sender[u]
      /\ committed' = k /\ send_count' = send_count /\ requests' = requests /\ Polling' = Polling
  <2>1. IdleSender.at = "idle"
    BY DEF IdleSender
  <2>. QED  BY <2>1, ReturnStep
<1>2. t \in Active /\ Active' = Active \ {t}
  BY <1>1 DEF Active
<1>3. \A u \in Active \ {t} : sender'[u] = sender[u]
  BY <1>1 DEF Active
<1>4. \A u \in Polling : sender'[u] = sender[u]
  BY <1>1 DEF Polling
<1>5. committed \in Nat /\ requests \in Nat
      /\ \A n \in 1 .. requests : n > committed <=> \E u \in Active : sender[u].number = n
  BY DEF Numbers, QueueType
<1>6. k \in 1 .. requests
  BY <1>1, <1>2 DEF Numbers
<1>7. \A u, v \in Active : sender[u].number = sender[v].number => u = v
  BY DEF Numbers
<1>8. \A u \in Active : sender[u].number \in 1 .. requests /\ sender[u].number > committed
  BY <1>5 DEF Numbers
<1>9. \A n \in 1 .. requests : n > k <=> \E u \in Active' : sender'[u].number = n
  <2>. TAKE n \in 1 .. requests
  <2>1. ASSUME n > k PROVE \E u \in Active' : sender'[u].number = n
    <3>1. n > committed /\ n # k
      BY <1>5, <2>1, SMTT(30)
    <3>2. PICK u \in Active : sender[u].number = n
      BY <1>5, <3>1
    <3>3. u # t
      BY <1>1, <3>1, <3>2
    <3>. QED  BY <1>2, <1>3, <3>2, <3>3
  <2>2. ASSUME NEW u \in Active', sender'[u].number = n PROVE n > k
    <3>1. u \in Active /\ u # t /\ sender[u].number = n
      BY <1>2, <1>3, <2>2
    <3>2. n # k /\ n > committed
      BY <1>1, <1>2, <1>7, <1>8, <3>1
    <3>. QED  BY <1>5, <3>2, SMTT(30)
  <2>. QED  BY <2>1, <2>2
<1>10. k <= requests
  BY <1>6, SMTT(30)
<1>. HIDE DEF k
<1>11. \A n \in 1 .. requests' : n > committed' <=> \E u \in Active' : sender'[u].number = n
  BY <1>1, <1>9
<1>12. \A u \in Active' : sender'[u].number \in 1 .. requests'
  BY <1>1, <1>2, <1>3 DEF Numbers
<1>13. \A u, v \in Active' : sender'[u].number = sender'[v].number => u = v
  <2>. SUFFICES ASSUME NEW u \in Active', NEW v \in Active', sender'[u].number = sender'[v].number
                PROVE  u = v
    OBVIOUS
  <2>1. u \in Active /\ v \in Active /\ sender'[u] = sender[u] /\ sender'[v] = sender[v]
    BY <1>2, <1>3
  <2>. QED  BY <1>7, <2>1
<1>14. \A u \in Polling' : sender'[u].number % S_DEPTH = 0
  BY <1>1, <1>4 DEF Numbers
<1>15. send_count' = requests' /\ committed' <= requests'
  BY <1>1, <1>10 DEF Numbers
<1>. QED
  BY <1>11, <1>12, <1>13, <1>14, <1>15, ZenonT(30) DEF Numbers

\* A step that leaves the queue and the threads in the posting loop alone keeps Ahead.
LEMMA SameAhead ==
  ASSUME Ahead, UNCHANGED <<unreclaimed, send_count>>, Signalling' = Signalling, Unposted' = Unposted
  PROVE  Ahead'
<1>1. Round' = Round
  BY DEF Round
<1>2. Slack' = Slack
  BY <1>1 DEF Slack
<1>. QED  BY <1>2 DEF Ahead, AheadOn, Signals, Rest

-----------------------------------------------------------------------------
\* The polls that still have to be made belong to the last requests, one to S_DEPTH.
LEMMA FewPolls ==
  ASSUME QueueType, Numbers, Polling # {}
  PROVE  (Cardinality(Polling) - 1) * S_DEPTH + (send_count % S_DEPTH) + 1 <= Cardinality(Sender)
<1>. DEFINE S == S_DEPTH
            R == requests
            T == Cardinality(Sender)
            P == Cardinality(Polling)
<1>0. S \in Nat \ {0, 1} /\ R \in Nat /\ send_count = R
  BY SendQueueAssumption DEF QueueType, Numbers
<1>1. PICK m \in 0 .. R : \A n \in 1 .. R : n > m <=> \E u \in Active : sender[u].number = n
  <2>1. committed \in 0 .. R
    BY <1>0, SMTT(30) DEF Numbers, QueueType
  <2>. QED  BY <2>1 DEF Numbers
<1>2. R - m <= T
  <2>. DEFINE f == [u \in Active |-> sender[u].number]
  <2>1. f \in Surjection(Active, (m + 1) .. R)
    <3>1. \A u \in Active : sender[u].number \in (m + 1) .. R
      <4>. TAKE u \in Active
      <4>1. sender[u].number \in 1 .. R
        BY DEF Numbers
      <4>2. sender[u].number > m
        BY <1>1, <4>1
      <4>. QED  BY <1>0, <4>1, <4>2, SMTT(30)
    <3>2. f \in [Active -> (m + 1) .. R]
      BY <3>1
    <3>3. \A n \in (m + 1) .. R : \E u \in Active : f[u] = n
      BY <1>0, <1>1, SMTT(30)
    <3>. QED  BY <3>2, <3>3, IsOnto
  <2>2. IsFiniteSet(Active) /\ Cardinality(Active) <= T /\ Cardinality(Active) \in Nat
    <3>1. Active \in SUBSET Sender
      BY DEF Active
    <3>. QED  BY <3>1, Finite, FS_Subset, FS_CardinalityType
  <2>3. Cardinality((m + 1) .. R) <= Cardinality(Active)
    BY <2>1, <2>2, FS_Surjection
  <2>4. Cardinality((m + 1) .. R) = R - m
    <3>1. Cardinality((m + 1) .. R) = IF m + 1 > R THEN 0 ELSE R - (m + 1) + 1
      BY <1>0, FS_Interval, SMTT(30)
    <3>. QED  BY <1>0, <3>1, SMTT(30)
  <2>5. T \in Nat
    BY Finite
  <2>. QED  BY <1>0, <2>2, <2>3, <2>4, <2>5, SMTT(30)
<1>. DEFINE a == m \div S
            b == R \div S
            x == m % S
            y == R % S
<1>3. /\ a \in Nat /\ x \in 0 .. S - 1 /\ m = S * a + x
      /\ b \in Nat /\ y \in 0 .. S - 1 /\ R = S * b + y
  <2>1. \A n \in Nat : n \div S \in Nat /\ n % S \in 0 .. S - 1 /\ n = S * (n \div S) + (n % S)
    BY <1>0, SMTT(30)
  <2>2. m \in Nat
    BY <1>0, SMTT(30)
  <2>. QED  BY <1>0, <2>1, <2>2
<1>4. P <= b - a /\ P \in Nat \ {0}
  <2>. DEFINE f == [u \in Polling |-> sender[u].number \div S]
  <2>1. ASSUME NEW u \in Polling
        PROVE  /\ u \in Active /\ sender[u].number \div S \in (a + 1) .. b
               /\ sender[u].number = S * (sender[u].number \div S)
    <3>. DEFINE n == sender[u].number
                q == n \div S
    <3>1. u \in Active
      BY DEF Active, Polling
    <3>2. n \in 1 .. R /\ n > m /\ n % S = 0
      BY <1>1, <3>1 DEF Numbers
    <3>3. n \in Nat
      BY <3>2, SMTT(30)
    <3>4. q \in Nat /\ n = S * q
      <4>1. \A i \in Nat : i \div S \in Nat /\ i = S * (i \div S) + (i % S)
        BY <1>0, SMTT(30)
      <4>. HIDE DEF n
      <4>2. S * q \in Nat
        BY <1>0, <3>3, <4>1, SMTT(30)
      <4>3. q \in Nat /\ n = S * q + (n % S)
        BY <3>3, <4>1
      <4>. HIDE DEF q
      <4>. QED  BY <3>2, <4>2, <4>3, SMTT(30)
    <3>. HIDE DEF n, q, a, b, x, y, S, R
    <3>5. q > a
      <4>1. S * q > S * a
        <5>1. S * a \in Nat
          BY <1>0, <1>3, SMTT(30)
        <5>. QED  BY <1>0, <1>1, <1>3, <3>2, <3>4, <5>1, SMTT(30)
      <4>2. ASSUME q <= a PROVE FALSE
        <5>1. S * q <= S * a
          BY <1>0, <1>3, <3>4, <4>2, SMTT(30)
        <5>. QED  BY <1>0, <1>3, <3>4, <4>1, <5>1, SMTT(30)
      <4>. QED  BY <1>3, <3>4, <4>2, SMTT(30)
    <3>6. q <= b
      <4>1. S * q < S * b + S
        <5>1. S * b \in Nat
          BY <1>0, <1>3, SMTT(30)
        <5>. QED  BY <1>0, <1>3, <3>2, <3>4, <5>1, SMTT(30)
      <4>2. ASSUME q >= b + 1 PROVE FALSE
        <5>1. S * q >= S * (b + 1)
          BY <1>0, <1>3, <3>4, <4>2, SMTT(30)
        <5>2. S * (b + 1) = S * b + S
          BY <1>0, <1>3, SMTT(30)
        <5>. QED  BY <1>0, <1>3, <3>4, <4>1, <5>1, <5>2, SMTT(30)
      <4>. QED  BY <1>3, <3>4, <4>2, SMTT(30)
    <3>7. q \in (a + 1) .. b
      BY <1>3, <3>4, <3>5, <3>6, SMTT(30)
    <3>. QED  BY <3>1, <3>4, <3>7 DEF q, n
  <2>. HIDE DEF a, b
  <2>2. f \in Injection(Polling, (a + 1) .. b)
    <3>1. f \in [Polling -> (a + 1) .. b]
      BY <2>1
    <3>2. ASSUME NEW u \in Polling, NEW v \in Polling, f[u] = f[v] PROVE u = v
      <4>1. sender[u].number = sender[v].number
        BY <2>1, <3>2
      <4>. QED  BY <2>1, <4>1 DEF Numbers
    <3>. QED  BY <3>1, <3>2, IsOneToOne
  <2>3. IsFiniteSet((a + 1) .. b) /\ Cardinality((a + 1) .. b) = IF a + 1 > b THEN 0 ELSE b - (a + 1) + 1
    BY <1>3, FS_Interval, SMTT(30)
  <2>4. P <= Cardinality((a + 1) .. b)
    BY <2>2, <2>3, FS_Injection, SMTT(30)
  <2>5. P \in Nat \ {0}
    BY Finite, FS_EmptySet
  <2>. QED  BY <1>3, <2>3, <2>4, <2>5, SMTT(30)
<1>. HIDE DEF a, b, x, y, P, S, R, T
<1>5. (P - 1) * S <= (b - a - 1) * S
  <2>1. P - 1 \in Nat /\ b - a - 1 \in Nat /\ P - 1 <= b - a - 1
    BY <1>3, <1>4, SMTT(30)
  <2>2. \A i, j \in Nat : i <= j => i * S <= j * S
    BY <1>0, SMTT(30)
  <2>. QED  BY <2>1, <2>2
<1>6. (b - a - 1) * S = S * b - S * a - S
  BY <1>0, <1>3, SMTT(30)
<1>7. (P - 1) * S + y + 1 <= T
  <2>1. S * a \in Nat /\ S * b \in Nat /\ (P - 1) * S \in Int /\ T \in Nat
    BY <1>0, <1>3, <1>4, Finite, SMTT(30) DEF T
  <2>. QED  BY <1>0, <1>2, <1>3, <1>5, <1>6, <2>1, SMTT(30)
<1>. QED
  BY <1>0, <1>7 DEF P, S, y, R, T

\* Before a failing store_record the queue is short, and shorter while threads post.
LEMMA ShortQueue ==
  ASSUME QueueType, Excess = 0, lost.signals = 0, Numbers, Queued, Ahead
  PROVE  /\ Len(unreclaimed) <= Bound
         /\ Len(unreclaimed) + Cardinality(Unposted) <= Bound + 1
<1>. DEFINE S == S_DEPTH
            P == Cardinality(Polling)
            T == Cardinality(Sender)
            u == Cardinality(Unposted)
            y == send_count % S_DEPTH
            L == Len(unreclaimed)
<1>2. S \in Nat \ {0, 1} /\ y \in 0 .. S - 1 /\ P \in Nat /\ T \in Nat \ {0} /\ u \in Nat /\ L \in Nat
  <2>1. S \in Nat \ {0, 1} /\ send_count \in Nat /\ unreclaimed \in Seq(BOOLEAN)
    BY SendQueueAssumption DEF QueueType, Queued
  <2>. QED  BY <2>1, NextMod, Finite, SMTT(30)
<1>3. L <= (P + Open + 1) * S + Slack
  <2>1. unreclaimed \in Seq(BOOLEAN) /\ 0 \in 0 .. L
    BY <1>2, SMTT(30) DEF Queued
  <2>2. Rest(unreclaimed, 0) = unreclaimed
    BY <2>1, RestProperties
  <2>3. L - 0 <= (Signals(unreclaimed) + Cardinality(Signalling) + 1) * S + Slack
    BY <2>1, <2>2 DEF Ahead, AheadOn
  <2>4. Signals(unreclaimed) + Cardinality(Signalling) = P + Open
    <3>1. /\ cq \in Nat /\ Signals(sq) \in Nat /\ lost.signals = 0 /\ Excess = 0
          /\ Cardinality(Signalling) \in Nat /\ Open \in 0 .. 1
      BY Terms
    <3>2. Signals(unreclaimed) = cq + Signals(sq)
      BY DEF Queued
    <3>. QED  BY <1>2, <3>1, <3>2, SMTT(30) DEF Excess
  <2>. QED  BY <1>2, <2>3, <2>4, SMTT(30)
<1>4. L <= (P + 1) * S - 2 + T - u + y
  <2>1. CASE y = 0
    <3>1. Open = 0 /\ Slack = T - 2 - u
      BY <1>2, <2>1, SMTT(30) DEF Open, Slack, Round
    <3>2. P + Open + 1 = P + 1
      BY <1>2, <3>1, SMTT(30)
    <3>3. (P + 1) * S \in Int
      BY <1>2, SMTT(30)
    <3>4. L <= (P + 1) * S + (T - 2 - u)
      BY <1>3, <3>1, <3>2
    <3>. QED  BY <1>2, <2>1, <3>3, <3>4, SMTT(30)
  <2>2. CASE y # 0
    <3>1. Open = 1 /\ Slack = T - 2 - u + (y - S)
      BY <1>2, <2>2 DEF Open, Slack, Round
    <3>2. (P + Open + 1) * S = (P + 1) * S + S /\ (P + 1) * S \in Int
      BY <1>2, <3>1, SMTT(30)
    <3>3. L <= (P + 1) * S + S + (T - 2 - u + (y - S))
      BY <1>3, <3>1, <3>2
    <3>. DEFINE z == (P + 1) * S
    <3>4. z \in Int /\ L <= z + S + (T - 2 - u + (y - S))
      BY <3>2, <3>3
    <3>. HIDE DEF z, P, S, y, T, u, L
    <3>5. L <= z - 2 + T - u + y
      BY <1>2, <3>4, SMTT(30)
    <3>. QED  BY <3>5 DEF z
  <2>. QED  BY <2>1, <2>2
<1>5. CASE Polling = {}
  <2>1. P = 0
    BY <1>5, FS_EmptySet
  <2>2. (P + 1) * S = S
    BY <1>2, <2>1, SMTT(30)
  <2>. HIDE DEF P, S, y, T, u, L
  <2>3. L <= 2 * S - 4 + 2 * T /\ L + u <= 2 * S - 4 + 2 * T + 1
    BY <1>2, <1>4, <2>2, SMTT(30)
  <2>. QED  BY <2>3 DEF L, S, T, u, Bound
<1>6. CASE Polling # {}
  <2>1. (P - 1) * S + y + 1 <= T
    BY <1>6, FewPolls
  <2>2. u >= 1
    <3>1. Unposted # {}
      BY <1>6 DEF Polling, Unposted
    <3>. QED  BY <1>2, <3>1, Finite, FS_EmptySet, SMTT(30)
  <2>3. (P + 1) * S = (P - 1) * S + 2 * S /\ (P - 1) * S \in Int
    BY <1>2, SMTT(30)
  <2>. HIDE DEF P, S, y, T, u, L
  <2>4. L <= 2 * S - 4 + 2 * T /\ L + u <= 2 * S - 4 + 2 * T + 1
    BY <1>2, <1>4, <2>1, <2>2, <2>3, SMTT(30)
  <2>. QED  BY <2>4 DEF L, S, T, u, Bound
<1>. QED  BY <1>5, <1>6

\* Without signals the queue is empty in the first state.
LEMMA InitBound == SendQueueInit => BoundInv
<1>. SUFFICES ASSUME SendQueueInit, ~late
              PROVE  /\ link = "ready" /\ Queued /\ \A t \in Sender : sender[t].flags # "unset"
                     /\ lost.first = 0 /\ Excess = 0 /\ lost.signals = 0 /\ Numbers /\ Ahead
  BY DEF BoundInv
<1>1. link = "ready" /\ \A t \in Sender : sender[t].flags # "unset"
  BY DEF SendQueueInit, IdleSender
<1>2. Excess = 0 /\ Signals(<<>>) = 0 /\ Signalling = {} /\ Polling = {} /\ Active = {} /\ Unposted = {}
  BY InitCounts
<1>3. /\ unreclaimed = <<>> /\ sq = <<>> /\ cq = 0 /\ send_count = 0 /\ requests = 0 /\ committed = 0
      /\ lost.first = 0 /\ lost.signals = 0
  BY DEF SendQueueInit
<1>4. unreclaimed \in Seq(BOOLEAN) /\ Len(unreclaimed) = 0
  BY <1>3, SMTT(30)
<1>5. Queued
  <2>1. Signals(unreclaimed) = 0 /\ Signals(sq) = 0
    BY <1>2, <1>3
  <2>2. 0 = 0 + 0
    BY SMTT(30)
  <2>. QED  BY <1>3, <1>4, <2>1, <2>2 DEF Queued
<1>6. Numbers
  <2>1. 1 .. requests = {} /\ committed <= requests /\ send_count = requests
    BY <1>3, SMTT(30)
  <2>. QED  BY <1>2, <2>1 DEF Numbers
<1>7. Ahead
  <2>1. S_DEPTH \in Nat \ {0, 1} /\ Round = 0
    BY <1>3, SendQueueAssumption, SMTT(30) DEF Round
  <2>2. Cardinality(Signalling) = 0 /\ Cardinality(Unposted) = 0
    BY <1>2, FS_EmptySet
  <2>3. Slack \in Int /\ Slack >= -1
    BY <2>1, <2>2, Finite, SMTT(30) DEF Slack
  <2>4. Rest(unreclaimed, 0) = unreclaimed
    <3>1. 0 \in 0 .. Len(unreclaimed)
      BY <1>4, SMTT(30)
    <3>. QED  BY <1>4, <3>1, RestProperties
  <2>5. (Signals(unreclaimed) + Cardinality(Signalling) + 1) * S_DEPTH = S_DEPTH
    BY <1>2, <1>3, <2>1, <2>2, SMTT(30)
  <2>6. 0 <= S_DEPTH + Slack
    BY <2>1, <2>3, SMTT(30)
  <2>. SUFFICES ASSUME NEW i \in 0 .. 0
                PROVE  0 - i <= (Signals(Rest(unreclaimed, i)) + Cardinality(Signalling) + 1) * S_DEPTH + Slack
    BY <1>4 DEF Ahead, AheadOn
  <2>7. i = 0
    BY SMTT(30)
  <2>. QED  BY <2>4, <2>5, <2>6, <2>7, SMTT(30)
<1>. QED
  BY <1>1, <1>2, <1>3, <1>5, <1>6, <1>7

\* The first failing store_record.
LEMMA FirstFailure ==
  ASSUME QueueType, Queued, lost.first = 0, Excess = 0, lost.signals = 0, Numbers, Ahead,
         NEW t \in Sender, StoreFails(t)
  PROVE  lost'.first # 0 /\ Stalled'
<1>. DEFINE F == sender[t].number
<1>1. /\ sender[t].at = "post" /\ sender'[t].at = "idle"
      /\ \A u \in Sender \ {t} : sender'[u] = sender[u]
      /\ lost'.first = F /\ committed' = committed /\ requests' = requests /\ unreclaimed' = unreclaimed
  <2>1. IdleSender.at = "idle"
    BY DEF IdleSender
  <2>. QED  BY <2>1, StoreFailsStep
<1>2. t \in Active
  BY <1>1 DEF Active
<1>3. F \in 1 .. requests /\ F > committed
  BY <1>2 DEF Numbers
<1>4. F # 0 /\ F \in Nat /\ committed \in Nat /\ requests \in Nat /\ committed < F /\ F <= requests
  <2>1. committed \in Nat /\ requests \in Nat
    BY DEF QueueType
  <2>. QED  BY <1>3, <2>1, SMTT(30)
<1>5. \A u \in Active' : sender'[u].number # F
  <2>. TAKE u \in Active'
  <2>1. u # t /\ u \in Sender /\ sender'[u] = sender[u] /\ u \in Active
    BY <1>1 DEF Active
  <2>. QED  BY <1>2, <2>1 DEF Numbers
<1>6. Before' \in SUBSET (Unposted \ {t})
  BY <1>1 DEF Before, Unposted
<1>7. Cardinality(Unposted \ {t}) = Cardinality(Unposted) - 1 /\ IsFiniteSet(Unposted \ {t})
      /\ Cardinality(Unposted \ {t}) \in Nat
  <2>1. t \in Unposted
    BY <1>1 DEF Unposted
  <2>2. Cardinality(Unposted \ {t}) = Cardinality(Unposted) - 1
    BY <2>1, Finite, FS_RemoveElement
  <2>3. IsFiniteSet(Unposted \ {t})
    <3>1. Unposted \ {t} \in SUBSET Unposted
      OBVIOUS
    <3>. QED  BY <3>1, Finite, FS_Subset
  <2>. QED  BY <2>2, <2>3, FS_CardinalityType
<1>8. Cardinality(Before') <= Cardinality(Unposted \ {t}) /\ Cardinality(Before') \in Nat
  BY <1>6, <1>7, FS_Subset, FS_CardinalityType
<1>9. Len(unreclaimed) + Cardinality(Unposted) <= Bound + 1
  BY ShortQueue
<1>10. Cardinality(Behind') \in Nat /\ Cardinality(Unposted) \in Nat /\ Len(unreclaimed) \in Nat /\ Bound \in Int
  <2>1. (Cardinality(Behind) \in Nat)'
    BY FiniteStalled, PTL
  <2>2. unreclaimed \in Seq(BOOLEAN) /\ S_DEPTH \in Nat
    BY SendQueueAssumption DEF Queued
  <2>3. Bound \in Int /\ Len(unreclaimed) \in Nat
    BY <2>2, Finite, SMTT(30) DEF Bound
  <2>. QED  BY <2>1, <2>3, Finite
<1>11. Len(unreclaimed) + Cardinality(Before') <= Bound + Cardinality(Behind')
  BY <1>7, <1>8, <1>9, <1>10, SMTT(30)
<1>12. Bound' = Bound
  BY DEF Bound
<1>13. Len(unreclaimed') + Cardinality(Before') <= Bound' + Cardinality(Behind')
  BY <1>1, <1>11, <1>12
<1>. HIDE DEF F
<1>. QED
  BY <1>1, <1>4, <1>5, <1>13 DEF Stalled

\* The sum of Stalled, when the threads of the two kinds change.
LEMMA StalledSum ==
  ASSUME NEW l \in Nat, NEW b \in Nat, NEW h \in Nat, NEW B \in Int, l + b <= B + h,
         NEW l1 \in Nat, NEW b1 \in Nat, NEW h1 \in Nat,
         \/ l1 <= l /\ b1 <= b /\ h1 = h
         \/ l1 <= l + 1 /\ b1 = b - 1 /\ h1 = h
         \/ l1 <= l + 1 /\ b1 = b /\ h1 = h + 1
  PROVE  l1 + b1 <= B + h1
BY SMTT(30)

\* How a step keeps Stalled.
LEMMA StalledKept ==
  ASSUME QueueType, Stalled, Queued, Queued',
         lost'.first = lost.first, committed' < lost.first, lost.first <= requests',
         \A t \in Active' : sender'[t].number # lost.first,
         \/ /\ Len(unreclaimed') <= Len(unreclaimed)
            /\ Cardinality(Before') <= Cardinality(Before)
            /\ Cardinality(Behind') = Cardinality(Behind)
         \/ /\ Len(unreclaimed') <= Len(unreclaimed) + 1
            /\ Cardinality(Before') = Cardinality(Before) - 1
            /\ Cardinality(Behind') = Cardinality(Behind)
         \/ /\ Len(unreclaimed') <= Len(unreclaimed) + 1
            /\ Cardinality(Before') = Cardinality(Before)
            /\ Cardinality(Behind') = Cardinality(Behind) + 1
  PROVE  Stalled'
<1>1. unreclaimed \in Seq(BOOLEAN) /\ unreclaimed' \in Seq(BOOLEAN) /\ S_DEPTH \in Nat
  BY SendQueueAssumption DEF Queued
<1>2. Len(unreclaimed) \in Nat /\ Len(unreclaimed') \in Nat /\ Bound \in Int
  BY <1>1, Finite, SMTT(30) DEF Bound
<1>3. Cardinality(Before) \in Nat /\ Cardinality(Behind) \in Nat
  BY FiniteStalled
<1>4. (Cardinality(Before) \in Nat /\ Cardinality(Behind) \in Nat)'
  BY FiniteStalled, PTL
<1>5. Len(unreclaimed) + Cardinality(Before) <= Bound + Cardinality(Behind)
  BY DEF Stalled
<1>6. Len(unreclaimed') + Cardinality(Before') <= Bound + Cardinality(Behind')
  BY <1>2, <1>3, <1>4, <1>5, StalledSum, ZenonT(60)
<1>7. Bound' = Bound
  BY DEF Bound
<1>. QED
  BY <1>6, <1>7 DEF Stalled

\* A request that begins after the failure is not before it, and does not wait yet.
LEMMA StalledReserve ==
  ASSUME QueueType, Stalled, Queued, NEW t \in Sender, Reserve(t)
  PROVE  Stalled'
<1>1. /\ sender[t].at = "idle" /\ sender'[t].at = "post" /\ sender'[t].number = requests + 1
      /\ \A u \in Sender \ {t} : sender'[u] = sender[u]
      /\ requests' = requests + 1 /\ UNCHANGED <<committed, sq, cq, unreclaimed, lost>>
  BY Reserved
<1>2. requests \in Nat /\ lost.first \in Nat /\ committed < lost.first /\ lost.first <= requests
  BY Terms DEF QueueType, Stalled
<1>3. lost.first <= requests' /\ ~(requests + 1 < lost.first) /\ requests + 1 # lost.first
  BY <1>1, <1>2, SMTT(30)
<1>4. Before' = Before
  BY <1>1, <1>3 DEF Before
<1>5. Behind' = Behind
  BY <1>1 DEF Behind
<1>6. \A u \in Active' : sender'[u].number # lost.first
  BY <1>1, <1>3 DEF Stalled, Active
<1>7. Queued'
  BY <1>1 DEF Queued, Signals
<1>8. Len(unreclaimed') <= Len(unreclaimed) /\ Cardinality(Before) <= Cardinality(Before)
  <2>1. unreclaimed \in Seq(BOOLEAN)
    BY DEF Queued
  <2>2. Len(unreclaimed) <= Len(unreclaimed) /\ Cardinality(Before) <= Cardinality(Before)
    BY <2>1, FiniteStalled, SMTT(30)
  <2>. QED  BY <1>1, <2>2
<1>. QED
  BY <1>1, <1>2, <1>3, <1>4, <1>5, <1>6, <1>7, <1>8, StalledKept, ZenonT(60)

\* A later failing store_record only ends a request.
LEMMA StalledFailure ==
  ASSUME QueueType, Stalled, Queued, lost.first # 0, NEW t \in Sender, StoreFails(t)
  PROVE  Stalled'
<1>1. /\ sender[t].at = "post" /\ sender'[t].at = "idle"
      /\ \A u \in Sender \ {t} : sender'[u] = sender[u]
      /\ lost'.first = lost.first /\ UNCHANGED <<committed, requests, sq, cq, unreclaimed>>
  <2>1. IdleSender.at = "idle"
    BY DEF IdleSender
  <2>. QED  BY <2>1, StoreFailsStep
<1>2. committed' < lost.first /\ lost.first <= requests'
  BY <1>1 DEF Stalled
<1>3. Before' \in SUBSET Before
  BY <1>1 DEF Before
<1>4. Cardinality(Before') <= Cardinality(Before)
  BY <1>3, FiniteStalled, FS_Subset
<1>5. Behind' = Behind
  BY <1>1 DEF Behind
<1>6. \A u \in Active' : sender'[u].number # lost.first
  BY <1>1 DEF Stalled, Active
<1>7. Queued'
  BY <1>1 DEF Queued, Signals
<1>8. Len(unreclaimed') <= Len(unreclaimed)
  <2>1. unreclaimed \in Seq(BOOLEAN)
    BY DEF Queued
  <2>2. Len(unreclaimed) <= Len(unreclaimed)
    BY <2>1, SMTT(30)
  <2>. QED  BY <1>1, <2>2
<1>. QED
  BY <1>1, <1>2, <1>4, <1>5, <1>6, <1>7, <1>8, StalledKept, ZenonT(60)

\* A post is one of the requests before the failure, or the only one of a thread that
\* now waits for ever.
LEMMA StalledPost ==
  ASSUME QueueType, Stalled, Queued, link = "ready", NEW t \in Sender, post_send(t),
         sender[t].flags # "unset"
  PROVE  Stalled'
<1>1. /\ sender[t].at = "post" /\ sender'[t].at = "wait"
      /\ \A u \in Sender : sender'[u].number = sender[u].number
      /\ \A u \in Sender \ {t} : sender'[u] = sender[u]
      /\ UNCHANGED <<committed, requests, lost>>
  BY Posted
<1>2. Queued' /\ Len(unreclaimed') <= Len(unreclaimed) + 1
  BY PostQueued
<1>3. committed' < lost.first /\ lost.first <= requests'
  BY <1>1 DEF Stalled
<1>4. \A u \in Active' : sender'[u].number # lost.first
  BY <1>1 DEF Stalled, Active
<1>5. Before' = Before \ {t}
  BY <1>1 DEF Before
<1>6. sender[t].number \in Nat /\ lost.first \in Nat /\ sender[t].number # lost.first
  <2>1. t \in Active
    BY <1>1 DEF Active
  <2>. QED  BY <2>1, Terms DEF Stalled, QueueType
<1>7. CASE sender[t].number < lost.first
  <2>1. t \in Before
    BY <1>1, <1>7 DEF Before
  <2>2. Cardinality(Before') = Cardinality(Before) - 1
    BY <1>5, <2>1, FiniteStalled, FS_RemoveElement
  <2>3. ~(sender[t].number > lost.first)
    BY <1>6, <1>7, SMTT(30)
  <2>4. Behind' = Behind
    BY <1>1, <2>3 DEF Behind
  <2>. QED  BY <1>1, <1>2, <1>3, <1>4, <2>2, <2>4, StalledKept, ZenonT(60)
<1>8. CASE sender[t].number > lost.first
  <2>1. ~(sender[t].number < lost.first)
    BY <1>6, <1>8, SMTT(30)
  <2>2. t \notin Before
    BY <2>1 DEF Before
  <2>3. Before' = Before
    BY <1>5, <2>2
  <2>4. t \notin Behind /\ Behind' = Behind \cup {t}
    BY <1>1, <1>8 DEF Behind
  <2>5. Cardinality(Behind') = Cardinality(Behind) + 1
    BY <2>4, FiniteStalled, FS_AddElement
  <2>. QED  BY <1>1, <1>2, <1>3, <1>4, <2>3, <2>5, StalledKept, ZenonT(60)
<1>. QED
  BY <1>6, <1>7, <1>8, SMTT(30)

\* Only requests before the failure return.
LEMMA StalledReturn ==
  ASSUME QueueType, Stalled, Queued, NEW t \in Sender, RequestReturns(t)
  PROVE  Stalled'
<1>1. /\ sender[t].at = "wait" /\ sender[t].number = committed + 1 /\ sender'[t].at = "idle"
      /\ \A u \in Sender \ {t} : sender'[u] = sender[u]
      /\ committed' = committed + 1 /\ UNCHANGED <<requests, sq, cq, unreclaimed, lost>>
  <2>1. IdleSender.at = "idle"
    BY DEF IdleSender
  <2>. QED  BY <2>1, ReturnStep
<1>2. committed \in Nat /\ lost.first \in Nat /\ committed < lost.first /\ lost.first <= requests
  BY Terms DEF QueueType, Stalled
<1>3. sender[t].number # lost.first
  <2>1. t \in Active
    BY <1>1 DEF Active
  <2>. QED  BY <2>1 DEF Stalled
<1>4. committed' < lost.first /\ ~(sender[t].number > lost.first)
  BY <1>1, <1>2, <1>3, SMTT(30)
<1>5. Before' = Before
  BY <1>1 DEF Before
<1>6. Behind' = Behind
  BY <1>1, <1>4 DEF Behind
<1>7. \A u \in Active' : sender'[u].number # lost.first
  BY <1>1 DEF Stalled, Active
<1>8. Queued'
  BY <1>1 DEF Queued, Signals
<1>9. Len(unreclaimed') <= Len(unreclaimed) /\ Cardinality(Before) <= Cardinality(Before)
  <2>1. unreclaimed \in Seq(BOOLEAN)
    BY DEF Queued
  <2>2. Len(unreclaimed) <= Len(unreclaimed) /\ Cardinality(Before) <= Cardinality(Before)
    BY <2>1, FiniteStalled, SMTT(30)
  <2>. QED  BY <1>1, <2>2
<1>. QED
  BY <1>1, <1>2, <1>4, <1>5, <1>6, <1>7, <1>8, <1>9, StalledKept, ZenonT(60)

\* No step breaks the bound's invariant.
LEMMA BoundStep == CoverInv /\ BoundInv /\ [SendQueueNext]_queueVars => BoundInv'
<1>. SUFFICES ASSUME CoverInv, BoundInv, [SendQueueNext]_queueVars, ~late'
              PROVE  BoundInv'
  BY DEF BoundInv
<1>1. QueueType
  BY DEF CoverInv
<1>2. ASSUME ~late
      PROVE  /\ link = "ready" /\ Queued /\ \A t \in Sender : sender[t].flags # "unset"
             /\ lost.first = 0 => Excess = 0 /\ lost.signals = 0 /\ Numbers /\ Ahead
             /\ lost.first # 0 => Stalled
  BY <1>2 DEF BoundInv
<1>3. ASSUME NEW t \in Sender, Reserve(t) PROVE BoundInv'
  <2>1. /\ UNCHANGED <<link, late, sq, cq, unreclaimed, lost>>
        /\ \A u \in Sender \ {t} : sender'[u] = sender[u]
    BY <1>1, <1>3, Reserved
  <2>2. link = "ready" /\ rc_connected
    BY <1>2, <2>1 DEF rc_connected
  <2>3. sender'[t].flags # "unset"
    <3>1. sender'[t].flags = IF send_count % S_DEPTH = 0 THEN "signalled" ELSE "plain"
      BY <1>1, <1>3, <2>2, Reserved
    <3>. QED  BY <3>1
  <2>4. \A u \in Sender : sender'[u].flags # "unset"
    BY <1>2, <2>1, <2>3
  <2>5. Queued'
    BY <1>2, <2>1 DEF Queued, Signals
  <2>6. CASE lost.first = 0
    <3>1. Excess' = 0
      BY <1>1, <1>2, <1>3, <2>1, <2>6, ReserveStep
    <3>2. Numbers' /\ Ahead'
      BY <1>1, <1>2, <1>3, <2>1, <2>2, <2>6, ReserveNumbers, ReserveAheadStep
    <3>. QED  BY <1>2, <2>1, <2>2, <2>4, <2>5, <2>6, <3>1, <3>2 DEF BoundInv
  <2>7. CASE lost.first # 0
    <3>1. Stalled'
      BY <1>1, <1>2, <1>3, <2>1, <2>7, StalledReserve
    <3>. QED  BY <2>1, <2>2, <2>4, <2>5, <2>7, <3>1 DEF BoundInv
  <2>. QED  BY <2>6, <2>7
<1>4. ASSUME NEW t \in Sender, StoreFails(t) PROVE BoundInv'
  <2>1. /\ UNCHANGED <<link, late, sq, cq, unreclaimed>> /\ sender'[t] = IdleSender
        /\ \A u \in Sender \ {t} : sender'[u] = sender[u]
        /\ lost'.first = (IF lost.first = 0 THEN sender[t].number ELSE lost.first)
    BY <1>1, <1>4, StoreFailsStep
  <2>2. \A u \in Sender : sender'[u].flags # "unset"
    <3>1. IdleSender.flags # "unset"
      BY DEF IdleSender
    <3>. QED  BY <1>2, <2>1, <3>1
  <2>3. Queued'
    BY <1>2, <2>1 DEF Queued, Signals
  <2>4. CASE lost.first = 0
    <3>1. lost'.first # 0 /\ Stalled'
      BY <1>1, <1>2, <1>4, <2>1, <2>4, FirstFailure
    <3>. QED  BY <1>2, <2>1, <2>2, <2>3, <3>1 DEF BoundInv
  <2>5. CASE lost.first # 0
    <3>1. Stalled'
      BY <1>1, <1>2, <1>4, <2>1, <2>5, StalledFailure
    <3>. QED  BY <1>2, <2>1, <2>2, <2>3, <2>5, <3>1 DEF BoundInv
  <2>. QED  BY <2>4, <2>5
<1>5. ASSUME NEW t \in Sender, SkipPeer(t) PROVE BoundInv'
  <2>1. link = "none" /\ late' = late
    BY <1>5 DEF SkipPeer, rc_connected
  <2>. QED  BY <1>2, <2>1
<1>6. ASSUME NEW t \in Sender, post_send(t) PROVE BoundInv'
  <2>1. UNCHANGED <<link, late>> /\ \A u \in Sender : sender'[u].flags = sender[u].flags
    BY <1>1, <1>6, Posted
  <2>2. link = "ready" /\ sender[t].flags # "unset" /\ Queued
    BY <1>2, <2>1
  <2>3. lost' = lost
    BY <1>1, <1>6, <2>2, Posted
  <2>4. Queued'
    BY <1>1, <1>6, <2>2, PostQueued
  <2>5. CASE lost.first = 0
    <3>1. Excess' = 0
      BY <1>1, <1>2, <1>6, <2>1, <2>2, <2>5, PostStep
    <3>2. Numbers' /\ Ahead'
      BY <1>1, <1>2, <1>6, <2>1, <2>2, <2>5, PostNumbers, PostAheadStep
    <3>. QED  BY <1>2, <2>1, <2>2, <2>3, <2>4, <2>5, <3>1, <3>2 DEF BoundInv
  <2>6. CASE lost.first # 0
    <3>1. Stalled'
      BY <1>1, <1>2, <1>6, <2>1, <2>2, <2>6, StalledPost
    <3>. QED  BY <1>2, <2>1, <2>2, <2>3, <2>4, <2>6, <3>1 DEF BoundInv
  <2>. QED  BY <2>5, <2>6
<1>7. ASSUME NEW t \in Sender, RequestReturns(t) PROVE BoundInv'
  <2>1. /\ UNCHANGED <<link, late, send_count, sq, cq, unreclaimed, lost>> /\ sender'[t] = IdleSender
        /\ \A u \in Sender \ {t} : sender'[u] = sender[u]
        /\ Signalling' = Signalling /\ Unposted' = Unposted /\ Excess' = Excess
    BY <1>1, <1>7, ReturnStep
  <2>2. \A u \in Sender : sender'[u].flags # "unset"
    <3>1. IdleSender.flags # "unset"
      BY DEF IdleSender
    <3>. QED  BY <1>2, <2>1, <3>1
  <2>3. Queued'
    BY <1>2, <2>1 DEF Queued, Signals
  <2>4. CASE lost.first = 0
    <3>1. Numbers' /\ Ahead'
      BY <1>1, <1>2, <1>7, <2>1, <2>4, ReturnNumbers, SameAhead
    <3>. QED  BY <1>2, <2>1, <2>2, <2>3, <2>4, <3>1 DEF BoundInv
  <2>5. CASE lost.first # 0
    <3>1. Stalled'
      BY <1>1, <1>2, <1>7, <2>1, <2>5, StalledReturn
    <3>. QED  BY <1>2, <2>1, <2>2, <2>3, <2>5, <3>1 DEF BoundInv
  <2>. QED  BY <2>4, <2>5
<1>8. CASE CompleteSend
  <2>1. /\ UNCHANGED <<link, late, send_count, sender, requests, committed, unreclaimed, lost>>
        /\ Signalling' = Signalling /\ Excess' = Excess /\ cq' + Signals(sq') = cq + Signals(sq)
    BY <1>1, <1>8, CompleteStep
  <2>2. Queued'
    BY <1>2, <2>1 DEF Queued, Signals
  <2>3. Unposted' = Unposted
    BY <2>1 DEF Unposted
  <2>4. CASE lost.first = 0
    <3>1. Ahead'
      BY <1>2, <2>1, <2>3, <2>4, SameAhead
    <3>2. Numbers'
      BY <1>2, <2>1, <2>4 DEF Numbers, Active, Polling
    <3>. QED  BY <1>2, <2>1, <2>2, <2>4, <3>1, <3>2 DEF BoundInv
  <2>5. CASE lost.first # 0
    <3>1. Stalled'
      BY <1>2, <2>1, <2>5 DEF Stalled, Active, Before, Behind, Bound
    <3>. QED  BY <1>2, <2>1, <2>2, <2>5, <3>1 DEF BoundInv
  <2>. QED  BY <2>4, <2>5
<1>9. CASE ConnectStep
  <2>1. late' = late /\ link # "ready"
    BY <1>9 DEF ConnectStep
  <2>. QED  BY <1>2, <2>1
<1>10. CASE UNCHANGED queueVars
  <2>1. UNCHANGED <<link, late, send_count, sender, requests, committed, sq, cq, unreclaimed, lost>>
    BY <1>10 DEF queueVars
  <2>2. Excess' = Excess /\ (Queued => Queued')
    BY <2>1 DEF Excess, Queued, Signals, Signalling, Polling, Open
  <2>3. Numbers => Numbers'
    BY <2>1 DEF Numbers, Active, Polling
  <2>4. Ahead => Ahead'
    BY <2>1, SameAhead DEF Signalling, Unposted
  <2>5. Stalled => Stalled'
    BY <2>1 DEF Stalled, Active, Before, Behind, Bound
  <2>. QED  BY <1>2, <2>1, <2>2, <2>3, <2>4, <2>5 DEF BoundInv
<1>. QED
  BY <1>3, <1>4, <1>5, <1>6, <1>7, <1>8, <1>9, <1>10 DEF SendQueueNext

\* With the queue pair ready before the first request, the sends to a peer that
\* post_send has queued and nobody has polled for are at most two rounds of S_DEPTH and
\* two for every thread but two, and with failing store_records one more for every
\* thread: the queue cannot grow with the number of requests, although threads post out
\* of order and poll late.
THEOREM QueueIsBounded == SendQueueSpec => []QueueBounded
<1>1. SendQueueInit => CoverInv
  <2>. SUFFICES ASSUME SendQueueInit PROVE CoverInv
    OBVIOUS
  <2>1. QueueType /\ Excess = 0 /\ Signalling = {}
    BY InitCounts
  <2>2. Excess >= 0
    BY <2>1, SMTT(30)
  <2>. QED  BY <2>1, <2>2 DEF CoverInv
<1>2. CoverInv /\ BoundInv => QueueBounded
  <2>. SUFFICES ASSUME CoverInv, BoundInv, ~late
                PROVE  Len(unreclaimed) <=
                         2 * S_DEPTH - 4 + (IF lost.first = 0 THEN 2 ELSE 3) * Cardinality(Sender)
    BY DEF QueueBounded
  <2>. DEFINE L == Len(unreclaimed)
              S == S_DEPTH
              T == Cardinality(Sender)
  <2>1. QueueType /\ Queued
    BY DEF CoverInv, BoundInv
  <2>2. L \in Nat /\ S \in Nat /\ T \in Nat
    <3>1. unreclaimed \in Seq(BOOLEAN) /\ S \in Nat
      BY <2>1, SendQueueAssumption DEF Queued
    <3>. QED  BY <3>1, Finite, SMTT(30)
  <2>3. CASE lost.first = 0
    <3>1. L <= 2 * S - 4 + 2 * T
      BY <2>1, <2>3, ShortQueue DEF BoundInv, Bound
    <3>. QED  BY <2>3, <3>1
  <2>4. CASE lost.first # 0
    <3>. DEFINE b == Cardinality(Before)
                h == Cardinality(Behind)
    <3>1. L + b <= 2 * S - 4 + 2 * T + h
      BY <2>4 DEF BoundInv, Stalled, Bound
    <3>2. b \in Nat /\ h \in Nat /\ h <= T
      BY FiniteStalled
    <3>. HIDE DEF L, S, T, b, h
    <3>3. L <= 2 * S - 4 + 3 * T
      BY <2>2, <3>1, <3>2, SMTT(30)
    <3>. QED  BY <2>4, <3>3 DEF L, S, T
  <2>. QED  BY <2>3, <2>4
<1>3. CoverInv /\ BoundInv /\ [SendQueueNext]_queueVars => CoverInv' /\ BoundInv'
  BY CoverStep, BoundStep
<1>. QED
  BY <1>1, <1>2, <1>3, InitBound, PTL DEF SendQueueSpec
=============================================================================
