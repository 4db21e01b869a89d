---------------------------- MODULE OutputProofs ----------------------------
(***************************************************************************)
(* Proofs about Output and Decision, for any size of the group, of the     *)
(* blocks and of the writes, and any outputs of the applications.          *)
(***************************************************************************)
EXTENDS Output, FunctionTheorems, FiniteSetTheorems, SequenceTheorems,
        WellFoundedInduction, TLAPS

\* A leaf is for Zenon unless it names another prover.
USE Zenon

Byte == 0..255
HandlerType ==
    [output_list : Seq(Seq(Byte)), hash : Seq(Byte), hash_buffer : Seq(Byte), called_cnt : Nat]
CheckType ==
    [index : Nat, sent : [Peer -> Seq(Byte)], landed : [Peer -> Nat], answered : SUBSET Peer]

OutputType ==
    /\ stream \in [Peer -> Seq(Byte)] /\ written \in [Peer -> Nat]
    /\ \A n \in Peer : written[n] <= Len(stream[n])
    /\ handler \in [Peer -> HandlerType \cup {NoHandler}]
    /\ asked \in CheckType \cup {NoCheck}

\* A handler that has seen the first w bytes of s and nothing else.
Hashed(h, s, w) ==
    LET len == Len(h.output_list)
    IN  /\ len = w \div HASH_BUFFER_SIZE
        /\ h.hash = SubSeq(s, 1, len * HASH_BUFFER_SIZE)
        /\ h.hash_buffer = SubSeq(s, len * HASH_BUFFER_SIZE + 1, w)
        /\ \A k \in 1..len : h.output_list[k] = SubSeq(s, 1, k * HASH_BUFFER_SIZE)

\* A handler that is made again after the close stays empty.
HandlerInv ==
    \A n \in Peer :
        \/ handler[n] = NoHandler /\ written[n] \in {0, Len(stream[n])}
        \/ handler[n] = new_output_handler /\ written[n] = Len(stream[n])
        \/ handler[n] # NoHandler /\ Hashed(handler[n], stream[n], written[n])

\* A hash that is under way is the one of the block that was asked for, or none.
AskedInv ==
    asked # NoCheck =>
        /\ handler[LeaderId] # NoHandler
        /\ \A n \in Peer : asked.sent[n] \in {NoHash, Blocks(n, asked.index)}

-----------------------------------------------------------------------------
\* The sizes are positive.
LEMMA Sizes ==
  /\ GroupSize \in Nat \ {0} /\ LeaderId \in Peer /\ Peer \subseteq Nat
  /\ HASH_BUFFER_SIZE \in Nat \ {0} /\ CHECK_PERIOD \in Nat \ {0} /\ CHECK_GOBACK \in Nat \ {0}
  /\ WriteSizes \subseteq Nat \ {0} /\ Streams \subseteq Seq(Byte)
  BY OutputAssumption, SMTT(30) DEF Peer, Byte

\* Division undoes multiplication.
LEMMA Quotient ==
  ASSUME NEW b \in Nat \ {0}, NEW q \in Nat, NEW x \in 0 .. b - 1
  PROVE  (q * b + x) \div b = q
  BY SMTT(30)

\* Division with remainder.
LEMMA Divide ==
  ASSUME NEW b \in Nat \ {0}, NEW n \in Nat
  PROVE  /\ n \div b \in Nat /\ (n \div b) * b \in Nat /\ (n \div b) * b <= n
         /\ n - (n \div b) * b \in 0 .. b - 1
  BY SMTT(30)

\* Multiplication is monotone and distributes.
LEMMA Products ==
  ASSUME NEW b \in Nat, NEW i \in Nat, NEW j \in Nat
  PROVE  /\ i * b \in Nat /\ (i + j) * b = i * b + j * b
         /\ i <= j => i * b <= j * b
  BY SMTT(30)

\* The elements of a part of a sequence.
LEMMA PartOf ==
  ASSUME NEW S, NEW s \in Seq(S), NEW a \in Nat, NEW b \in Nat, a <= b, b <= Len(s)
  PROVE  /\ SubSeq(s, a + 1, b) \in Seq(S) /\ Len(SubSeq(s, a + 1, b)) = b - a
         /\ \A i \in 1 .. b - a : SubSeq(s, a + 1, b)[i] = s[a + i]
<1>1. \A i \in a + 1 .. b : s[i] \in S
  <2>. TAKE i \in a + 1 .. b
  <2>1. i \in 1 .. Len(s)
    BY SMTT(30)
  <2>. QED  BY <2>1, ElementOfSeq
<1>2. /\ SubSeq(s, a + 1, b) \in Seq(S)
      /\ Len(SubSeq(s, a + 1, b)) = IF a + 1 <= b THEN b - (a + 1) + 1 ELSE 0
      /\ \A i \in 1 .. b - (a + 1) + 1 : SubSeq(s, a + 1, b)[i] = s[a + 1 + i - 1]
  <2>1. a + 1 \in Int /\ b \in Int
    BY SMTT(30)
  <2>. QED  BY <1>1, <2>1, SubSeqProperties, SMTT(30)
<1>. QED  BY <1>2, SMTT(30)

\* A part of a part is a part.
LEMMA PartOfPart ==
  ASSUME NEW S, NEW s \in Seq(S), NEW a \in Nat, NEW b \in Nat, a <= b, b <= Len(s),
         NEW i \in Nat, NEW j \in Nat, i <= j, j <= b - a
  PROVE  SubSeq(SubSeq(s, a + 1, b), i + 1, j) = SubSeq(s, a + i + 1, a + j)
<1>. DEFINE t == SubSeq(s, a + 1, b)
            u == SubSeq(t, i + 1, j)
            v == SubSeq(s, a + i + 1, a + j)
<1>1. t \in Seq(S) /\ Len(t) = b - a /\ \A k \in 1 .. b - a : t[k] = s[a + k]
  BY PartOf, SMTT(30)
<1>. HIDE DEF t
<1>2. u \in Seq(S) /\ Len(u) = j - i /\ \A k \in 1 .. j - i : u[k] = t[i + k]
  BY <1>1, PartOf, SMTT(30)
<1>3. v \in Seq(S) /\ Len(v) = j - i /\ \A k \in 1 .. j - i : v[k] = s[a + i + k]
  <2>1. a + i \in Nat /\ a + j \in Nat /\ a + i <= a + j /\ a + j <= Len(s) /\ (a + j) - (a + i) = j - i
    BY LenProperties, SMTT(30)
  <2>2. v \in Seq(S) /\ Len(v) = (a + j) - (a + i) /\ \A k \in 1 .. (a + j) - (a + i) : v[k] = s[(a + i) + k]
    BY <2>1, PartOf, SMTT(30)
  <2>. HIDE DEF v
  <2>. QED  BY <2>1, <2>2
<1>. HIDE DEF u, v
<1>4. \A k \in 1 .. Len(u) : u[k] = v[k]
  <2>. TAKE k \in 1 .. Len(u)
  <2>1. k \in 1 .. j - i /\ i + k \in 1 .. b - a /\ a + (i + k) = a + i + k
    BY <1>2, SMTT(30)
  <2>. QED  BY <1>1, <1>2, <1>3, <2>1
<1>5. u = v
  BY <1>2, <1>3, <1>4, SeqEqual
<1>. QED  BY <1>5 DEF u, v, t

\* Adjacent parts join.
LEMMA PartsJoin ==
  ASSUME NEW S, NEW s \in Seq(S), NEW a \in Nat, NEW b \in Nat, NEW c \in Nat,
         a <= b, b <= c, c <= Len(s)
  PROVE  SubSeq(s, a + 1, b) \o SubSeq(s, b + 1, c) = SubSeq(s, a + 1, c)
<1>1. Len(s) \in Nat
  BY LenProperties
<1>2. a + 1 \in 1 .. Len(s) + 1 /\ b \in (a + 1) - 1 .. Len(s) /\ c \in b .. Len(s)
  BY <1>1, SMTT(30)
<1>. QED  BY <1>2, ConcatAdjacentSubSeq

-----------------------------------------------------------------------------
\* Hashing more output: store_output goes on where it stopped.
LEMMA StoreOutput ==
  ASSUME NEW s \in Seq(Byte), NEW w \in Nat, NEW size \in Nat, w + size <= Len(s),
         NEW h \in HandlerType, Hashed(h, s, w),
         NEW g, g = store_output(h, SubSeq(s, w + 1, w + size))
  PROVE  g \in HandlerType /\ Hashed(g, s, w + size)
<1>. DEFINE B == HASH_BUFFER_SIZE
            len == Len(h.output_list)
            p == len * B
            all == h.hash_buffer \o SubSeq(s, w + 1, w + size)
            r == Len(all) \div B
            upto(k) == crc64(h.hash, SubSeq(all, 1, k * B))
            more == [k \in 1..r |-> upto(k)]
<1>1. g = [h EXCEPT !.output_list = h.output_list \o more, !.hash = upto(r),
                    !.hash_buffer = SubSeq(all, r * B + 1, Len(all))]
  BY DEF store_output
<1>2. B \in Nat \ {0} /\ Len(s) \in Nat
  BY Sizes, LenProperties
<1>3. /\ h.output_list \in Seq(Seq(Byte)) /\ len \in Nat /\ len = w \div B
      /\ h.hash = SubSeq(s, 1, p) /\ h.hash_buffer = SubSeq(s, p + 1, w)
      /\ \A k \in 1..len : h.output_list[k] = SubSeq(s, 1, k * B)
  BY LenProperties DEF Hashed, HandlerType
<1>. HIDE DEF B, len, p
<1>4. p \in Nat /\ p <= w
  BY <1>2, <1>3, Divide DEF p
<1>5. all = SubSeq(s, p + 1, w + size)
  <2>1. /\ s \in Seq(Byte) /\ p \in Nat /\ w \in Nat /\ w + size \in Nat
        /\ p <= w /\ w <= w + size /\ w + size <= Len(s)
    BY <1>4, SMTT(30)
  <2>2. SubSeq(s, p + 1, w) \o SubSeq(s, w + 1, w + size) = SubSeq(s, p + 1, w + size)
    BY ONLY <2>1, PartsJoin, SMT
  <2>. QED  BY <1>3, <2>2
<1>6. Len(all) = w + size - p /\ all \in Seq(Byte) /\ Len(all) \in Nat
  <2>1. w + size \in Nat /\ p <= w + size
    BY <1>4, SMTT(30)
  <2>2. Len(SubSeq(s, p + 1, w + size)) = w + size - p /\ SubSeq(s, p + 1, w + size) \in Seq(Byte)
    BY <1>4, <2>1, PartOf, SMTT(30)
  <2>. HIDE DEF all
  <2>. QED  BY <1>4, <1>5, <2>1, <2>2, SMTT(30)
<1>. HIDE DEF all
<1>7. r \in Nat /\ r * B \in Nat /\ r * B <= Len(all) /\ Len(all) - r * B \in 0 .. B - 1
  BY <1>2, <1>6, Divide
<1>. HIDE DEF r
<1>8. ASSUME NEW k \in 0 .. r
      PROVE  /\ upto(k) = SubSeq(s, 1, (len + k) * B) /\ upto(k) \in Seq(Byte)
             /\ (len + k) * B = p + k * B /\ k * B \in Nat /\ p + k * B <= w + size
  <2>1. k * B \in Nat /\ k * B <= r * B /\ (len + k) * B = p + k * B
    BY <1>2, <1>3, <1>7, Products, SMTT(30) DEF p
  <2>. DEFINE x == k * B
  <2>2. x \in Nat /\ x <= w + size - p /\ p + x \in Nat /\ p + x <= Len(s) /\ p + x <= w + size
    BY <1>2, <1>4, <1>6, <1>7, <2>1, SMTT(30)
  <2>. HIDE DEF x
  <2>3. SubSeq(all, 1, x) = SubSeq(s, p + 1, p + x)
    <3>1. p <= w + size /\ w + size \in Nat /\ 0 \in Nat /\ 0 <= x /\ 0 + 1 = 1 /\ p + 0 + 1 = p + 1
      BY <1>4, <2>2, SMTT(30)
    <3>2. SubSeq(SubSeq(s, p + 1, w + size), 0 + 1, x) = SubSeq(s, p + 0 + 1, p + x)
      BY <1>4, <2>2, <3>1, PartOfPart, SMTT(30)
    <3>. QED  BY <1>5, <3>1, <3>2
  <2>4. SubSeq(s, 1, p) \o SubSeq(s, p + 1, p + x) = SubSeq(s, 1, p + x) /\ SubSeq(s, 1, p + x) \in Seq(Byte)
    <3>1. 0 \in Nat /\ 0 <= p /\ p <= p + x /\ 0 + 1 = 1 /\ 0 <= p + x
      BY <1>4, <2>2, SMTT(30)
    <3>2. SubSeq(s, 0 + 1, p) \o SubSeq(s, p + 1, p + x) = SubSeq(s, 0 + 1, p + x)
      BY <1>4, <2>2, <3>1, PartsJoin, SMTT(30)
    <3>3. SubSeq(s, 0 + 1, p + x) \in Seq(Byte)
      BY <1>4, <2>2, <3>1, PartOf
    <3>. QED  BY <3>1, <3>2, <3>3
  <2>5. upto(k) = h.hash \o SubSeq(all, 1, x)
    BY DEF crc64, x
  <2>6. upto(k) = SubSeq(s, 1, p + x)
    BY <1>3, <2>3, <2>4, <2>5
  <2>. HIDE DEF upto
  <2>. QED  BY <2>1, <2>2, <2>4, <2>6 DEF x
<1>9. more \in Seq(Seq(Byte)) /\ Len(more) = r /\ \A k \in 1..r : more[k] = SubSeq(s, 1, (len + k) * B)
  <2>1. \A k \in 1..r : upto(k) \in Seq(Byte) /\ upto(k) = SubSeq(s, 1, (len + k) * B)
    BY <1>7, <1>8, SMTT(30)
  <2>. HIDE DEF upto
  <2>2. more \in [1..r -> Seq(Byte)]
    BY <2>1
  <2>3. \A k \in 1..r : more[k] = SubSeq(s, 1, (len + k) * B)
    BY <2>1
  <2>. HIDE DEF more
  <2>4. more \in Seq(Seq(Byte)) /\ Len(more) = r
    BY <1>7, <2>2, SMTT(30)
  <2>. QED  BY <2>3, <2>4
<1>. HIDE DEF more
<1>10. /\ h.output_list \o more \in Seq(Seq(Byte)) /\ Len(h.output_list \o more) = len + r
       /\ \A k \in 1 .. len + r : (h.output_list \o more)[k] = SubSeq(s, 1, k * B)
  <2>1. /\ h.output_list \o more \in Seq(Seq(Byte)) /\ Len(h.output_list \o more) = len + r
        /\ \A k \in 1 .. len + r : (h.output_list \o more)[k] =
                IF k <= len THEN h.output_list[k] ELSE more[k - len]
    BY <1>3, <1>9, ConcatProperties, ZenonT(30) DEF len
  <2>2. ASSUME NEW k \in 1 .. len + r PROVE (h.output_list \o more)[k] = SubSeq(s, 1, k * B)
    <3>1. CASE k <= len
      <4>1. k \in 1 .. len
        BY <1>3, <3>1, SMTT(30)
      <4>2. (h.output_list \o more)[k] = h.output_list[k]
        BY <2>1, <3>1
      <4>. QED  BY <1>3, <4>1, <4>2
    <3>2. CASE ~(k <= len)
      <4>1. k - len \in 1..r /\ len + (k - len) = k
        BY <1>3, <1>7, <3>2, SMTT(30)
      <4>. QED  BY <1>9, <2>1, <3>2, <4>1
    <3>. QED  BY <3>1, <3>2
  <2>. QED  BY <2>1, <2>2
<1>11. upto(r) = SubSeq(s, 1, (len + r) * B) /\ upto(r) \in Seq(Byte)
       /\ (len + r) * B = p + r * B /\ p + r * B <= w + size
  <2>1. r \in 0 .. r
    BY <1>7, SMTT(30)
  <2>. QED  BY <1>8, <2>1
<1>. HIDE DEF upto
<1>12. SubSeq(all, r * B + 1, Len(all)) = SubSeq(s, (len + r) * B + 1, w + size)
       /\ SubSeq(all, r * B + 1, Len(all)) \in Seq(Byte)
  <2>. DEFINE y == r * B
  <2>1. y \in Nat /\ y <= Len(all) /\ p + y <= w + size /\ p + Len(all) = w + size
        /\ (len + r) * B = p + y
    BY <1>4, <1>6, <1>7, <1>11, SMTT(30)
  <2>. HIDE DEF y
  <2>2. SubSeq(SubSeq(s, p + 1, w + size), y + 1, Len(all)) = SubSeq(s, p + y + 1, p + Len(all))
    <3>1. p <= w + size /\ w + size \in Nat /\ Len(all) <= w + size - p
      BY <1>4, <1>6, SMTT(30)
    <3>. QED  BY <1>4, <1>6, <2>1, <3>1, PartOfPart, SMTT(30)
  <2>3. SubSeq(all, y + 1, Len(all)) \in Seq(Byte)
    <3>1. Len(all) <= Len(all)
      BY <1>6, SMTT(30)
    <3>. QED  BY <1>6, <2>1, <3>1, PartOf
  <2>. QED  BY <1>5, <2>1, <2>2, <2>3 DEF y
<1>13. len + r = (w + size) \div B
  <2>. DEFINE x == Len(all) - r * B
              q == len + r
  <2>1. x \in 0 .. B - 1 /\ q \in Nat
    BY <1>3, <1>7, SMTT(30)
  <2>2. w + size = q * B + x
    <3>. DEFINE y == r * B
    <3>1. q * B = p + y /\ y \in Nat /\ x = Len(all) - y
      BY <1>7, <1>11
    <3>. HIDE DEF y, q, x
    <3>. QED  BY <1>4, <1>6, <3>1, SMTT(30)
  <2>. HIDE DEF x, q
  <2>3. (q * B + x) \div B = q
    BY <1>2, <2>1, Quotient
  <2>. QED  BY <2>2, <2>3 DEF q
<1>14. /\ g.output_list = h.output_list \o more /\ g.hash = upto(r)
       /\ g.hash_buffer = SubSeq(all, r * B + 1, Len(all)) /\ g \in HandlerType
  BY <1>1, <1>10, <1>11, <1>12 DEF HandlerType
<1>15. Hashed(g, s, w + size)
  <2>1. Len(g.output_list) = len + r
    BY <1>10, <1>14
  <2>2. g.hash = SubSeq(s, 1, Len(g.output_list) * B)
    BY <1>11, <1>14, <2>1
  <2>3. g.hash_buffer = SubSeq(s, Len(g.output_list) * B + 1, w + size)
    BY <1>12, <1>14, <2>1
  <2>4. \A k \in 1 .. Len(g.output_list) : g.output_list[k] = SubSeq(s, 1, k * B)
    BY <1>10, <1>14, <2>1
  <2>. QED  BY <1>13, <2>1, <2>2, <2>3, <2>4 DEF Hashed, B
<1>. QED  BY <1>14, <1>15

-----------------------------------------------------------------------------
(* The decision. *)

\* Every set of naturals has a least element.
LEMMA LeastNumber ==
  ASSUME NEW T \in SUBSET Nat, T # {}
  PROVE  \E m \in T : \A k \in T : m <= k
<1>. DEFINE R == OpToRel(<, Nat)
<1>1. IsWellFoundedOn(R, Nat)
  BY NatLessThanWellFounded
<1>2. \A x, y \in Nat : x < y => <<x, y>> \in R
  <2>. TAKE x, y \in Nat
  <2>1. <<x, y>> \in Nat \X Nat /\ <<x, y>>[1] = x /\ <<x, y>>[2] = y
    OBVIOUS
  <2>. QED  BY <2>1 DEF OpToRel
<1>. HIDE DEF R
<1>3. PICK m \in T : \A y \in T : ~(<<y, m>> \in R)
  BY <1>1, WFMin
<1>4. \A y \in T : ~(y < m)
  BY <1>2, <1>3
<1>. QED
  BY <1>4, SMTT(30)

\* The loop of major_count_hash finds the first of the most frequent ones.
LEMMA FirstOfMost ==
  ASSUME NEW f \in [Peer -> 0 .. GroupSize]
  PROVE  \E i \in Peer : \A j \in Peer : f[j] < f[i] \/ (f[j] = f[i] /\ i <= j)
<1>. DEFINE Gaps == {GroupSize - f[i] : i \in Peer}
<1>1. Gaps \subseteq Nat /\ Gaps # {}
  BY Sizes, SMTT(30)
<1>2. PICK g \in Gaps : \A k \in Gaps : g <= k
  BY <1>1, LeastNumber
<1>3. PICK a \in Peer : g = GroupSize - f[a]
  BY <1>2
<1>4. \A j \in Peer : f[j] <= f[a]
  <2>. TAKE j \in Peer
  <2>1. GroupSize - f[a] <= GroupSize - f[j]
    BY <1>2, <1>3
  <2>. QED  BY <2>1, Sizes, SMTT(30)
<1>. DEFINE Most == {i \in Peer : f[i] = f[a]}
<1>5. Most \subseteq Nat /\ Most # {}
  BY <1>3, Sizes
<1>6. PICK i \in Most : \A k \in Most : i <= k
  BY <1>5, LeastNumber
<1>7. \A j \in Peer : f[j] < f[i] \/ (f[j] = f[i] /\ i <= j)
  <2>. TAKE j \in Peer
  <2>1. f[i] = f[a] /\ f[j] <= f[a] /\ (f[j] = f[a] => i <= j)
    BY <1>4, <1>6
  <2>. QED  BY <2>1, Sizes, SMTT(30)
<1>. QED  BY <1>6, <1>7

\* What do_decision restores when every slot names its node: the slots whose hash has
\* no majority, whichever of the hashes is taken for the master's.
LEMMA Decides ==
  ASSUME NEW peers, DOMAIN peers = Peer,
         \A i \in Peer : peers[i].hash # NoHash => peers[i].node_id = i
  PROVE  do_decision(peers) =
           IF \E i \in Peer : peers[i].hash = NoHash THEN {}
           ELSE {n \in Peer : ~(2 * Cardinality({i \in Peer : peers[i].hash = peers[n].hash}) > GroupSize)}
<1>. DEFINE D == DOMAIN peers
            A(v) == {i \in D : peers[i].hash = v}
            cnt(i) == count_hash(peers, peers[i].hash)
            t == (GroupSize \div 2) + 1
            first == CHOOSE i \in D : \A j \in D : cnt(j) < cnt(i) \/ (cnt(j) = cnt(i) /\ i <= j)
            m == get_master_hash(peers)
            Rest(v) == {n \in Peer : peers[n].hash # v}
            Minor == {n \in Peer : ~(2 * Cardinality(A(peers[n].hash)) > GroupSize)}
<1>1. IsFiniteSet(Peer) /\ Cardinality(Peer) = GroupSize
  <2>1. 0 \in Int /\ GroupSize - 1 \in Int /\ ~(0 > GroupSize - 1) /\ (GroupSize - 1) - 0 + 1 = GroupSize
    BY Sizes, SMTT(30)
  <2>. QED  BY <2>1, FS_Interval DEF Peer
<1>2. \A v : count_hash(peers, v) = Cardinality(A(v))
  BY DEF count_hash
<1>3. \A v : IsFiniteSet(A(v)) /\ Cardinality(A(v)) \in 0 .. GroupSize
  <2>. TAKE v
  <2>1. A(v) \in SUBSET Peer
    OBVIOUS
  <2>2. IsFiniteSet(A(v)) /\ Cardinality(A(v)) <= GroupSize
    BY <1>1, <2>1, FS_Subset
  <2>3. Cardinality(A(v)) \in Nat
    BY <2>2, FS_CardinalityType
  <2>. QED  BY <2>2, <2>3, Sizes, SMTT(30)
<1>10. \A i \in Peer : cnt(i) = Cardinality(A(peers[i].hash)) /\ cnt(i) \in 0 .. GroupSize
  <2>. HIDE DEF A
  <2>. QED  BY <1>2, <1>3
<1>4. t \in Nat \ {0} /\ \A c \in 0 .. GroupSize : c >= t <=> 2 * c > GroupSize
  BY Sizes, SMTT(30)
<1>. HIDE DEF A, cnt, t
<1>5. \A u, v : Cardinality(A(u)) >= t /\ Cardinality(A(v)) >= t => u = v
  <2>. SUFFICES ASSUME NEW u, NEW v, Cardinality(A(u)) >= t, Cardinality(A(v)) >= t PROVE u = v
    OBVIOUS
  <2>1. Cardinality(A(u)) + Cardinality(A(v)) > Cardinality(Peer)
    <3>. DEFINE x == Cardinality(A(u))
                y == Cardinality(A(v))
    <3>1. x \in 0 .. GroupSize /\ y \in 0 .. GroupSize /\ 2 * x > GroupSize /\ 2 * y > GroupSize
      BY <1>3, <1>4
    <3>. HIDE DEF x, y
    <3>2. x + y > GroupSize
      BY <3>1, Sizes, SMTT(30)
    <3>. QED  BY <1>1, <3>2 DEF x, y
  <2>2. A(u) \subseteq Peer /\ A(v) \subseteq Peer
    BY DEF A
  <2>3. A(u) \cap A(v) # {}
    BY <1>1, <2>1, <2>2, FS_MajoritiesIntersect
  <2>. QED  BY <2>3 DEF A
<1>6. first \in Peer /\ \A j \in Peer : cnt(j) <= cnt(first)
  <2>. DEFINE f == [i \in Peer |-> cnt(i)]
  <2>1. f \in [Peer -> 0 .. GroupSize]
    BY <1>10
  <2>2. \E i \in Peer : \A j \in Peer : f[j] < f[i] \/ (f[j] = f[i] /\ i <= j)
    BY <2>1, FirstOfMost
  <2>3. \E i \in D : \A j \in D : cnt(j) < cnt(i) \/ (cnt(j) = cnt(i) /\ i <= j)
    BY <2>2
  <2>4. first \in D /\ \A j \in D : cnt(j) < cnt(first) \/ (cnt(j) = cnt(first) /\ first <= j)
    BY <2>3
  <2>5. \A j \in Peer : cnt(j) \in Nat
    BY <1>10, SMTT(30)
  <2>. HIDE DEF first
  <2>. QED  BY <2>4, <2>5, SMTT(30)
<1>7. major_count_hash(peers) = [cnt |-> cnt(first), hash |-> peers[first].hash]
  BY DEF major_count_hash, cnt, first
<1>. HIDE DEF first
<1>8. CASE \E i \in Peer : peers[i].hash = NoHash
  BY <1>8 DEF do_decision
<1>9. CASE \A i \in Peer : peers[i].hash # NoHash
  <2>1. \A v : v # NoHash => do_restore(peers, v) = Rest(v)
    <3>. SUFFICES ASSUME NEW v, v # NoHash PROVE do_restore(peers, v) = Rest(v)
      OBVIOUS
    <3>1. do_restore(peers, v) = {peers[i].node_id : i \in {j \in Peer : peers[j].hash # v}}
      BY DEF do_restore
    <3>2. \A i \in Peer : peers[i].node_id = i
      BY <1>9
    <3>. QED  BY <3>1, <3>2, SMTT(30)
  <2>2. do_restore(peers, NoHash) = Peer
    <3>1. do_restore(peers, NoHash) = {peers[i].node_id : i \in Peer}
      BY DEF do_restore
    <3>2. \A i \in Peer : peers[i].node_id = i
      BY <1>9
    <3>. QED  BY <3>1, <3>2, SMTT(30)
  <2>3. \A v : Cardinality(A(v)) >= t => v # NoHash /\ Minor = Rest(v)
    <3>. SUFFICES ASSUME NEW v, Cardinality(A(v)) >= t PROVE v # NoHash /\ Minor = Rest(v)
      OBVIOUS
    <3>1. A(v) # {}
      <4>1. Cardinality(A(v)) # 0
        BY <1>3, <1>4, SMTT(30)
      <4>. QED  BY <4>1, FS_EmptySet
    <3>2. v # NoHash
      BY <1>9, <3>1, SMTT(30) DEF A
    <3>3. ASSUME NEW n \in Peer
          PROVE  2 * Cardinality(A(peers[n].hash)) > GroupSize <=> peers[n].hash = v
      <4>1. Cardinality(A(peers[n].hash)) >= t <=> peers[n].hash = v
        BY <1>5
      <4>2. Cardinality(A(peers[n].hash)) \in 0 .. GroupSize
        BY <1>3
      <4>. QED  BY <1>4, <4>1, <4>2
    <3>. QED  BY <3>2, <3>3
  <2>. DEFINE con_num == count_hash(peers, m)
  <2>4. do_decision(peers) =
          IF con_num = GroupSize THEN {}
          ELSE IF con_num >= t THEN do_restore(peers, m)
          ELSE IF cnt(first) >= t THEN do_restore(peers, peers[first].hash)
          ELSE do_restore(peers, NoHash)
    <3>1. Cardinality(DOMAIN peers) = GroupSize
      BY <1>1
    <3>2. ~\E i \in DOMAIN peers : peers[i].hash = NoHash
      BY <1>9
    <3>3. major_count_hash(peers).cnt = cnt(first) /\ major_count_hash(peers).hash = peers[first].hash
      BY <1>7, SMTT(30)
    <3>. QED  BY <3>1, <3>2, <3>3 DEF do_decision, t
  <2>5. con_num = Cardinality(A(m)) /\ con_num \in 0 .. GroupSize
    BY <1>2, <1>3
  <2>6. do_decision(peers) = Minor
    <3>1. CASE con_num = GroupSize
      <4>1. A(m) = Peer
        <5>1. A(m) \in SUBSET Peer
          BY DEF A
        <5>2. Cardinality(Peer) = Cardinality(A(m))
          BY <1>1, <2>5, <3>1
        <5>. QED  BY <1>1, <5>1, <5>2, FS_Subset
      <4>2. GroupSize >= t
        BY <1>4, Sizes, SMTT(30)
      <4>3. Minor = Rest(m)
        BY <2>3, <2>5, <3>1, <4>2, ZenonT(30)
      <4>4. Rest(m) = {}
        BY <4>1 DEF A
      <4>. QED  BY <2>4, <3>1, <4>3, <4>4
    <3>2. CASE con_num # GroupSize /\ con_num >= t
      <4>1. m # NoHash /\ Minor = Rest(m)
        BY <2>3, <2>5, <3>2, SMTT(30)
      <4>. HIDE DEF Minor, con_num, m, Rest
      <4>2. do_decision(peers) = do_restore(peers, m)
        BY <2>4, <3>2
      <4>. QED  BY <2>1, <4>1, <4>2
    <3>3. CASE con_num # GroupSize /\ ~(con_num >= t) /\ cnt(first) >= t
      <4>1. Minor = Rest(peers[first].hash) /\ peers[first].hash # NoHash
        BY <1>6, <1>10, <2>3, <3>3
      <4>2. do_decision(peers) = do_restore(peers, peers[first].hash)
        <5>. HIDE DEF con_num, m, Minor
        <5>. QED  BY <2>4, <3>3
      <4>. HIDE DEF Minor, Rest
      <4>. QED  BY <2>1, <4>1, <4>2
    <3>4. CASE con_num # GroupSize /\ ~(con_num >= t) /\ ~(cnt(first) >= t)
      <4>1. ASSUME NEW n \in Peer PROVE ~(2 * Cardinality(A(peers[n].hash)) > GroupSize)
        <5>1. cnt(n) = Cardinality(A(peers[n].hash)) /\ cnt(n) \in 0 .. GroupSize /\ cnt(first) \in 0 .. GroupSize
          BY <1>6, <1>10
        <5>2. cnt(n) <= cnt(first)
          BY <1>6
        <5>3. ~(cnt(n) >= t)
          BY <1>4, <3>4, <5>1, <5>2, SMTT(30)
        <5>. QED  BY <1>4, <5>1, <5>3
      <4>2. Minor = Peer
        BY <4>1
      <4>3. do_decision(peers) = do_restore(peers, NoHash)
        <5>. HIDE DEF con_num, m, Minor
        <5>. QED  BY <2>4, <3>4
      <4>. QED  BY <2>2, <4>2, <4>3
    <3>. QED  BY <3>1, <3>2, <3>3, <3>4
  <2>7. Minor = {n \in Peer : ~(2 * Cardinality({i \in Peer : peers[i].hash = peers[n].hash}) > GroupSize)}
    BY DEF A
  <2>. QED  BY <1>9, <2>6, <2>7
<1>. QED  BY <1>8, <1>9

-----------------------------------------------------------------------------
(* The invariant. *)

OutputInv == OutputType /\ HandlerInv /\ AskedInv

\* No handler is NoHandler and no check is NoCheck.
LEMMA Distinct ==
  /\ \A h \in HandlerType : h # NoHandler
  /\ new_output_handler \in HandlerType /\ new_output_handler.output_list = <<>>
  /\ \A a \in CheckType : a # NoCheck
<1>1. ASSUME NEW h \in HandlerType PROVE h # NoHandler
  <2>1. "hash" \in DOMAIN h
    BY DEF HandlerType
  <2>2. "hash" \notin DOMAIN NoHandler
    BY DEF NoHandler
  <2>. QED  BY <2>1, <2>2
<1>2. new_output_handler \in HandlerType /\ new_output_handler.output_list = <<>>
  <2>1. <<>> \in Seq(Byte) /\ <<>> \in Seq(Seq(Byte))
    BY EmptySeq
  <2>. QED  BY <2>1 DEF new_output_handler, HandlerType, NoHash
<1>3. ASSUME NEW a \in CheckType PROVE a # NoCheck
  <2>1. "index" \in DOMAIN a
    BY DEF CheckType
  <2>2. "index" \notin DOMAIN NoCheck
    BY DEF NoCheck
  <2>. QED  BY <2>1, <2>2
<1>. QED  BY <1>1, <1>2, <1>3

\* A new handler has hashed an empty output.
LEMMA NewHashed == ASSUME NEW s \in Seq(Byte) PROVE Hashed(new_output_handler, s, 0)
<1>1. Len(<<>>) = 0 /\ 0 \div HASH_BUFFER_SIZE = 0 /\ 0 * HASH_BUFFER_SIZE = 0
  BY Sizes, SMTT(30)
<1>2. SubSeq(s, 1, 0) = <<>>
  BY SubSeqEmpty, SMTT(30)
<1>. QED
  BY <1>1, <1>2, SMTT(30) DEF Hashed, new_output_handler, NoHash

\* The handler an access finds or makes.
LEMMA FoundHandler ==
  ASSUME OutputInv, NEW n \in Peer, NEW h, h = get_output_handler_by_fd(n)
  PROVE  /\ h \in HandlerType
         /\ \/ h = new_output_handler /\ written[n] = Len(stream[n])
            \/ Hashed(h, stream[n], written[n])
<1>1. OutputType /\ HandlerInv
  BY DEF OutputInv
<1>2. /\ stream[n] \in Seq(Byte) /\ handler[n] \in HandlerType \cup {NoHandler}
  BY <1>1 DEF OutputType
<1>3. CASE handler[n] = NoHandler
  <2>1. h = new_output_handler
    BY <1>3 DEF get_output_handler_by_fd
  <2>2. written[n] \in {0, Len(stream[n])}
    BY <1>1, <1>3, Distinct DEF HandlerInv
  <2>. QED  BY <1>2, <2>1, <2>2, Distinct, NewHashed
<1>4. CASE handler[n] # NoHandler
  <2>1. h = handler[n]
    BY <1>4 DEF get_output_handler_by_fd
  <2>. QED  BY <1>1, <1>2, <1>4, <2>1 DEF HandlerInv
<1>. QED  BY <1>3, <1>4

\* A hash that is found is the one of the blocks up to its index.
LEMMA FoundHash ==
  ASSUME OutputInv, NEW n \in Peer, NEW h, h = get_output_handler_by_fd(n), NEW x \in Nat
  PROVE  get_output_hash(h, x) \in Seq(Byte) /\ get_output_hash(h, x) \in {NoHash, Blocks(n, x)}
<1>1. h \in HandlerType /\ (h = new_output_handler \/ Hashed(h, stream[n], written[n]))
  BY FoundHandler
<1>2. h.output_list \in Seq(Seq(Byte)) /\ Len(h.output_list) \in Nat
  BY <1>1, LenProperties DEF HandlerType
<1>3. CASE ~(x < Len(h.output_list))
  BY <1>3, SMTT(30) DEF get_output_hash, NoHash
<1>4. CASE x < Len(h.output_list)
  <2>1. x + 1 \in 1 .. Len(h.output_list)
    BY <1>2, <1>4, SMTT(30)
  <2>2. h # new_output_handler
    BY <1>4, Distinct, SMTT(30)
  <2>3. h.output_list[x + 1] = SubSeq(stream[n], 1, (x + 1) * HASH_BUFFER_SIZE)
    BY <1>1, <2>1, <2>2 DEF Hashed
  <2>4. h.output_list[x + 1] \in Seq(Byte)
    BY <1>2, <2>1, ElementOfSeq
  <2>. QED  BY <1>4, <2>3, <2>4 DEF get_output_hash, Blocks
<1>. QED  BY <1>3, <1>4

\* The initial states satisfy the invariant.
LEMMA InitOutputInv == OutputInit => OutputInv
<1>. SUFFICES ASSUME OutputInit PROVE OutputInv
  OBVIOUS
<1>1. /\ stream \in [Peer -> Streams] /\ written = [n \in Peer |-> 0]
      /\ handler = [n \in Peer |-> NoHandler] /\ asked = NoCheck
  BY DEF OutputInit
<1>2. stream \in [Peer -> Seq(Byte)]
  BY <1>1, Sizes
<1>3. \A n \in Peer : Len(stream[n]) \in Nat
  BY <1>2, LenProperties
<1>4. OutputType
  BY <1>1, <1>2, <1>3, SMTT(30) DEF OutputType
<1>. QED
  BY <1>1, <1>4 DEF OutputInv, HandlerInv, AskedInv

\* mgr_on_check keeps the invariant.
LEMMA CheckStep ==
  ASSUME OutputInv, NEW n \in Peer, NEW size \in WriteSizes, mgr_on_check(n, size)
  PROVE  OutputInv'
<1>. DEFINE h == get_output_handler_by_fd(n)
            s == stream[n]
            w == written[n]
            stored == store_output(h, SubSeq(s, w + 1, w + size))
            called == [stored EXCEPT !.called_cnt = @ + 1]
<1>0. OutputType /\ HandlerInv /\ AskedInv
  BY DEF OutputInv
<1>1. size \in Nat \ {0} /\ s \in Seq(Byte) /\ Len(s) \in Nat /\ w \in Nat
  BY <1>0, Sizes, LenProperties DEF OutputType
<1>2. w + size <= Len(s) /\ written' = [written EXCEPT ![n] = w + size] /\ stream' = stream
  BY DEF mgr_on_check
<1>3. h \in HandlerType /\ Hashed(h, s, w)
  BY <1>1, <1>2, FoundHandler, SMTT(30)
<1>4. stored \in HandlerType /\ Hashed(stored, s, w + size)
  <2>. HIDE DEF h, s, w
  <2>. QED  BY <1>1, <1>2, <1>3, StoreOutput
<1>. DEFINE new == handler'[n]
<1>5. \E g \in {stored, called} : handler' = [handler EXCEPT ![n] = g]
  BY DEF mgr_on_check
<1>6. \/ asked' = asked /\ (n = LeaderId => asked = NoCheck)
      \/ asked' = NoCheck /\ asked = NoCheck
      \/ /\ asked' = [index |-> determine_output(called), sent |-> [p \in Peer |-> NoHash],
                      landed |-> [p \in Peer |-> 0], answered |-> {}]
         /\ n = LeaderId /\ determine_output(called) # -1
  BY DEF mgr_on_check
<1>. HIDE DEF stored
<1>7. called \in HandlerType /\ called.output_list = stored.output_list
      /\ called.hash = stored.hash /\ called.hash_buffer = stored.hash_buffer
  <2>1. stored \in [output_list : Seq(Seq(Byte)), hash : Seq(Byte), hash_buffer : Seq(Byte), called_cnt : Nat]
    BY <1>4 DEF HandlerType
  <2>. DEFINE more == stored.called_cnt + 1
  <2>2. more \in Nat
    BY <2>1, SMTT(30)
  <2>3. called = [stored EXCEPT !.called_cnt = more]
    OBVIOUS
  <2>. HIDE DEF more, called
  <2>4. called \in HandlerType
    BY <2>1, <2>2, <2>3 DEF HandlerType
  <2>5. called.output_list = stored.output_list
      /\ called.hash = stored.hash /\ called.hash_buffer = stored.hash_buffer
    BY <2>1, <2>3
  <2>. QED  BY <2>4, <2>5
<1>8. Hashed(called, s, w + size)
  <2>. HIDE DEF called
  <2>. QED  BY <1>4, <1>7 DEF Hashed
<1>9. determine_output(called) # -1 => determine_output(called) \in Nat
  <2>1. Len(called.output_list) \in Nat
    BY <1>7, LenProperties DEF HandlerType
  <2>. HIDE DEF called
  <2>. QED  BY <2>1, Sizes, SMTT(30) DEF determine_output
<1>. HIDE DEF called, h
<1>10. PICK g : g \in {stored, called} /\ handler' = [handler EXCEPT ![n] = g]
  BY <1>5
<1>11. g \in HandlerType /\ Hashed(g, s, w + size) /\ g # NoHandler
  BY <1>4, <1>7, <1>8, <1>10, Distinct, SMTT(30)
<1>12. /\ handler'[n] = g /\ \A m \in Peer : m # n => handler'[m] = handler[m]
       /\ handler' \in [Peer -> HandlerType \cup {NoHandler}]
       /\ written'[n] = w + size /\ \A m \in Peer : m # n => written'[m] = written[m]
       /\ written' \in [Peer -> Nat]
  BY <1>0, <1>1, <1>2, <1>10, <1>11, SMTT(30) DEF OutputType
<1>13. asked' \in CheckType \cup {NoCheck}
  <2>1. \A p \in Peer : NoHash \in Seq(Byte)
    BY SMTT(30) DEF NoHash
  <2>. QED  BY <1>0, <1>6, <1>9, <2>1, SMTT(30) DEF OutputType, CheckType
<1>14. OutputType'
  <2>1. \A m \in Peer : written'[m] <= Len(stream'[m])
    BY <1>0, <1>2, <1>12 DEF OutputType
  <2>. QED  BY <1>0, <1>2, <1>12, <1>13, <2>1 DEF OutputType
<1>15. HandlerInv'
  <2>1. ASSUME NEW m \in Peer
        PROVE  \/ handler'[m] = NoHandler /\ written'[m] \in {0, Len(stream'[m])}
               \/ handler'[m] = new_output_handler /\ written'[m] = Len(stream'[m])
               \/ handler'[m] # NoHandler /\ Hashed(handler'[m], stream'[m], written'[m])
    <3>1. CASE m = n
      BY <1>2, <1>11, <1>12, <3>1
    <3>2. CASE m # n
      BY <1>0, <1>2, <1>12, <3>2 DEF HandlerInv
    <3>. QED  BY <3>1, <3>2
  <2>. QED  BY <2>1 DEF HandlerInv, Hashed, NoHandler, new_output_handler
<1>16. AskedInv'
  <2>. SUFFICES ASSUME asked' # NoCheck
                PROVE  /\ handler'[LeaderId] # NoHandler
                       /\ \A m \in Peer : asked'.sent[m] \in {NoHash, Blocks(m, asked'.index)}
    BY <1>2 DEF AskedInv, Blocks
  <2>1. CASE asked' = asked /\ n # LeaderId
    BY <1>0, <1>12, <2>1, Sizes DEF AskedInv
  <2>2. CASE n = LeaderId /\ asked'.sent = [p \in Peer |-> NoHash]
    BY <1>11, <1>12, <2>2
  <2>. QED  BY <1>6, <2>1, <2>2, SMTT(30)
<1>. QED  BY <1>14, <1>15, <1>16 DEF OutputInv

\* Answering a check keeps the invariant.
LEMMA AnswerStep ==
  ASSUME OutputInv, NEW n \in Peer, AnswerOutput(n)
  PROVE  OutputInv'
<1>. DEFINE h == get_output_handler_by_fd(n)
            x == asked.index
            hash == get_output_hash(h, x)
<1>0. OutputType /\ HandlerInv /\ AskedInv
  BY DEF OutputInv
<1>1. /\ asked # NoCheck /\ n # LeaderId
      /\ handler' = [handler EXCEPT ![n] = h]
      /\ asked' = [asked EXCEPT !.answered = @ \cup {n}, !.sent[n] = hash]
      /\ stream' = stream /\ written' = written
  BY DEF AnswerOutput
<1>2. asked \in CheckType /\ x \in Nat /\ asked.sent \in [Peer -> Seq(Byte)]
  BY <1>0, <1>1 DEF OutputType, CheckType
<1>3. /\ h \in HandlerType
      /\ \/ h = new_output_handler /\ written[n] = Len(stream[n])
         \/ Hashed(h, stream[n], written[n])
  BY FoundHandler
<1>4. hash \in Seq(Byte) /\ hash \in {NoHash, Blocks(n, x)}
  BY <1>2, FoundHash
<1>5. h # NoHandler
  BY <1>3, Distinct
<1>. HIDE DEF h, hash
<1>6. /\ asked' \in CheckType /\ asked'.index = x /\ asked'.sent[n] = hash
      /\ \A m \in Peer : m # n => asked'.sent[m] = asked.sent[m]
  <2>. DEFINE S == [asked.sent EXCEPT ![n] = hash]
  <2>1. S \in [Peer -> Seq(Byte)] /\ S[n] = hash /\ \A m \in Peer : m # n => S[m] = asked.sent[m]
    BY <1>2, <1>4
  <2>2. asked' = [asked EXCEPT !.answered = asked.answered \cup {n}, !.sent = S]
    BY <1>1
  <2>. HIDE DEF S
  <2>3. asked' \in CheckType /\ asked'.index = asked.index /\ asked'.sent = S
    BY <1>2, <2>1, <2>2 DEF CheckType
  <2>. QED  BY <2>1, <2>3
<1>7. /\ handler'[n] = h /\ \A m \in Peer : m # n => handler'[m] = handler[m]
      /\ handler' \in [Peer -> HandlerType \cup {NoHandler}]
  BY <1>0, <1>1, <1>3 DEF OutputType
<1>8. OutputType'
  BY <1>0, <1>1, <1>6, <1>7 DEF OutputType
<1>9. HandlerInv'
  <2>1. ASSUME NEW m \in Peer
        PROVE  \/ handler'[m] = NoHandler /\ written'[m] \in {0, Len(stream'[m])}
               \/ handler'[m] = new_output_handler /\ written'[m] = Len(stream'[m])
               \/ handler'[m] # NoHandler /\ Hashed(handler'[m], stream'[m], written'[m])
    <3>1. CASE m = n
      BY <1>1, <1>3, <1>5, <1>7, <3>1
    <3>2. CASE m # n
      BY <1>0, <1>1, <1>7, <3>2 DEF HandlerInv
    <3>. QED  BY <3>1, <3>2
  <2>. QED  BY <2>1 DEF HandlerInv, Hashed, NoHandler, new_output_handler
<1>10. AskedInv'
  <2>1. handler'[LeaderId] # NoHandler
    BY <1>0, <1>1, <1>7, Sizes DEF AskedInv
  <2>2. ASSUME NEW m \in Peer PROVE asked'.sent[m] \in {NoHash, Blocks(m, asked'.index)}
    BY <1>0, <1>1, <1>4, <1>6, SMTT(30) DEF AskedInv
  <2>. QED  BY <1>1, <2>1, <2>2 DEF AskedInv, Blocks
<1>. QED  BY <1>8, <1>9, <1>10 DEF OutputInv

\* Closing a connection keeps the invariant.
LEMMA CloseStep ==
  ASSUME OutputInv, NEW n \in Peer, CloseOutput(n)
  PROVE  OutputInv'
<1>0. OutputType /\ HandlerInv /\ AskedInv
  BY DEF OutputInv
<1>1. /\ n = LeaderId => asked = NoCheck
      /\ handler' = [handler EXCEPT ![n] = NoHandler]
      /\ written' = [written EXCEPT ![n] = Len(stream[n])]
      /\ stream' = stream /\ asked' = asked
  BY DEF CloseOutput
<1>2. Len(stream[n]) \in Nat
  BY <1>0, LenProperties DEF OutputType
<1>3. /\ handler'[n] = NoHandler /\ \A m \in Peer : m # n => handler'[m] = handler[m]
      /\ handler' \in [Peer -> HandlerType \cup {NoHandler}]
      /\ written'[n] = Len(stream[n]) /\ \A m \in Peer : m # n => written'[m] = written[m]
      /\ written' \in [Peer -> Nat]
  BY <1>0, <1>1, <1>2 DEF OutputType
<1>4. OutputType'
  <2>1. \A m \in Peer : written'[m] <= Len(stream'[m])
    BY <1>0, <1>1, <1>2, <1>3, SMTT(30) DEF OutputType
  <2>. QED  BY <1>0, <1>1, <1>3, <2>1 DEF OutputType
<1>5. HandlerInv'
  <2>1. ASSUME NEW m \in Peer
        PROVE  \/ handler'[m] = NoHandler /\ written'[m] \in {0, Len(stream'[m])}
               \/ handler'[m] = new_output_handler /\ written'[m] = Len(stream'[m])
               \/ handler'[m] # NoHandler /\ Hashed(handler'[m], stream'[m], written'[m])
    <3>1. CASE m = n
      BY <1>1, <1>3, <3>1
    <3>2. CASE m # n
      BY <1>0, <1>1, <1>3, <3>2 DEF HandlerInv
    <3>. QED  BY <3>1, <3>2
  <2>. QED  BY <2>1 DEF HandlerInv, Hashed, NoHandler, new_output_handler
<1>6. AskedInv'
  BY <1>0, <1>1, <1>3, Sizes DEF AskedInv, Blocks
<1>. QED  BY <1>4, <1>5, <1>6 DEF OutputInv

\* A step that leaves the handlers alone, and at most forgets the check or counts an ack.
LEMMA StillStep ==
  ASSUME OutputInv, UNCHANGED <<stream, written, handler>>,
         \/ asked' \in {asked, NoCheck}
         \/ \E n \in Peer : asked # NoCheck /\ asked' = [asked EXCEPT !.landed[n] = @ + 1]
  PROVE  OutputInv'
<1>0. OutputType /\ HandlerInv /\ AskedInv
  BY DEF OutputInv
<1>1. /\ asked' \in CheckType \cup {NoCheck}
      /\ asked' # NoCheck => asked # NoCheck /\ asked'.sent = asked.sent /\ asked'.index = asked.index
  <2>1. CASE asked' \in {asked, NoCheck}
    BY <1>0, <2>1 DEF OutputType
  <2>2. ASSUME NEW n \in Peer, asked # NoCheck, asked' = [asked EXCEPT !.landed[n] = @ + 1]
        PROVE  asked' \in CheckType /\ asked'.sent = asked.sent /\ asked'.index = asked.index
    <3>1. asked \in CheckType /\ asked.landed \in [Peer -> Nat]
      BY <1>0, <2>2 DEF OutputType, CheckType
    <3>. DEFINE L == [asked.landed EXCEPT ![n] = @ + 1]
    <3>2. L \in [Peer -> Nat] /\ asked' = [asked EXCEPT !.landed = L]
      BY <2>2, <3>1, SMTT(30)
    <3>. HIDE DEF L
    <3>. QED  BY <3>1, <3>2 DEF CheckType
  <2>. QED  BY <2>1, <2>2
<1>2. OutputType'
  BY <1>0, <1>1 DEF OutputType
<1>3. HandlerInv'
  BY <1>0 DEF HandlerInv, Hashed, NoHandler, new_output_handler
<1>4. AskedInv'
  BY <1>0, <1>1 DEF AskedInv, Blocks
<1>. QED  BY <1>2, <1>3, <1>4 DEF OutputInv

\* Every step keeps the invariant.
LEMMA OutputInvStep == OutputInv /\ [OutputNext]_outputVars => OutputInv'
<1>. SUFFICES ASSUME OutputInv, [OutputNext]_outputVars PROVE OutputInv'
  OBVIOUS
<1>1. ASSUME NEW n \in Peer, NEW size \in WriteSizes, mgr_on_check(n, size) PROVE OutputInv'
  BY <1>1, CheckStep
<1>2. ASSUME NEW n \in Peer, CloseOutput(n) PROVE OutputInv'
  BY <1>2, CloseStep
<1>3. ASSUME NEW n \in Peer, AnswerOutput(n) PROVE OutputInv'
  BY <1>3, AnswerStep
<1>4. ASSUME NEW n \in Peer, AckLands(n) PROVE OutputInv'
  BY <1>4, StillStep DEF AckLands
<1>5. CASE DecideOutput
  BY <1>5, StillStep DEF DecideOutput
<1>6. ASSUME NEW cmd \in pending, NEW reached \in BOOLEAN, call_send_restore_cmd_start(cmd, reached)
      PROVE  OutputInv'
  BY <1>6, StillStep DEF call_send_restore_cmd_start
<1>7. CASE UNCHANGED outputVars
  BY <1>7, StillStep DEF outputVars
<1>. QED
  BY <1>1, <1>2, <1>3, <1>4, <1>5, <1>6, <1>7 DEF OutputNext

-----------------------------------------------------------------------------
\* The k-th hash store_output keeps is the one of the first k blocks of the output,
\* however the writes cut it, and no full block stays without a hash before the close.
THEOREM HashesAreOfBlocks == OutputSpec => []HashesFollowOutput
<1>1. OutputInv => HashesFollowOutput
  <2>. SUFFICES ASSUME OutputInv, NEW n \in Peer, handler[n] # NoHandler
                PROVE  /\ \A k \in 1..Len(handler[n].output_list) :
                            handler[n].output_list[k] = Blocks(n, k - 1)
                       /\ handler[n].output_list # <<>> =>
                            Len(handler[n].output_list) = written[n] \div HASH_BUFFER_SIZE
    BY DEF HashesFollowOutput
  <2>1. CASE handler[n] = new_output_handler
    <3>1. handler[n].output_list = <<>> /\ Len(<<>>) = 0
      BY <2>1, Distinct
    <3>. QED  BY <3>1, SMTT(30)
  <2>2. CASE Hashed(handler[n], stream[n], written[n])
    <3>1. ASSUME NEW k \in 1..Len(handler[n].output_list)
          PROVE  handler[n].output_list[k] = Blocks(n, k - 1)
      <4>1. handler[n].output_list[k] = SubSeq(stream[n], 1, k * HASH_BUFFER_SIZE)
        BY <2>2 DEF Hashed
      <4>2. (k - 1) + 1 = k
        BY SMTT(30)
      <4>. QED  BY <4>1, <4>2 DEF Blocks
    <3>. QED  BY <2>2, <3>1 DEF Hashed
  <2>. QED  BY <2>1, <2>2 DEF OutputInv, HandlerInv
<1>. QED
  BY <1>1, InitOutputInv, OutputInvStep, PTL DEF OutputSpec

\* What a decision compares: while the leader is node 0, a slot with a hash names its
\* node, and the hash is the one of that node's blocks.
LEMMA Slots ==
  ASSUME OutputInv, asked # NoCheck, LeaderId = 0, NEW i \in Peer,
         NEW peer, peer = prepare_peer_array[i]
  PROVE  /\ peer.hash # NoHash => peer.node_id = i
         /\ peer.hash \in {NoHash, Blocks(i, asked.index)}
<1>0. OutputType /\ AskedInv
  BY DEF OutputInv
<1>1. asked \in CheckType /\ asked.index \in Nat
  BY <1>0 DEF OutputType, CheckType
<1>2. /\ peer.node_id = IF asked.landed[i] >= 2 THEN i ELSE 0
      /\ peer.hash = IF i = LeaderId THEN get_output_hash(handler[i], asked.index)
                     ELSE IF asked.landed[i] = 3 THEN asked.sent[i] ELSE NoHash
  BY DEF prepare_peer_array
<1>3. CASE i = LeaderId
  <2>1. peer.node_id = i
    BY <1>2, <1>3
  <2>2. handler[i] = get_output_handler_by_fd(i)
    BY <1>0, <1>3, SMTT(30) DEF AskedInv, get_output_handler_by_fd
  <2>3. get_output_hash(handler[i], asked.index) \in {NoHash, Blocks(i, asked.index)}
    BY <1>1, <2>2, FoundHash
  <2>. QED  BY <1>2, <1>3, <2>1, <2>3, SMTT(30)
<1>4. CASE i # LeaderId /\ asked.landed[i] = 3
  BY <1>0, <1>2, <1>4, SMTT(30) DEF AskedInv
<1>5. CASE i # LeaderId /\ asked.landed[i] # 3
  BY <1>2, <1>5
<1>. QED  BY <1>3, <1>4, <1>5

\* What DecideOutput restores.
LEMMA Restored ==
  ASSUME OutputInv, LeaderId = 0, DecideOutput,
         NEW peers, peers = prepare_peer_array
  PROVE  /\ decided' = [hash |-> [i \in Peer |-> peers[i].hash], nodes |-> do_decision(peers)]
         /\ pending' = pending \cup {[node |-> n, index |-> asked.index] : n \in do_decision(peers)}
         /\ do_decision(peers) =
              IF \E i \in Peer : peers[i].hash = NoHash THEN {}
              ELSE {n \in Peer : ~(2 * Cardinality({i \in Peer : peers[i].hash = peers[n].hash}) > GroupSize)}
<1>1. DOMAIN peers = Peer
  BY DEF prepare_peer_array
<1>2. \A i \in Peer : peers[i].hash # NoHash => peers[i].node_id = i
  BY Slots DEF DecideOutput
<1>3. do_decision(peers) =
          IF \E i \in Peer : peers[i].hash = NoHash THEN {}
          ELSE {n \in Peer : ~(2 * Cardinality({i \in Peer : peers[i].hash = peers[n].hash}) > GroupSize)}
  BY <1>1, <1>2, Decides, SMTT(30)
<1>4. /\ decided' = [hash |-> [i \in Peer |-> peers[i].hash], nodes |-> do_decision(peers)]
      /\ pending' = pending \cup {[node |-> n, index |-> asked.index] : n \in do_decision(peers)}
  BY DEF DecideOutput
<1>. QED  BY <1>3, <1>4

\* Only DecideOutput decides or adds commands.
LEMMA OtherStep ==
  ASSUME OutputNext, ~DecideOutput
  PROVE  UNCHANGED decided /\ (pending \cup guard)' \subseteq pending \cup guard /\ UNCHANGED stream
<1>1. ASSUME NEW cmd \in pending, NEW reached \in BOOLEAN, call_send_restore_cmd_start(cmd, reached)
      PROVE  UNCHANGED decided /\ (pending \cup guard)' \subseteq pending \cup guard /\ UNCHANGED stream
  BY <1>1 DEF call_send_restore_cmd_start
<1>2. ASSUME UNCHANGED <<stream, pending, guard, decided>>
      PROVE  UNCHANGED decided /\ (pending \cup guard)' \subseteq pending \cup guard /\ UNCHANGED stream
  BY <1>2
<1>3. ASSUME NEW n \in Peer, NEW size \in WriteSizes, mgr_on_check(n, size)
      PROVE  UNCHANGED <<stream, pending, guard, decided>>
  BY <1>3 DEF mgr_on_check
<1>4. ASSUME NEW n \in Peer, CloseOutput(n) \/ AnswerOutput(n) \/ AckLands(n)
      PROVE  UNCHANGED <<stream, pending, guard, decided>>
  BY <1>4 DEF CloseOutput, AnswerOutput, AckLands
<1>. QED  BY <1>1, <1>2, <1>3, <1>4 DEF OutputNext

\* While the leader is node 0, a decision restores exactly the nodes whose hash differs
\* from that of a majority, all of them when there is no majority, and nobody while a
\* hash is missing; for every size of the group, an even one included.
THEOREM MinorityIsRestored ==
  ASSUME LeaderId = 0
  PROVE  OutputSpec => []RestoresTheMinority
<1>1. OutputInit => RestoresTheMinority
  <2>. SUFFICES ASSUME OutputInit PROVE RestoresTheMinority
    OBVIOUS
  <2>1. decided.nodes = {} /\ decided.hash = [n \in Peer |-> NoHash]
    BY DEF OutputInit
  <2>2. NoHash \in {decided.hash[n] : n \in Peer}
    BY <2>1, Sizes
  <2>. QED  BY <2>1, <2>2 DEF RestoresTheMinority
<1>2. OutputInv /\ RestoresTheMinority /\ [OutputNext]_outputVars => RestoresTheMinority'
  <2>. SUFFICES ASSUME OutputInv, RestoresTheMinority, [OutputNext]_outputVars
                PROVE  RestoresTheMinority'
    OBVIOUS
  <2>1. CASE UNCHANGED decided
    BY <2>1 DEF RestoresTheMinority
  <2>2. CASE DecideOutput
    <3>. DEFINE peers == prepare_peer_array
                h == decided'.hash
                agree(v) == {n \in Peer : h[n] = v}
                majority == {v \in {h[n] : n \in Peer} : 2 * Cardinality(agree(v)) > GroupSize}
    <3>1. /\ decided' = [hash |-> [i \in Peer |-> peers[i].hash], nodes |-> do_decision(peers)]
          /\ do_decision(peers) =
               IF \E i \in Peer : peers[i].hash = NoHash THEN {}
               ELSE {n \in Peer : ~(2 * Cardinality({i \in Peer : peers[i].hash = peers[n].hash}) > GroupSize)}
      BY <2>2, Restored
    <3>. HIDE DEF peers
    <3>2. \A i \in Peer : h[i] = peers[i].hash
      BY <3>1
    <3>3. decided'.nodes = do_decision(peers)
      BY <3>1
    <3>4. NoHash \in {h[n] : n \in Peer} <=> \E i \in Peer : peers[i].hash = NoHash
      BY <3>2
    <3>5. ASSUME NEW n \in Peer
          PROVE  h[n] \notin majority
                 <=> ~(2 * Cardinality({i \in Peer : peers[i].hash = peers[n].hash}) > GroupSize)
      <4>1. agree(h[n]) = {i \in Peer : peers[i].hash = peers[n].hash}
        BY <3>2
      <4>. HIDE DEF agree, h
      <4>. QED  BY <4>1
    <3>6. {n \in Peer : h[n] \notin majority} =
          {n \in Peer : ~(2 * Cardinality({i \in Peer : peers[i].hash = peers[n].hash}) > GroupSize)}
      <4>. HIDE DEF majority
      <4>. QED  BY <3>5
    <3>7. decided'.nodes = IF NoHash \in {h[n] : n \in Peer} THEN {}
                           ELSE {n \in Peer : h[n] \notin majority}
      BY <3>1, <3>3, <3>4, <3>6
    <3>. QED  BY <3>7 DEF RestoresTheMinority, NoHash, Peer
  <2>3. CASE OutputNext /\ ~DecideOutput
    BY <2>1, <2>3, OtherStep, SMTT(30)
  <2>. QED  BY <2>1, <2>2, <2>3 DEF outputVars
<1>. QED
  BY <1>1, <1>2, InitOutputInv, OutputInvStep, PTL DEF OutputSpec

\* While the leader is node 0, guard.py is never told to restore a node whose output is
\* that of a majority, whatever the group, the outputs and the timing of the acks.
THEOREM OnlyDivergedNodesRestored ==
  ASSUME LeaderId = 0
  PROVE  OutputSpec => []OnlyDivergedRestored
<1>1. OutputInit => OnlyDivergedRestored
  BY DEF OutputInit, OnlyDivergedRestored
<1>2. OutputInv /\ OnlyDivergedRestored /\ [OutputNext]_outputVars => OnlyDivergedRestored'
  <2>. SUFFICES ASSUME OutputInv, OnlyDivergedRestored, [OutputNext]_outputVars
                PROVE  OnlyDivergedRestored'
    OBVIOUS
  <2>1. CASE stream' = stream /\ (pending \cup guard)' \subseteq pending \cup guard
    BY <2>1 DEF OnlyDivergedRestored, Blocks
  <2>2. CASE DecideOutput
    <3>. DEFINE peers == prepare_peer_array
                x == asked.index
    <3>1. /\ pending' = pending \cup {[node |-> n, index |-> x] : n \in do_decision(peers)}
          /\ do_decision(peers) =
               IF \E i \in Peer : peers[i].hash = NoHash THEN {}
               ELSE {n \in Peer : ~(2 * Cardinality({i \in Peer : peers[i].hash = peers[n].hash}) > GroupSize)}
      BY <2>2, Restored
    <3>2. guard' = guard /\ stream' = stream /\ asked # NoCheck
      BY <2>2 DEF DecideOutput
    <3>3. \A i \in Peer : peers[i].hash \in {NoHash, Blocks(i, x)}
      BY <3>2, Slots
    <3>. HIDE DEF peers, x
    <3>4. ASSUME NEW n \in do_decision(peers)
          PROVE  2 * Cardinality({i \in Peer : Blocks(i, x) = Blocks(n, x)}) <= GroupSize
      <4>1. n \in Peer /\ \A i \in Peer : peers[i].hash = Blocks(i, x)
        BY <3>1, <3>3, <3>4
      <4>. DEFINE S == {i \in Peer : peers[i].hash = peers[n].hash}
      <4>2. S = {i \in Peer : Blocks(i, x) = Blocks(n, x)}
        BY <4>1
      <4>3. ~(2 * Cardinality(S) > GroupSize)
        BY <3>1, <3>4
      <4>4. IsFiniteSet(S)
        <5>1. IsFiniteSet(Peer)
          <6>1. 0 \in Int /\ GroupSize - 1 \in Int
            BY Sizes, SMTT(30)
          <6>. QED  BY <6>1, FS_Interval DEF Peer
        <5>. QED  BY <5>1, FS_Subset
      <4>. HIDE DEF S
      <4>5. Cardinality(S) \in Nat
        BY <4>4, FS_CardinalityType
      <4>6. 2 * Cardinality(S) <= GroupSize
        BY <4>3, <4>5, Sizes, SMTT(30)
      <4>. QED  BY <4>2, <4>6
    <3>5. ASSUME NEW cmd \in (pending \cup guard)'
          PROVE  2 * Cardinality({n \in Peer : Blocks(n, cmd.index) = Blocks(cmd.node, cmd.index)}) <= GroupSize
      <4>1. CASE cmd \in pending \cup guard
        BY <4>1 DEF OnlyDivergedRestored
      <4>2. ASSUME NEW n \in do_decision(peers), cmd = [node |-> n, index |-> x]
            PROVE  2 * Cardinality({i \in Peer : Blocks(i, cmd.index) = Blocks(cmd.node, cmd.index)}) <= GroupSize
        BY <3>4, <4>2
      <4>. QED  BY <3>1, <3>2, <4>1, <4>2
    <3>. QED  BY <3>2, <3>5 DEF OnlyDivergedRestored, Blocks
  <2>3. CASE OutputNext /\ ~DecideOutput
    BY <2>1, <2>3, OtherStep
  <2>. QED  BY <2>1, <2>2, <2>3 DEF outputVars
<1>. QED
  BY <1>1, <1>2, InitOutputInv, OutputInvStep, PTL DEF OutputSpec
=============================================================================
