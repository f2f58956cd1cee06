----------------------------- MODULE ModbusProofs -----------------------------
(***************************************************************************)
(* What the proofs about the scanners share: the types of bytes, words and *)
(* records, and when a record says what the bytes of a request say.  At    *)
(* the end, what combine and get_hi_lo do on either kind of target.        *)
(***************************************************************************)
EXTENDS Endians, SequenceTheorems, WellFoundedInduction, TLAPS

(* What it takes to be in an interval, with bounds kept as names.          *)
LEMMA IntervalMember ==
  ASSUME NEW x \in Int, NEW y \in Int, 0 <= x, x <= y
  PROVE  x \in 0 .. y
OBVIOUS

(* Two bytes make a 16-bit word.                                           *)
LEMMA CombineType ==
  ASSUME NEW hi \in Byte, NEW lw \in Byte
  PROVE  combine(hi, lw) \in Word16 /\ combine(hi, lw) \in MaybeWord16
<1>1. combine(hi, lw) \in Int /\ 0 <= combine(hi, lw)
  BY DEF Byte, combine
<1>2. combine(255, 255) \in Int /\ combine(hi, lw) <= combine(255, 255)
  BY DEF Byte, combine
<1>3. combine(hi, lw) \in Word16
  BY <1>1, <1>2, IntervalMember DEF Word16
<1>4. combine(hi, lw) \in MaybeWord16
  BY <1>1, <1>2 DEF MaybeWord16, Undef
<1> QED
  BY <1>3, <1>4

(* A byte is a number.                                                     *)
LEMMA ByteIsNat ==
  ASSUME NEW b \in Byte
  PROVE  b \in Nat
BY DEF Byte

(* A field may hold any byte, or nothing yet.                              *)
LEMMA MaybeByteType == Byte \subseteq MaybeByte /\ Undef \in MaybeByte
BY DEF Byte, MaybeByte, Undef

(* A word that nobody has written is one of the values of its field.       *)
LEMMA NoWordYet == Undef \in MaybeWord16
<1>1. combine(255, 255) \in Int /\ 0 <= combine(255, 255)
  BY DEF combine
<1> QED
  BY <1>1 DEF MaybeWord16, Undef

(* The record a scanner starts with.                                       *)
LEMMA InitPduType == InitPdu \in PduType
BY MaybeByteType, NoWordYet DEF InitPdu, PduType

(* The lengths the function codes stand for.                               *)
LEMMA WordBytesType ==
  ASSUME NEW f
  PROVE  WordBytes(f) \in {4, 8}
BY DEF WordBytes

(* The first two of four words replaced.                                   *)
LEMMA FirstTwoWords ==
  ASSUME NEW S, NEW f \in [1..4 -> S], NEW a \in S, NEW b \in S,
         NEW g, g = [f EXCEPT ![1] = a, ![2] = b]
  PROVE  /\ g \in [1..4 -> S]
         /\ g[1] = a /\ g[2] = b /\ g[3] = f[3] /\ g[4] = f[4]
OBVIOUS

(* The last two of them replaced.                                          *)
LEMMA LastTwoWords ==
  ASSUME NEW S, NEW f \in [1..4 -> S], NEW a \in S, NEW b \in S,
         NEW g, g = [f EXCEPT ![3] = a, ![4] = b]
  PROVE  /\ g \in [1..4 -> S]
         /\ g[3] = a /\ g[4] = b
OBVIOUS

(* The request whose function code is byte b of s, but for what comes      *)
(* before it.                                                              *)
RequestFrom(s, b) ==
  [ fc    |-> s[b],
    words |-> [k \in 1 .. WordBytes(s[b]) \div 2 |-> combine(s[b + (2 * k - 1)], s[b + 2 * k])],
    count |-> IF HasData(s[b]) THEN s[b + (WordBytes(s[b]) + 1)] ELSE 0,
    data  |-> IF HasData(s[b])
                THEN [k \in 1 .. s[b + (WordBytes(s[b]) + 1)] |->
                        s[b + (WordBytes(s[b]) + 1 + k)]]
                ELSE << >> ]

(* A record and the words it was made from repeat the bytes of s from the  *)
(* function code b on.                                                     *)
Repeats(pdu, word, s, b) ==
  LET w == WordBytes(s[b]) IN
  /\ s[b] \in ValidFc /\ pdu.m_fc = s[b]
  /\ \A k \in 1 .. w : word[k] = s[b + k]
  /\ pdu.m_i16[1] = combine(word[1], word[2])
  /\ pdu.m_i16[2] = combine(word[3], word[4])
  /\ w = 8 => /\ pdu.m_i16[3] = combine(word[5], word[6])
             /\ pdu.m_i16[4] = combine(word[7], word[8])
  /\ HasData(s[b]) =>
       /\ b + (w + 1) \in 1 .. Len(s)
       /\ pdu.m_i8_1 = s[b + (w + 1)]
       /\ Len(pdu.m_data) = pdu.m_i8_1
       /\ \A k \in 1 .. Len(pdu.m_data) : pdu.m_data[k] = s[b + (w + 1 + k)]

(* Such a record says what the request says.                               *)
LEMMA RecordSays ==
  ASSUME NEW s \in Seq(Byte), NEW b \in Nat,
         NEW pdu \in PduType, NEW word \in [1..8 -> Byte],
         Repeats(pdu, word, s, b)
  PROVE  /\ Request(pdu) = RequestFrom(s, b)
         /\ Request(pdu) \in RequestType
<1> DEFINE w == WordBytes(s[b])
<1>0. /\ s[b] \in ValidFc /\ pdu.m_fc = s[b]
      /\ \A k \in 1 .. w : word[k] = s[b + k]
      /\ pdu.m_i16[1] = combine(word[1], word[2])
      /\ pdu.m_i16[2] = combine(word[3], word[4])
      /\ w = 8 => /\ pdu.m_i16[3] = combine(word[5], word[6])
                 /\ pdu.m_i16[4] = combine(word[7], word[8])
      /\ HasData(s[b]) =>
           /\ b + (w + 1) \in 1 .. Len(s)
           /\ pdu.m_i8_1 = s[b + (w + 1)]
           /\ Len(pdu.m_data) = pdu.m_i8_1
           /\ \A k \in 1 .. Len(pdu.m_data) : pdu.m_data[k] = s[b + (w + 1 + k)]
  BY DEF Repeats
<1>1. w \in {4, 8}
  BY WordBytesType
<1>2. pdu.m_i16 \in [1..4 -> MaybeWord16] /\ pdu.m_data \in Seq(Byte)
  BY DEF PduType
<1> HIDE DEF w
<1>3. \A k \in 1 .. w \div 2 :
        /\ pdu.m_i16[k] = combine(s[b + (2 * k - 1)], s[b + 2 * k])
        /\ pdu.m_i16[k] \in Word16
  <2> TAKE k \in 1 .. w \div 2
  <2>1. /\ k \in 1 .. 4 /\ 2 * k - 1 \in 1 .. w /\ 2 * k \in 1 .. w
        /\ 2 * k - 1 \in 1 .. 8 /\ 2 * k \in 1 .. 8
    BY <1>1
  <2>2. pdu.m_i16[k] = combine(word[2 * k - 1], word[2 * k])
    <3>1. CASE k = 1
      BY <1>0, <3>1
    <3>2. CASE k = 2
      BY <1>0, <3>2
    <3>3. CASE k \in {3, 4}
      <4>1. w = 8
        BY <1>1, <2>1, <3>3
      <4>2. /\ pdu.m_i16[3] = combine(word[5], word[6])
            /\ pdu.m_i16[4] = combine(word[7], word[8])
        BY <1>0, <4>1
      <4> QED
        BY <3>3, <4>2
    <3> QED
      BY <2>1, <3>1, <3>2, <3>3
  <2>3. /\ word[2 * k - 1] = s[b + (2 * k - 1)] /\ word[2 * k] = s[b + 2 * k]
        /\ word[2 * k - 1] \in Byte /\ word[2 * k] \in Byte
    BY <1>0, <2>1
  <2>4. /\ combine(word[2 * k - 1], word[2 * k]) \in Word16
        /\ combine(word[2 * k - 1], word[2 * k]) = combine(s[b + (2 * k - 1)], s[b + 2 * k])
    BY <2>3, CombineType
  <2> QED
    BY <2>2, <2>4
<1>4. HasData(s[b]) => pdu.m_i8_1 \in Byte
  BY <1>0, ElementOfSeq
<1>5. HasData(s[b]) => pdu.m_data = [k \in 1 .. s[b + (w + 1)] |-> s[b + (w + 1 + k)]]
  <2> HAVE HasData(s[b])
  <2> DEFINE d == Len(pdu.m_data)
  <2>1. pdu.m_data = [k \in 1 .. d |-> pdu.m_data[k]]
    BY <1>2, LenProperties DEF d
  <2>2. d = s[b + (w + 1)] /\ \A k \in 1 .. d : pdu.m_data[k] = s[b + (w + 1 + k)]
    BY <1>0
  <2> HIDE DEF d
  <2> QED
    BY <2>1, <2>2
<1>6. Request(pdu) =
        [ fc    |-> s[b],
          words |-> [k \in 1 .. w \div 2 |-> pdu.m_i16[k]],
          count |-> IF HasData(s[b]) THEN pdu.m_i8_1 ELSE 0,
          data  |-> IF HasData(s[b]) THEN pdu.m_data ELSE << >> ]
  BY <1>0 DEF Request, w
<1>7. [k \in 1 .. w \div 2 |-> pdu.m_i16[k]] =
      [k \in 1 .. w \div 2 |-> combine(s[b + (2 * k - 1)], s[b + 2 * k])]
  BY <1>3
<1>8. Request(pdu) = RequestFrom(s, b)
  <2>1. RequestFrom(s, b) =
          [ fc    |-> s[b],
            words |-> [k \in 1 .. w \div 2 |-> combine(s[b + (2 * k - 1)], s[b + 2 * k])],
            count |-> IF HasData(s[b]) THEN s[b + (w + 1)] ELSE 0,
            data  |-> IF HasData(s[b])
                        THEN [k \in 1 .. s[b + (w + 1)] |-> s[b + (w + 1 + k)]]
                        ELSE << >> ]
    BY DEF RequestFrom, w
  <2>2. HasData(s[b]) => pdu.m_i8_1 = s[b + (w + 1)]
    BY <1>0
  <2> QED
    BY <1>5, <1>6, <1>7, <2>1, <2>2
<1>9. Request(pdu) \in RequestType
  <2>1. [k \in 1 .. w \div 2 |-> pdu.m_i16[k]] \in Seq(Word16)
    <3> DEFINE n == w \div 2
               words == pdu.m_i16
    <3>1. n \in Nat
      BY <1>1
    <3>2. \A k \in 1 .. n : words[k] \in Word16
      BY <1>3
    <3> HIDE DEF n, words
    <3>3. [k \in 1 .. n |-> words[k]] \in Seq(Word16)
      BY <3>1, <3>2
    <3> QED
      BY <3>3 DEF n, words
  <2>2. (IF HasData(s[b]) THEN pdu.m_i8_1 ELSE 0) \in Byte
    BY <1>4 DEF Byte
  <2>3. (IF HasData(s[b]) THEN pdu.m_data ELSE << >>) \in Seq(Byte)
    BY <1>2
  <2> QED
    BY <1>0, <1>6, <2>1, <2>2, <2>3 DEF RequestType
<1> QED
  BY <1>8, <1>9

-------------------------------------------------------------------------------
(* Induction along a stream.  That every set of numbers has a least        *)
(* element is a fact about sets, with no operator for a parameter, so the  *)
(* provers can use it; the inductions over positions all rest on it.       *)

(* A set of numbers that is not empty has a least one.                    *)
LEMMA LeastNumber ==
  ASSUME NEW S \in SUBSET Nat, S # {}
  PROVE  \E n \in S : \A m \in S : n <= m
<1>1. PICK n \in S : \A m \in S : ~(<<m, n>> \in OpToRel(<, Nat))
  BY NatLessThanWellFounded, WFMin
<1>2. ASSUME NEW m \in S PROVE n <= m
  <2>1. m \in Nat /\ n \in Nat
    OBVIOUS
  <2>2. ~(m < n)
    BY <1>1, <2>1, Zenon DEF OpToRel
  <2> QED
    BY <2>1, <2>2
<1> QED
  BY <1>2

(* What holds of 0 and of each number after one it holds of, up to n.      *)
LEMMA FromZero ==
  ASSUME NEW n \in Nat, NEW T, 0 \in T,
         \A k \in 0 .. n : k \in T /\ k + 1 \in 0 .. n => k + 1 \in T
  PROVE  0 .. n \subseteq T
<1> DEFINE bad == {j \in 0 .. n : j \notin T}
<1> SUFFICES ASSUME bad # {} PROVE FALSE
  OBVIOUS
<1>1. bad \in SUBSET Nat
  OBVIOUS
<1>2. PICK j \in bad : \A m \in bad : j <= m
  <2> HIDE DEF bad
  <2> QED
    BY <1>1, LeastNumber
<1>3. j \in 0 .. n /\ j \notin T /\ j # 0
  OBVIOUS
<1>4. j - 1 \in 0 .. n /\ (j - 1) + 1 = j /\ ~(j <= j - 1)
  BY <1>3
<1>5. j - 1 \in T
  BY <1>2, <1>4
<1> QED
  BY <1>3, <1>4, <1>5

(* What holds at each position from which on it holds everywhere, holds at *)
(* every position: induction from the end of a stream of n bytes.          *)
LEMMA FromTheEnd ==
  ASSUME NEW n \in Nat, NEW T,
         \A k \in 0 .. n : (\A j \in k + 1 .. n : j \in T) => k \in T
  PROVE  0 .. n \subseteq T
<1> DEFINE bad == {j \in 0 .. n : n - j \notin T}
<1> SUFFICES ASSUME bad # {} PROVE FALSE
  <2> SUFFICES ASSUME NEW k \in 0 .. n, k \notin T PROVE bad # {}
    OBVIOUS
  <2>1. n - k \in 0 .. n /\ n - (n - k) = k
    OBVIOUS
  <2> QED
    BY <2>1
<1>1. bad \in SUBSET Nat
  OBVIOUS
<1>2. PICK j \in bad : \A m \in bad : j <= m
  <2> HIDE DEF bad
  <2> QED
    BY <1>1, LeastNumber
<1>3. j \in 0 .. n /\ n - j \in 0 .. n
  OBVIOUS
<1>4. ASSUME NEW i \in n - j + 1 .. n PROVE i \in T
  <2>1. n - i \in 0 .. n /\ ~(j <= n - i) /\ n - (n - i) = i
    BY <1>3
  <2>2. n - i \notin bad
    BY <1>2, <2>1
  <2> QED
    BY <2>1, <2>2
<1>5. n - j \in T
  BY <1>3, <1>4
<1> QED
  BY <1>5

(* f is what a reader of a stream of n bytes hands out from each position  *)
(* after k on: nothing where it waits for more, else what it has found,    *)
(* and then what it hands out from where it goes on.                       *)
Reads(f, k, n, stop, found, next) ==
  f = [p \in k .. n |-> IF p \in stop THEN << >> ELSE found[p] \o f[next[p]]]

(* Such a function exists if the reader always moves forward: this is what *)
(* allows a recursive definition of it to be unfolded.                     *)
LEMMA ReaderExists ==
  ASSUME NEW n \in Nat, NEW stop, NEW found, NEW next,
         \A p \in 0 .. n : p \notin stop => next[p] \in p + 1 .. n
  PROVE  \E f : Reads(f, 0, n, stop, found, next)
<1> DEFINE T == {k \in 0 .. n : \E f : Reads(f, k, n, stop, found, next)}
<1>1. ASSUME NEW k \in 0 .. n, \A j \in k + 1 .. n : j \in T
      PROVE  k \in T
  <2>1. CASE k = n
    <3> DEFINE f == [p \in k .. n |-> << >>]
    <3>1. n \in stop
      OBVIOUS
    <3>2. \A p \in k .. n : p = n
      BY <2>1
    <3>3. f = [p \in k .. n |-> IF p \in stop THEN << >>
                                ELSE found[p] \o f[next[p]]]
      BY <3>1, <3>2
    <3>4. Reads(f, k, n, stop, found, next)
      BY <3>3 DEF Reads
    <3> QED
      BY <3>4
  <2>2. CASE k # n
    <3>1. k + 1 \in k + 1 .. n
      BY <2>2
    <3>2. PICK g : Reads(g, k + 1, n, stop, found, next)
      BY <1>1, <3>1
    <3> DEFINE a == IF k \in stop THEN << >> ELSE found[k] \o g[next[k]]
               f == [p \in k .. n |-> IF p = k THEN a ELSE g[p]]
    <3>3. ASSUME NEW p \in k .. n
          PROVE  f[p] = IF p \in stop THEN << >> ELSE found[p] \o f[next[p]]
      <4>1. p \notin stop => /\ next[p] \in k .. n /\ next[p] # k
        OBVIOUS
      <4>2. p \notin stop => f[next[p]] = g[next[p]]
        BY <4>1
      <4>3. CASE p = k
        BY <4>2, <4>3
      <4>4. CASE p # k
        <5>1. p \in k + 1 .. n
          BY <4>4
        <5>2. g[p] = IF p \in stop THEN << >> ELSE found[p] \o g[next[p]]
          BY <3>2, <5>1 DEF Reads
        <5> QED
          BY <4>2, <4>4, <5>2
      <4> QED
        BY <4>3, <4>4
    <3>4. Reads(f, k, n, stop, found, next)
      <4> HIDE DEF a
      <4>1. f = [p \in k .. n |-> f[p]]
        OBVIOUS
      <4> HIDE DEF f
      <4> QED
        BY <3>3, <4>1 DEF Reads
    <3> QED
      BY <3>4
  <2> QED
    BY <2>1, <2>2
<1>2. 0 .. n \subseteq T
  <2> HIDE DEF T
  <2> QED
    BY <1>1, FromTheEnd
<1> QED
  BY <1>2

(* It yields sequences.                                                    *)
LEMMA ReaderType ==
  ASSUME NEW n \in Nat, NEW stop, NEW found, NEW next, NEW f, NEW S,
         \A p \in 0 .. n : p \notin stop => next[p] \in p + 1 .. n,
         \A p \in 0 .. n : p \notin stop => found[p] \in Seq(S),
         Reads(f, 0, n, stop, found, next)
  PROVE  \A p \in 0 .. n : f[p] \in Seq(S)
<1> DEFINE T == {p \in 0 .. n : f[p] \in Seq(S)}
<1>1. ASSUME NEW k \in 0 .. n, \A j \in k + 1 .. n : j \in T
      PROVE  k \in T
  <2>1. f[k] = IF k \in stop THEN << >> ELSE found[k] \o f[next[k]]
    BY DEF Reads
  <2>2. CASE k \in stop
    BY <2>1, <2>2, EmptySeq
  <2>3. CASE k \notin stop
    <3>1. f[next[k]] \in Seq(S) /\ found[k] \in Seq(S)
      BY <1>1, <2>3
    <3>2. found[k] \o f[next[k]] \in Seq(S)
      BY <3>1, ConcatProperties
    <3> QED
      BY <2>1, <2>3, <3>2
  <2> QED
    BY <2>2, <2>3
<1>2. 0 .. n \subseteq T
  <2> HIDE DEF T
  <2> QED
    BY <1>1, FromTheEnd
<1> QED
  BY <1>2

(* One item more in front of what is still to come.                        *)
LEMMA AppendThenMore ==
  ASSUME NEW A, NEW B, NEW a \in Seq(A), NEW x, NEW r \in Seq(B)
  PROVE  Append(a, x) \o r = a \o (<< x >> \o r)
<1> DEFINE S == A \cup B \cup {x}
<1>1. a \in Seq(S) /\ r \in Seq(S) /\ x \in S
  BY SeqMonotonic
<1> HIDE DEF S
<1>2. Append(a, x) = a \o << x >>
  BY <1>1, AppendIsConcat
<1>3. << x >> \in Seq(S)
  BY <1>1
<1> QED
  BY <1>1, <1>2, <1>3, ConcatAssociative

(* The first n bytes of a stream.                                          *)
LEMMA PrefixBytes ==
  ASSUME NEW s \in Seq(Byte), NEW n \in 0 .. Len(s)
  PROVE  /\ SubSeq(s, 1, n) \in Seq(Byte) /\ Len(SubSeq(s, 1, n)) = n
         /\ \A k \in 1 .. n : SubSeq(s, 1, n)[k] = s[k]
<1>1. n \in Nat /\ \A k \in 1 .. n : s[k] \in Byte
  OBVIOUS
<1> QED
  BY <1>1, SubSeqProperties

(* A part of them is the same part of the stream.                          *)
LEMMA PartOfPrefix ==
  ASSUME NEW s \in Seq(Byte), NEW n \in 0 .. Len(s), NEW i \in Nat, NEW j \in Int,
         1 <= i, j <= n
  PROVE  SubSeq(SubSeq(s, 1, n), i, j) = SubSeq(s, i, j)
<1>1. PICK t : t = SubSeq(s, 1, n)
  OBVIOUS
<1>2. n \in Nat /\ \A k \in 1 .. n : t[k] = s[k] /\ s[k] \in Byte
  BY <1>1, PrefixBytes
<1>3. \A k \in i .. j : s[k] \in Byte /\ t[k] \in Byte /\ t[k] = s[k]
  <2> TAKE k \in i .. j
  <2>1. k \in 1 .. n
    BY <1>2
  <2> QED
    BY <1>2, <2>1
<1>4. PICK u, v : u = SubSeq(t, i, j) /\ v = SubSeq(s, i, j)
  OBVIOUS
<1>5. /\ u \in Seq(Byte) /\ Len(u) = (IF i <= j THEN j - i + 1 ELSE 0)
      /\ \A k \in 1 .. j - i + 1 : u[k] = t[i + k - 1]
  BY <1>3, <1>4, SubSeqProperties
<1>6. /\ v \in Seq(Byte) /\ Len(v) = (IF i <= j THEN j - i + 1 ELSE 0)
      /\ \A k \in 1 .. j - i + 1 : v[k] = s[i + k - 1]
  BY <1>3, <1>4, SubSeqProperties
<1>7. \A k \in 1 .. Len(u) : k \in 1 .. j - i + 1 /\ i + k - 1 \in i .. j
  BY <1>5
<1>8. \A k \in 1 .. Len(u) : u[k] = v[k]
  BY <1>3, <1>5, <1>6, <1>7
<1>9. u = v
  BY <1>5, <1>6, <1>8, SeqEqual
<1> QED
  BY <1>1, <1>4, <1>9

-------------------------------------------------------------------------------
(* endian_c takes every target for a little-endian one: its other branch   *)
(* is dead code.                                                           *)
LEMMA AlwaysLittle == little
  BY SMT DEF little, magic_, uint32_

(* On a little-endian target the union holds the word that the scanners'   *)
(* modules compute from two wire bytes.                                    *)
THEOREM CombineIsArithmetic ==
  ASSUME NEW hi \in Byte, NEW lo \in Byte
  PROVE  combine_bytes("little", hi, lo) = combine(hi, lo)
  BY AlwaysLittle, SMT DEF combine_bytes, m_ui16, combine, Byte

(* On a big-endian target every address, quantity and value comes out with *)
(* its bytes exchanged.                                                    *)
THEOREM CombineSwapsOnBig ==
  ASSUME NEW hi \in Byte, NEW lo \in Byte
  PROVE  combine_bytes("big", hi, lo) = combine(lo, hi)
  BY AlwaysLittle, SMT DEF combine_bytes, m_ui16, combine, Byte

(* get_hi_lo works on the value and takes apart what combine put together, *)
(* whatever the target.                                                    *)
THEOREM RoundTrip ==
  ASSUME NEW hi \in Byte, NEW lo \in Byte
  PROVE  get_hi_lo(combine(hi, lo)) = [hi |-> hi, lo |-> lo]
<1>1. (256 * hi + lo) \div 256 = hi
  BY SMT DEF Byte
<1>2. (256 * hi + lo) % 256 = lo
  BY SMT DEF Byte
<1>3. hi % 256 = hi
  BY SMT DEF Byte
<1> QED
  BY <1>1, <1>2, <1>3, AlwaysLittle DEF get_hi_lo, combine

(* So that on a big-endian target a reply would not repeat the address of  *)
(* its request: each byte stands in the other's place.                     *)
THEOREM RepliesSwapOnBig ==
  ASSUME NEW hi \in Byte, NEW lo \in Byte
  PROVE  get_hi_lo(combine_bytes("big", hi, lo)) = [hi |-> lo, lo |-> hi]
  BY CombineSwapsOnBig, RoundTrip
===============================================================================
