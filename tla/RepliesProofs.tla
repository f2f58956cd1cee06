---------------------------- MODULE RepliesProofs -----------------------------
(***************************************************************************)
(* Theorems about Replies for every size of a byte and every set of        *)
(* requests; and, as its second part, about the checksum that goes at the  *)
(* end of what is sent (Crc16) for messages of every length, whatever      *)
(* bytes they are made of and whatever the line does to two of them.       *)
(***************************************************************************)
EXTENDS Replies, Crc16, TLAPS

(* For steps from each number to the next, and least elements.             *)
Numbers == INSTANCE ModbusProofs

-------------------------------------------------------------------------------
(* Bits of a byte.                                                         *)

(* A function that goes from each bit to the next exists: this is what     *)
(* allows a recursive definition of one to be unfolded.                    *)
LEMMA StepsExist ==
  ASSUME NEW n \in Nat, NEW a \in Int, NEW c \in {1, 2}, NEW d \in [1 .. n -> Int]
  PROVE  \E f \in [0 .. n -> Int] :
           f = [i \in 0 .. n |-> IF i = 0 THEN a ELSE (c * f[i - 1]) + d[i]]
<1> DEFINE Stepped(f, k) ==
             f = [i \in 0 .. k |-> IF i = 0 THEN a ELSE (c * f[i - 1]) + d[i]]
           T == {k \in 0 .. n : \E f \in [0 .. k -> Int] : Stepped(f, k)}
<1>1. 0 \in T
  <2> DEFINE f == [i \in 0 .. 0 |-> a]
  <2>1. f \in [0 .. 0 -> Int] /\ Stepped(f, 0)
    OBVIOUS
  <2> HIDE DEF f
  <2>2. 0 \in 0 .. n
    OBVIOUS
  <2> HIDE DEF Stepped
  <2> QED
    BY <2>1, <2>2
<1>2. ASSUME NEW k \in 0 .. n, k \in T, k + 1 \in 0 .. n
      PROVE  k + 1 \in T
  <2>1. PICK g \in [0 .. k -> Int] : Stepped(g, k)
    BY <1>2
  <2> DEFINE x == (c * g[k]) + d[k + 1]
             f == [i \in 0 .. k + 1 |-> IF i = k + 1 THEN x ELSE g[i]]
  <2>2. x \in Int
    <3>1. k \in 0 .. k /\ k + 1 \in 1 .. n
      BY <1>2
    <3>2. g[k] \in Int /\ d[k + 1] \in Int
      BY <3>1
    <3> QED
      BY <3>2
  <2>3. ASSUME NEW i \in 0 .. k + 1
        PROVE  /\ f[i] \in Int
               /\ f[i] = IF i = 0 THEN a ELSE (c * f[i - 1]) + d[i]
    <3>1. CASE i = k + 1
      <4>1. i # 0 /\ i - 1 = k /\ k \in 0 .. k + 1 /\ k # k + 1
        BY <3>1
      <4>2. f[i] = x /\ f[i - 1] = g[k]
        BY <3>1, <4>1
      <4> QED
        BY <2>2, <3>1, <4>1, <4>2
    <3>2. CASE i # k + 1 /\ i # 0
      <4>1. i \in 0 .. k /\ i - 1 \in 0 .. k /\ i - 1 \in 0 .. k + 1 /\ i - 1 # k + 1
        BY <3>2
      <4>2. f[i] = g[i] /\ f[i - 1] = g[i - 1]
        BY <3>2, <4>1
      <4>3. g[i] = (c * g[i - 1]) + d[i]
        BY <2>1, <3>2, <4>1
      <4> HIDE DEF f
      <4> QED
        BY <3>2, <4>1, <4>2, <4>3
    <3>3. CASE i = 0
      <4>1. 0 \in 0 .. k /\ 0 # k + 1
        OBVIOUS
      <4>2. f[i] = g[0] /\ g[0] = a
        BY <2>1, <3>3, <4>1
      <4> HIDE DEF f
      <4> QED
        BY <3>3, <4>2
    <3> QED
      BY <3>1, <3>2, <3>3
  <2>4. f = [i \in 0 .. k + 1 |-> f[i]]
    OBVIOUS
  <2> HIDE DEF f
  <2>5. f \in [0 .. k + 1 -> Int]
    BY <2>3, <2>4
  <2>6. Stepped(f, k + 1)
    BY <2>3, <2>4
  <2> HIDE DEF Stepped
  <2> QED
    BY <1>2, <2>5, <2>6
<1>3. n \in T
  <2>1. 0 .. n \subseteq T
    <3> HIDE DEF T
    <3> QED
      BY <1>1, <1>2, Numbers!FromZero
  <2>2. n \in 0 .. n
    OBVIOUS
  <2> HIDE DEF T
  <2> QED
    BY <2>1, <2>2
<1> QED
  BY <1>3

(* The masks are the powers of two.                                        *)
LEMMA MaskUnfolds ==
  /\ Mask \in [0 .. Bits -> Int] /\ Mask[0] = 1
  /\ \A i \in 1 .. Bits : i - 1 \in 0 .. Bits /\ Mask[i] = 2 * Mask[i - 1]
<1> DEFINE Doubled(f) == f = [i \in 0 .. Bits |-> IF i = 0 THEN 1 ELSE 2 * f[i - 1]]
           d == [i \in 1 .. Bits |-> 0]
<1>1. Bits \in Nat /\ d \in [1 .. Bits -> Int]
  BY BitsAssumption
<1>2. \E f \in [0 .. Bits -> Int] : Doubled(f)
  <2>1. PICK f \in [0 .. Bits -> Int] :
          f = [i \in 0 .. Bits |-> IF i = 0 THEN 1 ELSE (2 * f[i - 1]) + d[i]]
    <3> HIDE DEF d
    <3>1. 0 \in Int /\ 1 \in Int /\ 1 \in {1, 2} /\ 2 \in {1, 2}
      OBVIOUS
    <3> QED
      BY <1>1, <3>1, StepsExist, ZenonT(30)
  <2>2. ASSUME NEW i \in 0 .. Bits
        PROVE  (IF i = 0 THEN 1 ELSE (2 * f[i - 1]) + d[i]) =
               (IF i = 0 THEN 1 ELSE 2 * f[i - 1])
    <3>1. CASE i = 0
      BY <3>1
    <3>2. CASE i # 0
      <4>1. i \in 1 .. Bits /\ i - 1 \in 0 .. Bits
        BY <1>1, <3>2
      <4>2. d[i] = 0 /\ f[i - 1] \in Int
        BY <4>1
      <4> QED
        BY <3>2, <4>2
    <3> QED
      BY <3>1, <3>2
  <2>3. Doubled(f)
    <3> HIDE DEF d
    <3> QED
      BY <2>1, <2>2
  <2> QED
    BY <2>3
<1>3. Doubled(Mask)
  <2>1. Mask = CHOOSE f : Doubled(f)
    BY Zenon DEF Mask
  <2> HIDE DEF Doubled
  <2> QED
    BY <1>2, <2>1, Zenon
<1>4. PICK f \in [0 .. Bits -> Int] : Doubled(f)
  BY <1>2
<1>5. Mask[0] = 1 /\ \A i \in 1 .. Bits : i - 1 \in 0 .. Bits /\ Mask[i] = 2 * Mask[i - 1]
  <2>1. 0 \in 0 .. Bits /\ \A i \in 1 .. Bits : i \in 0 .. Bits /\ i # 0 /\ i - 1 \in 0 .. Bits
    BY <1>1
  <2> QED
    BY <1>3, <2>1
<1>6. Mask \in [0 .. Bits -> Int]
  <2> DEFINE T == {i \in 0 .. Bits : Mask[i] \in Int}
  <2>1. 0 \in T
    BY <1>1, <1>5
  <2>2. ASSUME NEW i \in 0 .. Bits, i \in T, i + 1 \in 0 .. Bits PROVE i + 1 \in T
    <3>1. i + 1 \in 1 .. Bits /\ (i + 1) - 1 = i /\ Mask[i] \in Int
      BY <1>1, <2>2
    <3>2. Mask[i + 1] = 2 * Mask[i]
      BY <1>5, <3>1
    <3> QED
      BY <2>2, <3>1, <3>2
  <2>3. 0 .. Bits \subseteq T
    <3> HIDE DEF T
    <3> QED
      BY <1>1, <2>1, <2>2, Numbers!FromZero
  <2>4. Mask = [i \in 0 .. Bits |-> Mask[i]]
    BY <1>3
  <2> QED
    BY <2>3, <2>4
<1> QED
  BY <1>5, <1>6

(* None of them is 0, and U8 is one.                                       *)
LEMMA MaskType == \A i \in 0 .. Bits : Mask[i] \in Nat /\ Mask[i] > 0
<1> DEFINE T == {i \in 0 .. Bits : Mask[i] \in Nat /\ Mask[i] > 0}
<1>1. 0 \in T
  BY MaskUnfolds, BitsAssumption
<1>2. ASSUME NEW i \in 0 .. Bits, i \in T, i + 1 \in 0 .. Bits PROVE i + 1 \in T
  <2>1. i + 1 \in 1 .. Bits /\ (i + 1) - 1 = i /\ Mask[i] \in Nat /\ Mask[i] > 0
    BY <1>2, BitsAssumption
  <2>2. Mask[i + 1] = 2 * Mask[i]
    BY <2>1, MaskUnfolds
  <2> QED
    BY <1>2, <2>1, <2>2
<1>3. 0 .. Bits \subseteq T
  <2> HIDE DEF T
  <2> QED
    BY <1>1, <1>2, BitsAssumption, Numbers!FromZero
<1> QED
  BY <1>3

(* A mask is an even number of times each one below it.                    *)
LEMMA MaskTimes ==
  ASSUME NEW k \in 0 .. Bits
  PROVE  \A i \in k + 1 .. Bits : \E m \in Nat : Mask[i] = Mask[k] * (2 * m)
<1> DEFINE T == {i \in 0 .. Bits : i <= k \/ \E m \in Nat : Mask[i] = Mask[k] * (2 * m)}
<1>1. 0 \in T
  BY BitsAssumption
<1>2. ASSUME NEW i \in 0 .. Bits, i \in T, i + 1 \in 0 .. Bits PROVE i + 1 \in T
  <2>1. i + 1 \in 1 .. Bits /\ (i + 1) - 1 = i
    BY <1>2, BitsAssumption
  <2>2. Mask[i + 1] = 2 * Mask[i]
    BY <2>1, MaskUnfolds
  <2>3. PICK u \in Nat : u = Mask[k]
    BY MaskType
  <2>4. CASE i < k
    BY <1>2, <2>4
  <2>5. CASE i = k
    <3>1. Mask[i + 1] = u * (2 * 1)
      BY <2>2, <2>3, <2>5
    <3> QED
      BY <1>2, <2>3, <3>1
  <2>6. CASE i > k
    <3>1. PICK m \in Nat : Mask[i] = u * (2 * m)
      BY <1>2, <2>3, <2>6
    <3>2. PICK l \in Nat : l = 2 * m
      OBVIOUS
    <3>3. Mask[i + 1] = u * (2 * l)
      BY <2>2, <3>1, <3>2
    <3> QED
      BY <1>2, <2>3, <3>3
  <2> QED
    BY <1>2, <2>4, <2>5, <2>6
<1>3. 0 .. Bits \subseteq T
  <2> HIDE DEF T
  <2> QED
    BY <1>1, <1>2, BitsAssumption, Numbers!FromZero
<1>4. \A i \in k + 1 .. Bits : i \in 0 .. Bits /\ ~(i <= k)
  BY BitsAssumption
<1> QED
  BY <1>3, <1>4

(* What is less than the divisor leaves nothing.                           *)
LEMMA DivSmall ==
  ASSUME NEW v \in Nat, NEW u \in Nat, v < u
  PROVE  v \div u = 0
OBVIOUS

(* Whole multiples stay out of a remainder.                                *)
LEMMA DivAdds ==
  ASSUME NEW v \in Nat, NEW u \in Nat, u > 0, NEW m \in Nat
  PROVE  (v + u * m) \div u = v \div u + m
<1>1. PICK q \in Nat, e \in Nat : q = v \div u /\ e = v % u
  OBVIOUS
<1>2. v = u * q + e /\ e < u
  BY <1>1
<1>3. PICK p \in Nat, o \in Nat : p = (v + u * m) \div u /\ o = (v + u * m) % u
  <2>1. v + u * m \in Nat
    OBVIOUS
  <2> QED
    BY <2>1
<1>4. v + u * m = u * p + o /\ o < u
  <2>1. PICK y \in Nat : y = v + u * m
    OBVIOUS
  <2> QED
    BY <1>3, <2>1
<1>5. u * (q + m) + e = u * p + o
  BY <1>2, <1>4
<1>6. PICK s \in Nat : s = q + m
  OBVIOUS
<1>7. u * s + e = u * p + o
  BY <1>5, <1>6
<1>8. s = p
  <2>1. CASE s > p
    <3>1. PICK z \in Nat : s = p + 1 + z
      BY <2>1
    <3>2. u * s = u * p + u + u * z /\ u * z \in Nat /\ u * p \in Nat
      BY <3>1
    <3> QED
      BY <1>2, <1>4, <1>7, <3>2
  <2>2. CASE s < p
    <3>1. PICK z \in Nat : p = s + 1 + z
      BY <2>2
    <3>2. u * p = u * s + u + u * z /\ u * z \in Nat /\ u * s \in Nat
      BY <3>1
    <3> QED
      BY <1>2, <1>4, <1>7, <3>2
  <2> QED
    BY <2>1, <2>2
<1> QED
  BY <1>1, <1>3, <1>6, <1>8

Carries(v, u, m) == (v + u * m) \div u = v \div u + m

(* The same, as a fact about three numbers.                                *)
LEMMA DivCarries ==
  ASSUME NEW v \in Nat, NEW u \in Nat, u > 0, NEW m \in Nat
  PROVE  Carries(v, u, m)
BY DivAdds, Zenon DEF Carries

(* The byte of the packed bits, bit after bit.                             *)
LEMMA PackingUnfolds ==
  ASSUME NEW on
  PROVE  /\ Packing(on)[0] = 0
         /\ \A i \in 0 .. Bits : i + 1 \in 0 .. Bits =>
              Packing(on)[i + 1] =
                Packing(on)[i] + (IF i \in on THEN Mask[i] ELSE 0)
<1> DEFINE Added(f) ==
             f = [i \in 0 .. Bits |->
                    IF i = 0 THEN 0
                    ELSE f[i - 1] + (IF i - 1 \in on THEN Mask[i - 1] ELSE 0)]
           d == [i \in 1 .. Bits |-> IF i - 1 \in on THEN Mask[i - 1] ELSE 0]
<1>1. Bits \in Nat /\ d \in [1 .. Bits -> Int]
  <2>1. \A i \in 1 .. Bits : i - 1 \in 0 .. Bits /\ Mask[i - 1] \in Int
    BY MaskUnfolds, BitsAssumption
  <2> QED
    BY <2>1, BitsAssumption
<1>2. \E f : Added(f)
  <2>1. PICK f \in [0 .. Bits -> Int] :
          f = [i \in 0 .. Bits |-> IF i = 0 THEN 0 ELSE (1 * f[i - 1]) + d[i]]
    <3> HIDE DEF d
    <3>1. 0 \in Int /\ 1 \in Int /\ 1 \in {1, 2} /\ 2 \in {1, 2}
      OBVIOUS
    <3> QED
      BY <1>1, <3>1, StepsExist, ZenonT(30)
  <2>2. ASSUME NEW i \in 0 .. Bits
        PROVE  (IF i = 0 THEN 0 ELSE (1 * f[i - 1]) + d[i]) =
               (IF i = 0 THEN 0
                ELSE f[i - 1] + (IF i - 1 \in on THEN Mask[i - 1] ELSE 0))
    <3>1. CASE i = 0
      BY <3>1
    <3>2. CASE i # 0
      <4>1. i \in 1 .. Bits /\ i - 1 \in 0 .. Bits
        BY <1>1, <3>2
      <4>2. d[i] = (IF i - 1 \in on THEN Mask[i - 1] ELSE 0) /\ f[i - 1] \in Int
        BY <4>1
      <4>3. d[i] \in Int
        BY <1>1, <4>1
      <4> HIDE DEF d
      <4>4. (1 * f[i - 1]) + d[i] = f[i - 1] + d[i]
        BY <4>2, <4>3
      <4> QED
        BY <3>2, <4>2, <4>4
    <3> QED
      BY <3>1, <3>2
  <2>3. Added(f)
    <3> HIDE DEF d
    <3> QED
      BY <2>1, <2>2
  <2> QED
    BY <2>3
<1>3. Added(Packing(on))
  <2>1. Packing(on) = CHOOSE f : Added(f)
    BY Zenon DEF Packing
  <2> HIDE DEF Added
  <2> QED
    BY <1>2, <2>1, Zenon
<1>4. Packing(on)[0] = 0
  <2>1. 0 \in 0 .. Bits
    BY <1>1
  <2> QED
    BY <1>3, <2>1
<1>5. ASSUME NEW i \in 0 .. Bits, i + 1 \in 0 .. Bits
      PROVE  Packing(on)[i + 1] =
               Packing(on)[i] + (IF i \in on THEN Mask[i] ELSE 0)
  <2>1. i + 1 # 0 /\ (i + 1) - 1 = i
    BY <1>1
  <2> QED
    BY <1>3, <1>5, <2>1
<1> QED
  BY <1>4, <1>5

(* No carry: the first i bits are less than the next mask.                 *)
LEMMA PackingType ==
  ASSUME NEW on
  PROVE  \A i \in 0 .. Bits : Packing(on)[i] \in Nat /\ Packing(on)[i] < Mask[i]
<1> DEFINE T == {i \in 0 .. Bits : Packing(on)[i] \in Nat /\ Packing(on)[i] < Mask[i]}
<1>1. 0 \in T
  BY PackingUnfolds, MaskUnfolds, BitsAssumption
<1>2. ASSUME NEW i \in 0 .. Bits, i \in T, i + 1 \in 0 .. Bits PROVE i + 1 \in T
  <2>1. PICK v \in Nat, u \in Nat : v = Packing(on)[i] /\ u = Mask[i] /\ v < u
    BY <1>2, MaskType
  <2>2. i + 1 \in 1 .. Bits /\ (i + 1) - 1 = i
    BY <1>2, BitsAssumption
  <2>3. Mask[i + 1] = 2 * u
    BY <2>1, <2>2, MaskUnfolds
  <2>4. Packing(on)[i + 1] = v + u \/ Packing(on)[i + 1] = v + 0
    BY <1>2, <2>1, PackingUnfolds
  <2> QED
    BY <1>2, <2>1, <2>3, <2>4
<1>3. 0 .. Bits \subseteq T
  <2> HIDE DEF T
  <2> QED
    BY <1>1, <1>2, BitsAssumption, Numbers!FromZero
<1> QED
  BY <1>3

(* Reading the bits back gives those that were set.                        *)
LEMMA PackingBits ==
  ASSUME NEW on
  PROVE  \A k \in 0 .. Bits - 1 :
           Bit(Packing(on)[Bits], k) = OnOff(k \in on)
<1> DEFINE right(i) == \A k \in 0 .. i - 1 :
                         Bit(Packing(on)[i], k) = IF k \in on THEN 1 ELSE 0
           T == {i \in 0 .. Bits : right(i)}
<1>1. 0 \in T
  BY BitsAssumption
<1>2. ASSUME NEW i \in 0 .. Bits, i \in T, i + 1 \in 0 .. Bits PROVE i + 1 \in T
  <2> SUFFICES ASSUME NEW k \in 0 .. i
               PROVE  Bit(Packing(on)[i + 1], k) = IF k \in on THEN 1 ELSE 0
    BY <1>2
  <2>1. PICK v \in Nat, w \in Nat : v = Packing(on)[i] /\ w = Mask[i] /\ v < w
    BY PackingType, MaskType
  <2>2. Packing(on)[i + 1] = v + (IF i \in on THEN w ELSE 0)
    BY <1>2, <2>1, PackingUnfolds
  <2>3. k \in 0 .. Bits
    BY BitsAssumption
  <2>4. CASE k = i
    <3>1. CASE i \in on
      <4>1. (v + w * 1) \div w = v \div w + 1 /\ v \div w = 0
        BY <2>1, DivAdds, DivSmall
      <4>2. v + w * 1 = v + w
        OBVIOUS
      <4>3. ((v + w) \div w) % 2 = 1
        BY <4>1, <4>2
      <4> QED
        BY <2>1, <2>2, <2>4, <3>1, <4>3 DEF Bit
    <3>2. CASE i \notin on
      <4>1. (v \div w) % 2 = 0
        <5>1. v \div w = 0
          BY <2>1, DivSmall
        <5>2. 0 % 2 = 0
          OBVIOUS
        <5> QED
          BY <5>1, <5>2, Zenon
      <4>2. Packing(on)[i + 1] = v
        BY <2>2, <3>2
      <4> QED
        BY <2>1, <2>4, <3>2, <4>1, <4>2 DEF Bit
    <3> QED
      BY <3>1, <3>2
  <2>5. CASE k # i
    <3>1. k \in 0 .. i - 1 /\ i \in k + 1 .. Bits
      BY <2>5, BitsAssumption
    <3>2. PICK u \in Nat : u = Mask[k] /\ u > 0
      BY <2>3, MaskType
    <3>3. PICK m \in Nat : w = u * (2 * m)
      BY <2>1, <2>3, <3>1, <3>2, MaskTimes
    <3>4. PICK q \in Nat : q = v \div u
      BY <3>2
    <3>5. q % 2 = IF k \in on THEN 1 ELSE 0
      <4>1. Bit(v, k) = IF k \in on THEN 1 ELSE 0
        BY <1>2, <2>1, <3>1
      <4> QED
        BY <3>2, <3>4, <4>1 DEF Bit
    <3>6. (v + w) \div u = q + 2 * m
      <4>1. PICK l \in Nat : l = 2 * m
        OBVIOUS
      <4>2. (v + u * l) \div u = v \div u + l
        <5>1. Carries(v, u, l)
          BY <2>1, <3>2, <4>1, DivCarries
        <5> QED
          BY <5>1 DEF Carries
      <4> QED
        BY <3>3, <3>4, <4>1, <4>2
    <3>7. (q + 2 * m) % 2 = q % 2
      OBVIOUS
    <3>8. Packing(on)[i + 1] = v + w \/ Packing(on)[i + 1] = v
      BY <2>1, <2>2
    <3> QED
      BY <3>2, <3>4, <3>5, <3>6, <3>7, <3>8 DEF Bit
  <2> QED
    BY <2>4, <2>5
<1>3. 0 .. Bits \subseteq T
  <2> HIDE DEF T
  <2> QED
    BY <1>1, <1>2, BitsAssumption, Numbers!FromZero
<1>4. Bits \in T
  BY <1>3, BitsAssumption
<1> QED
  BY <1>4 DEF OnOff

-------------------------------------------------------------------------------
(* The arithmetic.  A request at all means that bytes have some values.    *)
LEMMA Sizes ==
  ASSUME NEW r \in Requests
  PROVE  /\ U8 \in Nat /\ U16 \in Nat /\ U8 > 0 /\ U16 > 0
         /\ U16 = U8 * U8
         /\ r.a \in 0 .. U16 - 1 /\ r.q \in 0 .. U16 - 1
         /\ r.wa \in 0 .. U16 - 1 /\ r.wq \in 0 .. U16 - 1
         /\ r.data \in Seq(0 .. U8 - 1) /\ Len(r.data) \in 0 .. U8 - 1
<1>1. U8 \in Int
  BY BitsAssumption, MaskType DEF U8
<1>2. U16 \in Int /\ U16 = U8 * U8
  BY <1>1 DEF U16
<1>3. /\ r.a \in 0 .. U16 - 1 /\ r.q \in 0 .. U16 - 1
      /\ r.wa \in 0 .. U16 - 1 /\ r.wq \in 0 .. U16 - 1
      /\ r.data \in Seq(0 .. U8 - 1) /\ Len(r.data) < U8
  BY RequestsAssumption
<1>4. U16 > 0 /\ Len(r.data) \in Nat
  BY <1>2, <1>3
<1>5. U8 > 0
  BY <1>1, <1>3, <1>4
<1> QED
  BY <1>1, <1>2, <1>3, <1>4, <1>5

(* An address below the one that a run starts from is met after the wrap.  *)
LEMMA NthIsWhere ==
  ASSUME NEW r \in Requests, NEW x \in 0 .. U16 - 1, NEW a \in 0 .. U16 - 1
  PROVE  /\ Nth(x, a) = IF x >= a THEN x - a ELSE x + U16 - a
         /\ Nth(x, a) \in 0 .. U16 - 1
         /\ x = (a + Nth(x, a)) % U16
<1>1. PICK u \in Nat : u = U16 /\ u > 0
  BY Sizes
<1>2. x \in Nat /\ a \in Nat /\ x < u /\ a < u
  BY <1>1
<1>3. CASE x >= a
  <2>1. (x + u - a) % u = x - a
    BY <1>2, <1>3
  <2>2. (a + (x - a)) % u = x
    BY <1>2, <1>3
  <2> QED
    BY <1>1, <1>2, <1>3, <2>1, <2>2 DEF Nth
<1>4. CASE x < a
  <2>1. (x + u - a) % u = x + u - a
    BY <1>2, <1>4
  <2>2. (a + (x + u - a)) % u = x
    BY <1>2, <1>4
  <2> QED
    BY <1>1, <1>2, <1>4, <2>1, <2>2 DEF Nth
<1> QED
  BY <1>2, <1>3, <1>4

(* A run consists of the cells whose number is in it.                      *)
LEMMA InRun ==
  ASSUME NEW r \in Requests, NEW x \in 0 .. U16 - 1, NEW a \in 0 .. U16 - 1,
         NEW n \in 0 .. U16
  PROVE  x \in Run(a, n) <=> Nth(x, a) < n
<1>1. PICK u \in Nat : u = U16 /\ u > 0
  BY Sizes
<1>2. Nth(x, a) \in 0 .. u - 1 /\ x = (a + Nth(x, a)) % u
  BY <1>1, NthIsWhere
<1>3. ASSUME Nth(x, a) < n PROVE x \in Run(a, n)
  <2>1. Nth(x, a) \in 0 .. n - 1
    BY <1>1, <1>2, <1>3
  <2> QED
    BY <1>1, <1>2, <2>1 DEF Run
<1>4. ASSUME x \in Run(a, n) PROVE Nth(x, a) < n
  <2>1. PICK k \in 0 .. n - 1 : x = (a + k) % u
    BY <1>1, <1>4 DEF Run
  <2>2. a \in Nat /\ a < u /\ k \in Nat /\ k < u /\ k < n /\ n \in Nat /\ x \in Nat /\ x < u
    BY <1>1, <2>1
  <2>3. Nth(x, a) = (x + u - a) % u
    BY <1>1 DEF Nth
  <2>4. CASE a + k < u
    <3>1. x = a + k
      BY <2>1, <2>2, <2>4
    <3>2. (k + u) % u = k
      BY <2>2
    <3> QED
      BY <2>2, <2>3, <3>1, <3>2
  <2>5. CASE a + k >= u
    <3>1. x = a + k - u
      BY <2>1, <2>2, <2>5
    <3>2. x + u - a = k /\ k % u = k
      BY <2>2, <3>1
    <3> QED
      BY <2>2, <2>3, <3>2
  <2> QED
    BY <2>2, <2>4, <2>5
<1> QED
  BY <1>3, <1>4

(* A word is two bytes.                                                    *)
LEMMA DoubleType ==
  ASSUME NEW n \in Nat
  PROVE  2 * n \in Nat
OBVIOUS

(* What fits is not cut.                                                   *)
LEMMA NotCut ==
  ASSUME NEW u \in Nat, NEW n \in Nat, n < u
  PROVE  n % u = n
OBVIOUS

(* Two bytes are half as many words.                                       *)
LEMMA HalfType ==
  ASSUME NEW n \in Nat
  PROVE  (n + 1) \div 2 \in Nat
OBVIOUS

(* Two bytes make a word ...                                               *)
LEMMA CombineType ==
  ASSUME NEW r \in Requests, NEW hi \in 0 .. U8 - 1, NEW lo \in 0 .. U8 - 1
  PROVE  combine(hi, lo) \in 0 .. U16 - 1
<1>1. PICK u \in Nat : u = U8 /\ U16 = u * u
  BY Sizes
<1>2. hi \in Nat /\ lo \in Nat /\ lo <= u - 1 /\ u - 1 - hi \in Nat
  BY <1>1
<1>3. u * (u - 1 - hi) \in Nat /\ u * hi \in Nat /\ u * u \in Nat
  BY <1>1, <1>2
<1>4. u * (u - 1 - hi) = (u * u - u) - u * hi
  BY <1>1, <1>2
<1>5. u * hi + lo <= u * u - 1
  BY <1>1, <1>2, <1>3, <1>4
<1> QED
  BY <1>1, <1>2, <1>3, <1>5 DEF combine

-------------------------------------------------------------------------------
(* What a map holds at x, whether the key is there or not.                 *)
Value(map, x, default) == IF x \in DOMAIN map THEN map[x] ELSE default

(* The addresses of a run are addresses.                                   *)
LEMMA RunType ==
  ASSUME NEW r \in Requests, NEW a \in 0 .. U16 - 1, NEW n \in Nat
  PROVE  Run(a, n) \subseteq 0 .. U16 - 1
<1>1. PICK u \in Nat : u = U16 /\ u > 0
  BY Sizes
<1>2. ASSUME NEW k \in 0 .. n - 1 PROVE (a + k) % u \in 0 .. u - 1
  BY <1>1
<1> QED
  BY <1>1, <1>2 DEF Run

(* Inserting keys with the default value goes unnoticed.                   *)
LEMMA TouchedKeeps ==
  ASSUME NEW map, NEW a, NEW n, NEW default, NEW x
  PROVE  Value(Touched(map, a, n, default), x, default) = Value(map, x, default)
BY DEF Value, Touched

(* ... and takes no type away.                                             *)
LEMMA TouchedType ==
  ASSUME NEW r \in Requests, NEW a \in 0 .. U16 - 1, NEW n \in Nat,
         NEW S, NEW default \in S, NEW map,
         DOMAIN map \subseteq 0 .. U16 - 1, \A x \in DOMAIN map : map[x] \in S
  PROVE  /\ DOMAIN Touched(map, a, n, default) \subseteq 0 .. U16 - 1
         /\ \A x \in DOMAIN Touched(map, a, n, default) :
              Touched(map, a, n, default)[x] \in S
<1>1. DOMAIN Touched(map, a, n, default) = DOMAIN map \cup Run(a, n)
  BY DEF Touched
<1>2. Run(a, n) \subseteq 0 .. U16 - 1
  BY RunType
<1>3. \A x \in DOMAIN map \cup Run(a, n) : Touched(map, a, n, default)[x] \in S
  BY DEF Touched
<1> QED
  BY <1>1, <1>2, <1>3

(* What a loop of set_coil or set_reg leaves at x.                         *)
LEMMA StoredAt ==
  ASSUME NEW r \in Requests, NEW a \in 0 .. U16 - 1, NEW vs, NEW n \in 0 .. U16,
         Len(vs) = n, NEW default, NEW map, NEW x \in 0 .. U16 - 1
  PROVE  Value(Stored(map, a, vs), x, default) =
           IF Nth(x, a) < n THEN vs[Nth(x, a) + 1] ELSE Value(map, x, default)
<1>1. x \in Run(a, n) <=> Nth(x, a) < n
  BY InRun
<1>2. x \in DOMAIN Stored(map, a, vs) <=> x \in DOMAIN map \/ Nth(x, a) < n
  BY <1>1 DEF Stored
<1>3. x \in DOMAIN Stored(map, a, vs) =>
        Stored(map, a, vs)[x] = IF Nth(x, a) < n THEN vs[Nth(x, a) + 1] ELSE map[x]
  BY DEF Stored
<1> QED
  BY <1>2, <1>3 DEF Value

(* Nothing outside of a run that contains the loop's.                      *)
LEMMA StoredKeeps ==
  ASSUME NEW r \in Requests, NEW a \in 0 .. U16 - 1, NEW vs, NEW n \in 0 .. U16,
         Len(vs) = n, NEW default, NEW map, NEW x \in 0 .. U16 - 1,
         NEW q \in 0 .. U16, n <= q, x \notin Run(a, q)
  PROVE  Value(Stored(map, a, vs), x, default) = Value(map, x, default)
<1>1. ~(Nth(x, a) < q) /\ Nth(x, a) \in 0 .. U16 - 1
  BY InRun, NthIsWhere
<1>2. ~(Nth(x, a) < n)
  <2>1. PICK k \in Nat : k = Nth(x, a)
    BY <1>1
  <2> QED
    BY <1>1, <2>1
<1> QED
  BY <1>2, StoredAt

(* A single set_coil or set_reg changes the cell it names.                 *)
LEMMA StoredOne ==
  ASSUME NEW r \in Requests, NEW a \in 0 .. U16 - 1, NEW v, NEW default, NEW map,
         NEW x \in 0 .. U16 - 1
  PROVE  Value(Stored(map, a, << v >>), x, default) =
           IF x = a THEN v ELSE Value(map, x, default)
<1>1. PICK u \in Nat : u = U16 /\ u > 0
  BY Sizes
<1>2. PICK vs : vs = << v >>
  OBVIOUS
<1>3. Len(vs) = 1 /\ vs[1] = v
  BY <1>2
<1>4. PICK n \in 0 .. U16 : n = 1
  BY <1>1
<1>5. Value(Stored(map, a, vs), x, default) =
        IF Nth(x, a) < n THEN vs[Nth(x, a) + 1] ELSE Value(map, x, default)
  <2>1. Len(vs) = n
    BY <1>3, <1>4
  <2> QED
    BY <2>1, StoredAt
<1>6. Nth(x, a) = IF x >= a THEN x - a ELSE x + u - a
  BY <1>1, NthIsWhere
<1>7. /\ x = a => Nth(x, a) = 0
      /\ x # a => ~(Nth(x, a) < n)
  BY <1>1, <1>4, <1>6
<1>8. CASE x = a
  <2>1. Nth(x, a) < n /\ Nth(x, a) + 1 = 1
    BY <1>4, <1>7, <1>8
  <2> QED
    BY <1>2, <1>3, <1>5, <1>8, <2>1
<1>9. CASE x # a
  BY <1>2, <1>5, <1>7, <1>9
<1> QED
  BY <1>8, <1>9

(* It stores what it was given.                                            *)
LEMMA StoredType ==
  ASSUME NEW r \in Requests, NEW a \in 0 .. U16 - 1, NEW vs, NEW n \in 0 .. U16,
         Len(vs) = n, NEW S, \A k \in 1 .. n : vs[k] \in S, NEW map,
         DOMAIN map \subseteq 0 .. U16 - 1, \A x \in DOMAIN map : map[x] \in S
  PROVE  /\ DOMAIN Stored(map, a, vs) \subseteq 0 .. U16 - 1
         /\ \A x \in DOMAIN Stored(map, a, vs) : Stored(map, a, vs)[x] \in S
<1>1. DOMAIN Stored(map, a, vs) = DOMAIN map \cup Run(a, n)
  BY DEF Stored
<1>2. Run(a, n) \subseteq 0 .. U16 - 1
  BY RunType
<1>3. ASSUME NEW x \in DOMAIN map \cup Run(a, n)
      PROVE  Stored(map, a, vs)[x] \in S
  <2>1. Stored(map, a, vs)[x] = IF Nth(x, a) < n THEN vs[Nth(x, a) + 1] ELSE map[x]
    BY DEF Stored
  <2>2. x \in 0 .. U16 - 1
    BY <1>2
  <2>3. Nth(x, a) \in 0 .. U16 - 1 /\ (x \in Run(a, n) <=> Nth(x, a) < n)
    BY <2>2, InRun, NthIsWhere
  <2>4. PICK k \in Nat : k = Nth(x, a)
    BY <2>3
  <2>5. CASE k < n
    BY <2>1, <2>4, <2>5
  <2>6. CASE ~(k < n)
    BY <2>1, <2>3, <2>4, <2>6
  <2> QED
    BY <2>5, <2>6
<1> QED
  BY <1>1, <1>2, <1>3

-------------------------------------------------------------------------------
(* What the writes put in the maps.                                        *)

(* reply_f15 stores no more than the quantity.                             *)
LEMMA SwitchesList ==
  ASSUME NEW r \in Requests,
         NEW n, n = MinOf(Bits * Len(r.data), r.q)
  PROVE  /\ n \in 0 .. U16 /\ n <= r.q
         /\ Len(Switches(r.data, n)) = n
         /\ \A k \in 1 .. n : Switches(r.data, n)[k] \in BOOLEAN
<1>1. /\ r.q \in Nat /\ U16 \in Nat /\ r.q <= U16 /\ Len(r.data) \in Nat
      /\ Bits \in Nat
  BY Sizes, BitsAssumption
<1>2. Bits * Len(r.data) \in Nat
  BY <1>1
<1>3. n \in 0 .. U16 /\ n <= r.q
  BY <1>1, <1>2 DEF MinOf
<1>4. n \in Nat
  BY <1>1, <1>3
<1>5. /\ Len(Switches(r.data, n)) = n
      /\ \A k \in 1 .. n : Switches(r.data, n)[k] \in BOOLEAN
  BY <1>4 DEF Switches
<1> QED
  BY <1>3, <1>5

(* Nor does the loop of reply_f16 and reply_f23, which stores words even   *)
(* when it reads beyond the data.                                          *)
Words(q, data, beyond) ==
  [k \in 1 .. WriteCount(q, Len(data)) |->
     combine(DataAt(data, (2 * k - 2) % U8, beyond),
             DataAt(data, (2 * k - 1) % U8, beyond))]

(* The words a write stores are register values, at most q of them.        *)
LEMMA WordsList ==
  ASSUME NEW r \in Requests, NEW q \in 0 .. U16 - 1,
         NEW beyond \in Beyond(r.data),
         NEW n, n = WriteCount(q, Len(r.data))
  PROVE  /\ n \in 0 .. U16 /\ n <= q
         /\ Len(Words(q, r.data, beyond)) = n
         /\ \A k \in 1 .. n : Words(q, r.data, beyond)[k] \in 0 .. U16 - 1
<1>1. /\ q \in Nat /\ U16 \in Nat /\ q <= U16 /\ Len(r.data) \in Nat
      /\ U8 \in Nat /\ U8 > 0 /\ r.data \in Seq(0 .. U8 - 1)
  BY Sizes
<1>2. n \in 0 .. U16 /\ n <= q
  <2>1. PICK d \in Nat : d = Len(r.data)
    BY <1>1
  <2>2. (d + 1) \div 2 \in Nat
    BY HalfType
  <2>3. MinOf((d + 1) \div 2, q) \in Nat /\ MinOf((d + 1) \div 2, q) <= q
    BY <1>1, <2>2 DEF MinOf
  <2>4. n = q \/ n = MinOf((d + 1) \div 2, q)
    BY <2>1 DEF WriteCount
  <2> QED
    BY <1>1, <2>3, <2>4
<1>3. beyond \in 0 .. U8 - 1
  <2>1. CASE Len(r.data) % 2 = 1
    BY <2>1 DEF Beyond
  <2>2. CASE Len(r.data) % 2 # 1
    <3>1. beyond = 0
      BY <2>2 DEF Beyond
    <3> QED
      BY <1>1, <3>1
  <2> QED
    BY <2>1, <2>2
<1>4. \A ix \in Nat : DataAt(r.data, ix, beyond) \in 0 .. U8 - 1
  BY <1>1, <1>3 DEF DataAt
<1>5. ASSUME NEW k \in 1 .. n
      PROVE  combine(DataAt(r.data, (2 * k - 2) % U8, beyond),
                     DataAt(r.data, (2 * k - 1) % U8, beyond)) \in 0 .. U16 - 1
  <2>1. k \in Nat /\ k >= 1
    BY <1>1, <1>2
  <2>2. 2 * k - 2 \in Nat /\ 2 * k - 1 \in Nat
    BY <2>1
  <2>3. (2 * k - 2) % U8 \in Nat /\ (2 * k - 1) % U8 \in Nat
    BY <1>1, <2>2
  <2> QED
    BY <1>4, <2>3, CombineType
<1>6. n \in Nat
  BY <1>1, <1>2
<1>7. /\ Len(Words(q, r.data, beyond)) = n
      /\ \A k \in 1 .. n : Words(q, r.data, beyond)[k] \in 0 .. U16 - 1
  BY <1>5, <1>6 DEF Words
<1> QED
  BY <1>2, <1>7

(* The write loop stores them one after the other.                         *)
LEMMA WriteRegsStores ==
  ASSUME NEW a, NEW q, NEW data, NEW beyond
  PROVE  WriteRegs(a, q, data, beyond) = Stored(m_regs, a, Words(q, data, beyond))
BY DEF WriteRegs, Words

-------------------------------------------------------------------------------
(* No map ever has a key or a value out of its type.                       *)
LEMMA InitMaps == Init => Maps
BY DEF Init, Maps

(* What a request does to the maps, whatever its reply.                    *)
CoilsStep(r) ==
  \/ r.fc \in {1, 2} /\ m_coils' = Touched(m_coils, r.a, r.q, FALSE)
  \/ r.fc = 5 /\ m_coils' = Stored(m_coils, r.a, << r.q # 0 >>)
  \/ /\ r.fc = 15
     /\ m_coils' = Stored(m_coils, r.a,
                          Switches(r.data, MinOf(Bits * Len(r.data), r.q)))
  \/ r.fc \notin {1, 2, 5, 15} /\ m_coils' = m_coils

RegsStep(r) ==
  \/ r.fc \in {3, 4} /\ m_regs' = Touched(m_regs, r.a, r.q, 0)
  \/ r.fc = 6 /\ m_regs' = Stored(m_regs, r.a, << r.q >>)
  \/ /\ r.fc = 16
     /\ \E beyond \in Beyond(r.data) :
          m_regs' = Stored(m_regs, r.a, Words(r.q, r.data, beyond))
  \/ /\ r.fc = 23
     /\ \E beyond \in Beyond(r.data) :
          m_regs' = Touched(Stored(m_regs, r.wa, Words(r.wq, r.data, beyond)),
                            r.a, r.q, 0)
  \/ r.fc \notin {3, 4, 6, 16, 23} /\ m_regs' = m_regs

(* Every request does one of these things to each map.                     *)
LEMMA MapsSteps ==
  ASSUME NEW r \in Requests, on_pdu(r)
  PROVE  CoilsStep(r) /\ RegsStep(r) /\ request' = r
<1>0. request' = r
  BY DEF on_pdu
<1>1. CASE reply_f1(r)
  <2>1. /\ r.fc \in {1, 2} /\ m_coils' = Touched(m_coils, r.a, r.q, FALSE)
        /\ m_regs' = m_regs
    BY <1>1 DEF reply_f1
  <2>2. r.fc \notin {3, 4, 6, 16, 23}
    BY <2>1
  <2> QED
    BY <1>0, <2>1, <2>2 DEF CoilsStep, RegsStep
<1>2. CASE reply_f3(r)
  <2>1. /\ r.fc \in {3, 4} /\ m_regs' = Touched(m_regs, r.a, r.q, 0)
        /\ m_coils' = m_coils
    BY <1>2 DEF reply_f3, ReadRegs
  <2>2. r.fc \notin {1, 2, 5, 15}
    BY <2>1
  <2> QED
    BY <1>0, <2>1, <2>2 DEF CoilsStep, RegsStep
<1>3. CASE reply_f5(r)
  <2>1. r.fc = 5 /\ m_coils' = Stored(m_coils, r.a, << r.q # 0 >>) /\ m_regs' = m_regs
    BY <1>3 DEF reply_f5
  <2>2. r.fc \notin {3, 4, 6, 16, 23}
    BY <2>1
  <2> QED
    BY <1>0, <2>1, <2>2 DEF CoilsStep, RegsStep
<1>4. CASE reply_f6(r)
  <2>1. r.fc = 6 /\ m_regs' = Stored(m_regs, r.a, << r.q >>) /\ m_coils' = m_coils
    BY <1>4 DEF reply_f6
  <2> QED
    BY <1>0, <2>1 DEF CoilsStep, RegsStep
<1>5. CASE reply_f15(r)
  BY <1>0, <1>5 DEF reply_f15, CoilsStep, RegsStep
<1>6. CASE reply_f16(r)
  BY <1>0, <1>6, WriteRegsStores DEF reply_f16, CoilsStep, RegsStep
<1>7. CASE reply_f23(r)
  BY <1>0, <1>7, WriteRegsStores DEF reply_f23, ReadRegs, CoilsStep, RegsStep
<1> QED
  BY <1>0, <1>1, <1>2, <1>3, <1>4, <1>5, <1>6, <1>7 DEF on_pdu

(* None of them spoils the map of coils ...                                *)
LEMMA CoilsType ==
  ASSUME Maps, NEW r \in Requests, CoilsStep(r)
  PROVE  /\ DOMAIN m_coils' \subseteq 0 .. U16 - 1
         /\ \A x \in DOMAIN m_coils' : m_coils'[x] \in BOOLEAN
<1>1. /\ DOMAIN m_coils \subseteq 0 .. U16 - 1
      /\ \A x \in DOMAIN m_coils : m_coils[x] \in BOOLEAN
  BY DEF Maps
<1>2. /\ r.a \in 0 .. U16 - 1 /\ r.q \in Nat /\ U16 \in Nat /\ U16 > 0
  BY Sizes
<1>3. CASE m_coils' = Touched(m_coils, r.a, r.q, FALSE)
  BY <1>1, <1>2, <1>3, TouchedType
<1>4. CASE m_coils' = Stored(m_coils, r.a, << r.q # 0 >>)
  <2>1. /\ Len(<< r.q # 0 >>) = 1 /\ 1 \in 0 .. U16
        /\ \A k \in 1 .. 1 : << r.q # 0 >>[k] \in BOOLEAN
    BY <1>2
  <2> QED
    BY <1>1, <1>2, <1>4, <2>1, StoredType
<1>5. CASE m_coils' = Stored(m_coils, r.a,
                             Switches(r.data, MinOf(Bits * Len(r.data), r.q)))
  <2>1. PICK n : n = MinOf(Bits * Len(r.data), r.q)
    OBVIOUS
  <2>2. PICK vs : vs = Switches(r.data, n)
    OBVIOUS
  <2>3. n \in 0 .. U16 /\ Len(vs) = n /\ \A k \in 1 .. n : vs[k] \in BOOLEAN
    BY <2>1, <2>2, SwitchesList
  <2>4. m_coils' = Stored(m_coils, r.a, vs)
    BY <1>5, <2>1, <2>2
  <2>5. r.a \in 0 .. U16 - 1
    BY <1>2
  <2> QED
    BY <1>1, <2>3, <2>4, <2>5, StoredType
<1>6. CASE m_coils' = m_coils
  BY <1>1, <1>6
<1> QED
  BY <1>3, <1>4, <1>5, <1>6 DEF CoilsStep

(* ... nor the map of registers.                                           *)
LEMMA RegsType ==
  ASSUME Maps, NEW r \in Requests, RegsStep(r)
  PROVE  /\ DOMAIN m_regs' \subseteq 0 .. U16 - 1
         /\ \A x \in DOMAIN m_regs' : m_regs'[x] \in 0 .. U16 - 1
<1>1. /\ DOMAIN m_regs \subseteq 0 .. U16 - 1
      /\ \A x \in DOMAIN m_regs : m_regs[x] \in 0 .. U16 - 1
  BY DEF Maps
<1>2. /\ r.a \in 0 .. U16 - 1 /\ r.q \in Nat /\ U16 \in Nat /\ U16 > 0
      /\ r.wa \in 0 .. U16 - 1 /\ r.wq \in 0 .. U16 - 1 /\ r.q \in 0 .. U16 - 1
      /\ 0 \in 0 .. U16 - 1
  BY Sizes
<1>3. CASE m_regs' = Touched(m_regs, r.a, r.q, 0)
  BY <1>1, <1>2, <1>3, TouchedType
<1>4. CASE m_regs' = Stored(m_regs, r.a, << r.q >>)
  <2>1. /\ Len(<< r.q >>) = 1 /\ 1 \in 0 .. U16
        /\ \A k \in 1 .. 1 : << r.q >>[k] \in 0 .. U16 - 1
    BY <1>2
  <2> QED
    BY <1>1, <1>2, <1>4, <2>1, StoredType
<1>5. ASSUME NEW a \in 0 .. U16 - 1, NEW q \in 0 .. U16 - 1,
             NEW beyond \in Beyond(r.data),
             NEW map, map = Stored(m_regs, a, Words(q, r.data, beyond))
      PROVE  /\ DOMAIN map \subseteq 0 .. U16 - 1
             /\ \A x \in DOMAIN map : map[x] \in 0 .. U16 - 1
  <2>1. PICK n : n = WriteCount(q, Len(r.data))
    OBVIOUS
  <2>2. /\ n \in 0 .. U16 /\ Len(Words(q, r.data, beyond)) = n
        /\ \A k \in 1 .. n : Words(q, r.data, beyond)[k] \in 0 .. U16 - 1
    BY <2>1, WordsList
  <2> QED
    BY <1>1, <1>5, <2>2, StoredType
<1>6. CASE r.fc = 16 /\ \E beyond \in Beyond(r.data) :
             m_regs' = Stored(m_regs, r.a, Words(r.q, r.data, beyond))
  BY <1>2, <1>5, <1>6
<1>7. CASE \E beyond \in Beyond(r.data) :
             m_regs' = Touched(Stored(m_regs, r.wa, Words(r.wq, r.data, beyond)),
                               r.a, r.q, 0)
  <2>1. PICK beyond \in Beyond(r.data) :
          m_regs' = Touched(Stored(m_regs, r.wa, Words(r.wq, r.data, beyond)),
                            r.a, r.q, 0)
    BY <1>7
  <2>2. PICK map : map = Stored(m_regs, r.wa, Words(r.wq, r.data, beyond))
    OBVIOUS
  <2>3. /\ DOMAIN map \subseteq 0 .. U16 - 1
        /\ \A x \in DOMAIN map : map[x] \in 0 .. U16 - 1
    BY <1>2, <1>5, <2>2
  <2>4. m_regs' = Touched(map, r.a, r.q, 0)
    BY <2>1, <2>2
  <2> QED
    BY <1>2, <2>3, <2>4, TouchedType
<1>8. CASE m_regs' = m_regs
  BY <1>1, <1>8
<1> QED
  BY <1>3, <1>4, <1>6, <1>7, <1>8 DEF RegsStep

(* The maps keep their types.                                              *)
LEMMA NextMaps == Maps /\ [Next]_vars => Maps'
<1>1. ASSUME Maps, NEW r \in Requests, on_pdu(r) PROVE Maps'
  BY <1>1, MapsSteps, CoilsType, RegsType DEF Maps
<1>2. Maps /\ UNCHANGED vars => Maps'
  BY DEF Maps, vars
<1> QED
  BY <1>1, <1>2 DEF Next

(* Every key is a uint16_t, every coil a bool, every register a uint16_t,  *)
(* whatever the requests say, for every size of a byte.                    *)
THEOREM MapsCorrect == Spec => []Maps
BY InitMaps, NextMaps, PTL DEF Spec

-------------------------------------------------------------------------------
(* No cell outside of the run a write addresses changes.                   *)
LEMMA CoilsKept ==
  ASSUME NEW r \in Requests, CoilsStep(r), NEW x \in 0 .. U16 - 1, x \notin Coils(r)
  PROVE  Value(m_coils', x, FALSE) = Value(m_coils, x, FALSE)
<1> SUFFICES ASSUME NEW off, off = FALSE
             PROVE  Value(m_coils', x, off) = Value(m_coils, x, off)
  OBVIOUS
<1>1. /\ r.a \in 0 .. U16 - 1 /\ r.q \in 0 .. U16 /\ U16 \in Nat /\ U16 > 0
  BY Sizes
<1>2. CASE m_coils' = Touched(m_coils, r.a, r.q, off)
  BY <1>2, TouchedKeeps
<1>3. CASE r.fc = 5 /\ m_coils' = Stored(m_coils, r.a, << r.q # 0 >>)
  <2>1. PICK v : v = (r.q # 0)
    OBVIOUS
  <2>2. x # r.a /\ m_coils' = Stored(m_coils, r.a, << v >>)
    BY <1>3, <2>1 DEF Coils
  <2> QED
    BY <1>1, <2>2, StoredOne
<1>4. CASE /\ r.fc = 15
           /\ m_coils' = Stored(m_coils, r.a,
                                Switches(r.data, MinOf(Bits * Len(r.data), r.q)))
  <2>1. PICK n : n = MinOf(Bits * Len(r.data), r.q)
    OBVIOUS
  <2>2. PICK vs : vs = Switches(r.data, n)
    OBVIOUS
  <2>3. n \in 0 .. U16 /\ Len(vs) = n /\ n <= r.q
    BY <2>1, <2>2, SwitchesList
  <2>4. m_coils' = Stored(m_coils, r.a, vs)
    BY <1>4, <2>1, <2>2
  <2>5. x \notin Run(r.a, r.q)
    BY <1>4 DEF Coils
  <2> QED
    BY <1>1, <2>3, <2>4, <2>5, StoredKeeps
<1>5. CASE m_coils' = m_coils
  BY <1>5
<1> QED
  BY <1>2, <1>3, <1>4, <1>5 DEF CoilsStep

(* A register outside the run that is written keeps its value.             *)
LEMMA RegsKept ==
  ASSUME NEW r \in Requests, RegsStep(r), NEW x \in 0 .. U16 - 1, x \notin Regs(r)
  PROVE  Value(m_regs', x, 0) = Value(m_regs, x, 0)
<1>1. /\ r.a \in 0 .. U16 - 1 /\ r.q \in 0 .. U16 - 1 /\ U16 \in Nat /\ U16 > 0
      /\ r.wa \in 0 .. U16 - 1 /\ r.wq \in 0 .. U16 - 1
  BY Sizes
<1>2. CASE m_regs' = Touched(m_regs, r.a, r.q, 0)
  BY <1>2, TouchedKeeps
<1>3. CASE r.fc = 6 /\ m_regs' = Stored(m_regs, r.a, << r.q >>)
  <2>1. PICK v : v = (r.q)
    OBVIOUS
  <2>2. x # r.a /\ m_regs' = Stored(m_regs, r.a, << v >>)
    BY <1>3, <2>1 DEF Regs
  <2> QED
    BY <1>1, <2>2, StoredOne
<1>4. ASSUME NEW a \in 0 .. U16 - 1, NEW q \in 0 .. U16 - 1, x \notin Run(a, q),
             NEW beyond \in Beyond(r.data),
             NEW map, map = Stored(m_regs, a, Words(q, r.data, beyond))
      PROVE  Value(map, x, 0) = Value(m_regs, x, 0)
  <2>1. PICK n : n = WriteCount(q, Len(r.data))
    OBVIOUS
  <2>2. n \in 0 .. U16 /\ n <= q /\ Len(Words(q, r.data, beyond)) = n
    BY <2>1, WordsList
  <2>3. q \in 0 .. U16
    BY <1>1
  <2> QED
    BY <1>4, <2>2, <2>3, StoredKeeps
<1>5. CASE /\ r.fc = 16
           /\ \E beyond \in Beyond(r.data) :
                m_regs' = Stored(m_regs, r.a, Words(r.q, r.data, beyond))
  <2>1. x \notin Run(r.a, r.q)
    BY <1>5 DEF Regs
  <2> QED
    BY <1>1, <1>4, <1>5, <2>1
<1>6. CASE /\ r.fc = 23
           /\ \E beyond \in Beyond(r.data) :
                m_regs' = Touched(Stored(m_regs, r.wa, Words(r.wq, r.data, beyond)),
                                  r.a, r.q, 0)
  <2>1. x \notin Run(r.wa, r.wq)
    BY <1>6 DEF Regs
  <2>2. PICK beyond \in Beyond(r.data) :
          m_regs' = Touched(Stored(m_regs, r.wa, Words(r.wq, r.data, beyond)),
                            r.a, r.q, 0)
    BY <1>6
  <2>3. PICK map : map = Stored(m_regs, r.wa, Words(r.wq, r.data, beyond))
    OBVIOUS
  <2>4. Value(map, x, 0) = Value(m_regs, x, 0)
    BY <1>1, <1>4, <2>1, <2>3
  <2>5. m_regs' = Touched(map, r.a, r.q, 0)
    BY <2>2, <2>3
  <2> QED
    BY <2>4, <2>5, TouchedKeeps
<1>7. CASE m_regs' = m_regs
  BY <1>7
<1> QED
  BY <1>2, <1>3, <1>5, <1>6, <1>7 DEF RegsStep

(* Whatever the quantities and the byte count say, for every size of a     *)
(* byte: a request changes no cell it does not address, and what it        *)
(* inserts into the maps goes unnoticed.                                   *)
THEOREM OthersKeptHolds == Spec => OthersKept
<1> DEFINE Kept ==
      /\ \A x \in (DOMAIN m_coils \cup DOMAIN m_coils') \ Coils(request') :
           Coil(x)' = Coil(x)
      /\ \A x \in (DOMAIN m_regs \cup DOMAIN m_regs') \ Regs(request') :
           Reg(x)' = Reg(x)
<1>1. ASSUME Maps, Maps', NEW r \in Requests, on_pdu(r) PROVE Kept
  <2>1. CoilsStep(r) /\ RegsStep(r) /\ request' = r
    BY <1>1, MapsSteps
  <2>2. ASSUME NEW x \in (DOMAIN m_coils \cup DOMAIN m_coils') \ Coils(request')
        PROVE  Coil(x)' = Coil(x)
    <3>1. x \in 0 .. U16 - 1 /\ x \notin Coils(r)
      BY <1>1, <2>1, <2>2 DEF Maps
    <3>2. Value(m_coils', x, FALSE) = Value(m_coils, x, FALSE)
      BY <2>1, <3>1, CoilsKept
    <3> QED
      BY <3>2 DEF Coil, Value
  <2>3. ASSUME NEW x \in (DOMAIN m_regs \cup DOMAIN m_regs') \ Regs(request')
        PROVE  Reg(x)' = Reg(x)
    <3>1. x \in 0 .. U16 - 1 /\ x \notin Regs(r)
      BY <1>1, <2>1, <2>3 DEF Maps
    <3>2. Value(m_regs', x, 0) = Value(m_regs, x, 0)
      BY <2>1, <3>1, RegsKept
    <3> QED
      BY <3>2 DEF Reg, Value
  <2> QED
    BY <2>2, <2>3
<1>2. Maps /\ Maps' /\ [Next]_vars => [Kept]_vars
  BY <1>1 DEF Next
<1> QED
  BY <1>2, MapsCorrect, PTL DEF Spec, OthersKept

-------------------------------------------------------------------------------
(* RegisterBank.  The two bytes of a word are the word.                    *)
LEMMA WordBack ==
  ASSUME NEW r \in Requests, NEW w \in Int
  PROVE  combine(get_hi_lo(w)[1], get_hi_lo(w)[2]) = w
<1>1. PICK u \in Nat : u = U8 /\ u > 0
  BY Sizes
<1>2. w = (u * (w \div u)) + (w % u)
  BY <1>1
<1> QED
  BY <1>1, <1>2 DEF combine, get_hi_lo

(* The halves of a word are numbers.                                       *)
LEMMA HalvesType ==
  ASSUME NEW r \in Requests, NEW w \in Int, NEW i \in {1, 2}
  PROVE  get_hi_lo(w)[i] \in Int
<1>1. PICK u \in Nat : u = U8 /\ u > 0
  BY Sizes
<1>2. w \div u \in Int /\ w % u \in Int
  BY <1>1
<1> QED
  BY <1>1, <1>2 DEF get_hi_lo

(* Four bytes one after the other ...                                      *)
LEMMA FourBytes ==
  ASSUME NEW a, NEW b, NEW c, NEW d, NEW s, s = << a, b >> \o << c, d >>
  PROVE  /\ s # << >> /\ Len(s) = 4
         /\ s[1] = a /\ s[2] = b /\ s[3] = c /\ s[4] = d
<1>1. Len(s) = 4 /\ s[1] = a /\ s[2] = b /\ s[3] = c /\ s[4] = d
  OBVIOUS
<1> QED
  BY <1>1

(* ... and a byte in front of others.                                      *)
LEMMA InFront ==
  ASSUME NEW b \in Int, NEW t \in Seq(Int), NEW s, s = << b >> \o t
  PROVE  s[1] = b /\ Len(s) = 1 + Len(t) /\ \A j \in 1 .. Len(t) : s[j + 1] = t[j]
OBVIOUS

(* The answer to a write repeats the address and the quantity.             *)
LEMMA WriteAnswer ==
  ASSUME NEW r \in Requests, r.fc \in {5, 6, 15, 16}, request' = r,
         reply' = get_hi_lo(r.a) \o get_hi_lo(r.q)
  PROVE  Answer' = << r.a, IF r.fc \in {5, 6} THEN 1 ELSE r.q >>
<1>1. r.a \in Int /\ r.q \in Int
  BY Sizes
<1>2. PICK ha, la, hq, lq : /\ get_hi_lo(r.a) = << ha, la >>
                            /\ get_hi_lo(r.q) = << hq, lq >>
  BY DEF get_hi_lo
<1>3. PICK m : m = reply'
  OBVIOUS
<1>4. m # << >> /\ m[1] = ha /\ m[2] = la /\ m[3] = hq /\ m[4] = lq
  <2>1. m = << ha, la >> \o << hq, lq >>
    BY <1>2, <1>3
  <2> QED
    BY <2>1, FourBytes
<1>5. combine(ha, la) = r.a /\ combine(hq, lq) = r.q
  BY <1>1, <1>2, WordBack
<1>6. ~IsRead'
  BY DEF IsRead
<1>7. Answer' = << combine(m[1], m[2]),
                   IF r.fc \in {5, 6} THEN 1 ELSE combine(m[3], m[4]) >>
  BY <1>3, <1>4, <1>6 DEF Answer, combine
<1> QED
  BY <1>4, <1>5, <1>7

(* The answer to a read of registers is what the map holds.                *)
LEMMA ReadAnswer ==
  ASSUME NEW r \in Requests, r.fc \in {3, 4, 23}, request' = r, Proper(r),
         reply' = << (2 * r.q) % U8 >> \o Registers(m_regs', r.a, r.q),
         Run(r.a, r.q) \subseteq DOMAIN m_regs', Maps'
  PROVE  Answer' = [k \in 1 .. r.q |-> Reg((r.a + k - 1) % U16)']
<1> DEFINE reg(k) == m_regs'[(r.a + k - 1) % U16]
           rs == Registers(m_regs', r.a, r.q)
<1>1. PICK u \in Nat, q \in Nat, a \in Nat :
        u = U8 /\ u > 0 /\ q = r.q /\ a = r.a
  BY Sizes
<1>2. 2 * q < u /\ (2 * q) % u = 2 * q
  <2>1. 2 * q < u
    BY <1>1 DEF Proper
  <2> QED
    BY <2>1, DoubleType, NotCut
<1>3. \A k \in 1 .. q : /\ (r.a + k - 1) % U16 \in DOMAIN m_regs'
                        /\ reg(k) \in Int
  <2> TAKE k \in 1 .. q
  <2>1. k - 1 \in 0 .. r.q - 1 /\ r.a + (k - 1) = r.a + k - 1
    BY <1>1
  <2>2. (r.a + k - 1) % U16 \in Run(r.a, r.q)
    BY <2>1 DEF Run
  <2>3. U16 \in Nat
    BY Sizes
  <2> QED
    BY <2>2, <2>3 DEF Maps
<1>4. /\ rs \in Seq(Int) /\ Len(rs) = 2 * q
      /\ \A k \in 1 .. q : /\ rs[2 * k - 1] = get_hi_lo(reg(k))[1]
                           /\ rs[2 * k] = get_hi_lo(reg(k))[2]
  <2>1. rs = [j \in 1 .. 2 * q |->
                get_hi_lo(m_regs'[(a + (j - 1) \div 2) % U16])[IF j % 2 = 1 THEN 1 ELSE 2]]
    BY <1>1 DEF Registers
  <2> HIDE DEF rs
  <2>2. rs \in Seq(Int) /\ Len(rs) = 2 * q
    <3>1. ASSUME NEW j \in 1 .. 2 * q PROVE rs[j] \in Int
      <4>1. PICK k \in 1 .. q : (j - 1) \div 2 = k - 1
        <5>1. (j - 1) \div 2 + 1 \in 1 .. q
          BY <1>1
        <5> QED
          BY <1>1, <5>1
      <4>2. PICK i \in {1, 2} : i = IF j % 2 = 1 THEN 1 ELSE 2
        OBVIOUS
      <4>3. rs[j] = get_hi_lo(reg(k))[i]
        <5>1. a + (k - 1) = a + k - 1
          BY <1>1
        <5> QED
          BY <1>1, <2>1, <4>1, <4>2, <5>1
      <4> QED
        BY <1>3, <4>3, HalvesType
    <3>2. 2 * q \in Nat
      BY DoubleType
    <3> QED
      BY <2>1, <3>1, <3>2
  <2>3. ASSUME NEW k \in 1 .. q
        PROVE  /\ rs[2 * k - 1] = get_hi_lo(reg(k))[1]
               /\ rs[2 * k] = get_hi_lo(reg(k))[2]
    <3>1. /\ (2 * k - 1 - 1) \div 2 = k - 1 /\ (2 * k - 1) \div 2 = k - 1
          /\ (2 * k - 1) % 2 = 1 /\ (2 * k) % 2 = 0
          /\ a + (k - 1) = a + k - 1
      BY <1>1
    <3>2. 2 * k - 1 \in 1 .. 2 * q /\ 2 * k \in 1 .. 2 * q
      BY <1>1, SMTT(20)
    <3> QED
      BY <1>1, <2>1, <3>1, <3>2
  <2> QED
    BY <2>2, <2>3
<1> HIDE DEF rs, reg
<1>5. PICK m : m = reply'
  OBVIOUS
<1>6. m[1] = 2 * q /\ Len(m) = 1 + 2 * q /\ \A j \in 1 .. 2 * q : m[j + 1] = rs[j]
  <2>1. m = << 2 * q >> \o rs
    BY <1>1, <1>2, <1>5 DEF rs
  <2>2. 2 * q \in Int
    BY <1>1
  <2> QED
    BY <1>4, <2>1, <2>2, InFront
<1>7. \A k \in 1 .. q : combine(m[2 * k], m[2 * k + 1]) = reg(k)
  <2> TAKE k \in 1 .. q
  <2>1. 2 * k - 1 \in 1 .. 2 * q /\ 2 * k \in 1 .. 2 * q /\ 2 * k - 1 + 1 = 2 * k
    <3>1. q \in Nat
      BY <1>1
    <3>2. k \in Nat /\ 1 <= k /\ k <= q
      BY <3>1
    <3> QED
      BY <3>1, <3>2
  <2>2. m[2 * k] = rs[2 * k - 1] /\ m[2 * k + 1] = rs[2 * k]
    BY <1>6, <2>1
  <2> QED
    BY <1>3, <1>4, <2>2, WordBack
<1>8. Answer' = [k \in 1 .. q |-> combine(m[2 * k], m[2 * k + 1])]
  <2>1. m # << >> /\ m[1] = Len(m) - 1
    BY <1>1, <1>6
  <2>2. IsRead' /\ request'.fc \notin {1, 2} /\ request'.q = q
    BY <1>1 DEF IsRead
  <2> QED
    BY <1>5, <1>6, <2>1, <2>2 DEF Answer, combine
<1>9. \A k \in 1 .. q : reg(k) = Reg((r.a + k - 1) % U16)'
  BY <1>3 DEF Reg, reg
<1> QED
  BY <1>1, <1>7, <1>8, <1>9

(* The arrays that stand for the maps.                                     *)
CoilArray == [x \in 0 .. U16 - 1 |-> OnOff(Coil(x))]
RegArray  == [x \in 0 .. U16 - 1 |-> Reg(x)]

(* What the bank stores at x.                                              *)
LEMMA BankStore ==
  ASSUME NEW r \in Requests, NEW a \in 0 .. U16 - 1, NEW values, NEW n \in Nat,
         Len(values) = n, NEW array
  PROVE  Bank!Store(array, a, values) =
           [x \in 0 .. U16 - 1 |-> IF Nth(x, a) < n THEN values[Nth(x, a) + 1]
                                                   ELSE array[x]]
<1>1. ASSUME NEW x \in 0 .. U16 - 1
      PROVE  (IF Nth(x, a) + 1 <= n THEN values[Nth(x, a) + 1] ELSE array[x]) =
             (IF Nth(x, a) < n THEN values[Nth(x, a) + 1] ELSE array[x])
  <2>1. PICK k \in Nat : k = Nth(x, a)
    BY NthIsWhere
  <2>2. k + 1 <= n <=> k < n
    OBVIOUS
  <2> QED
    BY <2>1, <2>2
<1>2. Bank!Store(array, a, values) =
        [x \in 0 .. U16 - 1 |-> IF Nth(x, a) + 1 <= n THEN values[Nth(x, a) + 1]
                                                     ELSE array[x]]
  BY DEF Bank!Store, Nth
<1> QED
  BY <1>1, <1>2

(* A loop of set_reg is one store of the bank ...                          *)
LEMMA RegsStored ==
  ASSUME NEW r \in Requests, NEW a \in 0 .. U16 - 1, NEW vs, NEW n \in 0 .. U16,
         Len(vs) = n, NEW map, map = Stored(m_regs, a, vs)
  PROVE  [x \in 0 .. U16 - 1 |-> Value(map, x, 0)] = Bank!Store(RegArray, a, vs)
<1>1. n \in Nat
  BY Sizes
<1>2. Bank!Store(RegArray, a, vs) =
        [x \in 0 .. U16 - 1 |-> IF Nth(x, a) < n THEN vs[Nth(x, a) + 1]
                                                ELSE RegArray[x]]
  BY <1>1, BankStore
<1>3. ASSUME NEW x \in 0 .. U16 - 1
      PROVE  Value(map, x, 0) =
               IF Nth(x, a) < n THEN vs[Nth(x, a) + 1] ELSE RegArray[x]
  <2>1. RegArray[x] = Value(m_regs, x, 0)
    BY DEF RegArray, Reg, Value
  <2> QED
    BY <2>1, StoredAt
<1> QED
  BY <1>2, <1>3

(* ... and so is a loop of set_coil.                                       *)
LEMMA CoilsStored ==
  ASSUME NEW r \in Requests, NEW a \in 0 .. U16 - 1, NEW vs, NEW n \in 0 .. U16,
         Len(vs) = n, m_coils' = Stored(m_coils, a, vs),
         NEW values, Len(values) = n, \A k \in 1 .. n : values[k] = OnOff(vs[k])
  PROVE  CoilArray' = Bank!Store(CoilArray, a, values)
<1>1. n \in Nat
  BY Sizes
<1>2. Bank!Store(CoilArray, a, values) =
        [x \in 0 .. U16 - 1 |-> IF Nth(x, a) < n THEN values[Nth(x, a) + 1]
                                                ELSE CoilArray[x]]
  BY <1>1, BankStore
<1>3. PICK off : off = FALSE
  OBVIOUS
<1>4. ASSUME NEW x \in 0 .. U16 - 1
      PROVE  OnOff(Coil(x))' =
               IF Nth(x, a) < n THEN values[Nth(x, a) + 1] ELSE CoilArray[x]
  <2>1. CoilArray[x] = OnOff(Value(m_coils, x, off))
    BY <1>3 DEF CoilArray, Coil, Value
  <2>2. OnOff(Coil(x))' = OnOff(Value(m_coils', x, off))
    BY <1>3 DEF Coil, Value, OnOff
  <2>3. Value(m_coils', x, off) =
          IF Nth(x, a) < n THEN vs[Nth(x, a) + 1] ELSE Value(m_coils, x, off)
    BY StoredAt
  <2>4. Nth(x, a) < n => Nth(x, a) + 1 \in 1 .. n
    <3>1. PICK k \in Nat : k = Nth(x, a)
      BY NthIsWhere
    <3> QED
      BY <1>1, <3>1
  <2> QED
    BY <2>1, <2>2, <2>3, <2>4
<1> QED
  BY <1>2, <1>4 DEF CoilArray

-------------------------------------------------------------------------------
(* The loops store what the request means.                                 *)
LEMMA BitIsOnOff ==
  ASSUME NEW b \in {0, 1}, NEW v, v = (b = 1)
  PROVE  OnOff(v) = b
BY DEF OnOff

(* A bit is 0 or 1.                                                        *)
LEMMA BitType ==
  ASSUME NEW b \in Nat, NEW i \in 0 .. Bits
  PROVE  Bit(b, i) \in {0, 1}
<1>1. PICK m \in Nat : m = Mask[i] /\ m > 0
  BY MaskType
<1>2. b \div m \in Nat
  BY <1>1
<1> QED
  BY <1>1, <1>2 DEF Bit

(* The bytes for q bits hold them.                                         *)
LEMMA EnoughBits ==
  ASSUME NEW q \in Nat, NEW b \in Nat, b > 0
  PROVE  /\ b * ((q + b - 1) \div b) \in Nat
         /\ b * ((q + b - 1) \div b) >= q
<1>1. PICK y \in Nat : y = q + b - 1
  OBVIOUS
<1>2. y = (b * (y \div b)) + (y % b) /\ y % b <= b - 1 /\ y % b \in Nat
  OBVIOUS
<1>3. y \div b \in Nat
  OBVIOUS
<1>4. b * (y \div b) \in Nat
  BY <1>3
<1> QED
  BY <1>1, <1>2, <1>4

(* The elements of a sequence.                                             *)
LEMMA ElementType ==
  ASSUME NEW S, NEW s \in Seq(S), NEW i \in 1 .. Len(s)
  PROVE  s[i] \in S
OBVIOUS

(* Fifteen stores the bits of the data, all that are asked for.            *)
LEMMA BoolsStored ==
  ASSUME NEW r \in Requests, r.fc = 15, Proper(r), NEW n, n = r.q
  PROVE  /\ MinOf(Bits * Len(r.data), r.q) = n
         /\ Len(Bools(r)) = n /\ Len(Switches(r.data, n)) = n
         /\ \A k \in 1 .. n : Bools(r)[k] = OnOff(Switches(r.data, n)[k])
<1>1. PICK q \in Nat, b \in Nat : q = r.q /\ b = Bits /\ b > 0 /\ n = q
  BY Sizes, BitsAssumption
<1>2. Len(r.data) = (q + b - 1) \div b
  BY <1>1 DEF Proper
<1>3. b * Len(r.data) \in Nat /\ b * Len(r.data) >= q
  BY <1>1, <1>2, EnoughBits
<1>4. MinOf(Bits * Len(r.data), r.q) = n
  BY <1>1, <1>3 DEF MinOf
<1>5. /\ Bools(r) = [k \in 1 .. q |-> Bit(r.data[(k - 1) \div b + 1], (k - 1) % b)]
      /\ Switches(r.data, n) =
           [k \in 1 .. q |-> Bit(r.data[(k - 1) \div b + 1], (k - 1) % b) = 1]
  BY <1>1 DEF Bools, Switches
<1>6. Len(Bools(r)) = n /\ Len(Switches(r.data, n)) = n
  BY <1>1, <1>5
<1>7. ASSUME NEW k \in 1 .. n
      PROVE  Bools(r)[k] = OnOff(Switches(r.data, n)[k])
  <2>1. PICK bit : bit = Bit(r.data[(k - 1) \div b + 1], (k - 1) % b)
    OBVIOUS
  <2>2. bit \in {0, 1}
    <3>1. PICK j \in Nat : j = k - 1 /\ j + 1 <= q
      BY <1>1
    <3>2. j % b \in Nat /\ j % b \in 0 .. Bits
      BY <1>1, <3>1
    <3>3. j \div b + 1 \in 1 .. Len(r.data)
      <4>1. PICK d \in Nat : d = j \div b
        BY <1>1, <3>1
      <4>2. j = b * d + (j % b) /\ j % b >= 0
        BY <1>1, <4>1
      <4>3. PICK l \in Nat : l = Len(r.data)
        BY Sizes
      <4>4. b * d < b * l
        BY <1>1, <1>3, <3>1, <3>2, <4>2, <4>3
      <4>5. d < l
        BY <1>1, <4>4
      <4> QED
        BY <4>1, <4>3, <4>5
    <3>4. r.data[j \div b + 1] \in Nat
      <4>1. r.data \in Seq(0 .. U8 - 1) /\ U8 \in Nat
        BY Sizes
      <4>2. r.data[j \div b + 1] \in 0 .. U8 - 1
        BY <3>3, <4>1, ElementType
      <4> QED
        BY <4>1, <4>2
    <3> QED
      BY <2>1, <3>1, <3>2, <3>4, BitType
  <2>3. PICK v : v = Switches(r.data, n)[k]
    OBVIOUS
  <2>4. v = (bit = 1)
    BY <1>1, <1>5, <2>1, <2>3
  <2>5. Bools(r)[k] = bit
    BY <1>1, <1>5, <2>1
  <2> QED
    BY <2>2, <2>3, <2>4, <2>5, BitIsOnOff
<1> QED
  BY <1>4, <1>6, <1>7

(* Sixteen and 23 store the words of the data, all that are asked for.     *)
LEMMA ValuesStored ==
  ASSUME NEW r \in Requests, NEW q \in 0 .. U16 - 1, Len(r.data) = 2 * q,
         NEW beyond
  PROVE  /\ Words(q, r.data, beyond) = Values(r, q)
         /\ Len(Values(r, q)) = q
<1>1. PICK u \in Nat, l \in Nat : u = U8 /\ u > 0 /\ l = Len(r.data) /\ l < u
  BY Sizes
<1>2. q \in Nat /\ l = 2 * q
  BY <1>1, Sizes
<1>3. WriteCount(q, l) = q
  <2>1. (l + 1) \div 2 = q
    BY <1>2
  <2>2. MinOf((l + 1) \div 2, q) = q
    BY <1>2, <2>1 DEF MinOf
  <2> QED
    BY <2>2 DEF WriteCount
<1>4. ASSUME NEW k \in 1 .. q
      PROVE  combine(DataAt(r.data, (2 * k - 2) % U8, beyond),
                     DataAt(r.data, (2 * k - 1) % U8, beyond)) =
             combine(r.data[2 * k - 1], r.data[2 * k])
  <2>1. /\ 2 * k - 2 \in Nat /\ 2 * k - 2 < l
        /\ 2 * k - 1 \in Nat /\ 2 * k - 1 < l
        /\ 2 * k - 2 + 1 = 2 * k - 1 /\ 2 * k - 1 + 1 = 2 * k
    BY <1>2
  <2>2. /\ 2 * k - 2 < u /\ 2 * k - 1 < u
    BY <1>1, <2>1
  <2>3. (2 * k - 2) % u = 2 * k - 2 /\ (2 * k - 1) % u = 2 * k - 1
    BY <2>1, <2>2, NotCut
  <2> QED
    BY <1>1, <2>1, <2>3 DEF DataAt
<1>5. Words(q, r.data, beyond) =
        [k \in 1 .. q |-> combine(r.data[2 * k - 1], r.data[2 * k])]
  BY <1>1, <1>3, <1>4 DEF Words
<1> QED
  BY <1>2, <1>5 DEF Values

(* Quotient and remainder.                                                 *)
LEMMA DivMod ==
  ASSUME NEW n \in Nat, NEW b \in Nat, b > 0
  PROVE  n = b * (n \div b) + (n % b) /\ n % b < b
OBVIOUS

(* A list of n elements.                                                   *)
LEMMA ListType ==
  ASSUME NEW T, NEW n \in Nat, NEW s \in [1 .. n -> T]
  PROVE  s \in Seq(T) /\ Len(s) = n
OBVIOUS

(* Where bit j of a run of q bits is found.                                *)
LEMMA ByteOfBit ==
  ASSUME NEW q \in Nat, NEW b \in Nat, b > 0, NEW j \in 0 .. q - 1
  PROVE  /\ j \div b \in Nat /\ j \div b + 1 \in 1 .. (q + b - 1) \div b
         /\ j % b \in 0 .. b - 1
         /\ ((j \div b) * b) + (j % b) = j
<1>1. PICK d \in Nat, e \in Nat : d = j \div b /\ e = j % b
  OBVIOUS
<1>2. j = b * d + e /\ e < b
  BY <1>1, DivMod
<1>3. PICK l \in Nat : l = (q + b - 1) \div b
  OBVIOUS
<1>4. b * l \in Nat /\ b * l >= q
  BY <1>3, EnoughBits
<1>5. b * d < b * l
  <2>1. b * d \in Nat
    OBVIOUS
  <2> QED
    BY <1>2, <1>4, <2>1
<1>6. d < l
  BY <1>5
<1>7. d * b = b * d
  OBVIOUS
<1> QED
  BY <1>1, <1>2, <1>3, <1>6, <1>7

(* The packed bytes hold the coils.                                        *)
LEMMA PackedSays ==
  ASSUME NEW r \in Requests, NEW l, l = (r.q + Bits - 1) \div Bits,
         NEW s, s = Packed(r.a, r.q)
  PROVE  /\ s \in Seq(0 .. U8 - 1) /\ Len(s) = l /\ l \in Nat
         /\ \A k \in 1 .. r.q :
              /\ (k - 1) \div Bits + 1 \in 1 .. l
              /\ Bit(s[(k - 1) \div Bits + 1], (k - 1) % Bits) =
                   OnOff(Coil((r.a + k - 1) % U16))
<1>1. PICK q \in Nat, a \in Nat, b \in Nat : q = r.q /\ a = r.a /\ b = Bits /\ b > 0
  BY Sizes, BitsAssumption
<1>2. l \in Nat
  BY <1>1
<1> DEFINE on(j) == {i \in 0 .. b - 1 :
                       /\ ((j - 1) * b) + i < q
                       /\ Coil((a + ((j - 1) * b) + i) % U16)}
<1>3. s = [j \in 1 .. l |-> Packing(on(j))[b]]
  BY <1>1 DEF Packed
<1>4. ASSUME NEW j \in 1 .. l PROVE s[j] \in 0 .. U8 - 1
  <2> HIDE DEF on
  <2>1. b \in 0 .. Bits
    BY <1>1
  <2>2. PICK v \in Nat, u \in Nat : v = Packing(on(j))[b] /\ u = U8 /\ v < u
    BY <1>1, <2>1, PackingType, MaskType DEF U8
  <2> QED
    BY <1>3, <2>2
<1>5. s \in Seq(0 .. U8 - 1) /\ Len(s) = l
  <2>1. PICK T : T = 0 .. U8 - 1
    OBVIOUS
  <2>2. s = [j \in 1 .. l |-> s[j]]
    BY <1>3
  <2> HIDE DEF on
  <2>3. \A j \in 1 .. l : s[j] \in T
    BY <1>4, <2>1
  <2>4. s \in [1 .. l -> T]
    BY <2>2, <2>3, Zenon
  <2>5. s \in Seq(T) /\ Len(s) = l
    BY <1>2, <2>4, ListType, ZenonT(30)
  <2> QED
    BY <2>1, <2>5
<1>6. ASSUME NEW k \in 1 .. q
      PROVE  /\ (k - 1) \div b + 1 \in 1 .. l
             /\ Bit(s[(k - 1) \div b + 1], (k - 1) % b) = OnOff(Coil((a + k - 1) % U16))
  <2>1. k - 1 \in 0 .. q - 1
    OBVIOUS
  <2>2. PICK d \in Nat, i \in 0 .. b - 1 :
          d = (k - 1) \div b /\ i = (k - 1) % b
    BY <1>1, <2>1, ByteOfBit
  <2>3. d + 1 \in 1 .. l /\ (d * b) + i = k - 1
    BY <1>1, <2>1, <2>2, ByteOfBit
  <2>4. PICK set, coil : set = on(d + 1) /\ coil = Coil((a + k - 1) % U16)
    OBVIOUS
  <2>5. i \in set <=> coil
    <3>1. (d + 1) - 1 = d /\ (d * b) + i < q
      BY <2>1, <2>3
    <3>2. a + (d * b) + i = a + k - 1
      <4>1. PICK db \in Nat : db = d * b
        BY <1>1
      <4> QED
        BY <2>3, <4>1
    <3> QED
      BY <2>4, <3>1, <3>2
  <2> HIDE DEF on
  <2>6. Bit(Packing(set)[Bits], i) = OnOff(i \in set)
    BY <1>1, PackingBits
  <2>7. s[d + 1] = Packing(set)[Bits]
    BY <1>1, <1>3, <2>3, <2>4
  <2>8. OnOff(i \in set) = OnOff(coil)
    BY <2>5 DEF OnOff
  <2> QED
    BY <2>2, <2>3, <2>4, <2>6, <2>7, <2>8
<1> QED
  BY <1>1, <1>2, <1>5, <1>6

(* The byte count is a byte, and their number if that is one.              *)
LEMMA CoilBytesSays ==
  ASSUME NEW r \in Requests, NEW l, l = (r.q + Bits - 1) \div Bits
  PROVE  /\ CoilBytes(r.q) \in 0 .. U8 - 1
         /\ l < U8 => CoilBytes(r.q) = l
<1>1. PICK q \in Nat, b \in Nat, u \in Nat :
        q = r.q /\ b = Bits /\ b > 0 /\ u = U8 /\ u > 0
  <2>1. r.q \in Nat /\ U8 \in Nat /\ U8 > 0
    BY Sizes
  <2>2. Bits \in Nat /\ Bits > 0
    BY BitsAssumption
  <2> QED
    BY <2>1, <2>2
<1>2. PICK d \in Nat, e \in Nat : d = q \div b /\ e = q % b
  BY <1>1
<1>3. q = b * d + e /\ e < b
  <2>1. q = b * (q \div b) + (q % b) /\ q % b < b
    BY <1>1, DivMod
  <2> QED
    BY <1>2, <2>1
<1>4. PICK c \in {0, 1} : c = (IF e > 0 THEN 1 ELSE 0)
  OBVIOUS
<1>5. CoilBytes(r.q) = ((d % u) + c) % u
  BY <1>1, <1>2, <1>4 DEF CoilBytes
<1>6. CoilBytes(r.q) \in 0 .. u - 1
  <2>1. PICK x \in Nat : x = (d % u) + c
    BY <1>1
  <2>2. x % u \in 0 .. u - 1
    BY <1>1
  <2> QED
    BY <1>5, <2>1, <2>2
<1>7. l = d + c
  <2>1. l = ((e + b - 1) + b * d) \div b
    BY <1>1, <1>3
  <2>2. e + b - 1 \in Nat
    BY <1>1
  <2>3. ((e + b - 1) + b * d) \div b = (e + b - 1) \div b + d
    <3>1. PICK a \in Nat : a = e + b - 1
      BY <2>2
    <3>2. Carries(a, b, d)
      BY <1>1, <3>1, DivCarries
    <3> QED
      BY <3>1, <3>2 DEF Carries
  <2>4. (e + b - 1) \div b = c
    <3>1. CASE e = 0
      <4>1. b - 1 \in Nat /\ b - 1 < b /\ e + b - 1 = b - 1
        BY <1>1, <3>1
      <4>2. (b - 1) \div b = 0
        BY <4>1, DivSmall
      <4> QED
        BY <1>4, <3>1, <4>1, <4>2
    <3>2. CASE e > 0
      <4>1. PICK f \in Nat : f = e - 1 /\ f < b
        BY <1>3, <3>2
      <4>2. e + b - 1 = f + b * 1
        BY <1>1, <4>1
      <4>3. (f + b * 1) \div b = f \div b + 1
        BY <1>1, DivAdds
      <4>4. f \div b = 0
        BY <4>1, DivSmall
      <4> QED
        BY <1>4, <3>2, <4>2, <4>3, <4>4
    <3> QED
      BY <3>1, <3>2
  <2> QED
    BY <2>1, <2>3, <2>4
<1>8. ASSUME l < u PROVE CoilBytes(r.q) = l
  <2>1. d < u /\ d + c < u /\ d + c \in Nat
    BY <1>7, <1>8
  <2>2. d % u = d /\ (d + c) % u = d + c
    BY <2>1, NotCut
  <2> QED
    BY <1>5, <1>7, <2>2
<1> QED
  BY <1>1, <1>6, <1>8

(* The answer to a read of coils is what the map holds.                    *)
LEMMA CoilsAnswer ==
  ASSUME NEW r \in Requests, r.fc \in {1, 2}, request' = r, Proper(r),
         reply' = << CoilBytes(r.q) >> \o Packed(r.a, r.q)
  PROVE  Answer' = [k \in 1 .. r.q |-> OnOff(Coil((r.a + k - 1) % U16))]
<1>1. PICK u \in Nat, q \in Nat, a \in Nat, b \in Nat :
        u = U8 /\ q = r.q /\ a = r.a /\ b = Bits /\ b > 0
  BY Sizes, BitsAssumption
<1>2. PICK l, s, m : /\ l = (r.q + Bits - 1) \div Bits /\ s = Packed(r.a, r.q)
                     /\ m = reply'
  OBVIOUS
<1>3. /\ s \in Seq(0 .. u - 1) /\ Len(s) = l /\ l \in Nat
      /\ \A k \in 1 .. q : /\ (k - 1) \div b + 1 \in 1 .. l
                           /\ Bit(s[(k - 1) \div b + 1], (k - 1) % b) =
                                OnOff(Coil((a + k - 1) % U16))
  BY <1>1, <1>2, PackedSays
<1>4. CoilBytes(r.q) = l
  <2>1. l < U8
    BY <1>2 DEF Proper
  <2> QED
    BY <1>2, <2>1, CoilBytesSays
<1>5. m[1] = l /\ Len(m) = 1 + l /\ \A j \in 1 .. l : m[j + 1] = s[j]
  <2>1. m = << l >> \o s
    BY <1>2, <1>4
  <2>2. s \in Seq(Int) /\ l \in Int
    BY <1>1, <1>3
  <2> QED
    BY <1>3, <2>1, <2>2, InFront
<1>6. ASSUME NEW k \in 1 .. q
      PROVE  Bit(m[2 + (k - 1) \div b], (k - 1) % b) = OnOff(Coil((a + k - 1) % U16))
  <2>1. PICK d : d = (k - 1) \div b
    OBVIOUS
  <2>2. d \in Nat /\ d + 1 \in 1 .. l /\ (d + 1) + 1 = 2 + d
    BY <1>1, <1>3, <2>1
  <2>3. m[2 + d] = s[d + 1]
    BY <1>5, <2>2
  <2> QED
    BY <1>3, <2>1, <2>3
<1>7. Answer' = [k \in 1 .. q |-> Bit(m[2 + (k - 1) \div b], (k - 1) % b)]
  <2>1. m # << >> /\ m[1] = Len(m) - 1 /\ m[1] = (q + b - 1) \div b
    BY <1>1, <1>2, <1>3, <1>5
  <2>2. IsRead' /\ request'.fc \in {1, 2} /\ request'.q = q
    BY <1>1 DEF IsRead
  <2> QED
    BY <1>1, <1>2, <2>1, <2>2 DEF Answer, Bit
<1> QED
  BY <1>1, <1>6, <1>7

-------------------------------------------------------------------------------
(* What a request means, function code by function code.                   *)
LEMMA MeaningOf ==
  ASSUME NEW r \in Requests, NEW m, m = Meaning(r)
  PROVE  /\ m.at = r.a /\ m.n = r.q
         /\ r.fc \in {1, 2} => m.op = "read coils"
         /\ r.fc \in {3, 4} => m.op = "read regs"
         /\ r.fc = 5 => /\ m.op = "write coils" /\ m.to = r.a
                        /\ m.values = << OnOff(r.q # 0) >>
         /\ r.fc = 6 => m.op = "write regs" /\ m.to = r.a /\ m.values = << r.q >>
         /\ r.fc = 15 => m.op = "write coils" /\ m.to = r.a /\ m.values = Bools(r)
         /\ r.fc = 16 => /\ m.op = "write regs" /\ m.to = r.a
                         /\ m.values = Values(r, r.q)
         /\ r.fc = 23 => /\ m.op = "write and read regs" /\ m.to = r.wa
                         /\ m.values = Values(r, r.wq)
<1>1. PICK on : on = << OnOff(r.q # 0) >>
  OBVIOUS
<1>2. PICK fc \in Nat : fc = r.fc
  BY RequestsAssumption
<1>3. PICK op : op = IF fc \in {1, 2} THEN "read coils"
                     ELSE IF fc \in {3, 4} THEN "read regs"
                     ELSE IF fc \in {5, 15} THEN "write coils"
                     ELSE IF fc \in {6, 16} THEN "write regs"
                     ELSE "write and read regs"
  OBVIOUS
<1>4. PICK to : to = IF fc = 23 THEN r.wa ELSE r.a
  OBVIOUS
<1>5. PICK values : values = IF fc = 5 THEN on ELSE IF fc = 6 THEN << r.q >>
                             ELSE IF fc = 15 THEN Bools(r)
                             ELSE IF fc = 16 THEN Values(r, r.q)
                             ELSE IF fc = 23 THEN Values(r, r.wq) ELSE << >>
  OBVIOUS
<1>6. m = [op |-> op, at |-> r.a, n |-> r.q, to |-> to, values |-> values]
  BY <1>1, <1>2, <1>3, <1>4, <1>5, Zenon DEF Meaning
<1>7. m.op = op /\ m.at = r.a /\ m.n = r.q /\ m.to = to /\ m.values = values
  <2>1. PICK at, n : at = r.a /\ n = r.q
    OBVIOUS
  <2>2. m = [op |-> op, at |-> at, n |-> n, to |-> to, values |-> values]
    BY <1>6, <2>1, Zenon
  <2>3. m.op = op /\ m.at = at /\ m.n = n /\ m.to = to /\ m.values = values
    BY <2>2
  <2> QED
    BY <2>1, <2>3
<1>8. /\ fc \in {1, 2} => op = "read coils"
      /\ fc \in {3, 4} => op = "read regs"
      /\ fc \in {5, 15} => op = "write coils"
      /\ fc \in {6, 16} => op = "write regs"
      /\ fc = 23 => op = "write and read regs"
  <2>1. /\ fc \in {3, 4} => fc \notin {1, 2}
        /\ fc \in {5, 15} => fc \notin {1, 2, 3, 4}
        /\ fc \in {6, 16} => fc \notin {1, 2, 3, 4, 5, 15}
        /\ fc = 23 => fc \notin {1, 2, 3, 4, 5, 15, 6, 16}
    OBVIOUS
  <2> QED
    BY <1>3, <2>1, Zenon
<1>9. fc = 23 => to = r.wa
  BY <1>4
<1>10. fc # 23 => to = r.a
  BY <1>4
<1>11. /\ fc = 5 => values = on
       /\ fc = 6 => values = << r.q >>
  BY <1>5
<1>12. /\ fc = 15 => values = Bools(r)
       /\ fc = 16 => values = Values(r, r.q)
       /\ fc = 23 => values = Values(r, r.wq)
  BY <1>5
<1>13. fc \in {5, 6, 15, 16} => to = r.a
  BY <1>10
<1> QED
  BY <1>1, <1>2, <1>7, <1>8, <1>9, <1>11, <1>12, <1>13, Zenon

(* Each request is its own step of the bank.                               *)
LEMMA WriteCoilsStep ==
  ASSUME NEW r \in Requests, Proper(r), request' = r, reply_f5(r) \/ reply_f15(r)
  PROVE  Bank!WriteCoils(Meaning(r))
<1>1. /\ r.a \in 0 .. U16 - 1 /\ r.q \in 0 .. U16 - 1 /\ U16 \in Nat /\ U16 > 0
  BY Sizes
<1>2. PICK m : m = Meaning(r)
  OBVIOUS
<1>3. CASE reply_f5(r)
  <2>1. /\ r.fc = 5 /\ m_coils' = Stored(m_coils, r.a, << r.q # 0 >>)
        /\ m_regs' = m_regs /\ reply' = get_hi_lo(r.a) \o get_hi_lo(r.q)
    BY <1>3 DEF reply_f5, Mirror
  <2>2. PICK v : v = (r.q # 0)
    OBVIOUS
  <2>3. /\ m.op = "write coils" /\ m.to = r.a /\ m.values = << OnOff(v) >>
    BY <1>2, <2>1, <2>2, MeaningOf, Zenon
  <2>4. Answer' = << r.a, 1 >>
    BY <2>1, WriteAnswer
  <2>5. CoilArray' = Bank!Store(CoilArray, m.to, m.values)
    <3>1. PICK n \in 0 .. U16 : n = 1
      BY <1>1
    <3>2. PICK vs : vs = << v >>
      OBVIOUS
    <3>3. PICK values : values = << OnOff(v) >>
      OBVIOUS
    <3>4. /\ Len(vs) = n /\ Len(values) = n
          /\ \A k \in 1 .. n : values[k] = OnOff(vs[k])
      BY <3>1, <3>2, <3>3
    <3>5. m_coils' = Stored(m_coils, r.a, vs)
      BY <2>1, <2>2, <3>2
    <3>6. CoilArray' = Bank!Store(CoilArray, r.a, values)
      BY <1>1, <3>4, <3>5, CoilsStored
    <3> QED
      BY <2>3, <3>3, <3>6
  <2>6. Len(m.values) = 1
    <3>1. PICK on : on = OnOff(v)
      OBVIOUS
    <3>2. m.values = << on >>
      BY <2>3, <3>1
    <3> QED
      BY <3>2
  <2> QED
    BY <1>2, <2>1, <2>3, <2>4, <2>5, <2>6 DEF Bank!WriteCoils, CoilArray, Reg
<1>4. CASE reply_f15(r)
  <2>1. /\ r.fc = 15 /\ m_regs' = m_regs
        /\ m_coils' = Stored(m_coils, r.a,
                             Switches(r.data, MinOf(Bits * Len(r.data), r.q)))
        /\ reply' = get_hi_lo(r.a) \o get_hi_lo(r.q)
    BY <1>4 DEF reply_f15
  <2>2. /\ m.op = "write coils" /\ m.to = r.a /\ m.values = Bools(r)
    BY <1>2, <2>1, MeaningOf
  <2>3. Answer' = << r.a, r.q >>
    BY <2>1, WriteAnswer
  <2>4. PICK n \in 0 .. U16 : n = r.q
    BY <1>1
  <2>5. PICK vs : vs = Switches(r.data, n)
    OBVIOUS
  <2>6. PICK values : values = Bools(r)
    OBVIOUS
  <2>7. /\ MinOf(Bits * Len(r.data), r.q) = n
        /\ Len(vs) = n /\ Len(values) = n
        /\ \A k \in 1 .. n : values[k] = OnOff(vs[k])
    BY <2>1, <2>4, <2>5, <2>6, BoolsStored
  <2>8. m_coils' = Stored(m_coils, r.a, vs)
    BY <2>1, <2>5, <2>7
  <2>9. CoilArray' = Bank!Store(CoilArray, r.a, values)
    BY <1>1, <2>7, <2>8, CoilsStored
  <2>10. Len(m.values) = r.q
    BY <2>2, <2>4, <2>6, <2>7
  <2> QED
    BY <1>2, <2>1, <2>2, <2>3, <2>6, <2>9, <2>10 DEF Bank!WriteCoils, CoilArray, Reg
<1> QED
  BY <1>3, <1>4

(* Six and sixteen write registers.                                        *)
LEMMA WriteRegsStep ==
  ASSUME NEW r \in Requests, Proper(r), request' = r, reply_f6(r) \/ reply_f16(r)
  PROVE  Bank!WriteRegs(Meaning(r))
<1>1. /\ r.a \in 0 .. U16 - 1 /\ r.q \in 0 .. U16 - 1 /\ U16 \in Nat /\ U16 > 0
  BY Sizes
<1>2. PICK m : m = Meaning(r)
  OBVIOUS
<1>3. CASE reply_f6(r)
  <2>1. /\ r.fc = 6 /\ m_regs' = Stored(m_regs, r.a, << r.q >>)
        /\ m_coils' = m_coils /\ reply' = get_hi_lo(r.a) \o get_hi_lo(r.q)
    BY <1>3 DEF reply_f6, Mirror
  <2>2. m.op = "write regs" /\ m.to = r.a /\ m.values = << r.q >>
    BY <1>2, <2>1, MeaningOf
  <2>3. Answer' = << r.a, 1 >>
    BY <2>1, WriteAnswer
  <2>4. PICK n \in 0 .. U16 : n = 1
    BY <1>1
  <2>5. PICK vs : vs = << r.q >>
    OBVIOUS
  <2>6. Len(vs) = n /\ m_regs' = Stored(m_regs, r.a, vs)
    BY <2>1, <2>4, <2>5
  <2>7. [x \in 0 .. U16 - 1 |-> Value(m_regs', x, 0)] = Bank!Store(RegArray, r.a, vs)
    BY <1>1, <2>6, RegsStored
  <2>8. RegArray' = Bank!Store(RegArray, m.to, m.values)
    BY <2>2, <2>5, <2>7 DEF RegArray, Reg, Value
  <2> QED
    BY <1>2, <2>1, <2>2, <2>3, <2>8 DEF Bank!WriteRegs, RegArray, Coil
<1>4. CASE reply_f16(r)
  <2>1. PICK beyond \in Beyond(r.data) :
          m_regs' = Stored(m_regs, r.a, Words(r.q, r.data, beyond))
    BY <1>4, WriteRegsStores DEF reply_f16
  <2>2. r.fc = 16 /\ m_coils' = m_coils /\ reply' = get_hi_lo(r.a) \o get_hi_lo(r.q)
    BY <1>4 DEF reply_f16
  <2>3. m.op = "write regs" /\ m.to = r.a /\ m.values = Values(r, r.q)
    BY <1>2, <2>2, MeaningOf
  <2>4. Answer' = << r.a, r.q >>
    BY <2>2, WriteAnswer
  <2>5. PICK q \in 0 .. U16 - 1 : q = r.q
    BY <1>1
  <2>6. Len(r.data) = 2 * q
    BY <2>2, <2>5 DEF Proper
  <2>7. PICK vs : vs = Values(r, q)
    OBVIOUS
  <2>8. Words(q, r.data, beyond) = vs /\ Len(vs) = q
    BY <2>6, <2>7, ValuesStored
  <2>9. q \in 0 .. U16 /\ m_regs' = Stored(m_regs, r.a, vs)
    BY <1>1, <2>1, <2>5, <2>8
  <2>10. [x \in 0 .. U16 - 1 |-> Value(m_regs', x, 0)] = Bank!Store(RegArray, r.a, vs)
    BY <1>1, <2>8, <2>9, RegsStored
  <2>11. RegArray' = Bank!Store(RegArray, m.to, m.values)
    BY <2>3, <2>5, <2>7, <2>10 DEF RegArray, Reg, Value
  <2>12. Len(m.values) = r.q
    BY <2>3, <2>5, <2>7, <2>8
  <2> QED
    BY <1>2, <2>2, <2>3, <2>4, <2>11, <2>12 DEF Bank!WriteRegs, RegArray, Coil
<1> QED
  BY <1>3, <1>4

(* What a read of registers touches becomes a key.                         *)
LEMMA TouchedHas ==
  ASSUME NEW map, NEW a, NEW n, NEW default
  PROVE  Run(a, n) \subseteq DOMAIN Touched(map, a, n, default)
BY DEF Touched

(* The cells of the bank that a read answers with.                         *)
LEMMA BankCells ==
  ASSUME NEW r \in Requests, NEW a \in 0 .. U16 - 1, NEW n \in Nat, NEW array
  PROVE  /\ Bank!Cells(array, a, n) = [k \in 1 .. n |-> array[(a + k - 1) % U16]]
         /\ \A k \in 1 .. n : (a + k - 1) % U16 \in 0 .. U16 - 1
<1>1. PICK u \in Nat : u = U16 /\ u > 0
  BY Sizes
<1>2. ASSUME NEW k \in 1 .. n PROVE (a + k - 1) % u \in 0 .. u - 1
  <2>1. a + k - 1 \in Nat
    BY <1>1
  <2> QED
    BY <1>1, <2>1
<1> QED
  BY <1>1, <1>2 DEF Bank!Cells

(* One and two read coils.                                                 *)
LEMMA ReadCoilsStep ==
  ASSUME NEW r \in Requests, Proper(r), request' = r, reply_f1(r)
  PROVE  Bank!ReadCoils(Meaning(r))
<1>1. /\ r.a \in 0 .. U16 - 1 /\ r.q \in Nat
  BY Sizes
<1>2. PICK m : m = Meaning(r)
  OBVIOUS
<1>3. /\ r.fc \in {1, 2} /\ m_regs' = m_regs
      /\ m_coils' = Touched(m_coils, r.a, r.q, FALSE)
      /\ reply' = << CoilBytes(r.q) >> \o Packed(r.a, r.q)
  BY DEF reply_f1
<1>4. m.op = "read coils" /\ m.at = r.a /\ m.n = r.q
  BY <1>2, <1>3, MeaningOf
<1>5. \A x : Coil(x)' = Coil(x)
  BY <1>3, TouchedKeeps, Zenon DEF Coil, Value
<1>6. Answer' = [k \in 1 .. r.q |-> OnOff(Coil((r.a + k - 1) % U16))]
  BY <1>3, CoilsAnswer
<1>7. Answer' = Bank!Cells(CoilArray, r.a, r.q)
  <2>1. /\ Bank!Cells(CoilArray, r.a, r.q) =
             [k \in 1 .. r.q |-> CoilArray[(r.a + k - 1) % U16]]
        /\ \A k \in 1 .. r.q : (r.a + k - 1) % U16 \in 0 .. U16 - 1
    BY <1>1, BankCells, ZenonT(30)
  <2>2. \A k \in 1 .. r.q :
          CoilArray[(r.a + k - 1) % U16] = OnOff(Coil((r.a + k - 1) % U16))
    BY <2>1 DEF CoilArray
  <2> QED
    BY <1>6, <2>1, <2>2
<1>8. CoilArray' = CoilArray
  BY <1>5, Zenon DEF CoilArray, OnOff
<1> QED
  BY <1>2, <1>3, <1>4, <1>7, <1>8 DEF Bank!ReadCoils, CoilArray, Reg

(* Three and four read registers.                                          *)
LEMMA ReadRegsStep ==
  ASSUME Maps', NEW r \in Requests, Proper(r), request' = r, reply_f3(r)
  PROVE  Bank!ReadRegs(Meaning(r))
<1>1. /\ r.a \in 0 .. U16 - 1 /\ r.q \in Nat
  BY Sizes
<1>2. PICK m : m = Meaning(r)
  OBVIOUS
<1>3. /\ r.fc \in {3, 4} /\ m_coils' = m_coils
      /\ m_regs' = Touched(m_regs, r.a, r.q, 0)
      /\ reply' = << (2 * r.q) % U8 >> \o Registers(m_regs', r.a, r.q)
  BY DEF reply_f3, ReadRegs
<1>4. m.op = "read regs" /\ m.at = r.a /\ m.n = r.q
  BY <1>2, <1>3, MeaningOf
<1>5. \A x : Reg(x)' = Reg(x)
  BY <1>3, TouchedKeeps DEF Reg, Value
<1>6. Answer' = [k \in 1 .. r.q |-> Reg((r.a + k - 1) % U16)']
  BY <1>3, TouchedHas, ReadAnswer
<1>7. Answer' = Bank!Cells(RegArray, r.a, r.q)
  <2>1. /\ Bank!Cells(RegArray, r.a, r.q) =
             [k \in 1 .. r.q |-> RegArray[(r.a + k - 1) % U16]]
        /\ \A k \in 1 .. r.q : (r.a + k - 1) % U16 \in 0 .. U16 - 1
    BY <1>1, BankCells, ZenonT(30)
  <2>2. \A k \in 1 .. r.q :
          RegArray[(r.a + k - 1) % U16] = Reg((r.a + k - 1) % U16)'
    BY <1>5, <2>1 DEF RegArray
  <2> QED
    BY <1>6, <2>1, <2>2
<1>8. RegArray' = RegArray
  BY <1>5 DEF RegArray
<1> QED
  BY <1>2, <1>3, <1>4, <1>7, <1>8 DEF Bank!ReadRegs, RegArray, Coil

(* The write comes before the read.                                        *)
LEMMA WriteAndReadStep ==
  ASSUME Maps', NEW r \in Requests, Proper(r), request' = r, reply_f23(r)
  PROVE  Bank!WriteAndReadRegs(Meaning(r))
<1>1. /\ r.a \in 0 .. U16 - 1 /\ r.q \in Nat /\ U16 \in Nat /\ U16 > 0
      /\ r.wa \in 0 .. U16 - 1 /\ r.wq \in 0 .. U16 - 1
  BY Sizes
<1>2. PICK m : m = Meaning(r)
  OBVIOUS
<1>3. PICK beyond \in Beyond(r.data) :
        /\ m_regs' = Touched(Stored(m_regs, r.wa, Words(r.wq, r.data, beyond)),
                             r.a, r.q, 0)
        /\ reply' = << (2 * r.q) % U8 >> \o Registers(m_regs', r.a, r.q)
  BY WriteRegsStores DEF reply_f23, ReadRegs
<1>4. r.fc = 23 /\ m_coils' = m_coils
  BY DEF reply_f23
<1>5. /\ m.op = "write and read regs" /\ m.at = r.a /\ m.n = r.q /\ m.to = r.wa
      /\ m.values = Values(r, r.wq)
  BY <1>2, <1>4, MeaningOf
<1>6. RegArray' = Bank!Store(RegArray, m.to, m.values)
  <2>1. PICK q \in 0 .. U16 - 1 : q = r.wq
    BY <1>1
  <2>2. Len(r.data) = 2 * q
    BY <1>4, <2>1 DEF Proper
  <2>3. PICK vs : vs = Values(r, q)
    OBVIOUS
  <2>4. Words(q, r.data, beyond) = vs /\ Len(vs) = q
    BY <2>2, <2>3, ValuesStored
  <2>5. PICK map : map = Stored(m_regs, r.wa, vs)
    OBVIOUS
  <2>6. q \in 0 .. U16 /\ m_regs' = Touched(map, r.a, r.q, 0)
    BY <1>1, <1>3, <2>1, <2>4, <2>5
  <2>7. [x \in 0 .. U16 - 1 |-> Value(map, x, 0)] = Bank!Store(RegArray, r.wa, vs)
    BY <1>1, <2>4, <2>5, <2>6, RegsStored
  <2>8. \A x : Value(m_regs', x, 0) = Value(map, x, 0)
    BY <2>6, TouchedKeeps
  <2>9. RegArray' = [x \in 0 .. U16 - 1 |-> Value(m_regs', x, 0)]
    BY DEF RegArray, Reg, Value
  <2> QED
    BY <1>5, <2>1, <2>3, <2>7, <2>8, <2>9
<1>7. Answer' = [k \in 1 .. r.q |-> Reg((r.a + k - 1) % U16)']
  BY <1>3, <1>4, TouchedHas, ReadAnswer
<1>8. Answer' = Bank!Cells(RegArray', r.a, r.q)
  <2>1. /\ Bank!Cells(RegArray', r.a, r.q) =
             [k \in 1 .. r.q |-> RegArray'[(r.a + k - 1) % U16]]
        /\ \A k \in 1 .. r.q : (r.a + k - 1) % U16 \in 0 .. U16 - 1
    BY <1>1, BankCells, ZenonT(30)
  <2>2. \A k \in 1 .. r.q :
          RegArray'[(r.a + k - 1) % U16] = Reg((r.a + k - 1) % U16)'
    BY <2>1 DEF RegArray
  <2> QED
    BY <1>7, <2>1, <2>2
<1> QED
  BY <1>2, <1>4, <1>5, <1>6, <1>8 DEF Bank!WriteAndReadRegs, RegArray, Coil

(* Every proper request is one step of the bank, with the answer the bank  *)
(* gives, after whatever requests came before; for every size of a byte.   *)
THEOREM BankHolds == Spec => IsBank
<1> DEFINE Step == Proper(request') => Bank!Next
<1>1. Init => Bank!Init
  <2> SUFFICES ASSUME Init PROVE Bank!Init
    OBVIOUS
  <2>1. \A x : Coil(x) = FALSE /\ Reg(x) = 0
    BY DEF Init, Coil, Reg
  <2>2. \A x : OnOff(Coil(x)) = 0
    BY <2>1 DEF OnOff
  <2>3. Answer = << >>
    BY DEF Init, Answer
  <2> QED
    BY <2>1, <2>2, <2>3 DEF Bank!Init
<1>2. ASSUME Maps', NEW r \in Requests, on_pdu(r), Proper(r)
      PROVE  Bank!Next
  <2>1. request' = r
    BY <1>2 DEF on_pdu
  <2>2. Meaning(r) \in {Meaning(t) : t \in {s \in Requests : Proper(s)}}
    BY <1>2
  <2>3. \/ Bank!ReadCoils(Meaning(r)) \/ Bank!ReadRegs(Meaning(r))
        \/ Bank!WriteCoils(Meaning(r)) \/ Bank!WriteRegs(Meaning(r))
        \/ Bank!WriteAndReadRegs(Meaning(r))
    BY <1>2, <2>1, ReadCoilsStep, ReadRegsStep, WriteCoilsStep, WriteRegsStep, WriteAndReadStep
       DEF on_pdu
  <2> QED
    BY <2>2, <2>3 DEF Bank!Next
<1>3. Maps /\ Maps' /\ [Next]_vars => [Step]_vars
  <2>1. ASSUME Maps', Next PROVE Step
    <3>1. PICK r \in Requests : on_pdu(r)
      BY <2>1 DEF Next
    <3>2. request' = r
      BY <3>1 DEF on_pdu
    <3> QED
      BY <1>2, <2>1, <3>1, <3>2
  <2> QED
    BY <2>1
<1> QED
  BY <1>1, <1>3, MapsCorrect, PTL DEF Spec, IsBank

-------------------------------------------------------------------------------
(* The bytes of the replies.                                               *)
Bytes(s) == \A i \in 1 .. Len(s) : s[i] \in 0 .. U8 - 1

(* With address, code and CRC they fit the output buffer.                  *)
HasRoom(s) == Len(s) + 4 <= BUF_SIZE

(* The halves of a word are bytes.                                         *)
LEMMA HalvesBytes ==
  ASSUME NEW r \in Requests, NEW w \in 0 .. U16 - 1
  PROVE  \E h, l \in 0 .. U8 - 1 : get_hi_lo(w) = << h, l >>
<1>1. PICK u \in Nat : u = U8 /\ U16 = u * u /\ u > 0
  BY Sizes
<1>2. u * u \in Nat /\ w \in Nat /\ w < u * u
  BY <1>1
<1>3. PICK h \in Nat, l \in Nat : h = w \div u /\ l = w % u
  BY <1>1, <1>2
<1>4. l <= u - 1
  BY <1>1, <1>2, <1>3
<1>5. u * h + l = w
  BY <1>1, <1>2, <1>3
<1>6. u * h < u * u
  BY <1>1, <1>2, <1>3, <1>5
<1>7. h < u
  BY <1>1, <1>3, <1>6
<1>8. h \in 0 .. U8 - 1 /\ l \in 0 .. U8 - 1
  BY <1>1, <1>3, <1>4, <1>7
<1>9. get_hi_lo(w) = << h, l >>
  BY <1>1, <1>3 DEF get_hi_lo
<1> QED
  BY <1>8, <1>9

(* A reply to a write is made of an address and a quantity, four bytes.    *)
LEMMA MirrorBytes ==
  ASSUME NEW r \in Requests, NEW s, s = get_hi_lo(r.a) \o get_hi_lo(r.q)
  PROVE  Bytes(s) /\ Len(s) = 4
<1>1. r.a \in 0 .. U16 - 1 /\ r.q \in 0 .. U16 - 1
  BY Sizes
<1>2. PICK ha, la \in 0 .. U8 - 1 : get_hi_lo(r.a) = << ha, la >>
  BY <1>1, HalvesBytes
<1>3. PICK hq, lq \in 0 .. U8 - 1 : get_hi_lo(r.q) = << hq, lq >>
  BY <1>1, HalvesBytes
<1>4. s = << ha, la >> \o << hq, lq >>
  BY <1>2, <1>3
<1>5. Len(s) = 4 /\ s[1] = ha /\ s[2] = la /\ s[3] = hq /\ s[4] = lq
  BY <1>4, FourBytes
<1>6. \A i \in 1 .. 4 : i = 1 \/ i = 2 \/ i = 3 \/ i = 4
  OBVIOUS
<1>7. ha \in 0 .. U8 - 1 /\ la \in 0 .. U8 - 1 /\ hq \in 0 .. U8 - 1 /\ lq \in 0 .. U8 - 1
  OBVIOUS
<1>8. \A i \in 1 .. 4 : s[i] \in 0 .. U8 - 1
  BY <1>5, <1>6, <1>7, Zenon
<1> QED
  BY <1>5, <1>8 DEF Bytes

(* A reply to a read is made of a byte count and registers of two bytes.   *)
LEMMA RegistersBytes ==
  ASSUME Maps', NEW r \in Requests, NEW s,
         Run(r.a, r.q) \subseteq DOMAIN m_regs',
         s = << (2 * r.q) % U8 >> \o Registers(m_regs', r.a, r.q)
  PROVE  Bytes(s) /\ Len(s) = 1 + 2 * r.q
<1>1. PICK u \in Nat, q \in Nat, a \in Nat :
        u = U8 /\ u > 0 /\ q = r.q /\ a = r.a
  BY Sizes
<1>2. PICK rs : rs = Registers(m_regs', r.a, r.q)
  OBVIOUS
<1>3. rs = [j \in 1 .. 2 * q |->
              get_hi_lo(m_regs'[(a + (j - 1) \div 2) % U16])[IF j % 2 = 1 THEN 1 ELSE 2]]
  BY <1>1, <1>2 DEF Registers
<1>4. ASSUME NEW j \in 1 .. 2 * q PROVE rs[j] \in 0 .. u - 1
  <2>1. (j - 1) \div 2 \in 0 .. q - 1
    BY <1>1
  <2>2. PICK x : x = (a + (j - 1) \div 2) % U16
    OBVIOUS
  <2>3. x \in Run(r.a, r.q)
    BY <1>1, <2>1, <2>2 DEF Run
  <2>4. m_regs'[x] \in 0 .. U16 - 1
    BY <2>3 DEF Maps
  <2>5. PICK h, l \in 0 .. U8 - 1 : get_hi_lo(m_regs'[x]) = << h, l >>
    BY <2>4, HalvesBytes
  <2>6. PICK i \in {1, 2} : i = IF j % 2 = 1 THEN 1 ELSE 2
    OBVIOUS
  <2>7. rs[j] = << h, l >>[i]
    BY <1>3, <2>2, <2>5, <2>6
  <2> QED
    BY <1>1, <2>5, <2>6, <2>7
<1>5. Len(rs) = 2 * q /\ rs \in Seq(Int) /\ 2 * q \in Nat
  <2>1. 2 * q \in Nat
    BY <1>1, DoubleType
  <2>2. ASSUME NEW j \in 1 .. 2 * q PROVE rs[j] \in Int
    BY <1>1, <1>4
  <2> QED
    BY <1>3, <2>1, <2>2
<1>6. PICK c \in 0 .. u - 1 : c = (2 * r.q) % U8
  BY <1>1, DoubleType
<1>7. s = << c >> \o rs
  BY <1>2, <1>6
<1>8. /\ s[1] = c /\ Len(s) = 1 + 2 * q
      /\ \A j \in 1 .. 2 * q : s[j + 1] = rs[j]
  BY <1>5, <1>6, <1>7, InFront
<1>9. ASSUME NEW i \in 1 .. Len(s) PROVE s[i] \in 0 .. u - 1
  <2>1. CASE i = 1
    BY <1>6, <1>8, <2>1
  <2>2. CASE i # 1
    <3>1. PICK j \in 1 .. 2 * q : i = j + 1
      <4>1. i - 1 \in 1 .. 2 * q /\ i = (i - 1) + 1
        BY <1>5, <1>8, <2>2
      <4> QED
        BY <4>1
    <3> QED
      BY <1>4, <1>8, <3>1
  <2> QED
    BY <2>1, <2>2
<1> QED
  BY <1>1, <1>8, <1>9 DEF Bytes

(* A reply to a read of coils is made of a byte count and packed bytes, as *)
(* many as the coils need.                                                 *)
LEMMA CoilsBytes ==
  ASSUME NEW r \in Requests, NEW s, s = << CoilBytes(r.q) >> \o Packed(r.a, r.q)
  PROVE  Bytes(s) /\ Len(s) = 1 + (r.q + Bits - 1) \div Bits
<1>1. PICK u, l, p : /\ u = U8 /\ l = (r.q + Bits - 1) \div Bits
                     /\ p = Packed(r.a, r.q)
  BY Sizes
<1>2. PICK c \in 0 .. u - 1 : c = CoilBytes(r.q)
  BY <1>1, CoilBytesSays
<1>3. p \in Seq(0 .. u - 1) /\ Len(p) = l /\ l \in Nat
  BY <1>1, PackedSays
<1>4. s = << c >> \o p
  BY <1>1, <1>2
<1>5. << c >> \in Seq(0 .. u - 1)
  OBVIOUS
<1>6. s \in Seq(0 .. u - 1)
  BY <1>3, <1>4, <1>5, Numbers!ConcatProperties, ZenonT(30)
<1>7. \A i \in 1 .. Len(s) : s[i] \in 0 .. u - 1
  BY <1>6, ElementType
<1>8. Len(s) = 1 + l
  BY <1>3, <1>4
<1> QED
  BY <1>1, <1>7, <1>8 DEF Bytes

(* Whatever a request says, the maps hold words and what is answered is    *)
(* bytes, those that do not add up to an answer included, none beyond the  *)
(* output buffer, if the requests are those whose reply it has room for.   *)
THEOREM TypeCorrect == Spec => []TypeOK
<1> DEFINE Known == request \in Requests \cup {NoRequest}
           Inv == Known /\ Bytes(reply) /\ (reply # << >> => HasRoom(reply))
<1>1. Init => Inv
  BY DEF Init, Bytes
<1>2. ASSUME Maps', NEW r \in Requests, on_pdu(r)
      PROVE  Bytes(reply') /\ HasRoom(reply')
  <2>1. CASE reply_f3(r) \/ reply_f23(r)
    <3>1. PICK map : /\ m_regs' = Touched(map, r.a, r.q, 0)
                     /\ reply' = << (2 * r.q) % U8 >> \o Registers(m_regs', r.a, r.q)
      BY <2>1 DEF reply_f3, reply_f23, ReadRegs
    <3>2. Bytes(reply') /\ Len(reply') = 1 + 2 * r.q
      BY <1>2, <3>1, TouchedHas, RegistersBytes
    <3>3. r.fc \in {3, 4, 23}
      BY <2>1 DEF reply_f3, reply_f23
    <3>4. ReplyLength(r) = 5 + 2 * r.q
      BY <3>3 DEF ReplyLength
    <3>5. PICK n \in Nat : n = 2 * r.q
      BY Sizes, DoubleType
    <3>6. 5 + n <= BUF_SIZE
      BY <3>4, <3>5, FitsAssumption
    <3>7. (1 + n) + 4 <= BUF_SIZE
      BY <3>6, FitsAssumption
    <3> QED
      BY <3>2, <3>5, <3>7 DEF HasRoom
  <2>2. CASE reply_f5(r) \/ reply_f6(r) \/ reply_f15(r) \/ reply_f16(r)
    <3>1. reply' = get_hi_lo(r.a) \o get_hi_lo(r.q)
      BY <2>2 DEF reply_f5, reply_f6, reply_f15, reply_f16, Mirror
    <3>2. Bytes(reply') /\ Len(reply') = 4
      BY <3>1, MirrorBytes
    <3>3. r.fc \in {5, 6, 15, 16}
      BY <2>2 DEF reply_f5, reply_f6, reply_f15, reply_f16
    <3>4. ReplyLength(r) = 8
      BY <3>3 DEF ReplyLength
    <3>5. 4 + 4 <= BUF_SIZE
      BY <3>4, FitsAssumption
    <3> QED
      BY <3>2, <3>5 DEF HasRoom
  <2>3. CASE reply_f1(r)
    <3>1. Bytes(reply') /\ Len(reply') = 1 + (r.q + Bits - 1) \div Bits
      BY <2>3, CoilsBytes DEF reply_f1
    <3>2. r.fc \in {1, 2}
      BY <2>3 DEF reply_f1
    <3>3. PICK l \in Int : l = (r.q + Bits - 1) \div Bits
      BY Sizes, PackedSays
    <3>4. ReplyLength(r) = 5 + l
      BY <3>2, <3>3 DEF ReplyLength
    <3>5. 5 + l <= BUF_SIZE
      BY <3>4, FitsAssumption
    <3>6. (1 + l) + 4 <= BUF_SIZE
      BY <3>5, FitsAssumption
    <3> QED
      BY <3>1, <3>3, <3>6 DEF HasRoom
  <2> QED
    BY <1>2, <2>1, <2>2, <2>3 DEF on_pdu
<1>3. Inv /\ Maps' /\ [Next]_vars => Inv'
  <2> SUFFICES ASSUME Inv, Maps', [Next]_vars PROVE Inv'
    OBVIOUS
  <2>1. CASE UNCHANGED vars
    BY <2>1 DEF vars, Bytes, HasRoom
  <2>2. ASSUME NEW r \in Requests, on_pdu(r) PROVE Inv'
    <3>1. request' = r
      BY <2>2 DEF on_pdu
    <3>2. Bytes(reply') /\ HasRoom(reply')
      BY <1>2, <2>2
    <3> QED
      BY <3>1, <3>2 DEF Bytes, HasRoom
  <2> QED
    BY <2>1, <2>2 DEF Next
<1>4. Inv /\ Maps => TypeOK
  BY DEF TypeOK, Bytes, HasRoom
<1> QED
  BY <1>1, <1>3, <1>4, MapsCorrect, PTL DEF Spec

-------------------------------------------------------------------------------
(* The checksum at the end of a reply (module Crc16).                      *)

(* Exclusive or, bit by bit.                                               *)
LEMMA XorUnfolds ==
  /\ \A x, y \in Nat : Xor[0][x][y] = 0
  /\ \A n \in 0 .. 15 : \A x, y \in Nat :
       Xor[n + 1][x][y] = (2 * Xor[n][x \div 2][y \div 2]) + ((x + y) % 2)
<1> DEFINE table(f, n) ==
             [x \in Nat |-> [y \in Nat |->
                IF n = 0 THEN 0
                ELSE (2 * f[n - 1][x \div 2][y \div 2]) + ((x + y) % 2)]]
           Bitwise(f, k) == f = [n \in 0 .. k |-> table(f, n)]
           T == {k \in 0 .. 16 : \E f : Bitwise(f, k)}
<1>1. 0 \in T
  <2> DEFINE f == [n \in 0 .. 0 |-> [x \in Nat |-> [y \in Nat |-> 0]]]
  <2>1. \A n \in 0 .. 0 : n = 0
    OBVIOUS
  <2>2. Bitwise(f, 0)
    BY <2>1
  <2>3. 0 \in 0 .. 16
    OBVIOUS
  <2> HIDE DEF Bitwise
  <2> QED
    BY <2>2, <2>3
<1>2. ASSUME NEW k \in 0 .. 16, k \in T, k + 1 \in 0 .. 16
      PROVE  k + 1 \in T
  <2>1. PICK g : Bitwise(g, k)
    BY <1>2
  <2> DEFINE f == [n \in 0 .. k + 1 |-> IF n = k + 1 THEN table(g, k + 1) ELSE g[n]]
  <2>2. ASSUME NEW n \in 0 .. k + 1
        PROVE  f[n] = table(f, n)
    <3>1. CASE n = k + 1
      <4>1. n # 0 /\ n - 1 \in 0 .. k + 1 /\ n - 1 # k + 1
        BY <3>1
      <4>2. f[n - 1] = g[n - 1]
        BY <4>1
      <4>3. f[n] = table(g, n)
        BY <3>1
      <4> HIDE DEF f
      <4> QED
        BY <4>2, <4>3
    <3>2. CASE n # k + 1 /\ n # 0
      <4>1. n \in 0 .. k /\ n - 1 \in 0 .. k + 1 /\ n - 1 # k + 1
        BY <3>2
      <4>2. f[n - 1] = g[n - 1] /\ f[n] = g[n]
        BY <3>2, <4>1
      <4> HIDE DEF f
      <4>3. g[n] = table(g, n)
        BY <2>1, <4>1
      <4> QED
        BY <4>2, <4>3
    <3>3. CASE n = 0
      <4>1. 0 \in 0 .. k /\ 0 # k + 1
        OBVIOUS
      <4>2. f[n] = g[0]
        BY <3>3, <4>1
      <4>3. g[0] = table(g, 0)
        BY <2>1, <4>1
      <4>4. table(g, 0) = table(f, 0)
        OBVIOUS
      <4> QED
        BY <3>3, <4>2, <4>3, <4>4
    <3> QED
      BY <3>1, <3>2, <3>3
  <2>3. f = [n \in 0 .. k + 1 |-> f[n]]
    OBVIOUS
  <2> HIDE DEF f
  <2>4. Bitwise(f, k + 1)
    <3> HIDE DEF table
    <3> QED
      BY <2>2, <2>3
  <2> HIDE DEF Bitwise
  <2> QED
    BY <1>2, <2>4
<1>3. \E f : Bitwise(f, 16)
  <2>1. 0 .. 16 \subseteq T
    <3> HIDE DEF T
    <3>1. 16 \in Nat
      OBVIOUS
    <3> QED
      BY <1>1, <1>2, <3>1, Numbers!FromZero
  <2>2. 16 \in 0 .. 16
    OBVIOUS
  <2> QED
    BY <2>1, <2>2
<1>4. Bitwise(Xor, 16)
  <2>1. Xor = CHOOSE f : Bitwise(f, 16)
    BY Zenon DEF Xor
  <2> HIDE DEF Bitwise
  <2> QED
    BY <1>3, <2>1, Zenon
<1>5. \A n \in 0 .. 16 : Xor[n] = table(Xor, n)
  <2> HIDE DEF table
  <2> QED
    BY <1>4
<1>6. ASSUME NEW x \in Nat, NEW y \in Nat
      PROVE  Xor[0][x][y] = 0
  <2>1. 0 \in 0 .. 16
    OBVIOUS
  <2>2. Xor[0] = table(Xor, 0)
    BY <1>5, <2>1
  <2>3. table(Xor, 0)[x][y] = 0
    OBVIOUS
  <2> HIDE DEF table
  <2> QED
    BY <2>2, <2>3
<1>7. ASSUME NEW n \in 0 .. 15, NEW x \in Nat, NEW y \in Nat
      PROVE  Xor[n + 1][x][y] =
               (2 * Xor[n][x \div 2][y \div 2]) + ((x + y) % 2)
  <2>1. n + 1 \in 0 .. 16 /\ n + 1 # 0 /\ (n + 1) - 1 = n
    OBVIOUS
  <2>2. Xor[n + 1] = table(Xor, n + 1)
    BY <1>5, <2>1
  <2> QED
    BY <2>1, <2>2
<1> QED
  BY <1>6, <1>7

Added(n, x, y) == Xor[n][x][y]

(* Width by width.                                                         *)
LEMMA AddedUnfolds ==
  /\ \A x, y \in Nat : Added(0, x, y) = 0
  /\ \A n \in 0 .. 15 : \A x, y \in Nat :
       Added(n + 1, x, y) = (2 * Added(n, x \div 2, y \div 2)) + ((x + y) % 2)
BY XorUnfolds DEF Added

(* It yields numbers ...                                                   *)
LEMMA XorType ==
  \A n \in 0 .. 16 : \A x, y \in Nat : Added(n, x, y) \in Nat
<1> DEFINE T == {n \in 0 .. 16 : \A x, y \in Nat : Added(n, x, y) \in Nat}
<1>1. 0 \in T
  <2>1. 0 \in 0 .. 16
    OBVIOUS
  <2>2. \A x, y \in Nat : Added(0, x, y) = 0
    BY AddedUnfolds
  <2> QED
    BY <2>1, <2>2
<1>2. ASSUME NEW n \in 0 .. 16, n \in T, n + 1 \in 0 .. 16
      PROVE  n + 1 \in T
  <2>1. ASSUME NEW x \in Nat, NEW y \in Nat PROVE Added(n + 1, x, y) \in Nat
    <3>1. n \in 0 .. 15 /\ x \div 2 \in Nat /\ y \div 2 \in Nat /\ (x + y) % 2 \in Nat
      BY <1>2
    <3>2. PICK v \in Nat : v = Added(n, x \div 2, y \div 2)
      BY <1>2, <3>1
    <3>3. Added(n + 1, x, y) = (2 * v) + ((x + y) % 2)
      BY <3>1, <3>2, AddedUnfolds
    <3> QED
      BY <3>1, <3>3
  <2> QED
    BY <1>2, <2>1
<1>3. 0 .. 16 \subseteq T
  <2> HIDE DEF T
  <2>1. 16 \in Nat
    OBVIOUS
  <2> QED
    BY <1>1, <1>2, <2>1, Numbers!FromZero
<1> QED
  BY <1>3

(* ... and commutes.                                                       *)
LEMMA XorCommutes ==
  \A n \in 0 .. 16 : \A x, y \in Nat : Added(n, x, y) = Added(n, y, x)
<1> DEFINE T == {n \in 0 .. 16 : \A x, y \in Nat : Added(n, x, y) = Added(n, y, x)}
<1>1. 0 \in T
  <2>1. 0 \in 0 .. 16
    OBVIOUS
  <2>2. \A x, y \in Nat : Added(0, x, y) = 0
    BY AddedUnfolds
  <2> QED
    BY <2>1, <2>2
<1>2. ASSUME NEW n \in 0 .. 16, n \in T, n + 1 \in 0 .. 16
      PROVE  n + 1 \in T
  <2>1. ASSUME NEW x \in Nat, NEW y \in Nat
        PROVE  Added(n + 1, x, y) = Added(n + 1, y, x)
    <3>1. n \in 0 .. 15 /\ x \div 2 \in Nat /\ y \div 2 \in Nat /\ x + y = y + x
      BY <1>2
    <3>2. Added(n, x \div 2, y \div 2) = Added(n, y \div 2, x \div 2)
      BY <1>2, <3>1
    <3>3. Added(n + 1, x, y) =
            (2 * Added(n, x \div 2, y \div 2)) + ((x + y) % 2)
      BY <3>1, AddedUnfolds
    <3>4. Added(n + 1, y, x) =
            (2 * Added(n, y \div 2, x \div 2)) + ((y + x) % 2)
      BY <3>1, AddedUnfolds
    <3> QED
      BY <3>1, <3>2, <3>3, <3>4
  <2> QED
    BY <1>2, <2>1
<1>3. 0 .. 16 \subseteq T
  <2> HIDE DEF T
  <2>1. 16 \in Nat
    OBVIOUS
  <2> QED
    BY <1>1, <1>2, <2>1, Numbers!FromZero
<1> QED
  BY <1>3

(* Of n bits it is less than b, nothing is added by 0, and what is added   *)
(* can be taken away again.                                                *)
Exclusive(n, b) ==
  /\ \A x, y \in Nat : Added(n, x, y) < b
  /\ \A x \in Nat : x < b => Added(n, x, 0) = x
  /\ \A x, y, z \in Nat :
       x < b /\ y < b /\ Added(n, x, z) = Added(n, y, z) => x = y

(* With one more bit twice as much.                                        *)
LEMMA OneMoreBit ==
  ASSUME NEW n \in 0 .. 15, NEW b \in Nat, Exclusive(n, b)
  PROVE  Exclusive(n + 1, 2 * b)
<1>1. ASSUME NEW x \in Nat, NEW y \in Nat
      PROVE  \E v \in Nat : /\ v = Added(n, x \div 2, y \div 2) /\ v < b
                            /\ Added(n + 1, x, y) = (2 * v) + ((x + y) % 2)
  <2>1. x \div 2 \in Nat /\ y \div 2 \in Nat /\ n \in 0 .. 16
    OBVIOUS
  <2>2. PICK v \in Nat : v = Added(n, x \div 2, y \div 2)
    BY <2>1, XorType
  <2>3. v < b
    BY <2>1, <2>2 DEF Exclusive
  <2>4. Added(n + 1, x, y) =
          (2 * Added(n, x \div 2, y \div 2)) + ((x + y) % 2)
    BY AddedUnfolds
  <2> QED
    BY <2>2, <2>3, <2>4
<1>2. ASSUME NEW x \in Nat, NEW y \in Nat PROVE Added(n + 1, x, y) < 2 * b
  <2>1. PICK v \in Nat : v < b /\ Added(n + 1, x, y) = (2 * v) + ((x + y) % 2)
    BY <1>1
  <2> QED
    BY <2>1
<1>3. ASSUME NEW x \in Nat, x < 2 * b PROVE Added(n + 1, x, 0) = x
  <2>1. PICK v \in Nat : /\ v = Added(n, x \div 2, 0 \div 2)
                         /\ Added(n + 1, x, 0) = (2 * v) + ((x + 0) % 2)
    BY <1>1
  <2>2. x \div 2 \in Nat /\ x \div 2 < b /\ 0 \div 2 = 0
    BY <1>3
  <2>3. v = x \div 2
    BY <2>1, <2>2 DEF Exclusive
  <2> QED
    BY <2>1, <2>3
<1>4. ASSUME NEW x \in Nat, NEW y \in Nat, NEW z \in Nat, x < 2 * b, y < 2 * b,
             Added(n + 1, x, z) = Added(n + 1, y, z)
      PROVE  x = y
  <2>1. PICK v \in Nat : /\ v = Added(n, x \div 2, z \div 2)
                         /\ Added(n + 1, x, z) = (2 * v) + ((x + z) % 2)
    BY <1>1
  <2>2. PICK w \in Nat : /\ w = Added(n, y \div 2, z \div 2)
                         /\ Added(n + 1, y, z) = (2 * w) + ((y + z) % 2)
    BY <1>1
  <2>3. (2 * v) + ((x + z) % 2) = (2 * w) + ((y + z) % 2)
    BY <1>4, <2>1, <2>2
  <2>4. v = w /\ (x + z) % 2 = (y + z) % 2
    BY <2>3
  <2>5. /\ x \div 2 \in Nat /\ y \div 2 \in Nat /\ z \div 2 \in Nat
        /\ x \div 2 < b /\ y \div 2 < b
    BY <1>4
  <2>6. x \div 2 = y \div 2
    <3>1. Added(n, x \div 2, z \div 2) = Added(n, y \div 2, z \div 2)
      BY <2>1, <2>2, <2>4
    <3>2. \A i, j, k \in Nat :
            i < b /\ j < b /\ Added(n, i, k) = Added(n, j, k) => i = j
      BY DEF Exclusive
    <3> HIDE DEF Exclusive
    <3> QED
      BY <2>5, <3>1, <3>2
  <2>7. x % 2 = y % 2
    BY <2>4
  <2> QED
    BY <2>6, <2>7
<1> QED
  BY <1>2, <1>3, <1>4 DEF Exclusive

(* ... which gives every width.                                           *)
LEMMA Widths ==
  /\ Exclusive(5, 32) /\ Exclusive(7, 128) /\ Exclusive(8, 256) /\ Exclusive(9, 512)
  /\ Exclusive(15, 32768) /\ Exclusive(16, 65536)
<1>0. Exclusive(0, 1)
  <2>1. \A x, y \in Nat : Added(0, x, y) = 0
    BY AddedUnfolds
  <2>2. \A x \in Nat : x < 1 => x = 0
    OBVIOUS
  <2>3. \A x, y \in Nat : Added(0, x, y) < 1
    BY <2>1
  <2>4. \A x \in Nat : x < 1 => Added(0, x, 0) = x
    BY <2>1, <2>2
  <2>5. \A x, y, z \in Nat :
          x < 1 /\ y < 1 /\ Added(0, x, z) = Added(0, y, z) => x = y
    BY <2>2
  <2> QED
    BY <2>3, <2>4, <2>5, Zenon DEF Exclusive
<1>1. Exclusive(1, 2)
  <2>1. Exclusive(0 + 1, 2 * 1)
    BY <1>0, OneMoreBit
  <2> QED
    BY <2>1
<1>2. Exclusive(2, 4)
  <2>1. Exclusive(1 + 1, 2 * 2)
    BY <1>1, OneMoreBit
  <2> QED
    BY <2>1
<1>3. Exclusive(3, 8)
  <2>1. Exclusive(2 + 1, 2 * 4)
    BY <1>2, OneMoreBit
  <2> QED
    BY <2>1
<1>4. Exclusive(4, 16)
  <2>1. Exclusive(3 + 1, 2 * 8)
    BY <1>3, OneMoreBit
  <2> QED
    BY <2>1
<1>5. Exclusive(5, 32)
  <2>1. Exclusive(4 + 1, 2 * 16)
    BY <1>4, OneMoreBit
  <2> QED
    BY <2>1
<1>6. Exclusive(6, 64)
  <2>1. Exclusive(5 + 1, 2 * 32)
    BY <1>5, OneMoreBit
  <2> QED
    BY <2>1
<1>7. Exclusive(7, 128)
  <2>1. Exclusive(6 + 1, 2 * 64)
    BY <1>6, OneMoreBit
  <2> QED
    BY <2>1
<1>8. Exclusive(8, 256)
  <2>1. Exclusive(7 + 1, 2 * 128)
    BY <1>7, OneMoreBit
  <2> QED
    BY <2>1
<1>9. Exclusive(9, 512)
  <2>1. Exclusive(8 + 1, 2 * 256)
    BY <1>8, OneMoreBit
  <2> QED
    BY <2>1
<1>10. Exclusive(10, 1024)
  <2>1. Exclusive(9 + 1, 2 * 512)
    BY <1>9, OneMoreBit
  <2> QED
    BY <2>1
<1>11. Exclusive(11, 2048)
  <2>1. Exclusive(10 + 1, 2 * 1024)
    BY <1>10, OneMoreBit
  <2> QED
    BY <2>1
<1>12. Exclusive(12, 4096)
  <2>1. Exclusive(11 + 1, 2 * 2048)
    BY <1>11, OneMoreBit
  <2> QED
    BY <2>1
<1>13. Exclusive(13, 8192)
  <2>1. Exclusive(12 + 1, 2 * 4096)
    BY <1>12, OneMoreBit
  <2> QED
    BY <2>1
<1>14. Exclusive(14, 16384)
  <2>1. Exclusive(13 + 1, 2 * 8192)
    BY <1>13, OneMoreBit
  <2> QED
    BY <2>1
<1>15. Exclusive(15, 32768)
  <2>1. Exclusive(14 + 1, 2 * 16384)
    BY <1>14, OneMoreBit
  <2> QED
    BY <2>1
<1>16. Exclusive(16, 65536)
  <2>1. Exclusive(15 + 1, 2 * 32768)
    BY <1>15, OneMoreBit
  <2> QED
    BY <2>1
<1> QED
  BY <1>5, <1>7, <1>8, <1>9, <1>15, <1>16

Byte == 0 .. 255

(* So it is of bytes.                                                      *)
LEMMA XorOfBytes ==
  /\ \A x, y \in Byte : XorByte(x, y) \in Byte
  /\ \A x \in Byte : XorByte(x, 0) = x
  /\ \A x, y, z \in Byte : XorByte(x, z) = XorByte(y, z) => x = y
  /\ \A x, y, z \in Byte : XorByte(z, x) = XorByte(z, y) => x = y
<1>1. Exclusive(8, 256)
  BY Widths
<1>2. \A x \in Byte : x \in Nat /\ x < 256
  BY DEF Byte
<1>3. ASSUME NEW x \in Byte, NEW y \in Byte
       PROVE  XorByte(x, y) \in Byte
  <2>1. 8 \in 0 .. 16 /\ x \in Nat /\ y \in Nat
    BY DEF Byte
  <2>2. Added(8, x, y) \in Nat
    BY <2>1, XorType
  <2>3. Added(8, x, y) < 256
    BY <1>1, <2>1 DEF Exclusive
  <2>4. PICK w \in Nat : w = Added(8, x, y)
    BY <2>2
  <2>5. w \in Byte
    BY <2>3, <2>4 DEF Byte
  <2>6. XorByte(x, y) = w
    BY <2>4 DEF Added, XorByte
  <2> QED
    BY <2>5, <2>6
<1>4. \A x \in Byte : XorByte(x, 0) = x
  BY <1>1, <1>2 DEF Exclusive, Added, XorByte
<1>5. \A x, y, z \in Byte : XorByte(x, z) = XorByte(y, z) => x = y
  BY <1>1, <1>2 DEF Exclusive, Added, XorByte
<1>6. ASSUME NEW x \in Byte, NEW y \in Byte
       PROVE  XorByte(x, y) = XorByte(y, x)
  <2>1. 8 \in 0 .. 16 /\ x \in Nat /\ y \in Nat
    BY DEF Byte
  <2>2. Added(8, x, y) = Added(8, y, x)
    BY <2>1, XorCommutes
  <2> QED
    BY <2>2 DEF Added, XorByte
<1>7. ASSUME NEW x \in Byte, NEW y \in Byte, NEW z \in Byte,
              XorByte(z, x) = XorByte(z, y)
       PROVE  x = y
  <2>1. XorByte(x, z) = XorByte(z, x) /\ XorByte(y, z) = XorByte(z, y)
    BY <1>6
  <2>2. XorByte(x, z) = XorByte(y, z)
    BY <1>7, <2>1
  <2> QED
    BY <1>5, <2>2
<1> QED
  BY <1>3, <1>4, <1>5, <1>7, Zenon

(* What is added on either side can be taken away.                         *)
LEMMA XorCancels ==
  ASSUME NEW x \in Byte, NEW y \in Byte, NEW z \in Byte,
         \/ XorByte(x, z) = XorByte(y, z)
         \/ XorByte(z, x) = XorByte(z, y)
  PROVE  x = y
<1>1. \A p, q, r \in Byte : XorByte(p, r) = XorByte(q, r) => p = q
  BY XorOfBytes
<1>2. \A p, q, r \in Byte : XorByte(r, p) = XorByte(r, q) => p = q
  BY XorOfBytes
<1> QED
  BY <1>1, <1>2

(* The tables hold bytes, and each byte is in CRCLO once.                  *)
LEMMA TablesOfBytes ==
  /\ \A i \in 1 .. 256 : CRCHI[i] \in Byte
  /\ \A i \in 1 .. 256 : CRCLO[i] \in Byte
  /\ \A i, j \in 1 .. 256 : CRCLO[i] = CRCLO[j] => i = j
<1>1. \A i \in 1 .. 256 : CRCHI[i] \in Byte
  BY SMTT(60) DEF Byte, CRCHI
<1>2. \A i \in 1 .. 256 : CRCLO[i] \in Byte
  BY SMTT(60) DEF Byte, CRCLO
<1>3. \A i, j \in 1 .. 256 : CRCLO[i] = CRCLO[j] => i = j
  BY SMTT(120) DEF CRCLO
<1> QED
  BY <1>1, <1>2, <1>3, Zenon

Halves == Byte \X Byte

(* A round yields two bytes, and of the register and the byte that went in *)
(* it forgets nothing: the low half tells which entry was looked up.       *)
LEMMA RoundForgetsNothing ==
  ASSUME NEW p \in Halves, NEW q \in Halves, NEW x \in Byte, NEW y \in Byte
  PROVE  /\ Round(p, x) \in Halves
         /\ Round(p, x)[2] = Round(q, y)[2] =>
              XorByte(p[1], x) = XorByte(q[1], y)
         /\ Round(p, x) = Round(q, y) =>
              XorByte(p[1], x) = XorByte(q[1], y) /\ p[2] = q[2]
<1> DEFINE i == XorByte(p[1], x)
           j == XorByte(q[1], y)
<1>1. p[1] \in Byte /\ p[2] \in Byte /\ q[1] \in Byte /\ q[2] \in Byte
  BY DEF Halves
<1>2. i \in Byte /\ j \in Byte
  BY <1>1, XorOfBytes, Zenon
<1> HIDE DEF i, j
<1>3. i + 1 \in 1 .. 256 /\ j + 1 \in 1 .. 256 /\ (i + 1 = j + 1 => i = j)
  BY <1>2 DEF Byte
<1>4. /\ CRCHI[i + 1] \in Byte /\ CRCLO[i + 1] \in Byte
      /\ CRCHI[j + 1] \in Byte
  BY <1>3, TablesOfBytes, Zenon
<1>5. /\ Round(p, x) = << XorByte(p[2], CRCHI[i + 1]), CRCLO[i + 1] >>
      /\ Round(q, y) = << XorByte(q[2], CRCHI[j + 1]), CRCLO[j + 1] >>
  BY DEF Round, i, j
<1>6. XorByte(p[2], CRCHI[i + 1]) \in Byte
  BY <1>1, <1>4, XorOfBytes, Zenon
<1>7. Round(p, x) \in Halves
  BY <1>4, <1>5, <1>6 DEF Halves
<1>8. ASSUME Round(p, x)[2] = Round(q, y)[2]
      PROVE  i = j
  <2>1. CRCLO[i + 1] = CRCLO[j + 1]
    BY <1>5, <1>8
  <2> QED
    BY <1>3, <2>1, TablesOfBytes, Zenon
<1>9. ASSUME Round(p, x) = Round(q, y)
      PROVE  i = j /\ p[2] = q[2]
  <2>1. i = j
    BY <1>8, <1>9
  <2>2. XorByte(p[2], CRCHI[i + 1]) = XorByte(q[2], CRCHI[i + 1])
    BY <1>5, <1>9, <2>1
  <2>3. PICK x1 \in Byte, y1 \in Byte, h \in Byte :
          x1 = p[2] /\ y1 = q[2] /\ h = CRCHI[i + 1]
    BY <1>1, <1>4
  <2>4. x1 = y1
    BY <2>2, <2>3, XorCancels
  <2> QED
    BY <2>1, <2>3, <2>4
<1> QED
  BY <1>7, <1>8, <1>9 DEF i, j

(* The two checksums and what the line has done so far: of one damaged     *)
(* byte the low halves tell, of two the one or the other half.             *)
Compared ==
  /\ length \in 0 .. MaxLength /\ crc \in Halves /\ checked \in Halves
  /\ damage \in {"none", "one", "over"}
  /\ damage = "none" => crc = checked
  /\ damage = "one" => crc[2] # checked[2]
  /\ damage = "over" => crc # checked

(* Assumptions of Crc16 on its constants.                                  *)
LEMMA Settings ==
  /\ MaxLength \in Nat
  /\ Alphabet \in [1 .. MaxLength -> SUBSET Byte]
  /\ Masks \subseteq Byte
BY LengthAssumption, AlphabetAssumption, MasksAssumption DEF Byte

(* A mask leaves a byte alone only if it is 0.                             *)
LEMMA MaskShows ==
  ASSUME NEW byte \in Byte, NEW mask \in Byte
  PROVE  XorByte(byte, mask) = byte <=> mask = 0
<1>1. 0 \in Byte
  BY DEF Byte
<1>2. XorByte(byte, 0) = byte
  BY XorOfBytes
<1>3. ASSUME XorByte(byte, mask) = byte PROVE mask = 0
  <2>1. XorByte(byte, mask) = XorByte(byte, 0)
    BY <1>2, <1>3
  <2> QED
    BY <1>1, <2>1, XorCancels
<1> QED
  BY <1>2, <1>3

(* A byte that goes on the line keeps the halves bytes, and however it     *)
(* arrives the comparison tells damage.                                    *)
LEMMA ComparedKept ==
  ASSUME Compared, [CrcNext]_CrcVars
  PROVE  Compared'
<1>1. ASSUME NEW mask \in Byte, Transmit(mask)
      PROVE  /\ length' \in 0 .. MaxLength /\ crc' \in Halves /\ checked' \in Halves
             /\ mask = 0 /\ crc = checked => crc' = checked'
             /\ mask # 0 /\ crc = checked => crc'[2] # checked'[2]
             /\ crc[2] # checked[2] => crc' # checked'
             /\ mask = 0 /\ crc # checked => crc' # checked'
  <2>1. length \in 0 .. MaxLength /\ length < MaxLength /\ length' = length + 1
    BY <1>1 DEF Transmit, Compared
  <2>2. length' \in 0 .. MaxLength /\ length + 1 \in 1 .. MaxLength
    BY <2>1, Settings
  <2>3. PICK byte \in Alphabet[length + 1] :
          crc' = Round(crc, byte) /\ checked' = Round(checked, XorByte(byte, mask))
    BY <1>1 DEF Transmit
  <2>4. byte \in Byte
    BY <2>2, <2>3, Settings
  <2>5. PICK got \in Byte : got = XorByte(byte, mask)
    BY <2>4, XorOfBytes, Zenon
  <2>6. mask = 0 => got = byte
    BY <2>4, <2>5, XorOfBytes
  <2>7. got = byte => mask = 0
    <3> SUFFICES ASSUME got = byte PROVE mask = 0
      OBVIOUS
    <3>1. 0 \in Byte
      BY DEF Byte
    <3>2. XorByte(byte, mask) = XorByte(byte, 0)
      BY <2>4, <2>5, XorOfBytes
    <3> QED
      BY <2>4, <3>1, <3>2, XorCancels
  <2>8. crc \in Halves /\ checked \in Halves /\ checked' = Round(checked, got)
    BY <2>3, <2>5 DEF Compared
  <2>9. /\ crc' \in Halves /\ checked' \in Halves
        /\ crc'[2] = checked'[2] =>
             XorByte(crc[1], byte) = XorByte(checked[1], got)
        /\ crc' = checked' =>
             /\ XorByte(crc[1], byte) = XorByte(checked[1], got)
             /\ crc[2] = checked[2]
    <3>1. PICK p \in Halves, q \in Halves : p = crc /\ q = checked
      BY <2>8
    <3>2. Round(p, byte) \in Halves /\ Round(q, got) \in Halves
      BY <2>4, RoundForgetsNothing
    <3>3. Round(p, byte)[2] = Round(q, got)[2] =>
            XorByte(p[1], byte) = XorByte(q[1], got)
      BY <2>4, RoundForgetsNothing
    <3>4. Round(p, byte) = Round(q, got) =>
            XorByte(p[1], byte) = XorByte(q[1], got) /\ p[2] = q[2]
      BY <2>4, RoundForgetsNothing
    <3>5. crc' = Round(p, byte) /\ checked' = Round(q, got)
      BY <2>3, <2>8, <3>1
    <3> QED
      BY <3>1, <3>2, <3>3, <3>4, <3>5
  <2>10. mask = 0 /\ crc = checked => crc' = checked'
    BY <2>3, <2>6, <2>8
  <2>11. ASSUME mask # 0, crc = checked, crc'[2] = checked'[2]
         PROVE  FALSE
    <3>1. PICK c \in Byte : c = crc[1]
      BY <2>8 DEF Halves
    <3>2. XorByte(c, byte) = XorByte(c, got)
      BY <2>9, <2>11, <3>1
    <3>3. byte = got
      BY <2>4, <3>2, XorCancels
    <3> QED
      BY <2>7, <2>11, <3>3
  <2>12. crc' = checked' => crc[2] = checked[2]
    BY <2>9
  <2>13. ASSUME mask = 0, crc # checked, crc' = checked'
         PROVE  FALSE
    <3>1. PICK c \in Byte, d \in Byte : c = crc[1] /\ d = checked[1]
      BY <2>8 DEF Halves
    <3>2. XorByte(c, byte) = XorByte(d, byte)
      BY <2>6, <2>9, <2>13, <3>1
    <3>3. c = d
      BY <2>4, <3>2, XorCancels
    <3>4. crc = << crc[1], crc[2] >> /\ checked = << checked[1], checked[2] >>
      BY <2>8 DEF Halves
    <3> QED
      BY <2>12, <2>13, <3>1, <3>3, <3>4
  <2> QED
    BY <2>2, <2>9, <2>10, <2>11, <2>12, <2>13
<1>2. CASE Intact
  <2>1. Transmit(0) /\ 0 \in Byte
    BY <1>2 DEF Intact, Byte
  <2>2. /\ length' \in 0 .. MaxLength /\ crc' \in Halves /\ checked' \in Halves
        /\ crc = checked => crc' = checked'
        /\ crc[2] # checked[2] => crc' # checked'
        /\ crc # checked => crc' # checked'
    BY <1>1, <2>1
  <2>3. damage' = IF damage = "one" THEN "over" ELSE damage
    BY <1>2 DEF Intact
  <2> QED
    BY <2>2, <2>3 DEF Compared
<1>3. CASE Damaged
  <2>1. PICK mask \in Masks \ {0} : Transmit(mask)
    BY <1>3 DEF Damaged
  <2>2. mask \in Byte /\ mask # 0
    BY <2>1, Settings
  <2>3. /\ length' \in 0 .. MaxLength /\ crc' \in Halves /\ checked' \in Halves
        /\ crc = checked => crc'[2] # checked'[2]
        /\ crc[2] # checked[2] => crc' # checked'
    BY <1>1, <2>1, <2>2
  <2>4. damage \in {"none", "one"} /\ damage' = IF damage = "none" THEN "one" ELSE "over"
    BY <1>3 DEF Damaged
  <2> QED
    BY <2>3, <2>4 DEF Compared
<1>4. CASE UNCHANGED CrcVars
  BY <1>4 DEF CrcVars, Compared, Halves
<1> QED
  BY <1>2, <1>3, <1>4 DEF CrcNext

(* A receiver accepts exactly the messages the line left alone, however    *)
(* long they are, whatever bytes they are made of and whatever happens to  *)
(* two neighbouring bytes of them or of the CRC that follows.              *)
THEOREM AcceptedIffIntactHolds == CrcSpec => []AcceptedIffIntact
<1>1. CrcInit => Compared
  BY Settings DEF CrcInit, Compared, Halves, Byte
<1>2. Compared /\ [CrcNext]_CrcVars => Compared'
  BY ComparedKept
<1>3. ASSUME Compared PROVE AcceptedIffIntact
  <2> SUFFICES ASSUME NEW hi_mask \in Masks \cup {0}, NEW lo_mask \in Masks \cup {0},
                      Neighbours(hi_mask, lo_mask)
               PROVE  Accepts(hi_mask, lo_mask) <=>
                        damage = "none" /\ hi_mask = 0 /\ lo_mask = 0
    BY DEF AcceptedIffIntact
  <2>1. hi_mask \in Byte /\ lo_mask \in Byte
    BY Settings DEF Byte
  <2>2. PICK hi \in Byte, lo \in Byte : crc = << hi, lo >>
    BY <1>3 DEF Compared, Halves
  <2>3. PICK c \in Byte, d \in Byte : checked = << c, d >>
    BY <1>3 DEF Compared, Halves
  <2>4. Accepts(hi_mask, lo_mask) <=> c = XorByte(hi, hi_mask) /\ d = XorByte(lo, lo_mask)
    BY <2>2, <2>3 DEF Accepts
  <2>5. /\ XorByte(hi, hi_mask) = hi <=> hi_mask = 0
        /\ XorByte(lo, lo_mask) = lo <=> lo_mask = 0
    BY <2>1, MaskShows
  <2>6. CASE damage = "none"
    <3>1. c = hi /\ d = lo
      BY <1>3, <2>2, <2>3, <2>6 DEF Compared
    <3> QED
      BY <2>4, <2>5, <2>6, <3>1
  <2>7. CASE damage = "one" /\ lo_mask = 0
    <3>1. d # lo
      BY <1>3, <2>2, <2>3, <2>7 DEF Compared
    <3> QED
      BY <2>4, <2>5, <2>7, <3>1
  <2>8. CASE damage # "none" /\ hi_mask = 0 /\ lo_mask = 0
    <3>1. c # hi \/ d # lo
      BY <1>3, <2>2, <2>3, <2>8 DEF Compared
    <3> QED
      BY <2>4, <2>5, <2>8, <3>1
  <2> QED
    BY <2>6, <2>7, <2>8 DEF Neighbours
<1> QED
  BY <1>1, <1>2, <1>3, PTL DEF CrcSpec

-------------------------------------------------------------------------------
(* The tables against the definition.  Exclusive or associates ...         *)
LEMMA XorAssociates ==
  \A n \in 0 .. 16 : \A x, y, z \in Nat :
    Added(n, Added(n, x, y), z) = Added(n, x, Added(n, y, z))
<1> DEFINE T == {n \in 0 .. 16 : \A x, y, z \in Nat :
                   Added(n, Added(n, x, y), z) = Added(n, x, Added(n, y, z))}
<1>1. 0 \in T
  <2>1. \A x, y \in Nat : Added(0, x, y) = 0
    BY AddedUnfolds
  <2>2. 0 \in 0 .. 16 /\ 0 \in Nat
    OBVIOUS
  <2> QED
    BY <2>1, <2>2
<1>2. ASSUME NEW n \in 0 .. 16, n \in T, n + 1 \in 0 .. 16
      PROVE  n + 1 \in T
  <2>1. ASSUME NEW x \in Nat, NEW y \in Nat, NEW z \in Nat
        PROVE  Added(n + 1, Added(n + 1, x, y), z) =
               Added(n + 1, x, Added(n + 1, y, z))
    <3>1. n \in 0 .. 15 /\ x \div 2 \in Nat /\ y \div 2 \in Nat /\ z \div 2 \in Nat
      <4> HIDE DEF T
      <4> QED
        BY <1>2
    <3>2. PICK v \in Nat : v = Added(n, x \div 2, y \div 2)
      BY <3>1, XorType
    <3>3. PICK w \in Nat : w = Added(n, y \div 2, z \div 2)
      BY <3>1, XorType
    <3>4. PICK a \in Nat : a = Added(n + 1, x, y) /\ a = (2 * v) + ((x + y) % 2)
      <4>1. Added(n + 1, x, y) =
              (2 * Added(n, x \div 2, y \div 2)) + ((x + y) % 2)
        BY <3>1, AddedUnfolds
      <4> QED
        BY <3>2, <4>1
    <3>5. PICK b \in Nat : b = Added(n + 1, y, z) /\ b = (2 * w) + ((y + z) % 2)
      <4>1. Added(n + 1, y, z) =
              (2 * Added(n, y \div 2, z \div 2)) + ((y + z) % 2)
        BY <3>1, AddedUnfolds
      <4> QED
        BY <3>3, <4>1
    <3>6. a \div 2 = v /\ b \div 2 = w
      BY <3>4, <3>5
    <3>7. (a + z) % 2 = (x + b) % 2
      BY <3>4, <3>5
    <3>8. Added(n, v, z \div 2) = Added(n, x \div 2, w)
      BY <1>2, <3>1, <3>2, <3>3
    <3>9. Added(n + 1, a, z) = (2 * Added(n, a \div 2, z \div 2)) + ((a + z) % 2)
      BY <3>1, AddedUnfolds, ZenonT(30)
    <3>10. Added(n + 1, x, b) = (2 * Added(n, x \div 2, b \div 2)) + ((x + b) % 2)
      BY <3>1, AddedUnfolds, ZenonT(30)
    <3>11. Added(n + 1, a, z) = Added(n + 1, x, b)
      BY <3>6, <3>7, <3>8, <3>9, <3>10
    <3> QED
      BY <3>4, <3>5, <3>11
  <2> QED
    BY <1>2, <2>1
<1>3. 0 .. 16 \subseteq T
  <2> HIDE DEF T
  <2>1. 16 \in Nat
    OBVIOUS
  <2> QED
    BY <1>1, <1>2, <2>1, Numbers!FromZero
<1> QED
  BY <1>3

(* ... and what is added twice is gone.                                    *)
LEMMA XorSelf ==
  \A n \in 0 .. 16 : \A x \in Nat : Added(n, x, x) = 0
<1> DEFINE T == {n \in 0 .. 16 : \A x \in Nat : Added(n, x, x) = 0}
<1>1. 0 \in T
  <2>1. \A x, y \in Nat : Added(0, x, y) = 0
    BY AddedUnfolds
  <2>2. 0 \in 0 .. 16
    OBVIOUS
  <2> QED
    BY <2>1, <2>2
<1>2. ASSUME NEW n \in 0 .. 16, n \in T, n + 1 \in 0 .. 16
      PROVE  n + 1 \in T
  <2>1. ASSUME NEW x \in Nat PROVE Added(n + 1, x, x) = 0
    <3>1. n \in 0 .. 15 /\ x \div 2 \in Nat /\ (x + x) % 2 = 0
      BY <1>2
    <3>2. Added(n, x \div 2, x \div 2) = 0
      BY <1>2, <3>1
    <3>3. Added(n + 1, x, x) =
            (2 * Added(n, x \div 2, x \div 2)) + ((x + x) % 2)
      BY <3>1, AddedUnfolds
    <3> QED
      BY <3>1, <3>2, <3>3
  <2> QED
    BY <1>2, <2>1
<1>3. 0 .. 16 \subseteq T
  <2> HIDE DEF T
  <2>1. 16 \in Nat
    OBVIOUS
  <2> QED
    BY <1>1, <1>2, <2>1, Numbers!FromZero
<1> QED
  BY <1>3

(* A number of at most n bits.                                             *)
Fits(n, x) == Added(n, x, 0) = x

(* Without its last bit it has one less.                                   *)
LEMMA FitsHalf ==
  ASSUME NEW n \in 0 .. 15, NEW x \in Nat, Fits(n + 1, x)
  PROVE  Fits(n, x \div 2)
<1>1. x \div 2 \in Nat /\ 0 \div 2 = 0 /\ n \in 0 .. 16
  OBVIOUS
<1>2. PICK v \in Nat : v = Added(n, x \div 2, 0)
  BY <1>1, XorType
<1>3. Added(n + 1, x, 0) = (2 * Added(n, x \div 2, 0 \div 2)) + ((x + 0) % 2)
  BY AddedUnfolds, ZenonT(30)
<1>4. x = (2 * v) + (x % 2)
  BY <1>1, <1>2, <1>3 DEF Fits
<1>5. v = x \div 2
  BY <1>4
<1> QED
  BY <1>2, <1>5 DEF Fits

(* To numbers that fit one more bit makes no difference.                   *)
LEMMA Narrow ==
  \A n \in 0 .. 15 : \A x, y \in Nat :
    Fits(n, x) /\ Fits(n, y) => Added(n + 1, x, y) = Added(n, x, y)
<1> DEFINE T == {n \in 0 .. 15 : \A x, y \in Nat :
                   Fits(n, x) /\ Fits(n, y) => Added(n + 1, x, y) = Added(n, x, y)}
<1>1. 0 \in T
  <2>1. \A x, y \in Nat : Added(0, x, y) = 0
    BY AddedUnfolds
  <2>2. 0 \in 0 .. 15 /\ 0 \in Nat /\ 0 \div 2 = 0 /\ (0 + 0) % 2 = 0
    OBVIOUS
  <2>3. Added(0 + 1, 0, 0) = (2 * Added(0, 0 \div 2, 0 \div 2)) + ((0 + 0) % 2)
    BY <2>2, AddedUnfolds
  <2>4. Added(0 + 1, 0, 0) = 0 /\ Added(0, 0, 0) = 0
    BY <2>1, <2>2, <2>3
  <2>5. \A x \in Nat : Fits(0, x) => x = 0
    BY <2>1, <2>2 DEF Fits
  <2> QED
    BY <2>2, <2>4, <2>5
<1>2. ASSUME NEW n \in 0 .. 15, n \in T, n + 1 \in 0 .. 15
      PROVE  n + 1 \in T
  <2>1. ASSUME NEW x \in Nat, NEW y \in Nat, Fits(n + 1, x), Fits(n + 1, y)
        PROVE  Added((n + 1) + 1, x, y) = Added(n + 1, x, y)
    <3>1. x \div 2 \in Nat /\ y \div 2 \in Nat
      OBVIOUS
    <3>2. Fits(n, x \div 2) /\ Fits(n, y \div 2)
      BY <2>1, FitsHalf
    <3>3. Added(n + 1, x \div 2, y \div 2) = Added(n, x \div 2, y \div 2)
      BY <1>2, <3>1, <3>2
    <3>4. Added((n + 1) + 1, x, y) =
            (2 * Added(n + 1, x \div 2, y \div 2)) + ((x + y) % 2)
      BY <1>2, AddedUnfolds
    <3>5. Added(n + 1, x, y) = (2 * Added(n, x \div 2, y \div 2)) + ((x + y) % 2)
      BY AddedUnfolds
    <3> QED
      BY <3>3, <3>4, <3>5
  <2> QED
    BY <1>2, <2>1
<1>3. 0 .. 15 \subseteq T
  <2> HIDE DEF T
  <2>1. 15 \in Nat
    OBVIOUS
  <2> QED
    BY <1>1, <1>2, <2>1, Numbers!FromZero
<1> QED
  BY <1>3

Word == {x \in Nat : x < 65536}

(* Exclusive or of words.                                                  *)
LEMMA XorOfWords ==
  /\ \A x, y \in Nat : XorWord(x, y) \in Word
  /\ \A x, y \in Nat : XorWord(x, y) = XorWord(y, x)
  /\ \A x, y, z \in Nat :
       XorWord(XorWord(x, y), z) = XorWord(x, XorWord(y, z))
  /\ \A x \in Nat : XorWord(x, x) = 0
  /\ \A x \in Word : XorWord(0, x) = x
<1>1. 16 \in 0 .. 16 /\ 0 \in Nat
  OBVIOUS
<1>2. ASSUME NEW x \in Nat, NEW y \in Nat PROVE XorWord(x, y) \in Word
  <2>1. Added(16, x, y) \in Nat
    BY <1>1, XorType
  <2>2. Exclusive(16, 65536)
    BY Widths
  <2>3. Added(16, x, y) < 65536
    BY <2>2 DEF Exclusive
  <2> QED
    BY <2>1, <2>3 DEF Added, XorWord, Word
<1>3. ASSUME NEW x \in Nat, NEW y \in Nat
      PROVE  XorWord(x, y) = XorWord(y, x)
  BY <1>1, XorCommutes DEF Added, XorWord
<1>4. ASSUME NEW x \in Nat, NEW y \in Nat, NEW z \in Nat
      PROVE  XorWord(XorWord(x, y), z) = XorWord(x, XorWord(y, z))
  <2>1. Added(16, Added(16, x, y), z) = Added(16, x, Added(16, y, z))
    BY <1>1, XorAssociates
  <2> QED
    BY <2>1, Zenon DEF Added, XorWord
<1>5. ASSUME NEW x \in Nat PROVE XorWord(x, x) = 0
  BY <1>1, XorSelf DEF Added, XorWord
<1>6. ASSUME NEW x \in Word PROVE XorWord(0, x) = x
  <2>1. x \in Nat /\ x < 65536
    BY DEF Word
  <2>2. Added(16, x, 0) = x
    BY <2>1, Widths DEF Exclusive
  <2>3. XorWord(x, 0) = x
    BY <2>2 DEF Added, XorWord
  <2> QED
    BY <1>1, <1>3, <2>1, <2>3
<1> QED
  BY <1>2, <1>3, <1>4, <1>5, <1>6, Zenon

(* A shift splits off the last bit of either.                              *)
LEMMA XorHalved ==
  ASSUME NEW x \in Word, NEW y \in Word
  PROVE  /\ XorWord(x, y) \div 2 = XorWord(x \div 2, y \div 2)
         /\ XorWord(x, y) % 2 = (x + y) % 2
<1>1. /\ x \in Nat /\ y \in Nat /\ x \div 2 \in Nat /\ y \div 2 \in Nat
      /\ x \div 2 < 32768 /\ y \div 2 < 32768
  <2>1. \A w \in Word : w \in Nat /\ w < 2 * 32768
    BY DEF Word
  <2>2. \A w \in Nat : w < 2 * 32768 => w \div 2 \in Nat /\ w \div 2 < 32768
    OBVIOUS
  <2> QED
    BY <2>1, <2>2
<1>2. 15 \in 0 .. 15 /\ 15 \in 0 .. 16 /\ 15 + 1 = 16
  OBVIOUS
<1>3. Fits(15, x \div 2) /\ Fits(15, y \div 2)
  BY <1>1, Widths DEF Exclusive, Fits
<1>4. Added(15 + 1, x \div 2, y \div 2) = Added(15, x \div 2, y \div 2)
  BY <1>1, <1>2, <1>3, Narrow
<1>5. PICK v \in Nat : v = Added(15, x \div 2, y \div 2)
  <2>1. Added(15, x \div 2, y \div 2) \in Nat
    BY <1>1, <1>2, XorType
  <2> QED
    BY <2>1
<1>6. Added(16, x, y) = (2 * Added(15, x \div 2, y \div 2)) + ((x + y) % 2)
  <2>1. PICK n \in 0 .. 15 : n = 15
    OBVIOUS
  <2>2. x \in Nat /\ y \in Nat
    BY <1>1
  <2>3. Added(n + 1, x, y) = (2 * Added(n, x \div 2, y \div 2)) + ((x + y) % 2)
    BY <2>2, AddedUnfolds
  <2> QED
    BY <2>1, <2>3
<1>7. XorWord(x, y) = (2 * v) + ((x + y) % 2)
  BY <1>2, <1>5, <1>6 DEF Added, XorWord
<1>8. XorWord(x \div 2, y \div 2) = v
  BY <1>2, <1>4, <1>5 DEF Added, XorWord
<1> QED
  BY <1>1, <1>7, <1>8

(* A shift of a sum: what has no last bit is only halved, and a last bit   *)
(* comes out as the polynomial.                                            *)
LEMMA ShiftOfSum ==
  ASSUME NEW s \in Word
  PROVE  /\ Shift(s) \in Word
         /\ \A a \in Nat : a < 32768 =>
              Shift(XorWord(2 * a, s)) = XorWord(a, Shift(s))
         /\ Shift(XorWord(1, s)) = XorWord(Polynomial, Shift(s))
<1> DEFINE P == Polynomial
<1>1. P \in Nat
  BY DEF Polynomial
<1>2. PICK v \in Nat : v = s \div 2 /\ v \in Word /\ s \in Nat /\ (s % 2 = 0 \/ s % 2 = 1)
  <2>1. s \in Nat /\ s < 65536
    BY DEF Word
  <2>2. s \div 2 \in Nat /\ s \div 2 < 65536 /\ (s % 2 = 0 \/ s % 2 = 1)
    BY <2>1
  <2> QED
    BY <2>1, <2>2 DEF Word
<1>3. Shift(s) = IF s % 2 = 1 THEN XorWord(v, P) ELSE v
  BY <1>2 DEF Shift
<1> HIDE DEF P
<1>4. Shift(s) \in Word
  BY <1>1, <1>2, <1>3, XorOfWords
<1>5. ASSUME NEW a \in Nat, a < 32768
      PROVE  Shift(XorWord(2 * a, s)) = XorWord(a, Shift(s))
  <2>1. 2 * a \in Word /\ (2 * a) \div 2 = a /\ (2 * a + s) % 2 = s % 2
    BY <1>2, <1>5 DEF Word
  <2>2. PICK w : w = XorWord(2 * a, s)
    OBVIOUS
  <2>3. w \div 2 = XorWord(a, v) /\ w % 2 = s % 2
    BY <1>2, <2>1, <2>2, XorHalved
  <2>4. Shift(w) = IF s % 2 = 1 THEN XorWord(XorWord(a, v), P)
                                    ELSE XorWord(a, v)
    BY <2>3 DEF Shift, P
  <2>5. XorWord(XorWord(a, v), P) = XorWord(a, XorWord(v, P))
    BY <1>1, XorOfWords
  <2> QED
    BY <1>3, <2>2, <2>4, <2>5
<1>6. Shift(XorWord(1, s)) = XorWord(P, Shift(s))
  <2>1. 1 \in Word /\ 1 \div 2 = 0 /\ (1 + s) % 2 = 1 - (s % 2)
    BY <1>2 DEF Word
  <2>2. PICK w : w = XorWord(1, s)
    OBVIOUS
  <2>3. w \div 2 = XorWord(0, v) /\ w % 2 = 1 - (s % 2)
    BY <1>2, <2>1, <2>2, XorHalved
  <2>4. w \div 2 = v
    BY <1>2, <2>3, XorOfWords
  <2>5. XorWord(v, P) = XorWord(P, v)
    BY <1>1, XorOfWords
  <2>6. XorWord(P, XorWord(P, v)) = v
    <3>1. XorWord(XorWord(P, P), v) = XorWord(P, XorWord(P, v))
      BY <1>1, XorOfWords
    <3>2. XorWord(P, P) = 0 /\ XorWord(0, v) = v
      BY <1>1, <1>2, XorOfWords
    <3> QED
      BY <3>1, <3>2
  <2>7. CASE s % 2 = 0
    <3>1. Shift(w) = XorWord(v, P)
      BY <2>3, <2>4, <2>7 DEF Shift, P
    <3> QED
      BY <1>3, <2>2, <2>5, <2>7, <3>1
  <2>8. CASE s % 2 = 1
    <3>1. Shift(w) = v
      BY <2>3, <2>4, <2>8 DEF Shift
    <3> QED
      BY <1>3, <2>2, <2>5, <2>6, <2>8, <3>1
  <2> QED
    BY <1>2, <2>7, <2>8
<1> QED
  BY <1>4, <1>5, <1>6 DEF P

(* A byte higher up than what is shifted out comes down untouched.         *)
LEMMA ShiftsOfSum ==
  ASSUME NEW h \in Byte, NEW s \in Word
  PROVE  /\ ShiftByte(s) \in Word
         /\ ShiftByte(XorWord(256 * h, s)) = XorWord(h, ShiftByte(s))
<1>0. h \in Nat /\ h < 256
  BY DEF Byte
<1> DEFINE S(r) == Shift(r)
<1>1. PICK s1 \in Word : /\ s1 = S(s)
                         /\ S(XorWord(256 * h, s)) = XorWord(128 * h, s1)
  <2>1. 128 * h \in Nat /\ 128 * h < 32768 /\ 2 * (128 * h) = 256 * h
    BY <1>0
  <2> QED
    BY <2>1, ShiftOfSum
<1>2. PICK s2 \in Word : /\ s2 = S(s1)
                         /\ S(XorWord(128 * h, s1)) = XorWord(64 * h, s2)
  <2>1. 64 * h \in Nat /\ 64 * h < 32768 /\ 2 * (64 * h) = 128 * h
    BY <1>0
  <2> QED
    BY <1>1, <2>1, ShiftOfSum
<1>3. PICK s3 \in Word : /\ s3 = S(s2)
                         /\ S(XorWord(64 * h, s2)) = XorWord(32 * h, s3)
  <2>1. 32 * h \in Nat /\ 32 * h < 32768 /\ 2 * (32 * h) = 64 * h
    BY <1>0
  <2> QED
    BY <1>2, <2>1, ShiftOfSum
<1>4. PICK s4 \in Word : /\ s4 = S(s3)
                         /\ S(XorWord(32 * h, s3)) = XorWord(16 * h, s4)
  <2>1. 16 * h \in Nat /\ 16 * h < 32768 /\ 2 * (16 * h) = 32 * h
    BY <1>0
  <2> QED
    BY <1>3, <2>1, ShiftOfSum
<1>5. PICK s5 \in Word : /\ s5 = S(s4)
                         /\ S(XorWord(16 * h, s4)) = XorWord(8 * h, s5)
  <2>1. 8 * h \in Nat /\ 8 * h < 32768 /\ 2 * (8 * h) = 16 * h
    BY <1>0
  <2> QED
    BY <1>4, <2>1, ShiftOfSum
<1>6. PICK s6 \in Word : /\ s6 = S(s5)
                         /\ S(XorWord(8 * h, s5)) = XorWord(4 * h, s6)
  <2>1. 4 * h \in Nat /\ 4 * h < 32768 /\ 2 * (4 * h) = 8 * h
    BY <1>0
  <2> QED
    BY <1>5, <2>1, ShiftOfSum
<1>7. PICK s7 \in Word : /\ s7 = S(s6)
                         /\ S(XorWord(4 * h, s6)) = XorWord(2 * h, s7)
  <2>1. 2 * h \in Nat /\ 2 * h < 32768 /\ 2 * (2 * h) = 4 * h
    BY <1>0
  <2> QED
    BY <1>6, <2>1, ShiftOfSum
<1>8. PICK s8 \in Word : /\ s8 = S(s7)
                         /\ S(XorWord(2 * h, s7)) = XorWord(h, s8)
  <2>1. h \in Nat /\ h < 32768 /\ 2 * (h) = 2 * h
    BY <1>0
  <2> QED
    BY <1>7, <2>1, ShiftOfSum
<1>9. /\ ShiftByte(s) = s8
      /\ ShiftByte(XorWord(256 * h, s)) = S(S(S(S(S(S(S(S(XorWord(256 * h, s)))))))))
  BY <1>1, <1>2, <1>3, <1>4, <1>5, <1>6, <1>7, <1>8 DEF ShiftByte, ShiftTwice
<1> QED
  BY <1>1, <1>2, <1>3, <1>4, <1>5, <1>6, <1>7, <1>8, <1>9

(* The same for one width.                                                 *)
Short == {n \in Nat : n < 16}

Stepwise(n, x, y) ==
  Added(n + 1, x, y) = (2 * Added(n, x \div 2, y \div 2)) + ((x + y) % 2)

(* One bit more of each, for every width up to that of the register.       *)
LEMMA AddedStep ==
  ASSUME NEW n \in Short, NEW x \in Nat, NEW y \in Nat
  PROVE  /\ Added(n, x, y) \in Nat
         /\ Stepwise(n, x, y)
         /\ Fits(n + 1, x) => Fits(n, x \div 2)
<1>1. n \in 0 .. 15 /\ n \in 0 .. 16
  BY DEF Short
<1> QED
  BY <1>1, AddedUnfolds, XorType, FitsHalf DEF Stepwise

(* Two numbers in two parts each, the lower of n bits: the parts are added *)
(* apart.  B is 2^n.                                                       *)
Joined(m, n, B, a, h, p, q, c, l) ==
  Added(m + n, p + c, q + l) = B * Added(m, a, h) + Added(n, c, l)

Apart(m, n, B) ==
  \A a, h, p, q, c, l \in Nat :
    p = B * a /\ q = B * h /\ Fits(n, c) /\ Fits(n, l) =>
      Joined(m, n, B, a, h, p, q, c, l)

(* Of the lower part a bit may be taken off.                               *)
LEMMA ApartStep ==
  ASSUME NEW m \in Nat, NEW n \in Short, m \in Short, m + n \in Short, NEW B \in Nat,
         Apart(m, n, B)
  PROVE  Apart(m, n + 1, 2 * B)
<1>1. ASSUME NEW a \in Nat, NEW h \in Nat, NEW pp \in Nat, NEW qq \in Nat,
             NEW c \in Nat, NEW l \in Nat,
             pp = (2 * B) * a, qq = (2 * B) * h, Fits(n + 1, c), Fits(n + 1, l)
      PROVE  Joined(m, n + 1, 2 * B, a, h, pp, qq, c, l)
  <2>1. PICK p \in Nat, q \in Nat : p = B * a /\ q = B * h
    OBVIOUS
  <2>2. pp = 2 * p /\ qq = 2 * q
    BY <1>1, <2>1
  <2>3. PICK d \in Nat, k \in Nat : d = c \div 2 /\ k = l \div 2
    OBVIOUS
  <2>4. /\ pp + c \in Nat /\ qq + l \in Nat
        /\ (pp + c) \div 2 = p + d /\ (qq + l) \div 2 = q + k
        /\ ((pp + c) + (qq + l)) % 2 = (c + l) % 2
    BY <2>2, <2>3
  <2>5. PICK j \in Short : j = m + n
    OBVIOUS
  <2>6. Added(j + 1, pp + c, qq + l) =
          (2 * Added(j, p + d, q + k)) + ((c + l) % 2)
    <3>1. PICK x \in Nat, y \in Nat : x = pp + c /\ y = qq + l
      BY <2>4
    <3>2. Added(j + 1, x, y) = (2 * Added(j, x \div 2, y \div 2)) + ((x + y) % 2)
      <4>1. Stepwise(j, x, y)
        BY AddedStep, Zenon
      <4> QED
        BY <4>1, Zenon DEF Stepwise
    <3>3. x \div 2 = p + d /\ y \div 2 = q + k /\ (x + y) % 2 = (c + l) % 2
      BY <2>4, <3>1
    <3> QED
      BY <3>1, <3>2, <3>3
  <2>7. Fits(n, d) /\ Fits(n, k)
    BY <1>1, <2>3, AddedStep
  <2>8. Added(m + n, p + d, q + k) = B * Added(m, a, h) + Added(n, d, k)
    <3>1. Joined(m, n, B, a, h, p, q, d, k)
      BY <2>1, <2>7, Zenon DEF Apart
    <3> QED
      BY <3>1, Zenon DEF Joined
  <2>9. PICK x \in Nat, y \in Nat : x = Added(m, a, h) /\ y = Added(n, d, k)
    BY AddedStep
  <2>10. Added(n + 1, c, l) = (2 * y) + ((c + l) % 2)
    <3>1. Added(n + 1, c, l) = (2 * Added(n, c \div 2, l \div 2)) + ((c + l) % 2)
      <4>1. Stepwise(n, c, l)
        BY AddedStep, Zenon
      <4> QED
        BY <4>1, Zenon DEF Stepwise
    <3> QED
      BY <2>3, <2>9, <3>1
  <2>11. PICK z \in Nat : z = B * x /\ (2 * B) * x = 2 * z
    <3>1. B * x \in Nat /\ (2 * B) * x = 2 * (B * x)
      OBVIOUS
    <3> QED
      BY <3>1
  <2>12. Added(j + 1, pp + c, qq + l) = (2 * (z + y)) + ((c + l) % 2)
    <3>1. Added(j, p + d, q + k) = z + y
      BY <2>5, <2>8, <2>9, <2>11
    <3> QED
      BY <2>6, <3>1
  <2>13. m + (n + 1) = j + 1
    BY <2>5
  <2>14. (2 * B) * Added(m, a, h) + Added(n + 1, c, l) = (2 * z) + ((2 * y) + ((c + l) % 2))
    BY <2>9, <2>10, <2>11
  <2> QED
    BY <2>12, <2>13, <2>14 DEF Joined
<1> QED
  BY <1>1, Zenon DEF Apart

(* Words in two bytes, and a byte in three and five bits; and a highest    *)
(* bit of seven others.                                                    *)
LEMMA ApartWidths ==
  Apart(3, 5, 32) /\ Apart(9, 7, 128) /\ Apart(8, 8, 256)
<1>1. ASSUME NEW m \in 0 .. 16 PROVE Apart(m, 0, 1)
  <2>1. \A x, y \in Nat : Added(0, x, y) = 0
    BY AddedUnfolds
  <2>2. \A x \in Nat : Fits(0, x) => x = 0
    BY <2>1 DEF Fits
  <2>3. \A a \in Nat : 1 * a + 0 = a
    OBVIOUS
  <2>4. \A a, h \in Nat : Added(m, a, h) \in Nat
    BY XorType
  <2>5. m + 0 = m
    OBVIOUS
  <2>6. ASSUME NEW a \in Nat, NEW h \in Nat, NEW p \in Nat, NEW q \in Nat,
               NEW c \in Nat, NEW l \in Nat,
               p = 1 * a, q = 1 * h, Fits(0, c), Fits(0, l)
        PROVE  Joined(m, 0, 1, a, h, p, q, c, l)
    <3>1. p + c = a /\ q + l = h
      BY <2>2, <2>6
    <3>2. Added(0, c, l) = 0
      BY <2>1
    <3>3. PICK w \in Nat : w = Added(m, a, h)
      BY <2>4
    <3>4. 1 * w + 0 = w
      OBVIOUS
    <3> QED
      BY <2>5, <3>1, <3>2, <3>3, <3>4 DEF Joined
  <2> QED
    BY <2>6, Zenon DEF Apart
<1>2. ASSUME NEW m \in 0 .. 9
      PROVE  Apart(m, 5, 32) /\ Apart(m, 7, 128)
  <2>1. m \in 0 .. 16
    OBVIOUS
  <2>3. Apart(m, 1, 2)
    <3>1. m \in Short /\ 0 \in Short /\ m + 0 \in Short /\ 1 \in Nat
      BY DEF Short
    <3>2. Apart(m, 0, 1)
      BY <1>1, <2>1
    <3>3. Apart(m, 0 + 1, 2 * 1)
      BY <2>1, <3>1, <3>2, ApartStep
    <3> QED
      BY <3>3
  <2>4. Apart(m, 2, 4)
    <3>1. m \in Short /\ 1 \in Short /\ m + 1 \in Short /\ 2 \in Nat
      BY DEF Short
    <3>2. Apart(m, 1, 2)
      BY <2>3, <2>1
    <3>3. Apart(m, 1 + 1, 2 * 2)
      BY <2>1, <3>1, <3>2, ApartStep
    <3> QED
      BY <3>3
  <2>5. Apart(m, 3, 8)
    <3>1. m \in Short /\ 2 \in Short /\ m + 2 \in Short /\ 4 \in Nat
      BY DEF Short
    <3>2. Apart(m, 2, 4)
      BY <2>4, <2>1
    <3>3. Apart(m, 2 + 1, 2 * 4)
      BY <2>1, <3>1, <3>2, ApartStep
    <3> QED
      BY <3>3
  <2>6. Apart(m, 4, 16)
    <3>1. m \in Short /\ 3 \in Short /\ m + 3 \in Short /\ 8 \in Nat
      BY DEF Short
    <3>2. Apart(m, 3, 8)
      BY <2>5, <2>1
    <3>3. Apart(m, 3 + 1, 2 * 8)
      BY <2>1, <3>1, <3>2, ApartStep
    <3> QED
      BY <3>3
  <2>7. Apart(m, 5, 32)
    <3>1. m \in Short /\ 4 \in Short /\ m + 4 \in Short /\ 16 \in Nat
      BY DEF Short
    <3>2. Apart(m, 4, 16)
      BY <2>6, <2>1
    <3>3. Apart(m, 4 + 1, 2 * 16)
      BY <2>1, <3>1, <3>2, ApartStep
    <3> QED
      BY <3>3
  <2>8. Apart(m, 6, 64)
    <3>1. m \in Short /\ 5 \in Short /\ m + 5 \in Short /\ 32 \in Nat
      BY DEF Short
    <3>2. Apart(m, 5, 32)
      BY <2>7, <2>1
    <3>3. Apart(m, 5 + 1, 2 * 32)
      BY <2>1, <3>1, <3>2, ApartStep
    <3> QED
      BY <3>3
  <2>9. Apart(m, 7, 128)
    <3>1. m \in Short /\ 6 \in Short /\ m + 6 \in Short /\ 64 \in Nat
      BY DEF Short
    <3>2. Apart(m, 6, 64)
      BY <2>8, <2>1
    <3>3. Apart(m, 6 + 1, 2 * 64)
      BY <2>1, <3>1, <3>2, ApartStep
    <3> QED
      BY <3>3
  <2> QED
    BY <2>7, <2>9
<1>3. 3 \in 0 .. 9 /\ 9 \in 0 .. 9 /\ 8 \in 0 .. 9
  OBVIOUS
<1>4. Apart(8, 7 + 1, 2 * 128)
  <2>1. 8 \in Nat /\ 8 \in Short /\ 7 \in Short /\ 8 + 7 \in Short /\ 128 \in Nat
    BY DEF Short
  <2>2. Apart(8, 7, 128)
    BY <1>2, <1>3
  <2> QED
    BY <2>1, <2>2, ApartStep
<1>5. Apart(8, 8, 256)
  <2>1. 7 + 1 = 8 /\ 2 * 128 = 256
    OBVIOUS
  <2> QED
    BY <1>4, <2>1
<1> QED
  BY <1>2, <1>3, <1>5

(* What exclusive or with the two bytes of the polynomial does.            *)
High(h) ==
  32 * (4 * ((1 + (h \div 128)) % 2) + 2 * ((h \div 64) % 2) + ((1 + (h \div 32)) % 2))
    + (h % 32)
Low(l) == 2 * (l \div 2) + ((1 + l) % 2)

(* Bytes fit their width; one bit in front of another word takes it away.  *)
LEMMA WithoutFirst ==
  /\ \A w \in Nat : w < 32 => Fits(5, w) /\ Added(5, 0, w) = w
  /\ \A w \in Nat : w < 128 => Fits(7, w) /\ Added(7, 0, w) = w
  /\ \A w \in Nat : w < 256 => Fits(8, w) /\ Added(8, 0, w) = w
  /\ Fits(9, 1)
<1>1. ASSUME NEW n \in 0 .. 16, NEW b \in Nat, Exclusive(n, b), NEW w \in Nat, w < b
      PROVE  Fits(n, w) /\ Added(n, 0, w) = w
  <2>1. Added(n, w, 0) = w /\ 0 \in Nat
    BY <1>1 DEF Exclusive
  <2>2. Added(n, w, 0) = Added(n, 0, w)
    BY <2>1, XorCommutes
  <2> QED
    BY <2>1, <2>2 DEF Fits
<1>2. 5 \in 0 .. 16 /\ 7 \in 0 .. 16 /\ 8 \in 0 .. 16 /\ 9 \in 0 .. 16
  OBVIOUS
<1>3. 32 \in Nat /\ 128 \in Nat /\ 256 \in Nat /\ 512 \in Nat /\ 1 \in Nat /\ 1 < 512
  OBVIOUS
<1>4. \A w \in Nat : w < 32 => Fits(5, w) /\ Added(5, 0, w) = w
  BY <1>1, <1>2, <1>3, Widths
<1>5. \A w \in Nat : w < 128 => Fits(7, w) /\ Added(7, 0, w) = w
  BY <1>1, <1>2, <1>3, Widths
<1>6. \A w \in Nat : w < 256 => Fits(8, w) /\ Added(8, 0, w) = w
  BY <1>1, <1>2, <1>3, Widths
<1>7. Fits(9, 1)
  BY <1>1, <1>2, <1>3, Widths
<1> QED
  BY <1>4, <1>5, <1>6, <1>7

(* A word of two bytes, exclusive or by bytes.                             *)
LEMMA XorByBytes ==
  ASSUME NEW a \in Byte, NEW h \in Byte, NEW c \in Byte, NEW l \in Byte
  PROVE  XorWord(256 * a + c, 256 * h + l) =
           256 * XorByte(a, h) + XorByte(c, l)
<1>1. \A w \in Byte : w \in Nat /\ w < 256
  BY DEF Byte
<1>2. a \in Nat /\ h \in Nat /\ c \in Nat /\ l \in Nat /\ Fits(8, c) /\ Fits(8, l)
  BY <1>1, WithoutFirst
<1>3. PICK p \in Nat, q \in Nat : p = 256 * a /\ q = 256 * h
  BY <1>2
<1>4. Joined(8, 8, 256, a, h, p, q, c, l)
  <2>1. Apart(8, 8, 256)
    BY ApartWidths, Zenon
  <2> QED
    BY <1>2, <1>3, <2>1, ZenonT(30) DEF Apart
<1>5. 8 + 8 = 16
  OBVIOUS
<1>6. Added(16, p + c, q + l) = 256 * Added(8, a, h) + Added(8, c, l)
  BY <1>4, <1>5 DEF Joined
<1> QED
  BY <1>3, <1>6 DEF Added, XorWord, XorByte

(* Exclusive or with the polynomial is by bytes too.                       *)
LEMMA PolynomialAdded ==
  ASSUME NEW h \in Byte, NEW l \in Byte
  PROVE  XorWord(Polynomial, 256 * h + l) = 256 * High(h) + Low(l)
<1>1. h \in Nat /\ h < 256 /\ l \in Nat /\ l < 256
  BY DEF Byte
<1>2. PICK u \in Nat, v \in Nat, w \in Nat, r \in Nat :
        /\ u = h \div 32 /\ v = u \div 2 /\ w = v \div 2 /\ r = h % 32
        /\ v = h \div 64 /\ w = h \div 128 /\ h = 32 * u + r /\ r < 32
  BY <1>1
<1>3. 0 \in Short /\ 1 \in Short /\ 2 \in Short /\ 7 \in Short
  BY DEF Short
<1>4. Added(1, 1, w) = (1 + w) % 2
  <2>1. Stepwise(0, 1, w)
    BY <1>3, AddedStep
  <2>2. Added(0 + 1, 1, w) = (2 * Added(0, 1 \div 2, w \div 2)) + ((1 + w) % 2)
    BY <2>1 DEF Stepwise
  <2>3. 1 \div 2 \in Nat /\ w \div 2 \in Nat
    OBVIOUS
  <2>4. Added(0, 1 \div 2, w \div 2) = 0
    BY <2>3, AddedUnfolds
  <2> QED
    BY <2>2, <2>4
<1>5. Added(2, 2, v) = 2 * Added(1, 1, w) + (v % 2)
  <2>1. Stepwise(1, 2, v)
    BY <1>3, AddedStep
  <2>2. Added(1 + 1, 2, v) = (2 * Added(1, 2 \div 2, v \div 2)) + ((2 + v) % 2)
    BY <2>1 DEF Stepwise
  <2>3. 1 + 1 = 2 /\ 2 \div 2 = 1 /\ (2 + v) % 2 = v % 2
    OBVIOUS
  <2> QED
    BY <1>2, <2>2, <2>3
<1>6. Added(3, 5, u) = 2 * Added(2, 2, v) + ((1 + u) % 2)
  <2>1. Stepwise(2, 5, u)
    BY <1>3, AddedStep
  <2>2. Added(2 + 1, 5, u) = (2 * Added(2, 5 \div 2, u \div 2)) + ((5 + u) % 2)
    BY <2>1 DEF Stepwise
  <2>3. 2 + 1 = 3 /\ 5 \div 2 = 2 /\ (5 + u) % 2 = (1 + u) % 2
    OBVIOUS
  <2> QED
    BY <1>2, <2>2, <2>3
<1>7. XorByte(160, h) = High(h)
  <2>1. Fits(5, 0) /\ Fits(5, r) /\ Added(5, 0, r) = r
    BY <1>2, WithoutFirst
  <2>2. PICK q \in Nat : q = 32 * u /\ q + r = h
    BY <1>2
  <2>3. 5 \in Nat /\ 160 \in Nat /\ 0 \in Nat /\ 160 = 32 * 5
    OBVIOUS
  <2>4. Joined(3, 5, 32, 5, u, 160, q, 0, r)
    BY <2>1, <2>2, <2>3, ApartWidths, SMTT(20) DEF Apart
  <2>5. 3 + 5 = 8 /\ 160 + 0 = 160
    OBVIOUS
  <2>6. Added(8, 160, h) = 32 * Added(3, 5, u) + r
    BY <2>1, <2>2, <2>4, <2>5 DEF Joined
  <2>7. Added(8, 160, h) =
          32 * (2 * (2 * ((1 + w) % 2) + (v % 2)) + ((1 + u) % 2)) + r
    BY <1>4, <1>5, <1>6, <2>6
  <2>8. High(h) = 32 * (4 * ((1 + w) % 2) + 2 * (v % 2) + ((1 + u) % 2)) + r
    BY <1>2 DEF High
  <2>9. (1 + w) % 2 \in Int /\ v % 2 \in Int /\ (1 + u) % 2 \in Int
    OBVIOUS
  <2>10. Added(8, 160, h) = High(h)
    BY <2>7, <2>8, <2>9
  <2> QED
    BY <2>10 DEF Added, XorByte
<1>8. XorByte(1, l) = Low(l)
  <2>1. Stepwise(7, 1, l)
    BY <1>1, <1>3, AddedStep
  <2>2. Added(7 + 1, 1, l) = (2 * Added(7, 1 \div 2, l \div 2)) + ((1 + l) % 2)
    BY <2>1 DEF Stepwise
  <2>3. 7 + 1 = 8 /\ 1 \div 2 = 0 /\ l \div 2 \in Nat /\ l \div 2 < 128
    BY <1>1
  <2>4. Added(7, 0, l \div 2) = l \div 2
    BY <2>3, WithoutFirst
  <2>5. Added(8, 1, l) = 2 * (l \div 2) + ((1 + l) % 2)
    BY <2>2, <2>3, <2>4
  <2> QED
    BY <2>5 DEF Added, Low, XorByte
<1>9. 160 \in Byte /\ 1 \in Byte /\ 256 * 160 + 1 = Polynomial
  BY DEF Byte, Polynomial
<1>10. XorWord(256 * 160 + 1, 256 * h + l) =
         256 * XorByte(160, h) + XorByte(1, l)
  BY <1>9, XorByBytes
<1> QED
  BY <1>7, <1>8, <1>9, <1>10

(* The entries of the tables, each against the one of twice its index and  *)
(* the one without the highest bit.                                        *)
Lower == 0 .. 127

(* The entries by number: twice the index and 128 more.                    *)
LEMMA TableSteps ==
  ASSUME NEW i \in Lower
  PROVE  /\ CRCLO[(i + 128) + 1] = High(CRCLO[i + 1])
         /\ CRCHI[(i + 128) + 1] = Low(CRCHI[i + 1])
         /\ CRCHI[2 * i + 1] % 2 = 0 =>
              CRCLO[i + 1] = CRCLO[2 * i + 1] \div 2
         /\ CRCHI[2 * i + 1] % 2 = 1 =>
              CRCLO[i + 1] = High(CRCLO[2 * i + 1] \div 2)
         /\ CRCHI[2 * i + 1] % 2 = 0 =>
              CRCHI[i + 1] =
                (CRCHI[2 * i + 1] \div 2) + 128 * (CRCLO[2 * i + 1] % 2)
         /\ CRCHI[2 * i + 1] % 2 = 1 =>
              CRCHI[i + 1] =
                Low((CRCHI[2 * i + 1] \div 2) + 128 * (CRCLO[2 * i + 1] % 2))
<1>1. CRCLO[(i + 128) + 1] = High(CRCLO[i + 1])
  BY SMTT(120) DEF Lower, CRCLO, High
<1>2. CRCHI[(i + 128) + 1] = Low(CRCHI[i + 1])
  BY SMTT(120) DEF Lower, CRCHI, Low
<1>3. CRCHI[2 * i + 1] % 2 = 0 =>
        CRCLO[i + 1] = CRCLO[2 * i + 1] \div 2
  BY SMTT(120) DEF Lower, CRCHI, CRCLO
<1>4. CRCHI[2 * i + 1] % 2 = 1 =>
        CRCLO[i + 1] = High(CRCLO[2 * i + 1] \div 2)
  BY SMTT(120) DEF Lower, CRCHI, CRCLO, High
<1>5. CRCHI[2 * i + 1] % 2 = 0 =>
        CRCHI[i + 1] =
          (CRCHI[2 * i + 1] \div 2) + 128 * (CRCLO[2 * i + 1] % 2)
  BY SMTT(120) DEF Lower, CRCHI, CRCLO
<1>6. CRCHI[2 * i + 1] % 2 = 1 =>
        CRCHI[i + 1] =
          Low((CRCHI[2 * i + 1] \div 2) + 128 * (CRCLO[2 * i + 1] % 2))
  BY SMTT(120) DEF Lower, CRCHI, CRCLO, Low
<1> QED
  BY <1>1, <1>2, <1>3, <1>4, <1>5, <1>6, Zenon

(* What the tables say of a byte that has gone through the register.       *)
Entry(i) == 256 * CRCLO[i + 1] + CRCHI[i + 1]

(* The same in words: the entry of i is that of 2 * i shifted once, and    *)
(* differs from that of i + 128 by the polynomial.                         *)
LEMMA EntrySteps ==
  ASSUME NEW i \in Lower
  PROVE  /\ i \in Word /\ i \in Byte /\ i + 128 \in Byte /\ 2 * i \in Byte
         /\ Shift(Entry(2 * i)) = Entry(i)
         /\ XorWord(Polynomial, Entry(i)) = Entry(i + 128)
<1>1. i \in Word /\ i \in Byte /\ i + 128 \in Byte /\ 2 * i \in Byte
  <2>1. i \in Nat /\ i < 128
    BY DEF Lower
  <2> QED
    BY <2>1 DEF Word, Byte
<1>2. i + 1 \in 1 .. 256 /\ 2 * i + 1 \in 1 .. 256
  BY DEF Lower
<1>3. PICK a \in Byte, b \in Byte : a = CRCLO[i + 1] /\ b = CRCHI[i + 1]
  BY <1>2, TablesOfBytes, Zenon
<1>4. PICK c \in Byte, d \in Byte : c = CRCLO[2 * i + 1] /\ d = CRCHI[2 * i + 1]
  BY <1>2, TablesOfBytes, Zenon
<1>5. /\ CRCLO[(i + 128) + 1] = High(a) /\ CRCHI[(i + 128) + 1] = Low(b)
      /\ d % 2 = 0 => a = c \div 2 /\ b = (d \div 2) + 128 * (c % 2)
      /\ d % 2 = 1 => a = High(c \div 2) /\ b = Low((d \div 2) + 128 * (c % 2))
  BY <1>3, <1>4, TableSteps
<1>6. XorWord(Polynomial, Entry(i)) = Entry(i + 128)
  BY <1>3, <1>5, PolynomialAdded DEF Entry
<1>7. Shift(Entry(2 * i)) = Entry(i)
  <2>1. c \in Nat /\ c < 256 /\ d \in Nat /\ d < 256
    BY DEF Byte
  <2>2. PICK e \in Byte, f \in Byte : e = c \div 2 /\ f = (d \div 2) + 128 * (c % 2)
    <3>1. c \div 2 \in Nat /\ c \div 2 < 256
      BY <2>1
    <3>2. (d \div 2) + 128 * (c % 2) \in Nat /\ (d \div 2) + 128 * (c % 2) < 256
      BY <2>1
    <3>3. \A n \in Nat : n < 256 => n \in Byte
      BY DEF Byte
    <3>4. c \div 2 \in Byte /\ (d \div 2) + 128 * (c % 2) \in Byte
      BY <3>1, <3>2, <3>3
    <3> QED
      BY <3>4, Zenon
  <2>3. PICK r \in Nat : r = 256 * c + d
    BY <2>1
  <2>4. r % 2 = d % 2 /\ r \div 2 = 256 * e + f /\ (d % 2 = 0 \/ d % 2 = 1)
    BY <2>1, <2>2, <2>3
  <2>5. Entry(2 * i) = r /\ Entry(i) = 256 * a + b
    BY <1>3, <1>4, <2>3 DEF Entry
  <2>6. CASE d % 2 = 0
    <3>1. Shift(r) = 256 * e + f
      BY <2>4, <2>6 DEF Shift
    <3> QED
      BY <1>5, <2>2, <2>5, <2>6, <3>1
  <2>7. CASE d % 2 = 1
    <3>1. PICK x \in Nat : x = 256 * e + f
      BY DEF Byte
    <3>2. Shift(r) = XorWord(x, Polynomial)
      BY <2>4, <2>7, <3>1 DEF Shift
    <3>3. Polynomial \in Nat
      BY DEF Polynomial
    <3>4. Shift(r) = XorWord(Polynomial, x)
      BY <3>2, <3>3, XorOfWords
    <3>5. Shift(r) = 256 * High(e) + Low(f)
      BY <3>1, <3>4, PolynomialAdded
    <3> QED
      BY <1>5, <2>2, <2>5, <2>7, <3>5
  <2> QED
    BY <2>4, <2>6, <2>7
<1> QED
  BY <1>1, <1>6, <1>7

(* An entry is what eight shifts make of its index.                        *)
True(i) == ShiftByte(i) = Entry(i)

(* It is if that of twice the index is: one shift more.                    *)
LEMMA HalfTrue ==
  ASSUME NEW i \in Lower, True(2 * i)
  PROVE  True(i)
<1>1. Shift(2 * i) = i
  <2>1. i \in Nat /\ (2 * i) % 2 = 0 /\ (2 * i) \div 2 = i
    BY DEF Lower
  <2> QED
    BY <2>1 DEF Shift
<1>2. Shift(ShiftByte(2 * i)) = ShiftByte(Shift(2 * i))
  BY Zenon DEF ShiftByte, ShiftTwice
<1>3. Shift(Entry(2 * i)) = Entry(i)
  BY EntrySteps
<1> QED
  BY <1>1, <1>2, <1>3 DEF True

(* A bit that is not the last one moves down one place.                    *)
Moves(d, a) ==
  \A s \in Word :
    \E r \in Word : r = Shift(s) /\ Shift(XorWord(d, s)) = XorWord(a, r)

(* Each of the bits of a byte but the last does.                           *)
LEMMA BitsMove ==
  /\ Moves(128, 64) /\ Moves(64, 32) /\ Moves(32, 16) /\ Moves(16, 8)
  /\ Moves(8, 4) /\ Moves(4, 2) /\ Moves(2, 1)
<1>1. ASSUME NEW a \in Nat, NEW d \in Nat, a < 32768, d = 2 * a
      PROVE  Moves(d, a)
  <2>1. ASSUME NEW s \in Word
        PROVE  /\ Shift(s) \in Word
               /\ Shift(XorWord(d, s)) = XorWord(a, Shift(s))
    BY <1>1, ShiftOfSum
  <2> QED
    BY <2>1, Zenon DEF Moves
<1> QED
  <2>1. Moves(128, 64)
    BY <1>1
  <2>2. Moves(64, 32)
    BY <1>1
  <2>3. Moves(32, 16)
    BY <1>1
  <2>4. Moves(16, 8)
    BY <1>1
  <2>5. Moves(8, 4)
    BY <1>1
  <2>6. Moves(4, 2)
    BY <1>1
  <2>7. Moves(2, 1)
    BY <1>1
  <2> QED
    BY <2>1, <2>2, <2>3, <2>4, <2>5, <2>6, <2>7

(* And if that without the highest bit is: the bit falls out last.         *)
LEMMA HighTrue ==
  ASSUME NEW i \in Lower, True(i)
  PROVE  True(i + 128)
<1> DEFINE S(r) == Shift(r)
<1>1. i \in Word /\ i \in Nat /\ i < 128
  BY EntrySteps DEF Lower
<1>2. XorWord(128, i) = i + 128
  <2>1. Fits(7, 0) /\ Fits(7, i) /\ Added(7, 0, i) = i /\ Added(9, 1, 0) = 1
    BY <1>1, WithoutFirst DEF Fits
  <2>2. 0 \in Nat /\ 1 \in Nat /\ 128 \in Nat /\ 128 = 128 * 1 /\ 0 = 128 * 0
    OBVIOUS
  <2>3. Joined(9, 7, 128, 1, 0, 128, 0, 0, i)
    BY <1>1, <2>1, <2>2, ApartWidths DEF Apart
  <2>4. 9 + 7 = 16 /\ 128 + 0 = 128 /\ 0 + i = i /\ 128 * 1 + i = i + 128
    BY <1>1
  <2>5. Added(16, 128, i) = i + 128
    BY <2>1, <2>3, <2>4 DEF Joined
  <2> QED
    BY <2>5 DEF Added, XorWord
<1> HIDE DEF S
<1>3. PICK s1 \in Word :
         s1 = S(i) /\ S(XorWord(128, i)) = XorWord(64, s1)
  BY <1>1, BitsMove DEF Moves, S
<1>4. PICK s2 \in Word :
         s2 = S(s1) /\ S(XorWord(64, s1)) = XorWord(32, s2)
  BY <1>1, <1>3, BitsMove DEF Moves, S
<1>5. PICK s3 \in Word :
         s3 = S(s2) /\ S(XorWord(32, s2)) = XorWord(16, s3)
  BY <1>1, <1>4, BitsMove DEF Moves, S
<1>6. PICK s4 \in Word :
         s4 = S(s3) /\ S(XorWord(16, s3)) = XorWord(8, s4)
  BY <1>1, <1>5, BitsMove DEF Moves, S
<1>7. PICK s5 \in Word :
         s5 = S(s4) /\ S(XorWord(8, s4)) = XorWord(4, s5)
  BY <1>1, <1>6, BitsMove DEF Moves, S
<1>8. PICK s6 \in Word :
         s6 = S(s5) /\ S(XorWord(4, s5)) = XorWord(2, s6)
  BY <1>1, <1>7, BitsMove DEF Moves, S
<1>9. PICK s7 \in Word :
         s7 = S(s6) /\ S(XorWord(2, s6)) = XorWord(1, s7)
  BY <1>1, <1>8, BitsMove DEF Moves, S
<1>10. Shift(XorWord(1, s7)) = XorWord(Polynomial, Shift(s7))
  BY <1>9, ShiftOfSum
<1>11. ShiftByte(i) = S(s7)
  BY <1>3, <1>4, <1>5, <1>6, <1>7, <1>8, <1>9 DEF S, ShiftByte, ShiftTwice
<1>12. ShiftByte(XorWord(128, i)) = S(XorWord(1, s7))
  BY <1>3, <1>4, <1>5, <1>6, <1>7, <1>8, <1>9 DEF S, ShiftByte, ShiftTwice
<1>13. XorWord(Polynomial, Entry(i)) = Entry(i + 128)
  BY EntrySteps
<1> QED
  BY <1>2, <1>10, <1>11, <1>12, <1>13 DEF S, True

(* So, from the multiples of a power of two to those of half of it ...     *)
Filled(B) == \A q \in Int : B * q \in Byte => True(B * q)

(* ... which is twice as many indices.                                     *)
LEMMA FilledBetween ==
  ASSUME NEW B \in Nat, NEW D \in Int, B * D = 128, Filled(2 * B)
  PROVE  Filled(B)
<1>1. ASSUME NEW q \in Int, B * q \in Lower PROVE True(B * q)
  <2>1. (2 * B) * q = 2 * (B * q)
    OBVIOUS
  <2>2. 2 * (B * q) \in Byte
    BY <1>1, EntrySteps
  <2>3. True(2 * (B * q))
    BY <2>1, <2>2 DEF Filled
  <2> QED
    BY <1>1, <2>3, HalfTrue
<1>2. ASSUME NEW q \in Int, B * q \in Byte, B * q \notin Lower PROVE True(B * q)
  <2>1. PICK i \in Int : i = B * q /\ i - 128 \in Lower
    BY <1>2 DEF Byte, Lower
  <2>2. PICK j \in Int : j = q - D
    OBVIOUS
  <2>3. B * j = i - 128
    BY <2>1, <2>2
  <2>6. True(B * j)
    BY <1>1, <2>1, <2>3, Zenon
  <2>4. True((i - 128) + 128)
    BY <2>1, <2>3, <2>6, HighTrue
  <2>5. (i - 128) + 128 = i
    OBVIOUS
  <2> QED
    BY <2>1, <2>4, <2>5
<1> QED
  BY <1>1, <1>2 DEF Filled

(* ... down to one.                                                        *)
LEMMA TablesHoldDefinition ==
  \A i \in Byte : ShiftByte(i) = Entry(i)
<1>1. Filled(256)
  <2>1. \A q \in Int : 256 * q \in Byte => 256 * q = 0
    BY DEF Byte
  <2>2. Shift(0) = 0
    BY DEF Shift
  <2>3. ShiftByte(0) = 0
    BY <2>2 DEF ShiftByte, ShiftTwice
  <2>4. CRCLO[1] = 0 /\ CRCHI[1] = 0
    BY DEF CRCLO, CRCHI
  <2>5. True(0)
    BY <2>3, <2>4 DEF True, Entry
  <2> QED
    BY <2>1, <2>5 DEF Filled
<1>2. Filled(128)
  <2>1. 128 \in Nat /\ 1 \in Int /\ 128 * 1 = 128 /\ 2 * 128 = 256
    OBVIOUS
  <2> QED
    BY <1>1, <2>1, FilledBetween
<1>3. Filled(64)
  <2>1. 64 \in Nat /\ 2 \in Int /\ 64 * 2 = 128 /\ 2 * 64 = 128
    OBVIOUS
  <2> QED
    BY <1>2, <2>1, FilledBetween
<1>4. Filled(32)
  <2>1. 32 \in Nat /\ 4 \in Int /\ 32 * 4 = 128 /\ 2 * 32 = 64
    OBVIOUS
  <2> QED
    BY <1>3, <2>1, FilledBetween
<1>5. Filled(16)
  <2>1. 16 \in Nat /\ 8 \in Int /\ 16 * 8 = 128 /\ 2 * 16 = 32
    OBVIOUS
  <2> QED
    BY <1>4, <2>1, FilledBetween
<1>6. Filled(8)
  <2>1. 8 \in Nat /\ 16 \in Int /\ 8 * 16 = 128 /\ 2 * 8 = 16
    OBVIOUS
  <2> QED
    BY <1>5, <2>1, FilledBetween
<1>7. Filled(4)
  <2>1. 4 \in Nat /\ 32 \in Int /\ 4 * 32 = 128 /\ 2 * 4 = 8
    OBVIOUS
  <2> QED
    BY <1>6, <2>1, FilledBetween
<1>8. Filled(2)
  <2>1. 2 \in Nat /\ 64 \in Int /\ 2 * 64 = 128 /\ 2 * 2 = 4
    OBVIOUS
  <2> QED
    BY <1>7, <2>1, FilledBetween
<1>9. Filled(1)
  <2>1. 1 \in Nat /\ 128 \in Int /\ 1 * 128 = 128 /\ 2 * 1 = 2
    OBVIOUS
  <2> QED
    BY <1>8, <2>1, FilledBetween
<1> QED
  <2>1. \A i \in Byte : i \in Int /\ 1 * i = i
    BY DEF Byte
  <2> QED
    BY <1>9, <2>1 DEF Filled, True

(* What the definition does of a byte in terms of the tables: the upper    *)
(* half of the register comes down, and the lower half with the byte added *)
(* is looked up.                                                           *)
LEMMA DefinitionByTable ==
  ASSUME NEW h \in Byte, NEW l \in Byte, NEW byte \in Byte
  PROVE  Definition(256 * h + l, byte) =
           LET i == XorByte(l, byte)
           IN  256 * CRCLO[i + 1] + XorByte(h, CRCHI[i + 1])
<1>1. PICK i \in Byte : i = XorByte(l, byte)
  BY XorOfBytes
<1>2. /\ \A w \in Byte : w \in Nat /\ w < 256 /\ w \in Word
      /\ 0 \in Byte /\ i + 1 \in 1 .. 256
  <2>1. \A w \in Byte : w \in Nat /\ w < 256
    BY DEF Byte
  <2>2. 0 \in Byte
    BY DEF Byte
  <2>3. \A w \in Byte : w \in Word
    BY <2>1 DEF Word
  <2>4. i + 1 \in 1 .. 256
    BY <2>1
  <2> QED
    BY <2>1, <2>2, <2>3, <2>4
<1>3. XorByte(h, 0) = h /\ XorByte(0, i) = i
  <2>1. Added(8, 0, i) = i /\ Added(8, h, 0) = h
    BY <1>2, WithoutFirst DEF Fits
  <2> QED
    BY <2>1 DEF Added, XorByte
<1>4. XorWord(256 * h + l, byte) = 256 * h + i
  <2>1. XorWord(256 * h + l, 256 * 0 + byte) =
          256 * XorByte(h, 0) + XorByte(l, byte)
    BY <1>2, XorByBytes
  <2>2. 256 * 0 + byte = byte
    BY <1>2
  <2> QED
    BY <1>1, <1>3, <2>1, <2>2
<1>5. XorWord(256 * h, i) = 256 * h + i
  <2>1. XorWord(256 * h + 0, 256 * 0 + i) =
          256 * XorByte(h, 0) + XorByte(0, i)
    BY <1>2, XorByBytes
  <2>2. 256 * 0 + i = i /\ 256 * h + 0 = 256 * h
    BY <1>2
  <2> QED
    BY <1>3, <2>1, <2>2
<1>6. ShiftByte(XorWord(256 * h, i)) = XorWord(h, Entry(i))
  BY <1>2, ShiftsOfSum, TablesHoldDefinition
<1>7. PICK a \in Byte, b \in Byte : a = CRCLO[i + 1] /\ b = CRCHI[i + 1]
  BY <1>2, TablesOfBytes, Zenon
<1>8. XorWord(h, 256 * a + b) = 256 * a + XorByte(h, b)
  <2>1. XorWord(256 * 0 + h, 256 * a + b) =
          256 * XorByte(0, a) + XorByte(h, b)
    BY <1>2, XorByBytes
  <2>2. Added(8, 0, a) = a
    BY <1>2, WithoutFirst
  <2>3. XorByte(0, a) = a
    BY <2>2 DEF Added, XorByte
  <2>4. 256 * 0 + h = h
    BY <1>2
  <2> QED
    BY <2>1, <2>3, <2>4
<1> QED
  BY <1>1, <1>4, <1>5, <1>6, <1>7, <1>8 DEF Entry, Definition

(* The register of the definition, next to the two halves of the code.     *)
Calculated == crc \in Halves /\ reference = 256 * crc[2] + crc[1]

(* A round of the code keeps it so.                                        *)
LEMMA CalculatedKept ==
  ASSUME Compared, Calculated, [CrcNext]_CrcVars
  PROVE  Calculated'
<1>1. ASSUME NEW mask \in Nat, Transmit(mask) PROVE Calculated'
  <2>1. PICK l \in Byte, h \in Byte : crc = << l, h >>
    BY DEF Calculated, Halves
  <2>2. length + 1 \in 1 .. MaxLength
    BY <1>1, Settings DEF Transmit, Compared
  <2>3. PICK byte \in Alphabet[length + 1] :
          crc' = Round(crc, byte) /\ reference' = Definition(reference, byte)
    BY <1>1 DEF Transmit
  <2>4. byte \in Byte
    BY <2>2, <2>3, Settings
  <2>5. reference = 256 * h + l
    BY <2>1 DEF Calculated
  <2>6. PICK i \in Byte : i = XorByte(l, byte)
    BY <2>4, XorOfBytes
  <2>7. crc' = << XorByte(h, CRCHI[i + 1]), CRCLO[i + 1] >>
    BY <2>1, <2>3, <2>6 DEF Round
  <2>8. reference' = 256 * CRCLO[i + 1] + XorByte(h, CRCHI[i + 1])
    BY <2>3, <2>4, <2>5, <2>6, DefinitionByTable
  <2>9. crc' \in Halves
    BY ComparedKept DEF Compared
  <2> QED
    BY <2>7, <2>8, <2>9 DEF Calculated
<1>2. CASE Intact
  BY <1>1, <1>2 DEF Intact
<1>3. CASE Damaged
  <2>1. PICK mask \in Masks \ {0} : Transmit(mask)
    BY <1>3 DEF Damaged
  <2>2. mask \in Nat
    BY <2>1, Settings DEF Byte
  <2> QED
    BY <1>1, <2>1, <2>2
<1>4. CASE UNCHANGED CrcVars
  BY <1>4 DEF CrcVars, Calculated, Halves
<1> QED
  BY <1>2, <1>3, <1>4 DEF CrcNext

(* Calculated means the tables are true, and the types.                    *)
LEMMA CalculatedMeans ==
  ASSUME Compared, Calculated
  PROVE  TablesTrue /\ CrcTypeOK
<1>1. PICK l \in Byte, h \in Byte : crc = << l, h >>
  BY DEF Calculated, Halves
<1>2. l \in Nat /\ l < 256 /\ h \in Nat /\ h < 256
  BY DEF Byte
<1>3. reference = 256 * h + l
  BY <1>1 DEF Calculated
<1>4. reference \in Nat /\ reference % 256 = l /\ reference \div 256 = h
  BY <1>2, <1>3
<1>5. TablesTrue
  BY <1>1, <1>4 DEF TablesTrue
<1>6. CrcTypeOK
  BY <1>4 DEF Compared, Halves, Byte, CrcTypeOK
<1> QED
  BY <1>5, <1>6

(* The tables and the definition keep in step, and both halves are bytes.  *)
LEMMA CalculatedHolds == CrcSpec => [](CrcTypeOK /\ TablesTrue)
<1>1. CrcInit => Compared /\ Calculated
  BY Settings DEF CrcInit, Compared, Calculated, Halves, Byte
<1>2. Compared /\ Calculated /\ [CrcNext]_CrcVars => Compared' /\ Calculated'
  BY ComparedKept, CalculatedKept
<1>3. Compared /\ Calculated => CrcTypeOK /\ TablesTrue
  BY CalculatedMeans
<1> QED
  BY <1>1, <1>2, <1>3, PTL DEF CrcSpec

(* The halves of both checksums stay bytes: every index is in the tables.  *)
THEOREM HalvesAreBytes == CrcSpec => []CrcTypeOK
BY CalculatedHolds, PTL

(* The two tables of 256 bytes compute the CRC of the definition, of every *)
(* message.                                                                *)
THEOREM TablesTrueHolds == CrcSpec => []TablesTrue
BY CalculatedHolds, PTL
===============================================================================
