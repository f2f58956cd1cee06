---------------------------- MODULE RtuFramesProofs ---------------------------
(***************************************************************************)
(* What the proofs about the two RTU scanners share: when the bytes a      *)
(* scanner has put aside, and the fields it has stored, are a frame of the *)
(* line and the request in it.                                             *)
(***************************************************************************)
EXTENDS RtuFrames, ModbusProofs

(* buf is the body of a request of s after st, all but the CRC; fc, word,  *)
(* count and data repeat it.                                               *)
BodyRead(s, st, buf, fc, word, count, data) ==
  LET w == WordBytes(fc) IN
  /\ fc \in ValidFc
  /\ \A k \in 1 .. Len(buf) : buf[k] = s[st + k]
  /\ buf[1] = Address /\ buf[2] = fc
  /\ \A k \in 1 .. w : word[k] = buf[2 + k]
  /\ ~HasData(fc) => Len(buf) = 2 + w
  /\ HasData(fc) => /\ Len(buf) = 3 + w + Len(data)
                    /\ count = buf[3 + w] /\ count = Len(data)
                    /\ \A k \in 1 .. Len(data) : data[k] = buf[3 + w + k]

(* Such a body ends where the function code and the byte count say.        *)
LEMMA BodyEnds ==
  ASSUME NEW s \in Seq(Byte), NEW st \in Nat, NEW buf \in Seq(Byte),
         NEW fc, NEW word, NEW count, NEW data \in Seq(Byte),
         BodyRead(s, st, buf, fc, word, count, data),
         NEW n, n = Len(buf), st + n + 2 <= Len(s)
  PROVE  /\ fc \in ValidFc
         /\ s[st + 1] = Address /\ s[st + 2] = fc
         /\ st + 2 <= Len(s)
         /\ HasData(fc) => st + 3 + WordBytes(fc) <= Len(s)
         /\ BodyEnd(s, st) = st + n
<1> DEFINE w == WordBytes(fc)
           d == Len(data)
<1>1. n \in Nat /\ d \in Nat /\ Len(s) \in Nat /\ w \in {4, 8}
  BY WordBytesType
<1>2. /\ fc \in ValidFc
      /\ \A k \in 1 .. n : buf[k] = s[st + k]
      /\ buf[1] = Address /\ buf[2] = fc
      /\ ~HasData(fc) => n = 2 + w
      /\ HasData(fc) => n = 3 + w + d /\ buf[3 + w] = d
  BY DEF BodyRead
<1> HIDE DEF w, d
<1>3. s[st + 1] = Address /\ s[st + 2] = fc
  <2>1. 1 \in 1 .. n /\ 2 \in 1 .. n
    BY <1>1, <1>2
  <2> QED
    BY <1>2, <2>1
<1>4. HasData(fc) => s[st + 3 + w] = d
  <2> HAVE HasData(fc)
  <2>1. 3 + w \in 1 .. n /\ st + (3 + w) = st + 3 + w
    BY <1>1, <1>2
  <2> QED
    BY <1>2, <2>1
<1>5. BodyEnd(s, st) = st + n
  <2>1. BodyEnd(s, st) = IF HasData(fc) THEN st + 2 + w + 1 + s[st + 2 + w + 1]
                                        ELSE st + 2 + w
    BY <1>3 DEF BodyEnd, w
  <2>2. st + 2 + w + 1 = st + 3 + w
    BY <1>1
  <2>3. CASE HasData(fc)
    <3>1. BodyEnd(s, st) = st + 3 + w + d /\ n = 3 + w + d
      BY <1>2, <1>4, <2>1, <2>2, <2>3
    <3>2. st + (3 + w + d) = st + 3 + w + d
      BY <1>1
    <3> QED
      BY <3>1, <3>2
  <2>4. CASE ~HasData(fc)
    BY <1>1, <1>2, <2>1, <2>4
  <2> QED
    BY <2>3, <2>4
<1>6. /\ st + 2 <= Len(s)
      /\ HasData(fc) => st + 3 + w <= Len(s)
  BY <1>1, <1>2
<1> QED
  BY <1>2, <1>3, <1>5, <1>6 DEF w

(* With both CRC bytes in hand, a frame that starts after st can only end  *)
(* with them, and it is one exactly if the CRC agrees.                     *)
LEMMA BodyIsFrame ==
  ASSUME NEW s \in Seq(Byte), NEW st \in Nat, NEW buf \in Seq(Byte),
         NEW fc, NEW word, NEW count, NEW data \in Seq(Byte),
         BodyRead(s, st, buf, fc, word, count, data),
         NEW n, n = Len(buf), st + n + 2 <= Len(s),
         NEW q
  PROVE  IsFrame(s, st, q) <=>
           /\ q = st + n + 2
           /\ CheckCrc(buf, s[st + n + 1], s[st + n + 2])
<1>1. n \in Nat /\ Len(s) \in Nat
  OBVIOUS
<1>2. /\ fc \in ValidFc /\ s[st + 1] = Address /\ s[st + 2] = fc
      /\ st + 2 <= Len(s)
      /\ HasData(fc) => st + 3 + WordBytes(fc) <= Len(s)
      /\ BodyEnd(s, st) = st + n
  BY BodyEnds
<1>3. SubSeq(s, st + 1, st + n) = buf
  <2> DEFINE sub == SubSeq(s, st + 1, st + n)
  <2> DEFINE i == st + 1
             j == st + n
  <2>0. /\ i \in 1 .. Len(s) + 1 /\ j \in i - 1 .. Len(s) /\ (j - i) + 1 = n
        /\ \A k \in 1 .. n : (i + k) - 1 = st + k
    BY <1>1
  <2> HIDE DEF i, j
  <2>1. /\ sub \in Seq(Byte) /\ Len(sub) = n
        /\ \A k \in 1 .. n : sub[k] = s[st + k]
    BY <2>0, <1>1, SubSeqProperties DEF i, j
  <2>2. \A k \in 1 .. n : buf[k] = s[st + k]
    BY DEF BodyRead
  <2> HIDE DEF sub
  <2>3. sub = buf
    BY <2>1, <2>2, SeqEqual
  <2> QED
    BY <2>3 DEF sub
<1>4. CheckCrc(SubSeq(s, st + 1, (st + n + 2) - 2), s[(st + n + 2) - 1], s[st + n + 2])
        <=> CheckCrc(buf, s[st + n + 1], s[st + n + 2])
  <2>1. (st + n + 2) - 2 = st + n /\ (st + n + 2) - 1 = st + n + 1
    BY <1>1
  <2> QED
    BY <1>3, <2>1
<1>5. IsFrame(s, st, st + n + 2) <=> CheckCrc(buf, s[st + n + 1], s[st + n + 2])
  BY <1>2, <1>4 DEF IsFrame
<1>6. IsFrame(s, st, q) => q = st + n + 2
  BY <1>2 DEF IsFrame
<1> QED
  BY <1>5, <1>6

(* A record made of the fields says what the frame says.                   *)
LEMMA FrameSays ==
  ASSUME NEW s \in Seq(Byte), NEW st \in Nat, NEW buf \in Seq(Byte),
         NEW fc, NEW word \in [1..8 -> Byte], NEW pdu \in PduType,
         BodyRead(s, st, buf, fc, word, pdu.m_i8_1, pdu.m_data),
         st + Len(buf) <= Len(s),
         pdu.m_fc = fc,
         pdu.m_i16[1] = combine(word[1], word[2]),
         pdu.m_i16[2] = combine(word[3], word[4]),
         WordBytes(fc) = 8 => /\ pdu.m_i16[3] = combine(word[5], word[6])
                              /\ pdu.m_i16[4] = combine(word[7], word[8])
  PROVE  /\ Request(pdu) = FrameRequest(s, st)
         /\ Request(pdu) \in RequestType
<1> DEFINE n == Len(buf)
           w == WordBytes(fc)
           d == Len(pdu.m_data)
           b == st + 2
<1>1. n \in Nat /\ d \in Nat /\ b \in Nat /\ Len(s) \in Nat /\ w \in {4, 8}
  BY WordBytesType DEF PduType
<1>2. /\ fc \in ValidFc
      /\ \A k \in 1 .. n : buf[k] = s[st + k]
      /\ buf[2] = fc
      /\ \A k \in 1 .. w : word[k] = buf[2 + k]
      /\ ~HasData(fc) => n = 2 + w
      /\ HasData(fc) => /\ n = 3 + w + d
                       /\ pdu.m_i8_1 = buf[3 + w] /\ pdu.m_i8_1 = d
                       /\ \A k \in 1 .. d : pdu.m_data[k] = buf[3 + w + k]
  BY DEF BodyRead
<1> HIDE DEF n, w, d
<1>3. n >= 2 + w /\ st + n <= Len(s)
  BY <1>1, <1>2 DEF n
<1>4. s[b] = fc
  BY <1>1, <1>2, <1>3, SMTT(20)
<1>5. \A k \in 1 .. w : word[k] = s[b + k]
  <2> TAKE k \in 1 .. w
  <2>1. 2 + k \in 1 .. n /\ st + (2 + k) = b + k
    BY <1>1, <1>3
  <2> QED
    BY <1>2, <2>1
<1>6. HasData(fc) => /\ b + (w + 1) \in 1 .. Len(s)
                    /\ pdu.m_i8_1 = s[b + (w + 1)]
                    /\ d = pdu.m_i8_1
                    /\ \A k \in 1 .. d : pdu.m_data[k] = s[b + (w + 1 + k)]
  <2> HAVE HasData(fc)
  <2>1. n = 3 + w + d
    BY <1>2
  <2>2. 3 + w \in 1 .. n /\ st + (3 + w) = b + (w + 1)
    BY <1>1, <2>1, SMTT(20)
  <2>3. b + (w + 1) \in 1 .. Len(s)
    BY <1>1, <1>3, <2>1
  <2>4. \A k \in 1 .. d : pdu.m_data[k] = s[b + (w + 1 + k)]
    <3> TAKE k \in 1 .. d
    <3>1. 3 + w + k \in 1 .. n /\ st + (3 + w + k) = b + (w + 1 + k)
      BY <1>1, <2>1
    <3> QED
      BY <1>2, <3>1
  <2> QED
    BY <1>2, <2>2, <2>3, <2>4
<1> HIDE DEF b
<1>7. Repeats(pdu, word, s, b)
  <2>1. s[b] \in ValidFc /\ pdu.m_fc = s[b] /\ w = WordBytes(s[b])
    BY <1>2, <1>4 DEF w
  <2>2. w = 8 => /\ pdu.m_i16[3] = combine(word[5], word[6])
                 /\ pdu.m_i16[4] = combine(word[7], word[8])
    BY DEF w
  <2>3. HasData(s[b]) =>
          /\ b + (w + 1) \in 1 .. Len(s)
          /\ pdu.m_i8_1 = s[b + (w + 1)]
          /\ Len(pdu.m_data) = pdu.m_i8_1
          /\ \A k \in 1 .. Len(pdu.m_data) : pdu.m_data[k] = s[b + (w + 1 + k)]
    BY <1>4, <1>6 DEF d
  <2> QED
    BY <1>5, <2>1, <2>2, <2>3 DEF Repeats
<1>8. Request(pdu) = RequestFrom(s, b) /\ Request(pdu) \in RequestType
  BY <1>1, <1>7, RecordSays
<1>9. RequestFrom(s, b) = FrameRequest(s, st)
  <2>1. \A k \in 1 .. w \div 2 : /\ s[b + (2 * k - 1)] = s[st + 1 + 2 * k]
                                 /\ s[b + 2 * k] = s[st + 2 + 2 * k]
    <3> TAKE k \in 1 .. w \div 2
    <3>1. b + (2 * k - 1) = st + 1 + 2 * k /\ b + 2 * k = st + 2 + 2 * k
      BY <1>1 DEF b
    <3> QED
      BY <3>1
  <2>2. b + (w + 1) = st + 2 + w + 1
    BY <1>1 DEF b
  <2>3. \A k \in 1 .. s[b + (w + 1)] :
          s[b + (w + 1 + k)] = s[st + 2 + w + 1 + k]
    <3> TAKE k \in 1 .. s[b + (w + 1)]
    <3>1. k \in Int
      OBVIOUS
    <3>2. b + (w + 1 + k) = st + 2 + w + 1 + k
      BY <1>1, <3>1 DEF b
    <3> QED
      BY <3>2
  <2>4. [k \in 1 .. w \div 2 |-> combine(s[b + (2 * k - 1)], s[b + 2 * k])] =
        [k \in 1 .. w \div 2 |-> combine(s[st + 1 + 2 * k], s[st + 2 + 2 * k])]
    BY <2>1
  <2>5. [k \in 1 .. s[b + (w + 1)] |-> s[b + (w + 1 + k)]] =
        [k \in 1 .. s[st + 2 + w + 1] |-> s[st + 2 + w + 1 + k]]
    BY <2>2, <2>3
  <2> QED
    BY <1>4, <2>2, <2>4, <2>5 DEF RequestFrom, FrameRequest, w, b
<1> QED
  BY <1>8, <1>9

-------------------------------------------------------------------------------
(* The reference reader of RtuFrames.                                      *)

(* The items it may hand out.                                              *)
Items(s) == { [from |-> p, to |-> Resume(s, p), request |-> FrameRequest(s, p)]
                : p \in 0 .. Len(s) }

(* It never goes back, and never past the end of what it reads.            *)
LEMMA ResumeForward ==
  ASSUME NEW s \in Seq(Byte), NEW p \in 0 .. Len(s), ~Hungry(s, p)
  PROVE  Resume(s, p) \in p + 1 .. Len(s)
<1>1. Len(s) \in Nat /\ p \in Nat /\ p + 2 <= Len(s)
  BY DEF Hungry
<1>2. CASE s[p + 1] # Address \/ s[p + 2] \notin ValidFc
  BY <1>1, <1>2 DEF Resume
<1>3. CASE s[p + 1] = Address /\ s[p + 2] \in ValidFc
  <2> DEFINE w == WordBytes(s[p + 2])
             b == p + 3 + w
  <2>1. w \in {4, 8}
    BY WordBytesType
  <2> HIDE DEF w
  <2>2. CASE HasData(s[p + 2])
    <3>1. b <= Len(s) /\ b \in 1 .. Len(s)
      BY <1>1, <1>3, <2>1, <2>2 DEF Hungry, w
    <3>2. s[b] \in Nat
      BY <3>1, ByteIsNat
    <3>3. p + 2 + w + 1 = b
      BY <1>1, <2>1
    <3>4. BodyEnd(s, p) = b + s[b]
      BY <2>2, <3>3 DEF BodyEnd, w
    <3>5. Resume(s, p) = b + s[b] + 2
      BY <1>3, <3>4 DEF Resume
    <3>6. b + s[b] + 2 <= Len(s)
      BY <1>1, <1>3, <3>1, <3>2, <3>4 DEF Hungry
    <3> QED
      BY <1>1, <2>1, <3>2, <3>5, <3>6, SMTT(20)
  <2>3. CASE ~HasData(s[p + 2])
    <3>1. BodyEnd(s, p) = p + 2 + w
      BY <2>3 DEF BodyEnd, w
    <3>2. Resume(s, p) = p + 2 + w + 2 /\ p + 2 + w + 2 <= Len(s)
      BY <1>1, <1>3, <2>1, <3>1 DEF Resume, Hungry
    <3> QED
      BY <1>1, <2>1, <3>2
  <2> QED
    BY <2>2, <2>3
<1> QED
  BY <1>2, <1>3

(* What it finds is at most one item.                                      *)
LEMMA FoundType ==
  ASSUME NEW s \in Seq(Byte), NEW p \in 0 .. Len(s)
  PROVE  Found(s, p) \in Seq(Items(s))
<1> DEFINE x == [from |-> p, to |-> Resume(s, p), request |-> FrameRequest(s, p)]
<1>1. x \in Items(s)
  BY DEF Items
<1>2. Found(s, p) = << x >> \/ Found(s, p) = << >>
  BY DEF Found
<1> HIDE DEF x
<1>3. << x >> \in Seq(Items(s)) /\ << >> \in Seq(Items(s))
  BY <1>1
<1> QED
  BY <1>2, <1>3

(* With a whole body and both CRC bytes in hand it goes on after them.     *)
LEMMA BodyResumes ==
  ASSUME NEW s \in Seq(Byte), NEW st \in Nat, NEW buf \in Seq(Byte),
         NEW fc, NEW word, NEW count, NEW data \in Seq(Byte),
         BodyRead(s, st, buf, fc, word, count, data),
         NEW n, n = Len(buf), st + n + 2 <= Len(s)
  PROVE  ~Hungry(s, st) /\ Resume(s, st) = st + n + 2
<1>1. /\ fc \in ValidFc /\ s[st + 1] = Address /\ s[st + 2] = fc
      /\ st + 2 <= Len(s)
      /\ HasData(fc) => st + 3 + WordBytes(fc) <= Len(s)
      /\ BodyEnd(s, st) = st + n
  BY BodyEnds
<1>2. Resume(s, st) = st + n + 2
  BY <1>1 DEF Resume
<1>3. Len(s) \in Nat /\ WordBytes(fc) \in {4, 8} /\ n \in Nat
  BY WordBytesType
<1>4. ~Hungry(s, st)
  BY <1>1, <1>3 DEF Hungry
<1> QED
  BY <1>2, <1>4

(* The recursive definition of the reader means what it says.              *)
LEMMA ReaderUnfolds ==
  ASSUME NEW s \in Seq(Byte)
  PROVE  /\ Reader(s) = [p \in 0 .. Len(s) |->
                           IF Hungry(s, p) THEN << >>
                           ELSE Found(s, p) \o Reader(s)[Resume(s, p)]]
         /\ \A p \in 0 .. Len(s) : Reader(s)[p] \in Seq(Items(s))
<1> DEFINE n == Len(s)
           stop == {p \in 0 .. n : Hungry(s, p)}
           found == [p \in 0 .. n |-> Found(s, p)]
           next == [p \in 0 .. n |-> Resume(s, p)]
           Unfolded(f) == f = [p \in 0 .. Len(s) |->
                                 IF Hungry(s, p) THEN << >>
                                 ELSE Found(s, p) \o f[Resume(s, p)]]
<1>1. n \in Nat
  OBVIOUS
<1>2. \A p \in 0 .. n : p \notin stop => next[p] \in p + 1 .. n
  BY ResumeForward
<1>3. \A p \in 0 .. n : found[p] \in Seq(Items(s))
  BY FoundType
<1>4. ASSUME NEW f PROVE Reads(f, 0, n, stop, found, next) <=> Unfolded(f)
  <2>1. [p \in 0 .. n |-> IF p \in stop THEN << >> ELSE found[p] \o f[next[p]]] =
        [p \in 0 .. Len(s) |-> IF Hungry(s, p) THEN << >>
                               ELSE Found(s, p) \o f[Resume(s, p)]]
    OBVIOUS
  <2> QED
    BY <2>1 DEF Reads
<1>5. \E f : Unfolded(f)
  <2> HIDE DEF n, stop, found, next
  <2>1. PICK f : Reads(f, 0, n, stop, found, next)
    BY <1>1, <1>2, ReaderExists
  <2> QED
    BY <2>1, <1>4
<1>6. Unfolded(Reader(s))
  <2>1. Reader(s) = CHOOSE f : Unfolded(f)
    BY Zenon DEF Reader
  <2> HIDE DEF Unfolded
  <2> QED
    BY <1>5, <2>1, Zenon
<1>7. \A p \in 0 .. n : Reader(s)[p] \in Seq(Items(s))
  <2>1. Reads(Reader(s), 0, n, stop, found, next)
    BY <1>4, <1>6, Zenon
  <2>2. \A p \in 0 .. n : p \notin stop => found[p] \in Seq(Items(s))
    BY <1>3
  <2> HIDE DEF n, stop, found, next, Unfolded
  <2> QED
    BY <1>1, <1>2, <2>1, <2>2, ReaderType, Zenon
<1> QED
  BY <1>6, <1>7

(* Where there is too little for a frame it hands out nothing.             *)
LEMMA ReaderWaits ==
  ASSUME NEW s \in Seq(Byte), NEW p \in 0 .. Len(s), Hungry(s, p)
  PROVE  Reader(s)[p] = << >>
BY ReaderUnfolds

(* A foreign byte, also the last one, is skipped.                          *)
LEMMA ReaderSkips ==
  ASSUME NEW s \in Seq(Byte), NEW p \in Nat, p + 1 <= Len(s), s[p + 1] # Address
  PROVE  Reader(s)[p] = Reader(s)[p + 1]
<1>1. Len(s) \in Nat /\ p \in 0 .. Len(s) /\ p + 1 \in 0 .. Len(s)
  OBVIOUS
<1>2. CASE p + 2 > Len(s)
  <2>1. Hungry(s, p) /\ Hungry(s, p + 1)
    BY <1>1, <1>2 DEF Hungry
  <2> QED
    BY <1>1, <2>1, ReaderWaits
<1>3. CASE ~(p + 2 > Len(s))
  <2>1. ~Hungry(s, p) /\ Resume(s, p) = p + 1
    BY <1>3 DEF Hungry, Resume
  <2>2. Found(s, p) = << >>
    BY DEF Found, IsFrame
  <2>3. Reader(s)[p] = << >> \o Reader(s)[p + 1]
    BY <1>1, <2>1, <2>2, ReaderUnfolds
  <2> QED
    BY <1>1, <2>3, ReaderUnfolds, ConcatEmptySeq
<1> QED
  BY <1>2, <1>3

(* Where a frame turns out not to be one it goes on after it.              *)
LEMMA ReaderGivesUp ==
  ASSUME NEW s \in Seq(Byte), NEW p \in 0 .. Len(s), ~Hungry(s, p),
         \A q : ~IsFrame(s, p, q)
  PROVE  Reader(s)[p] = Reader(s)[Resume(s, p)]
<1>1. Found(s, p) = << >>
  BY DEF Found
<1>2. Resume(s, p) \in 0 .. Len(s)
  BY ResumeForward
<1>3. Reader(s)[p] = << >> \o Reader(s)[Resume(s, p)]
  BY <1>1, ReaderUnfolds
<1> QED
  BY <1>2, <1>3, ReaderUnfolds, ConcatEmptySeq

(* A frame is handed out.                                                  *)
LEMMA ReaderTakes ==
  ASSUME NEW s \in Seq(Byte), NEW p \in Nat, NEW q \in Nat, IsFrame(s, p, q)
  PROVE  Reader(s)[p] = << [from |-> p, to |-> q,
                            request |-> FrameRequest(s, p)] >> \o Reader(s)[q]
<1>1. p \in 0 .. Len(s)
  BY DEF IsFrame
<1>2. Resume(s, p) = q
  BY DEF Resume, IsFrame
<1>3. ~Hungry(s, p)
  <2>1. /\ p + 2 <= Len(s) /\ q = BodyEnd(s, p) + 2 /\ q <= Len(s)
        /\ HasData(s[p + 2]) => p + 3 + WordBytes(s[p + 2]) <= Len(s)
    BY DEF IsFrame
  <2>2. Len(s) \in Nat /\ WordBytes(s[p + 2]) \in {4, 8}
    BY WordBytesType
  <2> QED
    BY <2>1, <2>2 DEF Hungry
<1> QED
  BY <1>1, <1>2, <1>3, ReaderUnfolds DEF Found

(* The same bytes of a request, but not yet all of them.                   *)
LEMMA Unfinished ==
  ASSUME NEW s \in Seq(Byte), NEW p \in Nat, NEW m \in Nat, Len(s) = p + m,
         NEW w, NEW d,
         m >= 2 => /\ s[p + 1] = Address /\ s[p + 2] \in ValidFc
                   /\ w = WordBytes(s[p + 2])
                   /\ ~HasData(s[p + 2]) => m < w + 4
                   /\ HasData(s[p + 2]) /\ m >= w + 3 =>
                        d = s[p + 3 + w] /\ m < w + 5 + d
  PROVE  Hungry(s, p)
<1>1. CASE m < 2
  BY <1>1 DEF Hungry
<1>2. CASE m >= 2
  <2>1. w \in {4, 8} /\ w = WordBytes(s[p + 2])
    BY <1>2, WordBytesType
  <2>2. CASE HasData(s[p + 2]) /\ m < w + 3
    <3>1. p + 3 + w > Len(s)
      BY <2>1, <2>2
    <3> QED
      BY <1>2, <2>1, <2>2, <3>1 DEF Hungry
  <2>3. CASE HasData(s[p + 2]) /\ m >= w + 3
    <3>1. d = s[p + 3 + w] /\ m < w + 5 + d
      BY <1>2, <2>3
    <3>2. p + 3 + w \in 1 .. Len(s) /\ p + 2 + w + 1 = p + 3 + w
      BY <2>1, <2>3, SMTT(20)
    <3>3. d \in Nat
      BY <3>1, <3>2, ByteIsNat
    <3>4. BodyEnd(s, p) = p + 3 + w + d
      BY <2>1, <2>3, <3>1, <3>2 DEF BodyEnd
    <3>5. p + 3 + w + d + 2 > Len(s)
      BY <2>1, <3>1, <3>3, SMTT(20)
    <3> QED
      BY <1>2, <3>4, <3>5 DEF Hungry
  <2>4. CASE ~HasData(s[p + 2])
    <3>1. BodyEnd(s, p) = p + 2 + w
      BY <2>1, <2>4 DEF BodyEnd
    <3>2. p + 2 + w + 2 > Len(s)
      BY <1>2, <2>1, <2>4
    <3> QED
      BY <1>2, <3>1, <3>2 DEF Hungry
  <2> QED
    BY <2>1, <2>2, <2>3, <2>4
<1> QED
  BY <1>1, <1>2

(* A frame that ends within the first n bytes of a stream is a frame of    *)
(* theirs, with the same request.                                          *)
LEMMA FrameInPrefix ==
  ASSUME NEW s \in Seq(Byte), NEW n \in 0 .. Len(s),
         NEW p \in Nat, NEW q \in 0 .. n, IsFrame(s, p, q)
  PROVE  /\ IsFrame(SubSeq(s, 1, n), p, q)
         /\ FrameRequest(SubSeq(s, 1, n), p) = FrameRequest(s, p)
<1> DEFINE w == WordBytes(s[p + 2])
           b == p + 3 + w
<1>1. PICK t : t = SubSeq(s, 1, n)
  OBVIOUS
<1>2. /\ t \in Seq(Byte) /\ Len(t) = n /\ n \in Nat /\ q \in Nat /\ q <= n
      /\ \A k \in 1 .. n : t[k] = s[k]
  BY <1>1, PrefixBytes
<1>3. /\ p + 2 <= Len(s) /\ s[p + 1] = Address /\ s[p + 2] \in ValidFc
      /\ HasData(s[p + 2]) => b <= Len(s)
      /\ q = BodyEnd(s, p) + 2
      /\ CheckCrc(SubSeq(s, p + 1, q - 2), s[q - 1], s[q])
  BY DEF IsFrame
<1>4. w \in {4, 8} /\ p + 2 + w + 1 = b
  BY WordBytesType
<1> HIDE DEF w
<1>5. BodyEnd(s, p) = IF HasData(s[p + 2]) THEN b + s[b] ELSE p + 2 + w
  BY <1>4 DEF BodyEnd, w
<1>6. HasData(s[p + 2]) => s[b] \in Nat /\ b + s[b] + 2 = q
  <2> HAVE HasData(s[p + 2])
  <2>1. b \in 1 .. Len(s)
    BY <1>3, <1>4
  <2>2. s[b] \in Nat
    BY <2>1, ByteIsNat
  <2> QED
    BY <1>3, <1>5, <2>2
<1>7. ~HasData(s[p + 2]) => p + 2 + w + 2 = q
  BY <1>3, <1>5
<1>8. p + 1 \in 1 .. n /\ p + 2 \in 1 .. n /\ q - 1 \in 1 .. n /\ q \in 1 .. n
  <2>1. q >= p + 8
    BY <1>2, <1>4, <1>6, <1>7
  <2> QED
    BY <1>2, <2>1
<1>9. HasData(s[p + 2]) => b \in 1 .. n
  BY <1>2, <1>4, <1>6
<1>10. t[p + 1] = s[p + 1] /\ t[p + 2] = s[p + 2] /\ t[q - 1] = s[q - 1] /\ t[q] = s[q]
  BY <1>2, <1>8
<1>11. HasData(s[p + 2]) => t[b] = s[b]
  BY <1>2, <1>9
<1>12. BodyEnd(t, p) = BodyEnd(s, p)
  BY <1>4, <1>5, <1>10, <1>11 DEF BodyEnd, w
<1>13. SubSeq(t, p + 1, q - 2) = SubSeq(s, p + 1, q - 2)
  <2>1. PICK i \in Nat, j \in Int : i = p + 1 /\ j = q - 2 /\ 1 <= i /\ j <= n
    BY <1>2
  <2>2. SubSeq(SubSeq(s, 1, n), i, j) = SubSeq(s, i, j)
    BY <2>1, PartOfPrefix
  <2> QED
    BY <1>1, <2>1, <2>2
<1>14. IsFrame(t, p, q)
  <2>1. p + 2 <= Len(t) /\ q <= Len(t)
    BY <1>2, <1>8
  <2>2. HasData(t[p + 2]) => p + 3 + WordBytes(t[p + 2]) <= Len(t)
    BY <1>2, <1>9, <1>10 DEF w
  <2>3. CheckCrc(SubSeq(t, p + 1, q - 2), t[q - 1], t[q])
    BY <1>3, <1>10, <1>13
  <2> QED
    BY <1>3, <1>10, <1>12, <2>1, <2>2, <2>3 DEF IsFrame
<1>15. FrameRequest(t, p) = FrameRequest(s, p)
  <2>1. \A k \in 1 .. w \div 2 : /\ t[p + 1 + 2 * k] = s[p + 1 + 2 * k]
                                 /\ t[p + 2 + 2 * k] = s[p + 2 + 2 * k]
    <3> TAKE k \in 1 .. w \div 2
    <3>1. k \in Nat /\ k >= 1 /\ 2 * k <= w
      BY <1>4
    <3>2. q >= p + 2 + w
      BY <1>2, <1>4, <1>6, <1>7
    <3>3. p + 1 + 2 * k \in 1 .. n /\ p + 2 + 2 * k \in 1 .. n
      BY <1>2, <1>4, <3>1, <3>2
    <3> QED
      BY <1>2, <3>3
  <2>2. HasData(s[p + 2]) => \A k \in 1 .. s[b] : t[b + k] = s[b + k]
    <3> HAVE HasData(s[p + 2])
    <3> TAKE k \in 1 .. s[b]
    <3>1. b + k \in 1 .. n
      BY <1>2, <1>4, <1>6
    <3> QED
      BY <1>2, <3>1
  <2>3. [k \in 1 .. w \div 2 |-> combine(t[p + 1 + 2 * k], t[p + 2 + 2 * k])] =
        [k \in 1 .. w \div 2 |-> combine(s[p + 1 + 2 * k], s[p + 2 + 2 * k])]
    BY <2>1
  <2>4. HasData(s[p + 2]) =>
          [k \in 1 .. s[b] |-> t[b + k]] = [k \in 1 .. s[b] |-> s[b + k]]
    BY <2>2
  <2> QED
    BY <1>4, <1>10, <1>11, <2>3, <2>4 DEF FrameRequest, w
<1> QED
  BY <1>1, <1>14, <1>15
===============================================================================
