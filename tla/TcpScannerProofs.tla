--------------------------- MODULE TcpScannerProofs ---------------------------
(***************************************************************************)
(* Theorems about TcpScanner for every address, set of streams and portion *)
(* size.  The argument is about start: between messages it is the reading  *)
(* position, inside one the number of bytes read since then follows from   *)
(* the state of the coroutine.                                             *)
(***************************************************************************)
EXTENDS TcpScanner, ModbusProofs

PduEntry == [from : Nat, to : Nat, request : TcpRequestType]

(* What the scanner reads is a byte of the stream, the next of the message *)
(* in hand.                                                                *)
LEMMA CurIsByte ==
  ASSUME TypeOK, Located, Placed, m_coro = "running"
  PROVE  /\ Cur \in Byte
         /\ Cur = stream[start + Progress + 1]
         /\ Progress \in Nat
         /\ lo + m_ix = start + Progress
         /\ lo + m_ix + 1 \in 1 .. Len(stream)
         /\ start + Progress + 1 <= lo + actual_size
<1>1. stream \in Seq(Byte) /\ Len(stream) \in Nat
  BY StreamsAssumption DEF TypeOK
<1>2. lo \in Nat /\ m_ix \in Nat /\ actual_size \in Nat /\ start \in Nat
  BY DEF TypeOK
<1>3. lo + m_ix + 1 \in 1 .. Len(stream) /\ m_ix < actual_size
  BY <1>1, <1>2 DEF Located
<1>4. Cur \in Byte
  BY <1>1, <1>3, ElementOfSeq DEF Cur
<1>5. lo + m_ix = start + Progress
  BY DEF Placed, ReadPos
<1>6. Progress \in Nat
  <2>1. hb \in 1 .. 6 /\ wb \in 1 .. 8 /\ ix \in Nat
    BY DEF TypeOK
  <2>2. WordsRead \in Nat
    <3>1. WordBytes(fc) \in Nat
      BY WordBytesType
    <3> QED
      BY <2>1, <3>1 DEF WordsRead
  <2> QED
    BY <2>1, <2>2 DEF Progress
<1>7. Cur = stream[start + Progress + 1]
  BY <1>5 DEF Cur
<1>8. start + Progress + 1 <= lo + actual_size
  BY <1>2, <1>3, <1>5, <1>6
<1> QED
  BY <1>3, <1>4, <1>5, <1>6, <1>7, <1>8

(* check_buf_end keeps m_ix inside the portion while the coroutine runs,   *)
(* and moves the reading position on by the byte that was read.            *)
LEMMA CheckBufEndMoves ==
  ASSUME TypeOK, Located, Placed, m_coro = "running", CheckBufEnd,
         UNCHANGED <<stream, lo, actual_size>>
  PROVE  /\ Located'
         /\ m_ix' \in Nat /\ m_coro' \in {"running", "in_sink"}
         /\ ReadPos' = start + Progress + 1
         /\ ReadPos' = lo + m_ix + 1
<1>1. lo \in Nat /\ m_ix \in Nat /\ actual_size \in Nat /\ m_ix < actual_size
  BY DEF TypeOK, Located
<1>2. /\ m_ix' = m_ix + 1
      /\ m_coro' = IF m_ix + 1 = actual_size THEN "in_sink" ELSE "running"
  BY DEF CheckBufEnd
<1>3. Located'
  BY <1>1, <1>2 DEF Located
<1>4. ReadPos' = lo + m_ix + 1
  BY <1>1, <1>2 DEF ReadPos
<1>5. lo + m_ix = start + Progress
  BY DEF Placed, ReadPos
<1> QED
  BY <1>1, <1>2, <1>3, <1>4, <1>5

(* The coroutine starts with nothing read and nothing remembered.          *)
LEMMA InitIInv == Init => IInv
<1> SUFFICES ASSUME Init PROVE IInv
  OBVIOUS
<1>1. stream \in Seq(Byte) /\ Len(stream) \in Nat
  BY StreamsAssumption DEF Init
<1>2. m_pdu \in PduType
  BY InitPduType DEF Init
<1>3. m_transact_id \in Seq(MaybeByte) /\ Len(m_transact_id) = 2
  BY MaybeByteType DEF Init
<1>4. TypeOK
  BY <1>2, <1>3 DEF Init, TypeOK, States, Byte
<1>5. Located
  BY <1>1 DEF Init, Located
<1>6. Placed
  BY DEF Init, Placed, ReadPos, Progress
<1>7. Stored
  BY <1>3 DEF Init, Stored, WordsRead, Counted
<1>8. PdusAreMessages
  BY DEF Init, PdusAreMessages
<1> QED
  BY <1>4, <1>5, <1>6, <1>7, <1>8 DEF IInv

(* A new portion starts where the last one ended.                          *)
LEMMA ScanIInv == IInv /\ Scan => IInv'
<1> SUFFICES ASSUME IInv, Scan PROVE IInv'
  OBVIOUS
<1>1. TypeOK /\ Located /\ Placed /\ Stored /\ PdusAreMessages
  BY DEF IInv
<1>2. /\ actual_size' \in Nat
      /\ lo + actual_size + actual_size' <= Len(stream)
      /\ actual_size' > 0
  BY PortionAssumption DEF Scan
<1>3. /\ lo' = lo + actual_size /\ m_ix' = 0
      /\ m_coro = "in_sink" /\ m_coro' = "running"
      /\ UNCHANGED <<stream, pc, hb, wb, word, ix, fc, m_transact_id, m_pdu,
                     start, pdus, nonses, foreign>>
  BY DEF Scan, line, locals, record, calls
<1>4. lo \in Nat /\ actual_size \in Nat
  BY <1>1 DEF TypeOK
<1>5. TypeOK'
  BY <1>1, <1>2, <1>3, <1>4 DEF TypeOK
<1>6. Located'
  BY <1>2, <1>3, <1>4 DEF Located
<1>7. Placed'
  <2>1. ReadPos' = ReadPos
    BY <1>3, <1>4 DEF ReadPos
  <2>2. Progress' = Progress
    BY <1>3 DEF Progress, Counted, WordsRead
  <2> QED
    BY <1>1, <1>3, <2>1, <2>2 DEF Placed
<1>8. Stored'
  BY <1>1, <1>3 DEF Stored, Counted, WordsRead
<1>9. PdusAreMessages'
  BY <1>1, <1>3 DEF PdusAreMessages
<1> QED
  BY <1>5, <1>6, <1>7, <1>8, <1>9 DEF IInv

(* One of two elements replaced.                                           *)
LEMMA PairExcept ==
  ASSUME NEW S, NEW s \in Seq(S), Len(s) = 2, NEW n \in {1, 2}, NEW c \in S,
         NEW t, t = [s EXCEPT ![n] = c]
  PROVE  /\ t \in Seq(S) /\ Len(t) = 2
         /\ \A k \in 1 .. 2 : t[k] = IF k = n THEN c ELSE s[k]
<1>1. s \in [1 .. 2 -> S] /\ DOMAIN s = 1 .. 2
  BY LenProperties
<1>2. t \in [1 .. 2 -> S] /\ \A k \in 1 .. 2 : t[k] = IF k = n THEN c ELSE s[k]
  BY <1>1
<1>3. t \in Seq(S)
  BY <1>2, SMTT(20)
<1>4. Len(t) = 2
  BY <1>2, <1>3, LenProperties
<1> QED
  BY <1>2, <1>3, <1>4

(* A header byte: the first two are the transaction id.                    *)
LEMMA HeaderByteIInv == IInv /\ HeaderByte => IInv'
<1> SUFFICES ASSUME IInv, HeaderByte PROVE IInv'
  OBVIOUS
<1>1. TypeOK /\ Located /\ Placed /\ Stored /\ PdusAreMessages
  BY DEF IInv
<1>2. /\ m_coro = "running" /\ pc = "header"
      /\ m_transact_id' = IF hb \in {1, 2} THEN [m_transact_id EXCEPT ![hb] = Cur]
                                           ELSE m_transact_id
      /\ IF hb < 6 THEN hb' = hb + 1 /\ pc' = "header" ELSE hb' = 1 /\ pc' = "unit_id"
      /\ CheckBufEnd
      /\ UNCHANGED <<stream, lo, actual_size, wb, word, ix, fc, m_pdu, start,
                     pdus, nonses, foreign>>
  BY DEF HeaderByte, At, line, input, calls
<1>3. /\ Located' /\ m_ix' \in Nat /\ m_coro' \in {"running", "in_sink"}
      /\ ReadPos' = start + Progress + 1
  BY <1>1, <1>2, CheckBufEndMoves
<1>4. /\ hb \in 1 .. 6 /\ start \in Nat
      /\ m_transact_id \in Seq(MaybeByte) /\ Len(m_transact_id) = 2
  BY <1>1 DEF TypeOK, Stored
<1>5. Progress = hb - 1
  BY <1>2 DEF Progress
<1>6. Cur \in Byte /\ Cur = stream[start + hb]
  <2>1. Cur \in Byte /\ Cur = stream[start + Progress + 1]
    BY <1>1, <1>2, CurIsByte
  <2>2. start + Progress + 1 = start + hb
    BY <1>4, <1>5
  <2> QED
    BY <2>1, <2>2
<1>7. /\ m_transact_id' \in Seq(MaybeByte) /\ Len(m_transact_id') = 2
      /\ \A k \in 1 .. 2 :
           m_transact_id'[k] = IF k = hb THEN Cur ELSE m_transact_id[k]
  <2>1. CASE hb \in {1, 2}
    <3>1. Cur \in MaybeByte /\ hb \in 1 .. Len(m_transact_id)
      BY <1>4, <1>6, <2>1, MaybeByteType
    <3>2. m_transact_id' = [m_transact_id EXCEPT ![hb] = Cur]
      BY <1>2, <2>1
    <3> QED
      BY <1>4, <2>1, <3>1, <3>2, PairExcept
  <2>2. CASE hb \notin {1, 2}
    BY <1>2, <1>4, <2>2
  <2> QED
    BY <2>1, <2>2
<1>8. TypeOK'
  <2>1. hb' \in 1 .. 6
    BY <1>2, <1>4
  <2>2. pc' \in States
    BY <1>2 DEF States
  <2> QED
    BY <1>1, <1>2, <1>3, <1>7, <2>1, <2>2 DEF TypeOK
<1>9. Placed'
  <2>1. Progress' = Progress + 1
    BY <1>2, <1>4, <1>5 DEF Progress
  <2> QED
    BY <1>2, <1>3, <1>4, <1>5, <2>1 DEF Placed
<1>10. Stored'
  <2>1. ASSUME NEW k \in 1 .. 2, pc' = "header" => k < hb'
        PROVE  m_transact_id'[k] = stream[start + k]
    <3>1. CASE k = hb
      BY <1>6, <1>7, <3>1
    <3>2. CASE k # hb
      <4>1. k < hb
        BY <1>2, <1>4, <2>1, <3>2
      <4> QED
        BY <1>1, <1>2, <1>7, <3>2, <4>1 DEF Stored
    <3> QED
      BY <3>1, <3>2
  <2>2. pc' \in {"header", "unit_id"} /\ WordsRead' = 0 /\ ~Counted'
    BY <1>2 DEF WordsRead, Counted
  <2> QED
    BY <1>2, <1>7, <2>1, <2>2 DEF Stored
<1>11. PdusAreMessages'
  BY <1>1, <1>2 DEF PdusAreMessages
<1> QED
  BY <1>3, <1>8, <1>9, <1>10, <1>11 DEF IInv

(* Our unit id.                                                            *)
LEMMA UnitMatchIInv == IInv /\ UnitMatch => IInv'
<1> SUFFICES ASSUME IInv, UnitMatch PROVE IInv'
  OBVIOUS
<1>1. TypeOK /\ Located /\ Placed /\ Stored /\ PdusAreMessages
  BY DEF IInv
<1>2. /\ m_coro = "running" /\ pc = "unit_id" /\ pc' = "function"
      /\ Cur = Address
      /\ CheckBufEnd
      /\ UNCHANGED <<stream, lo, actual_size, hb, wb, word, ix, fc,
                     m_transact_id, m_pdu, start, pdus, nonses, foreign>>
  BY DEF UnitMatch, At, line, input, locals, record, calls
<1>3. /\ Located' /\ m_ix' \in Nat /\ m_coro' \in {"running", "in_sink"}
      /\ ReadPos' = start + Progress + 1
  BY <1>1, <1>2, CheckBufEndMoves
<1>4. Progress = 6 /\ Progress' = 7 /\ start \in Nat
  BY <1>1, <1>2 DEF Progress, TypeOK
<1>5. stream[start + Header] = Address
  <2>1. Cur = stream[start + Progress + 1]
    BY <1>1, <1>2, CurIsByte
  <2>2. start + Progress + 1 = start + Header
    BY <1>4 DEF Header
  <2> QED
    BY <1>2, <2>1, <2>2
<1>6. TypeOK'
  BY <1>1, <1>2, <1>3 DEF TypeOK, States
<1>7. Placed'
  BY <1>1, <1>2, <1>3, <1>4 DEF Placed
<1>8. Stored'
  BY <1>1, <1>2, <1>5 DEF Stored, Counted, WordsRead
<1>9. PdusAreMessages'
  BY <1>1, <1>2 DEF PdusAreMessages
<1> QED
  BY <1>3, <1>6, <1>7, <1>8, <1>9 DEF IInv

(* A function code the scanner knows.                                      *)
LEMMA FunctionIInv == IInv /\ Function => IInv'
<1> SUFFICES ASSUME IInv, Function PROVE IInv'
  OBVIOUS
<1>1. TypeOK /\ Located /\ Placed /\ Stored /\ PdusAreMessages
  BY DEF IInv
<1>2. /\ m_coro = "running" /\ pc = "function" /\ pc' = "i16"
      /\ Cur \in ValidFc /\ fc' = Cur /\ wb' = 1
      /\ CheckBufEnd
      /\ UNCHANGED <<stream, lo, actual_size, hb, word, ix,
                     m_transact_id, m_pdu, start, pdus, nonses, foreign>>
  BY DEF Function, At, line, input, record, calls
<1>3. /\ Located' /\ m_ix' \in Nat /\ m_coro' \in {"running", "in_sink"}
      /\ ReadPos' = start + Progress + 1
  BY <1>1, <1>2, CheckBufEndMoves
<1>4. /\ Progress = 7 /\ Progress' = 8 /\ start \in Nat
      /\ WordsRead' = 0 /\ ~Counted'
  BY <1>1, <1>2 DEF Progress, TypeOK, Counted, WordsRead
<1>5. fc' = stream[start + Header + 1]
  <2>1. Cur = stream[start + Progress + 1]
    BY <1>1, <1>2, CurIsByte
  <2>2. start + Progress + 1 = start + Header + 1
    BY <1>4 DEF Header
  <2> QED
    BY <1>2, <2>1, <2>2
<1>6. TypeOK'
  BY <1>1, <1>2, <1>3 DEF TypeOK, States
<1>7. Placed'
  BY <1>1, <1>2, <1>3, <1>4 DEF Placed
<1>8. Stored'
  <2>1. wb' <= WordBytes(fc')
    BY <1>2, WordBytesType
  <2> QED
    BY <1>1, <1>2, <1>4, <1>5, <2>1 DEF Stored
<1>9. PdusAreMessages'
  BY <1>1, <1>2 DEF PdusAreMessages
<1> QED
  BY <1>3, <1>6, <1>7, <1>8, <1>9 DEF IInv

(* Giving up: the rest of the portion is dropped, and the next byte that   *)
(* arrives is taken for the start of a header.                             *)
LEMMA NonsenseIInv == IInv /\ (UnitForeign \/ InvalidFunction) => IInv'
<1> SUFFICES ASSUME IInv, UnitForeign \/ InvalidFunction PROVE IInv'
  OBVIOUS
<1>1. TypeOK /\ Located /\ Placed /\ Stored /\ PdusAreMessages
  BY DEF IInv
<1>2. /\ m_coro = "running" /\ pc \in {"unit_id", "function"}
      /\ pc' = "header" /\ m_coro' = "in_sink" /\ start' = lo + actual_size
      /\ UNCHANGED <<stream, lo, actual_size, m_ix, hb, wb, word, ix, fc,
                     m_transact_id, m_pdu, pdus>>
  BY DEF UnitForeign, InvalidFunction, GotoPreTransactState, At, line, input,
         locals, record
<1>3. LET given == [from |-> start, to |-> lo + actual_size] IN
        /\ nonses' = nonses \/ nonses' = nonses \cup {given}
        /\ foreign' = foreign \/ foreign' = foreign \cup {given}
  BY DEF UnitForeign, InvalidFunction
<1>4. lo \in Nat /\ actual_size \in Nat /\ start \in Nat /\ hb = 1
  BY <1>1, <1>2 DEF TypeOK, Placed
<1>5. /\ nonses' \in SUBSET [from : Nat, to : Nat]
      /\ foreign' \in SUBSET [from : Nat, to : Nat]
  <2>1. [from |-> start, to |-> lo + actual_size] \in [from : Nat, to : Nat]
    BY <1>4
  <2> QED
    BY <1>1, <1>3, <2>1 DEF TypeOK
<1>6. TypeOK'
  BY <1>1, <1>2, <1>4, <1>5 DEF TypeOK, States
<1>7. Located'
  BY <1>1, <1>2, <1>4 DEF Located
<1>8. Placed'
  BY <1>2, <1>4 DEF Placed, ReadPos, Progress
<1>9. Stored'
  BY <1>1, <1>2, <1>4 DEF Stored, Counted, WordsRead
<1>10. PdusAreMessages'
  BY <1>1, <1>2 DEF PdusAreMessages
<1> QED
  BY <1>6, <1>7, <1>8, <1>9, <1>10 DEF IInv

-------------------------------------------------------------------------------
(* Delivery.                                                               *)

(* pdu and words hold the bytes of the message in hand, which has been     *)
(* read up to its end.                                                     *)
InHand(pdu, words, to) ==
  /\ pdu \in PduType /\ words \in [1..8 -> Byte]
  /\ \A k \in 1 .. WordBytes(fc) : words[k] = stream[start + 8 + k]
  /\ WordBytes(fc) = 8 => /\ pdu.m_i16[3] = combine(words[5], words[6])
                          /\ pdu.m_i16[4] = combine(words[7], words[8])
  /\ HasData(fc) =>
       /\ pdu.m_i8_1 = stream[start + 9 + WordBytes(fc)]
       /\ Len(pdu.m_data) = pdu.m_i8_1
       /\ \A k \in 1 .. Len(pdu.m_data) :
            pdu.m_data[k] = stream[start + 9 + WordBytes(fc) + k]
  /\ to = IF HasData(fc) THEN start + 9 + WordBytes(fc) + pdu.m_i8_1
                         ELSE start + 8 + WordBytes(fc)
  /\ to <= Len(stream)

(* The bytes read are a message.                                           *)
LEMMA InHandIsMessage ==
  ASSUME TypeOK, Stored, pc \notin {"header", "unit_id", "function"},
         NEW pdu, NEW words, NEW to, InHand(pdu, words, to)
  PROVE  IsMessage(stream, start, to) /\ to \in Nat
<1> DEFINE w == WordBytes(fc)
<1>1. /\ stream \in Seq(Byte) /\ Len(stream) \in Nat /\ start \in Nat
      /\ w \in {4, 8}
  BY StreamsAssumption, WordBytesType DEF TypeOK
<1>2. /\ stream[start + 7] = Address
      /\ fc = stream[start + 7 + 1] /\ fc \in ValidFc
  BY DEF Stored, Header
<1>3. /\ HasData(fc) => /\ pdu.m_i8_1 = stream[start + 9 + w]
                        /\ Len(pdu.m_data) = pdu.m_i8_1
                        /\ to = start + 9 + w + pdu.m_i8_1
      /\ ~HasData(fc) => to = start + 8 + w
      /\ to <= Len(stream)
  BY DEF InHand
<1>4. HasData(fc) => pdu.m_i8_1 \in Nat
  <2>1. pdu.m_data \in Seq(Byte)
    BY DEF InHand, PduType
  <2> QED
    BY <1>3, <2>1, LenProperties
<1> HIDE DEF w
<1>5. /\ to \in Nat
      /\ start + 7 + 1 <= Len(stream)
      /\ HasData(fc) => start + 7 + 2 + w <= Len(stream)
  BY <1>1, <1>3, <1>4
<1>6. MessageEnd(stream, start) = IF HasData(fc)
         THEN start + 7 + 1 + w + 1 + stream[start + 7 + 1 + w + 1]
         ELSE start + 7 + 1 + w
  BY <1>2 DEF MessageEnd, Header, w
<1>7. to = MessageEnd(stream, start)
  <2>1. CASE HasData(fc)
    <3>1. start + 7 + 1 + w + 1 = start + 9 + w
      BY <1>1
    <3> QED
      BY <1>3, <1>6, <2>1, <3>1
  <2>2. CASE ~HasData(fc)
    <3>1. start + 7 + 1 + w = start + 8 + w
      BY <1>1
    <3> QED
      BY <1>3, <1>6, <2>2, <3>1
  <2> QED
    BY <2>1, <2>2
<1> QED
  BY <1>2, <1>3, <1>5, <1>7 DEF IsMessage, Header, w

(* The record handed to the callback is the request of that message, with  *)
(* its transaction id.                                                     *)
LEMMA InHandRequest ==
  ASSUME TypeOK, Stored, pc \notin {"header", "unit_id", "function"},
         NEW pdu, NEW words, NEW to, InHand(pdu, words, to)
  PROVE  /\ FinishedPdu(pdu, words) \in PduType
         /\ TcpRequest(m_transact_id, FinishedPdu(pdu, words)) =
              MessageRequest(stream, start)
         /\ MessageRequest(stream, start) \in TcpRequestType
<1> DEFINE w == WordBytes(fc)
           b == start + 8
           i16 == [pdu.m_i16 EXCEPT ![1] = combine(words[1], words[2]),
                                    ![2] = combine(words[3], words[4])]
<1>1. /\ stream \in Seq(Byte) /\ Len(stream) \in Nat
      /\ start \in Nat /\ b \in Nat /\ w \in {4, 8}
      /\ start + 8 <= Len(stream)
  <2>1. stream \in Seq(Byte) /\ start \in Nat
    BY StreamsAssumption DEF TypeOK
  <2>2. start + 8 <= Len(stream)
    <3>1. start + Header + 1 <= Len(stream)
      BY InHandIsMessage DEF IsMessage
    <3> QED
      BY <2>1, <3>1 DEF Header
  <2> QED
    BY <2>1, <2>2, WordBytesType
<1>2. pdu \in PduType /\ words \in [1..8 -> Byte]
  BY DEF InHand
<1>3. fc = stream[start + Header + 1] /\ fc \in ValidFc
  BY DEF Stored
<1>4. b = start + Header + 1
  BY <1>1 DEF Header
<1>5. FinishedPdu(pdu, words) = [pdu EXCEPT !.m_i16 = i16, !.m_fc = fc]
  BY <1>2 DEF FinishedPdu, PduType
<1>6. /\ i16 \in [1..4 -> MaybeWord16]
      /\ i16[1] = combine(words[1], words[2])
      /\ i16[2] = combine(words[3], words[4])
      /\ i16[3] = pdu.m_i16[3]
      /\ i16[4] = pdu.m_i16[4]
  <2>1. /\ combine(words[1], words[2]) \in MaybeWord16
        /\ combine(words[3], words[4]) \in MaybeWord16
    BY <1>2, CombineType
  <2>2. pdu.m_i16 \in [1..4 -> MaybeWord16]
    BY <1>2 DEF PduType
  <2> QED
    BY <2>1, <2>2, FirstTwoWords
<1> HIDE DEF i16
<1>7. PICK done : done = FinishedPdu(pdu, words)
  OBVIOUS
<1>8. /\ done \in PduType
      /\ done.m_fc = fc /\ done.m_i16 = i16
      /\ done.m_i8_1 = pdu.m_i8_1 /\ done.m_data = pdu.m_data
  BY <1>2, <1>3, <1>5, <1>6, <1>7 DEF PduType
<1>9. Repeats(done, words, stream, b)
  <2>1. stream[b] \in ValidFc /\ done.m_fc = stream[b] /\ w = WordBytes(stream[b])
    BY <1>3, <1>4, <1>8
  <2>2. \A k \in 1 .. w : words[k] = stream[b + k]
    BY DEF InHand
  <2>3. /\ done.m_i16[1] = combine(words[1], words[2])
        /\ done.m_i16[2] = combine(words[3], words[4])
        /\ w = 8 => /\ done.m_i16[3] = combine(words[5], words[6])
                   /\ done.m_i16[4] = combine(words[7], words[8])
    BY <1>6, <1>8 DEF InHand
  <2>4. HasData(stream[b]) =>
          /\ b + (w + 1) \in 1 .. Len(stream)
          /\ done.m_i8_1 = stream[b + (w + 1)]
          /\ Len(done.m_data) = done.m_i8_1
          /\ \A k \in 1 .. Len(done.m_data) : done.m_data[k] = stream[b + (w + 1 + k)]
    <3> HAVE HasData(stream[b])
    <3>1. HasData(fc)
      BY <1>3, <1>4
    <3>2. /\ pdu.m_i8_1 = stream[start + 9 + w]
          /\ Len(pdu.m_data) = pdu.m_i8_1
          /\ \A k \in 1 .. Len(pdu.m_data) : pdu.m_data[k] = stream[start + 9 + w + k]
          /\ to = start + 9 + w + pdu.m_i8_1 /\ to <= Len(stream)
      BY <3>1 DEF InHand
    <3>3. Len(pdu.m_data) \in Nat
      BY <1>2, LenProperties DEF PduType
    <3>4. b + (w + 1) = start + 9 + w
      BY <1>1
    <3>5. b + (w + 1) \in 1 .. Len(stream)
      <4>1. PICK x \in Nat, y \in Nat, n \in Nat :
              x = b + (w + 1) /\ x > 0 /\ y = Len(pdu.m_data) /\ n = Len(stream)
        BY <1>1, <3>3
      <4>2. x + y <= n
        BY <1>1, <3>2, <3>4, <4>1
      <4>3. x \in 1 .. n
        BY <4>1, <4>2
      <4> QED
        BY <4>1, <4>3
    <3>6. \A k \in 1 .. Len(pdu.m_data) : b + (w + 1 + k) = start + 9 + w + k
      BY <1>1
    <3> QED
      BY <1>8, <3>2, <3>4, <3>5, <3>6
  <2> HIDE DEF b, w
  <2> QED
    BY <2>1, <2>2, <2>3, <2>4 DEF Repeats
<1>10. Request(done) = RequestFrom(stream, b) /\ Request(done) \in RequestType
  BY <1>1, <1>2, <1>8, <1>9, RecordSays
<1> DEFINE id == << stream[start + 1], stream[start + 2] >>
<1>11. m_transact_id = id /\ id \in Seq(Byte)
  <2>1. /\ Len(m_transact_id) = 2 /\ m_transact_id \in Seq(MaybeByte)
        /\ m_transact_id[1] = stream[start + 1]
        /\ m_transact_id[2] = stream[start + 2]
    BY DEF Stored, TypeOK
  <2>2. m_transact_id = << m_transact_id[1], m_transact_id[2] >>
    BY <2>1
  <2>3. stream[start + 1] \in Byte /\ stream[start + 2] \in Byte
    <3>1. start + 1 \in 1 .. Len(stream) /\ start + 2 \in 1 .. Len(stream)
      BY <1>1
    <3> QED
      BY <1>1, <3>1, ElementOfSeq
  <2> QED
    BY <2>1, <2>2, <2>3
<1> HIDE DEF id
<1>12. TcpRequest(m_transact_id, done) =
         [ id |-> id, fc |-> fc, words |-> RequestFrom(stream, b).words,
           count |-> RequestFrom(stream, b).count, data |-> RequestFrom(stream, b).data ]
  BY <1>8, <1>10, <1>11 DEF TcpRequest
<1>13. /\ RequestFrom(stream, b).words =
            [k \in 1 .. w \div 2 |->
               combine(stream[start + Header + 2 * k], stream[start + Header + 1 + 2 * k])]
       /\ RequestFrom(stream, b).count =
            IF HasData(fc) THEN stream[start + Header + 1 + w + 1] ELSE 0
       /\ RequestFrom(stream, b).data =
            IF HasData(fc) THEN [k \in 1 .. stream[start + Header + 1 + w + 1] |->
                                   stream[start + Header + 1 + w + 1 + k]]
                           ELSE << >>
  <2>1. stream[b] = fc
    BY <1>3, <1>4
  <2>2. \A k \in 1 .. w \div 2 :
          /\ b + (2 * k - 1) = start + Header + 2 * k
          /\ b + 2 * k = start + Header + 1 + 2 * k
    BY <1>1 DEF Header
  <2>3. b + (w + 1) = start + Header + 1 + w + 1
    BY <1>1 DEF Header
  <2>4. \A k \in Int : b + (w + 1 + k) = start + Header + 1 + w + 1 + k
    BY <1>1 DEF Header
  <2>5. [k \in 1 .. w \div 2 |-> combine(stream[b + (2 * k - 1)], stream[b + 2 * k])] =
        [k \in 1 .. w \div 2 |->
           combine(stream[start + Header + 2 * k], stream[start + Header + 1 + 2 * k])]
    BY <2>2
  <2>6. [k \in 1 .. stream[b + (w + 1)] |-> stream[b + (w + 1 + k)]] =
        [k \in 1 .. stream[start + Header + 1 + w + 1] |->
           stream[start + Header + 1 + w + 1 + k]]
    <3>1. \A k \in 1 .. stream[b + (w + 1)] :
            stream[b + (w + 1 + k)] = stream[start + Header + 1 + w + 1 + k]
      BY <2>4
    <3> HIDE DEF b, w
    <3> QED
      BY <2>3, <3>1
  <2> HIDE DEF b
  <2> QED
    BY <2>1, <2>3, <2>5, <2>6 DEF RequestFrom
<1>14. TcpRequest(m_transact_id, done) = MessageRequest(stream, start)
  <2> HIDE DEF b
  <2> QED
    BY <1>3, <1>12, <1>13 DEF MessageRequest, id, w
<1>15. TcpRequest(m_transact_id, done) \in TcpRequestType
  <2> HIDE DEF b
  <2> QED
    BY <1>3, <1>10, <1>11, <1>12 DEF TcpRequestType, RequestType
<1> QED
  BY <1>7, <1>8, <1>14, <1>15

(* What a delivery needs beside whole_pdu: the message in hand, and locals *)
(* that keep their types.                                                  *)
Deliverable(pdu, words, to) ==
  /\ m_coro = "running"
  /\ pc \notin {"header", "unit_id", "function"}
  /\ InHand(pdu, words, to)
  /\ WholePdu(pdu, words, to)
  /\ wb' \in 1..8 /\ word' \in [1..8 -> Byte] /\ ix' \in Nat
  /\ UNCHANGED <<stream, lo, actual_size, hb, fc, m_transact_id>>

(* A delivered request is a message, and the next one starts from nothing  *)
(* at the next byte.                                                       *)
LEMMA WholePduIInv ==
  ASSUME IInv, NEW pdu, NEW words, NEW to, Deliverable(pdu, words, to)
  PROVE  IInv'
<1>1. TypeOK /\ Located /\ Placed /\ Stored /\ PdusAreMessages
  BY DEF IInv
<1>2. /\ m_coro = "running" /\ pc \notin {"header", "unit_id", "function"}
      /\ InHand(pdu, words, to)
      /\ wb' \in 1..8 /\ word' \in [1..8 -> Byte] /\ ix' \in Nat
      /\ UNCHANGED <<stream, lo, actual_size, hb, fc, m_transact_id>>
  BY DEF Deliverable
<1>3. PICK done, request : /\ done = FinishedPdu(pdu, words)
                           /\ request = MessageRequest(stream, start)
  OBVIOUS
<1>4. /\ done \in PduType /\ request \in TcpRequestType
      /\ TcpRequest(m_transact_id, done) = request
      /\ IsMessage(stream, start, to) /\ to \in Nat
  BY <1>1, <1>2, <1>3, InHandRequest, InHandIsMessage
<1>5. PICK entry : entry = [from |-> start, to |-> to, request |-> request]
  OBVIOUS
<1>6. /\ m_pdu' = done /\ pdus' = Append(pdus, entry)
      /\ pc' = "header" /\ start' = lo + m_ix + 1
      /\ CheckBufEnd
      /\ UNCHANGED <<nonses, foreign>>
  BY <1>3, <1>4, <1>5 DEF Deliverable, WholePdu
<1>7. /\ Located' /\ m_ix' \in Nat /\ m_coro' \in {"running", "in_sink"}
      /\ ReadPos' = lo + m_ix + 1
  BY <1>1, <1>2, <1>6, CheckBufEndMoves
<1>8. /\ entry \in PduEntry
      /\ entry.from = start /\ entry.to = to
      /\ entry.request = MessageRequest(stream, start)
  BY <1>1, <1>3, <1>4, <1>5 DEF PduEntry, TypeOK
<1>9. /\ pdus' \in Seq(PduEntry)
      /\ Len(pdus') = Len(pdus) + 1 /\ Len(pdus) \in Nat
      /\ \A i \in 1 .. Len(pdus) : pdus'[i] = pdus[i]
      /\ pdus'[Len(pdus) + 1] = entry
  <2>1. pdus \in Seq(PduEntry)
    BY <1>1 DEF TypeOK, PduEntry
  <2> QED
    BY <1>6, <1>8, <2>1, AppendProperties
<1>10. hb' = 1 /\ lo + m_ix + 1 \in Nat
  BY <1>1, <1>2 DEF Placed, TypeOK
<1>11. TypeOK'
  BY <1>1, <1>2, <1>4, <1>6, <1>7, <1>9, <1>10 DEF TypeOK, States, PduEntry
<1>12. Placed'
  BY <1>6, <1>7, <1>10 DEF Placed, Progress
<1>13. Stored'
  BY <1>1, <1>2, <1>6, <1>10 DEF Stored, Counted, WordsRead
<1>14. PdusAreMessages'
  <2>1. ASSUME NEW i \in 1 .. Len(pdus')
        PROVE  /\ IsMessage(stream, pdus'[i].from, pdus'[i].to)
               /\ pdus'[i].request = MessageRequest(stream, pdus'[i].from)
    <3>1. CASE i = Len(pdus) + 1
      BY <1>4, <1>8, <1>9, <3>1
    <3>2. CASE i # Len(pdus) + 1
      <4>1. i \in 1 .. Len(pdus)
        BY <1>9, <3>2
      <4> QED
        BY <1>1, <1>9, <4>1 DEF PdusAreMessages
    <3> QED
      BY <3>1, <3>2
  <2> QED
    BY <1>2, <2>1 DEF PdusAreMessages
<1> QED
  BY <1>7, <1>11, <1>12, <1>13, <1>14 DEF IInv

-------------------------------------------------------------------------------
(* The fields.                                                             *)

(* What one more byte of the words makes of them, and what StoreWords does *)
(* to the record.                                                          *)
LEMMA WordRead ==
  ASSUME IInv, m_coro = "running", pc = "i16",
         NEW words, words = [word EXCEPT ![wb] = Cur]
  PROVE  /\ wb \in 1 .. 8 /\ wb <= WordBytes(fc)
         /\ Progress = 7 + wb
         /\ words \in [1..8 -> Byte]
         /\ \A k \in 1 .. wb : words[k] = stream[start + 8 + k]
         /\ StoreWords(words) \in PduType
         /\ StoreWords(words).m_i8_1 = m_pdu.m_i8_1
         /\ StoreWords(words).m_data = m_pdu.m_data
         /\ wb = 8 => /\ StoreWords(words).m_i16[3] = combine(words[5], words[6])
                      /\ StoreWords(words).m_i16[4] = combine(words[7], words[8])
<1>1. TypeOK /\ Located /\ Placed /\ Stored
  BY DEF IInv
<1>2. /\ wb \in 1 .. 8 /\ wb <= WordBytes(fc) /\ start \in Nat
      /\ word \in [1..8 -> Byte] /\ m_pdu \in PduType
  BY <1>1 DEF TypeOK, Stored
<1>3. WordsRead = wb - 1 /\ Progress = 7 + wb
  BY <1>2 DEF WordsRead, Progress, Counted
<1>4. Cur \in Byte /\ Cur = stream[start + 8 + wb]
  <2>1. Cur \in Byte /\ Cur = stream[start + Progress + 1]
    BY <1>1, CurIsByte
  <2>2. start + Progress + 1 = start + 8 + wb
    BY <1>2, <1>3
  <2> QED
    BY <2>1, <2>2
<1>5. words \in [1..8 -> Byte]
  BY <1>2, <1>4
<1>6. \A k \in 1 .. wb : words[k] = stream[start + 8 + k]
  <2> TAKE k \in 1 .. wb
  <2>1. CASE k = wb
    BY <1>2, <1>4, <2>1
  <2>2. CASE k # wb
    <3>1. k \in 1 .. WordsRead /\ k \in 1 .. 8
      BY <1>2, <1>3, <2>2
    <3> QED
      BY <1>1, <1>2, <2>2, <3>1 DEF Stored
  <2> QED
    BY <2>1, <2>2
<1>7. /\ StoreWords(words) \in PduType
      /\ StoreWords(words).m_i8_1 = m_pdu.m_i8_1
      /\ StoreWords(words).m_data = m_pdu.m_data
      /\ wb = 8 => /\ StoreWords(words).m_i16[3] = combine(words[5], words[6])
                   /\ StoreWords(words).m_i16[4] = combine(words[7], words[8])
  <2>1. CASE wb # 8
    BY <1>2, <2>1 DEF StoreWords
  <2>2. CASE wb = 8
    <3> DEFINE i16 == [m_pdu.m_i16 EXCEPT ![3] = combine(words[5], words[6]),
                                          ![4] = combine(words[7], words[8])]
    <3>0. m_pdu.m_i16 \in [1..4 -> MaybeWord16]
      BY <1>2 DEF PduType
    <3>1. /\ i16 \in [1..4 -> MaybeWord16]
          /\ i16[3] = combine(words[5], words[6])
          /\ i16[4] = combine(words[7], words[8])
      <4>1. /\ combine(words[5], words[6]) \in MaybeWord16
            /\ combine(words[7], words[8]) \in MaybeWord16
        BY <1>5, CombineType
      <4> QED
        BY <3>0, <4>1, LastTwoWords
    <3>2. StoreWords(words) = [m_pdu EXCEPT !.m_i16 = i16]
      <4>1. PICK a, b : /\ a = combine(words[5], words[6])
                        /\ b = combine(words[7], words[8])
        OBVIOUS
      <4>2. StoreWords(words) = [m_pdu EXCEPT !.m_i16[3] = a, !.m_i16[4] = b]
        BY <2>2, <4>1 DEF StoreWords
      <4>3. i16 = [m_pdu.m_i16 EXCEPT ![3] = a, ![4] = b]
        BY <4>1
      <4> HIDE DEF i16
      <4> QED
        BY <1>2, <3>0, <4>2, <4>3 DEF PduType
    <3> HIDE DEF i16
    <3>3. /\ StoreWords(words) \in PduType
          /\ StoreWords(words).m_i8_1 = m_pdu.m_i8_1
          /\ StoreWords(words).m_data = m_pdu.m_data
          /\ StoreWords(words).m_i16 = i16
      BY <1>2, <3>1, <3>2 DEF PduType
    <3> QED
      BY <3>1, <3>3
  <2> QED
    BY <2>1, <2>2
<1> QED
  BY <1>2, <1>3, <1>5, <1>6, <1>7

(* The last word of a request without data completes it.                   *)
LEMMA WordDeliverable ==
  ASSUME IInv, Word, wb = WordBytes(fc), ~HasData(fc),
         NEW pdu, NEW words, NEW to,
         pdu = m_pdu, words = [word EXCEPT ![wb] = Cur], to = lo + m_ix + 1
  PROVE  Deliverable(pdu, words, to)
<1>1. TypeOK /\ Located /\ Placed /\ Stored
  BY DEF IInv
<1>2. /\ m_coro = "running" /\ pc = "i16" /\ word' = words
      /\ UNCHANGED <<stream, lo, actual_size, hb, ix, fc, m_transact_id>>
  BY DEF Word, At, line, input
<1>0. WholePdu(pdu, words, to) /\ wb' = wb
  <2>1. wb \in Nat
    BY <1>1 DEF TypeOK
  <2>2. ~ (wb < WordBytes(fc))
    BY <2>1
  <2> QED
    BY <2>2 DEF Word, WholePdu
<1>3. /\ words \in [1..8 -> Byte] /\ Progress = 7 + wb /\ wb \in 1 .. 8
      /\ \A k \in 1 .. wb : words[k] = stream[start + 8 + k]
  BY <1>2, WordRead
<1>4. WordBytes(fc) = 4
  BY DEF WordBytes, HasData
<1>5. /\ lo + m_ix = start + Progress /\ lo + m_ix + 1 \in 1 .. Len(stream)
      /\ stream \in Seq(Byte) /\ Len(stream) \in Nat /\ start \in Nat
  BY <1>1, <1>2, CurIsByte, StreamsAssumption DEF TypeOK
<1>6. to = start + 8 + wb /\ to <= Len(stream)
  BY <1>3, <1>5
<1>7. InHand(pdu, words, to)
  BY <1>1, <1>3, <1>4, <1>6 DEF InHand, TypeOK
<1>8. wb' \in 1..8 /\ word' \in [1..8 -> Byte] /\ ix' \in Nat
  BY <1>0, <1>1, <1>2, <1>3 DEF TypeOK
<1> QED
  BY <1>0, <1>2, <1>7, <1>8 DEF Deliverable

(* A byte of a word.                                                       *)
LEMMA WordIInv == IInv /\ Word => IInv'
<1> SUFFICES ASSUME IInv, Word PROVE IInv'
  OBVIOUS
<1>1. TypeOK /\ Located /\ Placed /\ Stored /\ PdusAreMessages
  BY DEF IInv
<1>2. PICK words : words = [word EXCEPT ![wb] = Cur]
  OBVIOUS
<1>3. CASE wb = WordBytes(fc) /\ ~HasData(fc)
  <2>1. PICK pdu, to : pdu = m_pdu /\ to = lo + m_ix + 1
    OBVIOUS
  <2>2. Deliverable(pdu, words, to)
    BY <1>2, <1>3, <2>1, WordDeliverable
  <2> QED
    BY <2>2, WholePduIInv
<1>4. CASE wb < WordBytes(fc) \/ HasData(fc)
  <2>1. /\ m_coro = "running" /\ pc = "i16" /\ word' = words
        /\ UNCHANGED <<stream, lo, actual_size, hb, ix, fc, m_transact_id>>
    BY <1>2 DEF Word, At, line, input
  <2>2. /\ \/ /\ wb < WordBytes(fc)
              /\ wb' = wb + 1 /\ pc' = "i16" /\ m_pdu' = m_pdu
           \/ /\ wb = WordBytes(fc) /\ HasData(fc)
              /\ wb' = wb /\ pc' = "i8_1" /\ m_pdu' = StoreWords(words)
        /\ CheckBufEnd
        /\ UNCHANGED <<start, pdus, nonses, foreign>>
    <3>1. wb \in Nat /\ WordBytes(fc) \in Nat
      BY <1>1, WordBytesType DEF TypeOK
    <3>2. ~ (wb = WordBytes(fc) /\ ~HasData(fc))
      BY <1>4, <3>1
    <3>3. \/ /\ wb < WordBytes(fc)
             /\ wb' = wb + 1 /\ CheckBufEnd
             /\ UNCHANGED <<pc, m_pdu, start, calls>>
          \/ /\ wb = WordBytes(fc) /\ HasData(fc)
             /\ m_pdu' = StoreWords([word EXCEPT ![wb] = Cur])
             /\ pc' = "i8_1" /\ CheckBufEnd
             /\ UNCHANGED <<wb, start, calls>>
      BY <3>2 DEF Word
    <3> QED
      BY <1>2, <2>1, <3>3 DEF calls
  <2>3. /\ wb \in 1 .. 8 /\ wb <= WordBytes(fc)
        /\ Progress = 7 + wb
        /\ words \in [1..8 -> Byte]
        /\ \A k \in 1 .. wb : words[k] = stream[start + 8 + k]
        /\ StoreWords(words) \in PduType
        /\ wb = 8 => /\ StoreWords(words).m_i16[3] = combine(words[5], words[6])
                     /\ StoreWords(words).m_i16[4] = combine(words[7], words[8])
    BY <1>2, <2>1, WordRead
  <2>4. /\ Located' /\ m_ix' \in Nat /\ m_coro' \in {"running", "in_sink"}
        /\ ReadPos' = start + Progress + 1
    BY <1>1, <2>1, <2>2, CheckBufEndMoves
  <2>5. WordBytes(fc) \in {4, 8} /\ start \in Nat
    BY <1>1, WordBytesType DEF TypeOK
  <2>6. /\ pc' \in {"i16", "i8_1"} /\ wb' \in 1 .. 8
        /\ m_pdu' \in PduType /\ WordsRead' = wb /\ ~Counted'
    <3>1. m_pdu \in PduType
      BY <1>1 DEF TypeOK
    <3>2. CASE wb < WordBytes(fc)
      <4>1. wb' = wb + 1 /\ pc' = "i16" /\ m_pdu' = m_pdu
        BY <2>2, <2>3, <2>5, <3>2
      <4>2. WordsRead' = wb' - 1 /\ ~Counted'
        BY <4>1 DEF WordsRead, Counted
      <4> QED
        BY <2>3, <2>5, <3>1, <3>2, <4>1, <4>2
    <3>3. CASE wb = WordBytes(fc)
      <4>1. wb' = wb /\ pc' = "i8_1" /\ m_pdu' = StoreWords(words)
        BY <2>2, <2>3, <2>5, <3>3
      <4>2. WordsRead' = WordBytes(fc') /\ ~Counted'
        BY <4>1 DEF WordsRead, Counted
      <4> QED
        BY <2>1, <2>3, <3>3, <4>1, <4>2
    <3> QED
      BY <2>3, <2>5, <3>2, <3>3
  <2>7. TypeOK'
    BY <1>1, <2>1, <2>2, <2>3, <2>4, <2>6 DEF TypeOK, States
  <2>8. Placed'
    <3>1. Progress' = 8 + wb
      BY <2>6 DEF Progress
    <3> QED
      BY <1>1, <2>1, <2>2, <2>3, <2>4, <2>5, <2>6, <3>1 DEF Placed
  <2>9. Stored'
    <3>1. \A k \in 1 .. WordsRead' : word'[k] = stream'[start' + 8 + k]
      BY <2>1, <2>2, <2>3, <2>6
    <3>2. WordsRead' = 8 => /\ m_pdu'.m_i16[3] = combine(word'[5], word'[6])
                            /\ m_pdu'.m_i16[4] = combine(word'[7], word'[8])
      BY <2>1, <2>2, <2>3, <2>5, <2>6
    <3>3. pc' = "i16" => wb' <= WordBytes(fc')
      BY <2>1, <2>2, <2>3, <2>5
    <3>4. pc' \in {"i8_1", "data", "whole_pdu"} => HasData(fc')
      BY <2>1, <2>2
    <3> QED
      BY <1>1, <2>1, <2>2, <2>6, <3>1, <3>2, <3>3, <3>4 DEF Stored
  <2>10. PdusAreMessages'
    BY <1>1, <2>1, <2>2 DEF PdusAreMessages
  <2> QED
    BY <2>4, <2>7, <2>8, <2>9, <2>10 DEF IInv
<1> QED
  <2>1. wb \in 1 .. 8 /\ wb <= WordBytes(fc) /\ WordBytes(fc) \in {4, 8}
    BY <1>1, WordBytesType DEF Word, At, TypeOK, Stored
  <2> QED
    BY <1>3, <1>4, <2>1

(* The byte count clears m_data: what was in it came from older messages.  *)
LEMMA ByteCountIInv == IInv /\ ByteCount => IInv'
<1> SUFFICES ASSUME IInv, ByteCount PROVE IInv'
  OBVIOUS
<1>1. TypeOK /\ Located /\ Placed /\ Stored /\ PdusAreMessages
  BY DEF IInv
<1>2. /\ m_coro = "running" /\ pc = "i8_1"
      /\ m_pdu' = [m_pdu EXCEPT !.m_data = << >>, !.m_i8_1 = Cur]
      /\ ix' = 0
      /\ pc' = IF Cur = 0 THEN "whole_pdu" ELSE "data"
      /\ CheckBufEnd
      /\ UNCHANGED <<stream, lo, actual_size, hb, wb, word, fc, m_transact_id,
                     start, pdus, nonses, foreign>>
  BY DEF ByteCount, At, line, input, calls
<1>3. /\ Located' /\ m_ix' \in Nat /\ m_coro' \in {"running", "in_sink"}
      /\ ReadPos' = start + Progress + 1
  BY <1>1, <1>2, CheckBufEndMoves
<1>4. WordBytes(fc) \in {4, 8} /\ start \in Nat
  BY <1>1, WordBytesType DEF TypeOK
<1>5. /\ WordsRead = WordBytes(fc) /\ WordsRead' = WordBytes(fc) /\ Counted'
      /\ Progress = 8 + WordBytes(fc) /\ Progress' = 9 + WordBytes(fc)
  BY <1>2, <1>4 DEF WordsRead, Counted, Progress
<1>6. Cur \in Byte /\ Cur \in Nat /\ Cur = stream[start + 9 + WordBytes(fc)]
  <2>1. Cur \in Byte /\ Cur = stream[start + Progress + 1]
    BY <1>1, <1>2, CurIsByte
  <2>2. start + Progress + 1 = start + 9 + WordBytes(fc)
    BY <1>4, <1>5
  <2> QED
    BY <2>1, <2>2, ByteIsNat
<1>7. /\ m_pdu' \in PduType
      /\ m_pdu'.m_data = << >> /\ m_pdu'.m_i8_1 = Cur
      /\ m_pdu'.m_i16 = m_pdu.m_i16
  <2>1. m_pdu \in PduType /\ << >> \in Seq(Byte)
    BY <1>1 DEF TypeOK
  <2> QED
    BY <1>2, <1>6, <2>1, MaybeByteType DEF PduType
<1>8. TypeOK'
  BY <1>1, <1>2, <1>3, <1>7 DEF TypeOK, States
<1>9. Placed'
  BY <1>1, <1>2, <1>3, <1>4, <1>5 DEF Placed
<1>10. Stored'
  <2>1. \A k \in 1 .. WordsRead' : word'[k] = stream'[start' + 8 + k]
    BY <1>1, <1>2, <1>5 DEF Stored
  <2>2. WordsRead' = 8 => /\ m_pdu'.m_i16[3] = combine(word'[5], word'[6])
                          /\ m_pdu'.m_i16[4] = combine(word'[7], word'[8])
    BY <1>1, <1>2, <1>5, <1>7 DEF Stored
  <2>3. /\ m_pdu'.m_i8_1 = stream'[start' + 9 + WordsRead']
        /\ ix' = Len(m_pdu'.m_data)
        /\ \A k \in 1 .. ix' :
             m_pdu'.m_data[k] = stream'[start' + 9 + WordsRead' + k]
    BY <1>2, <1>5, <1>6, <1>7
  <2>4. /\ pc' = "data" => ix' < m_pdu'.m_i8_1
        /\ pc' = "whole_pdu" => m_pdu'.m_i8_1 = 0 /\ ix' = 0
    BY <1>2, <1>6, <1>7
  <2>5. HasData(fc) /\ fc \in ValidFc /\ fc = stream[start + Header + 1]
    BY <1>1, <1>2 DEF Stored
  <2>6. pc' \in {"data", "whole_pdu"}
    BY <1>2
  <2> QED
    BY <1>1, <1>2, <2>1, <2>2, <2>3, <2>4, <2>5, <2>6 DEF Stored
<1>11. PdusAreMessages'
  BY <1>1, <1>2 DEF PdusAreMessages
<1> QED
  BY <1>3, <1>8, <1>9, <1>10, <1>11 DEF IInv

(* A byte count of 0: the message has ended with the byte before m_ix.     *)
LEMMA EmptyDeliverable ==
  ASSUME IInv, EmptyPdu,
         NEW pdu, NEW words, NEW to, pdu = m_pdu, words = word, to = lo + m_ix
  PROVE  Deliverable(pdu, words, to)
<1>1. TypeOK /\ Located /\ Placed /\ Stored
  BY DEF IInv
<1>2. /\ m_coro = "running" /\ pc = "whole_pdu"
      /\ UNCHANGED <<stream, lo, actual_size, hb, wb, word, ix, fc, m_transact_id>>
  BY DEF EmptyPdu, At, line, input, locals
<1>3. WholePdu(pdu, words, to)
  BY DEF EmptyPdu, WholePdu
<1>4. /\ WordsRead = WordBytes(fc) /\ Counted /\ HasData(fc)
      /\ m_pdu.m_i8_1 = 0 /\ ix = 0
      /\ Progress = 9 + WordBytes(fc) + 0
  BY <1>1, <1>2 DEF WordsRead, Counted, Progress, Stored
<1>5. /\ WordBytes(fc) \in {4, 8} /\ start \in Nat
      /\ stream \in Seq(Byte) /\ Len(stream) \in Nat
      /\ lo \in Nat /\ m_ix \in Nat
  BY <1>1, WordBytesType, StreamsAssumption DEF TypeOK
<1>6. lo + m_ix = start + Progress /\ lo + m_ix + 1 \in 1 .. Len(stream)
  BY <1>1, <1>2, CurIsByte
<1>7. to = start + 9 + WordBytes(fc) + 0 /\ to <= Len(stream)
  BY <1>4, <1>5, <1>6
<1>8. /\ pdu.m_i8_1 = stream[start + 9 + WordBytes(fc)]
      /\ Len(pdu.m_data) = 0
  BY <1>1, <1>4 DEF Stored
<1>9. InHand(pdu, words, to)
  <2>1. /\ pdu \in PduType /\ words \in [1..8 -> Byte]
    BY <1>1 DEF TypeOK
  <2>2. /\ \A k \in 1 .. WordBytes(fc) : words[k] = stream[start + 8 + k]
        /\ WordBytes(fc) = 8 => /\ pdu.m_i16[3] = combine(words[5], words[6])
                                /\ pdu.m_i16[4] = combine(words[7], words[8])
    BY <1>1, <1>4 DEF Stored
  <2> QED
    BY <1>4, <1>7, <1>8, <2>1, <2>2 DEF InHand
<1>10. wb' \in 1..8 /\ word' \in [1..8 -> Byte] /\ ix' \in Nat
  BY <1>1, <1>2 DEF TypeOK
<1> QED
  BY <1>2, <1>3, <1>9, <1>10 DEF Deliverable

(* The late delivery of a request with a byte count of 0.                  *)
LEMMA EmptyPduIInv == IInv /\ EmptyPdu => IInv'
<1> SUFFICES ASSUME IInv, EmptyPdu PROVE IInv'
  OBVIOUS
<1>1. PICK pdu, words, to : pdu = m_pdu /\ words = word /\ to = lo + m_ix
  OBVIOUS
<1>2. Deliverable(pdu, words, to)
  BY <1>1, EmptyDeliverable
<1> QED
  BY <1>2, WholePduIInv

(* What one more byte of the data makes of the record.                     *)
LEMMA DataRead ==
  ASSUME IInv, m_coro = "running", pc = "data",
         NEW pdu, pdu = [m_pdu EXCEPT !.m_data = Append(@, Cur)]
  PROVE  /\ pdu \in PduType
         /\ pdu.m_i16 = m_pdu.m_i16
         /\ pdu.m_i8_1 = m_pdu.m_i8_1
         /\ pdu.m_i8_1 = stream[start + 9 + WordBytes(fc)]
         /\ Len(pdu.m_data) = ix + 1 /\ ix \in Nat
         /\ \A k \in 1 .. ix + 1 :
              pdu.m_data[k] = stream[start + 9 + WordBytes(fc) + k]
         /\ Progress = 9 + WordBytes(fc) + ix
<1>1. TypeOK /\ Located /\ Placed /\ Stored
  BY DEF IInv
<1>2. /\ WordsRead = WordBytes(fc) /\ Counted
      /\ Progress = 9 + WordBytes(fc) + ix
  BY DEF WordsRead, Counted, Progress
<1>3. /\ start \in Nat /\ ix \in Nat /\ WordBytes(fc) \in {4, 8}
      /\ m_pdu \in PduType /\ m_pdu.m_data \in Seq(Byte)
  <2>1. /\ start \in Nat /\ ix \in Nat /\ m_pdu \in PduType
    BY <1>1 DEF TypeOK
  <2>2. m_pdu.m_data \in Seq(Byte)
    BY <2>1 DEF PduType
  <2> QED
    BY <2>1, <2>2, WordBytesType
<1>4. /\ m_pdu.m_i8_1 = stream[start + 9 + WordBytes(fc)]
      /\ ix = Len(m_pdu.m_data)
      /\ \A k \in 1 .. ix :
           m_pdu.m_data[k] = stream[start + 9 + WordBytes(fc) + k]
  BY <1>1, <1>2 DEF Stored
<1>5. Cur \in Byte /\ Cur = stream[start + 9 + WordBytes(fc) + (ix + 1)]
  <2>1. Cur \in Byte /\ Cur = stream[start + Progress + 1]
    BY <1>1, CurIsByte
  <2>2. start + Progress + 1 = start + 9 + WordBytes(fc) + (ix + 1)
    <3>1. PICK w \in Nat : w = WordBytes(fc)
      BY <1>3
    <3>2. Progress = 9 + w + ix
      BY <1>2, <3>1
    <3>3. start + (9 + w + ix) + 1 = start + 9 + w + (ix + 1)
      BY <1>3
    <3> QED
      BY <3>1, <3>2, <3>3
  <2> QED
    BY <2>1, <2>2
<1>6. PICK old, new : old = m_pdu.m_data /\ new = Append(old, Cur)
  OBVIOUS
<1>7. /\ new \in Seq(Byte) /\ Len(new) = ix + 1
      /\ \A k \in 1 .. ix : new[k] = old[k]
      /\ new[ix + 1] = Cur
  BY <1>3, <1>4, <1>5, <1>6, AppendProperties
<1>8. pdu = [m_pdu EXCEPT !.m_data = new]
  BY <1>6
<1>9. /\ pdu \in PduType /\ pdu.m_data = new
      /\ pdu.m_i16 = m_pdu.m_i16 /\ pdu.m_i8_1 = m_pdu.m_i8_1
  BY <1>3, <1>7, <1>8 DEF PduType
<1>10. \A k \in 1 .. ix + 1 : new[k] = stream[start + 9 + WordBytes(fc) + k]
  <2> TAKE k \in 1 .. ix + 1
  <2>1. CASE k = ix + 1
    BY <1>5, <1>7, <2>1
  <2>2. CASE k # ix + 1
    <3>1. k \in 1 .. ix
      BY <1>3, <2>2
    <3> QED
      BY <1>4, <1>6, <1>7, <3>1
  <2> QED
    BY <2>1, <2>2
<1> QED
  BY <1>2, <1>3, <1>4, <1>7, <1>9, <1>10

(* The last byte of the data completes the request.                        *)
LEMMA DataDeliverable ==
  ASSUME IInv, Data, ix + 1 = m_pdu.m_i8_1,
         NEW pdu, NEW words, NEW to, pdu = [m_pdu EXCEPT !.m_data = Append(@, Cur)],
         words = word, to = lo + m_ix + 1
  PROVE  Deliverable(pdu, words, to)
<1>1. TypeOK /\ Located /\ Placed /\ Stored
  BY DEF IInv
<1>2. /\ m_coro = "running" /\ pc = "data" /\ ix' = ix + 1
      /\ UNCHANGED <<stream, lo, actual_size, hb, wb, word, fc, m_transact_id>>
  BY DEF Data, At, line, input
<1>3. /\ pdu \in PduType
      /\ pdu.m_i16 = m_pdu.m_i16 /\ pdu.m_i8_1 = ix + 1
      /\ pdu.m_i8_1 = stream[start + 9 + WordBytes(fc)]
      /\ Len(pdu.m_data) = ix + 1 /\ ix \in Nat
      /\ \A k \in 1 .. ix + 1 :
           pdu.m_data[k] = stream[start + 9 + WordBytes(fc) + k]
      /\ Progress = 9 + WordBytes(fc) + ix
  BY <1>2, DataRead
<1>4. WholePdu(pdu, words, to)
  <2>1. ~ (ix + 1 < m_pdu.m_i8_1)
    BY <1>3
  <2> QED
    BY <2>1 DEF Data, WholePdu
<1>5. /\ WordBytes(fc) \in {4, 8} /\ start \in Nat /\ HasData(fc)
      /\ WordsRead = WordBytes(fc)
      /\ stream \in Seq(Byte) /\ Len(stream) \in Nat
      /\ lo \in Nat /\ m_ix \in Nat
  BY <1>1, <1>2, WordBytesType, StreamsAssumption, SMTT(20) DEF TypeOK, Stored, WordsRead
<1>6. lo + m_ix = start + Progress /\ lo + m_ix + 1 \in 1 .. Len(stream)
  BY <1>1, <1>2, CurIsByte
<1>7. to = start + 9 + WordBytes(fc) + (ix + 1) /\ to <= Len(stream)
  <2>1. PICK w \in Nat : w = WordBytes(fc)
    BY <1>5
  <2>2. lo + m_ix = start + (9 + w + ix) /\ ix \in Nat
    BY <1>3, <1>6, <2>1
  <2>3. lo + m_ix + 1 = start + 9 + w + (ix + 1)
    BY <1>5, <2>2
  <2>4. lo + m_ix + 1 <= Len(stream)
    BY <1>5, <1>6
  <2> QED
    BY <2>1, <2>3, <2>4
<1>8. InHand(pdu, words, to)
  <2>1. words \in [1..8 -> Byte]
    BY <1>1 DEF TypeOK
  <2>2. /\ \A k \in 1 .. WordBytes(fc) : words[k] = stream[start + 8 + k]
        /\ WordBytes(fc) = 8 => /\ pdu.m_i16[3] = combine(words[5], words[6])
                                /\ pdu.m_i16[4] = combine(words[7], words[8])
    BY <1>1, <1>3, <1>5 DEF Stored
  <2> QED
    BY <1>3, <1>5, <1>7, <2>1, <2>2 DEF InHand
<1>9. wb' \in 1..8 /\ word' \in [1..8 -> Byte] /\ ix' \in Nat
  <2>1. ix \in Nat /\ wb \in 1..8 /\ word \in [1..8 -> Byte]
    BY <1>1 DEF TypeOK
  <2> QED
    BY <1>2, <2>1
<1> QED
  BY <1>2, <1>4, <1>8, <1>9 DEF Deliverable

(* A byte of the data.                                                     *)
LEMMA DataIInv == IInv /\ Data => IInv'
<1> SUFFICES ASSUME IInv, Data PROVE IInv'
  OBVIOUS
<1>1. TypeOK /\ Located /\ Placed /\ Stored /\ PdusAreMessages
  BY DEF IInv
<1>2. PICK pdu : pdu = [m_pdu EXCEPT !.m_data = Append(@, Cur)]
  OBVIOUS
<1>3. CASE ix + 1 = m_pdu.m_i8_1
  <2>1. PICK words, to : words = word /\ to = lo + m_ix + 1
    OBVIOUS
  <2>2. Deliverable(pdu, words, to)
    BY <1>2, <1>3, <2>1, DataDeliverable
  <2> QED
    BY <2>2, WholePduIInv
<1>4. CASE ix + 1 # m_pdu.m_i8_1
  <2>1. /\ m_coro = "running" /\ pc = "data" /\ pc' = "data" /\ ix' = ix + 1
        /\ ix + 1 < m_pdu.m_i8_1
        /\ m_pdu' = pdu
        /\ CheckBufEnd
        /\ UNCHANGED <<stream, lo, actual_size, hb, wb, word, fc, m_transact_id,
                       start, pdus, nonses, foreign>>
    BY <1>2, <1>4 DEF Data, At, line, input, calls
  <2>2. /\ pdu \in PduType
        /\ pdu.m_i16 = m_pdu.m_i16 /\ pdu.m_i8_1 = m_pdu.m_i8_1
        /\ pdu.m_i8_1 = stream[start + 9 + WordBytes(fc)]
        /\ Len(pdu.m_data) = ix + 1 /\ ix \in Nat
        /\ \A k \in 1 .. ix + 1 :
             pdu.m_data[k] = stream[start + 9 + WordBytes(fc) + k]
        /\ Progress = 9 + WordBytes(fc) + ix
    BY <1>2, <2>1, DataRead
  <2>3. /\ Located' /\ m_ix' \in Nat /\ m_coro' \in {"running", "in_sink"}
        /\ ReadPos' = start + Progress + 1
    BY <1>1, <2>1, CheckBufEndMoves
  <2>4. /\ WordsRead = WordBytes(fc) /\ WordsRead' = WordBytes(fc) /\ Counted'
        /\ Progress' = 9 + WordBytes(fc) + (ix + 1)
    BY <2>1 DEF WordsRead, Counted, Progress
  <2>5. WordBytes(fc) \in {4, 8} /\ start \in Nat
    BY <1>1, WordBytesType DEF TypeOK
  <2>6. TypeOK'
    <3>1. ix' \in Nat /\ pc' \in States
      BY <2>1, <2>2 DEF States
    <3> QED
      BY <1>1, <2>1, <2>2, <2>3, <3>1 DEF TypeOK
  <2>7. Placed'
    <3>1. ReadPos' = start + Progress'
      <4>1. PICK w \in Nat : w = WordBytes(fc)
        BY <2>5
      <4>2. ReadPos' = start + (9 + w + ix) + 1 /\ Progress' = 9 + w + (ix + 1)
        BY <2>2, <2>3, <2>4, <4>1
      <4>3. ix \in Nat
        BY <2>2
      <4> QED
        BY <2>5, <4>2, <4>3
    <3> QED
      BY <1>1, <2>1, <3>1 DEF Placed
  <2>8. Stored'
    <3>1. \A k \in 1 .. WordsRead' : word'[k] = stream'[start' + 8 + k]
      BY <1>1, <2>1, <2>4 DEF Stored
    <3>2. WordsRead' = 8 => /\ m_pdu'.m_i16[3] = combine(word'[5], word'[6])
                            /\ m_pdu'.m_i16[4] = combine(word'[7], word'[8])
      BY <1>1, <2>1, <2>2, <2>4 DEF Stored
    <3>3. /\ m_pdu'.m_i8_1 = stream'[start' + 9 + WordsRead']
          /\ ix' = Len(m_pdu'.m_data)
          /\ \A k \in 1 .. ix' :
               m_pdu'.m_data[k] = stream'[start' + 9 + WordsRead' + k]
          /\ ix' < m_pdu'.m_i8_1
      BY <2>1, <2>2, <2>4
    <3>4. HasData(fc) /\ fc \in ValidFc /\ fc = stream[start + Header + 1]
      BY <1>1, <2>1 DEF Stored
    <3> QED
      BY <1>1, <2>1, <3>1, <3>2, <3>3, <3>4 DEF Stored
  <2>9. PdusAreMessages'
    BY <1>1, <2>1 DEF PdusAreMessages
  <2> QED
    BY <2>3, <2>6, <2>7, <2>8, <2>9 DEF IInv
<1> QED
  BY <1>3, <1>4

-------------------------------------------------------------------------------
(* The invariant is about the variables of the scanner only.               *)
LEMMA StutterIInv == IInv /\ UNCHANGED vars => IInv'
BY SMTT(20) DEF IInv, vars, TypeOK, Located, Placed, ReadPos, Progress, Stored,
       PdusAreMessages, Counted, WordsRead

(* Every step of the specification preserves the invariant.                *)
LEMMA NextIInv == IInv /\ [Next]_vars => IInv'
BY ScanIInv, HeaderByteIInv, UnitMatchIInv, NonsenseIInv, FunctionIInv,
   WordIInv, ByteCountIInv, EmptyPduIInv, DataIInv, StutterIInv
   DEF Next, ScanCo

(* Where the coroutine stands in a message, and what its locals, m_pdu and *)
(* the transaction id repeat of it: the inductive invariant of scan_co.    *)
THEOREM InvariantHolds == Spec => []IInv
BY InitIInv, NextIInv, PTL DEF Spec

(* Every variable of the scanner keeps its type: in particular m_pdu never *)
(* hands out a field that was never written.                               *)
THEOREM TypeCorrect == Spec => []TypeOK
BY InvariantHolds, PTL DEF IInv

(* scan() never reads past the end of its portion, byte counts of 0        *)
(* included.                                                               *)
THEOREM NoReadPastEndHolds == Spec => []NoReadPastEnd
<1>1. IInv => NoReadPastEnd
  BY DEF IInv, Located, NoReadPastEnd
<1> QED
  BY <1>1, InvariantHolds, PTL

(* Whatever the portions, m_pdu_cb gets requests that are on the           *)
(* connection, byte for byte, each with its own transaction id.            *)
THEOREM PdusAreMessagesHolds == Spec => []PdusAreMessages
BY InvariantHolds, PTL DEF IInv

-------------------------------------------------------------------------------
(* The promise, and what explains a loss.  A step leaves start alone, or   *)
(* gives up bytes at which no message starts, or delivers the message that *)
(* starts there; a byte count of 0 takes one byte more.                    *)

Quiet == UNCHANGED <<stream, start, pdus, nonses, foreign>>

GivenUp ==
  /\ start' \in start + 1 .. Len(stream)
  /\ \A q : ~IsMessage(stream, start, q)
  /\ nonses \subseteq nonses' /\ foreign \subseteq foreign'
  /\ [from |-> start, to |-> start'] \in nonses' \cup foreign'
  /\ UNCHANGED <<stream, pdus>>

Delivered(to) ==
  /\ to \in start + 1 .. Len(stream)
  /\ IsMessage(stream, start, to)
  /\ pdus' = Append(pdus, [from |-> start, to |-> to,
                           request |-> MessageRequest(stream, start)])
  /\ IF pc = "whole_pdu"
       THEN /\ start' = to + 1
            /\ HasData(MessageRequest(stream, start).fc)
            /\ MessageRequest(stream, start).count = 0
       ELSE start' = to
  /\ UNCHANGED <<stream, nonses, foreign>>

Outcome == Quiet \/ GivenUp \/ \E to : Delivered(to)

(* A message has at least its header.                                      *)
LEMMA MessageNotEmpty ==
  ASSUME NEW s \in Seq(Byte), NEW p \in Nat, NEW q, IsMessage(s, p, q)
  PROVE  q \in p + 1 .. Len(s)
<1> DEFINE b == p + Header + 1
           w == WordBytes(s[b])
           c == b + w + 1
<1>1. /\ b \in Nat /\ w \in {4, 8} /\ b = p + 8 /\ Len(s) \in Nat
  BY WordBytesType DEF Header
<1>2. q = (IF HasData(s[b]) THEN c + s[c] ELSE b + w) /\ q <= Len(s)
  BY DEF IsMessage, MessageEnd
<1>3. HasData(s[b]) => c \in 1 .. Len(s)
  <2>1. HasData(s[b]) => p + Header + 2 + w <= Len(s)
    BY DEF IsMessage
  <2> QED
    BY <1>1, <2>1 DEF Header
<1>4. HasData(s[b]) => s[c] \in Nat
  BY <1>3, ElementOfSeq, ByteIsNat
<1> HIDE DEF b, w, c
<1>5. c = b + w + 1
  BY DEF c
<1>6. CASE HasData(s[b])
  <2>1. PICK n \in Nat : n = s[c]
    BY <1>4, <1>6
  <2>2. q = b + w + 1 + n
    BY <1>2, <1>5, <1>6, <2>1
  <2> QED
    BY <1>1, <1>2, <2>2
<1>7. CASE ~HasData(s[b])
  BY <1>1, <1>2, <1>7
<1> QED
  BY <1>6, <1>7

(* What a delivery does to the history.                                    *)
LEMMA WholePduOutcome ==
  ASSUME IInv, NEW pdu, NEW words, NEW to, Deliverable(pdu, words, to)
  PROVE  /\ to \in start + 1 .. Len(stream)
         /\ IsMessage(stream, start, to)
         /\ pdus' = Append(pdus, [from |-> start, to |-> to,
                                  request |-> MessageRequest(stream, start)])
         /\ start' = lo + m_ix + 1
         /\ UNCHANGED <<stream, nonses, foreign>>
<1>1. TypeOK /\ Located /\ Placed /\ Stored
  BY DEF IInv
<1>2. /\ pc \notin {"header", "unit_id", "function"}
      /\ InHand(pdu, words, to) /\ stream' = stream
  BY DEF Deliverable
<1>3. /\ TcpRequest(m_transact_id, FinishedPdu(pdu, words)) = MessageRequest(stream, start)
      /\ IsMessage(stream, start, to)
  BY <1>1, <1>2, InHandRequest, InHandIsMessage
<1>4. /\ pdus' = Append(pdus, [from |-> start, to |-> to,
                               request |-> MessageRequest(stream, start)])
      /\ start' = lo + m_ix + 1
      /\ UNCHANGED <<nonses, foreign>>
  BY <1>3 DEF Deliverable, WholePdu
<1>5. to \in start + 1 .. Len(stream)
  BY <1>1, <1>3, MessageNotEmpty, StreamsAssumption DEF TypeOK
<1> QED
  BY <1>2, <1>3, <1>4, <1>5

(* A byte of a word settles nothing, or delivers.                          *)
LEMMA WordOutcome ==
  ASSUME IInv, Word
  PROVE  Outcome
<1>1. m_coro = "running" /\ pc = "i16" /\ stream' = stream
  BY DEF Word, At, line
<1>2. CASE wb = WordBytes(fc) /\ ~HasData(fc)
  <2>1. PICK pdu, words, to : /\ pdu = m_pdu /\ words = [word EXCEPT ![wb] = Cur]
                              /\ to = lo + m_ix + 1
    OBVIOUS
  <2>2. Deliverable(pdu, words, to)
    BY <1>2, <2>1, WordDeliverable
  <2>3. Delivered(to)
    BY <1>1, <2>1, <2>2, WholePduOutcome DEF Delivered
  <2> QED
    BY <2>3 DEF Outcome
<1>3. CASE ~(wb = WordBytes(fc) /\ ~HasData(fc))
  BY <1>1, <1>3 DEF Word, Outcome, Quiet, calls
<1> QED
  BY <1>2, <1>3

(* So does a byte of data.                                                 *)
LEMMA DataOutcome ==
  ASSUME IInv, Data
  PROVE  Outcome
<1>1. m_coro = "running" /\ pc = "data" /\ stream' = stream
  BY DEF Data, At, line
<1>2. CASE ix + 1 = m_pdu.m_i8_1
  <2>1. PICK pdu, words, to : /\ pdu = [m_pdu EXCEPT !.m_data = Append(@, Cur)]
                              /\ words = word /\ to = lo + m_ix + 1
    OBVIOUS
  <2>2. Deliverable(pdu, words, to)
    BY <1>2, <2>1, DataDeliverable
  <2>3. Delivered(to)
    BY <1>1, <2>1, <2>2, WholePduOutcome DEF Delivered
  <2> QED
    BY <2>3 DEF Outcome
<1>3. CASE ix + 1 # m_pdu.m_i8_1
  BY <1>1, <1>3 DEF Data, Outcome, Quiet, calls
<1> QED
  BY <1>2, <1>3

(* The byte under m_ix goes with the request whose byte count is 0.        *)
LEMMA EmptyPduDelivers ==
  ASSUME IInv, EmptyPdu
  PROVE  \E to : Delivered(to)
<1>1. TypeOK /\ Placed /\ Stored /\ pc = "whole_pdu"
  BY DEF IInv, EmptyPdu, At
<1>2. PICK pdu, words, to : pdu = m_pdu /\ words = word /\ to = lo + m_ix
  OBVIOUS
<1>3. Deliverable(pdu, words, to)
  BY <1>2, EmptyDeliverable
<1>4. /\ fc = stream[start + Header + 1] /\ HasData(fc)
      /\ m_pdu.m_i8_1 = 0 /\ m_pdu.m_i8_1 = stream[start + 9 + WordBytes(fc)]
  BY <1>1 DEF Stored, Counted, WordsRead
<1>5. start + Header + 1 + WordBytes(fc) + 1 = start + 9 + WordBytes(fc)
  <2>1. start \in Nat /\ WordBytes(fc) \in {4, 8}
    BY <1>1, WordBytesType DEF TypeOK
  <2> QED
    BY <2>1 DEF Header
<1>6. /\ HasData(MessageRequest(stream, start).fc)
      /\ MessageRequest(stream, start).count = 0
  BY <1>4, <1>5 DEF MessageRequest
<1>7. Delivered(to)
  BY <1>1, <1>2, <1>3, <1>6, WholePduOutcome DEF Delivered
<1> QED
  BY <1>7

(* No message starts where the unit id or the function code is wrong.      *)
LEMMA NonsenseOutcome ==
  ASSUME IInv, UnitForeign \/ InvalidFunction
  PROVE  Outcome
<1>1. TypeOK /\ Located /\ Placed
  BY DEF IInv
<1>2. /\ m_coro = "running" /\ pc \in {"unit_id", "function"}
      /\ start' = lo + actual_size
      /\ nonses \subseteq nonses' /\ foreign \subseteq foreign'
      /\ [from |-> start, to |-> lo + actual_size] \in nonses' \cup foreign'
      /\ UNCHANGED <<stream, pdus>>
  BY DEF UnitForeign, InvalidFunction, GotoPreTransactState, At, line
<1>3. /\ start \in Nat /\ lo \in Nat /\ actual_size \in Nat
      /\ Len(stream) \in Nat /\ lo + actual_size <= Len(stream)
  BY <1>1, StreamsAssumption DEF TypeOK, Located
<1>4. /\ Progress \in Nat /\ start + Progress + 1 <= lo + actual_size
      /\ Cur = stream[start + Progress + 1]
  BY <1>1, <1>2, CurIsByte
<1>5. start' \in start + 1 .. Len(stream)
  BY <1>2, <1>3, <1>4
<1>6. \A q : ~IsMessage(stream, start, q)
  <2>1. CASE UnitForeign
    <3>1. pc = "unit_id" /\ Cur # Address
      BY <2>1 DEF UnitForeign, At
    <3>2. start + Progress + 1 = start + Header
      BY <1>3, <3>1 DEF Progress, Header
    <3> QED
      BY <1>4, <3>1, <3>2 DEF IsMessage
  <2>2. CASE InvalidFunction
    <3>1. pc = "function" /\ Cur \notin ValidFc
      BY <2>2 DEF InvalidFunction, At
    <3>2. start + Progress + 1 = start + Header + 1
      BY <1>3, <3>1 DEF Progress, Header
    <3> QED
      BY <1>4, <3>1, <3>2 DEF IsMessage
  <2> QED
    BY <2>1, <2>2
<1> QED
  BY <1>2, <1>5, <1>6 DEF Outcome, GivenUp

(* Every step has one of the three outcomes.                               *)
LEMMA NextOutcome ==
  ASSUME IInv, [Next]_vars
  PROVE  Outcome
<1>1. ASSUME Scan \/ HeaderByte \/ UnitMatch \/ Function \/ ByteCount
             \/ UNCHANGED vars
      PROVE  Outcome
  BY <1>1 DEF Scan, HeaderByte, UnitMatch, Function, ByteCount, vars,
              line, input, locals, record, calls, Outcome, Quiet
<1> QED
  BY <1>1, WordOutcome, DataOutcome, EmptyPduDelivers, NonsenseOutcome
     DEF Next, ScanCo, Outcome

(* Each outcome is a step of PduStream, or none.                           *)
LEMMA PromiseStep ==
  ASSUME IInv, [Next]_vars, pc # "whole_pdu"
  PROVE  Promised!Next \/ UNCHANGED Promised!vars
<1>1. Outcome
  BY NextOutcome
<1>2. CASE Quiet
  BY <1>2 DEF Quiet, Promised!vars
<1>3. CASE GivenUp
  BY <1>3 DEF GivenUp, Promised!Next, Promised!Discard
<1>4. ASSUME NEW to, Delivered(to)
      PROVE  Promised!Next
  BY <1>4 DEF Delivered, Promised!Next, Promised!Deliver
<1> QED
  BY <1>1, <1>2, <1>3, <1>4 DEF Outcome

(* Every step of the TCP scanner but the delivery of a request with a byte *)
(* count of 0 is a step of PduStream: no request that starts where the     *)
(* scanner expects a header is passed over.                                *)
THEOREM PromiseHolds == Spec => Promise
<1>1. Init => Promised!Init
  BY DEF Init, Promised!Init
<1>2. IInv /\ [Next]_vars =>
        [pc # "whole_pdu" => Promised!Next \/ UNCHANGED Promised!vars]_vars
  BY PromiseStep
<1> QED
  BY <1>1, <1>2, InvariantHolds, PTL DEF Spec, Promise

Explained(p) == Handled(p, nonses \cup foreign) \/ Swallowed(p)

(* What explains a loss is never taken back.                               *)
LEMMA StaysExplained ==
  ASSUME IInv, Outcome, NEW p, Explained(p)
  PROVE  Explained(p)'
<1>1. pdus \in Seq(PduEntry) /\ Len(pdus) \in Nat
  BY DEF IInv, TypeOK, PduEntry
<1>2. /\ nonses \subseteq nonses' /\ foreign \subseteq foreign'
      /\ \A i \in 1 .. Len(pdus) : i \in 1 .. Len(pdus') /\ pdus'[i] = pdus[i]
  <2>1. CASE Quiet
    BY <2>1 DEF Quiet
  <2>2. CASE GivenUp
    BY <2>2 DEF GivenUp
  <2>3. ASSUME NEW to, Delivered(to)
        PROVE  /\ nonses' = nonses /\ foreign' = foreign
               /\ \A i \in 1 .. Len(pdus) : i \in 1 .. Len(pdus') /\ pdus'[i] = pdus[i]
    <3>1. PICK e : pdus' = Append(pdus, e) /\ nonses' = nonses /\ foreign' = foreign
      BY <2>3 DEF Delivered
    <3> QED
      BY <1>1, <3>1
  <2> QED
    BY <2>1, <2>2, <2>3 DEF Outcome
<1>3. CASE Swallowed(p)
  <2>1. Swallowed(p)'
    BY <1>2, <1>3 DEF Swallowed
  <2> QED
    BY <2>1 DEF Explained
<1>4. CASE Handled(p, nonses \cup foreign)
  <2>1. Handled(p, nonses \cup foreign)'
    BY <1>2, <1>4 DEF Handled
  <2> QED
    BY <2>1 DEF Explained
<1> QED
  BY <1>3, <1>4 DEF Explained

(* What start has newly passed is covered, but for the one byte after a    *)
(* byte count of 0.                                                        *)
LEMMA PassedExplained ==
  ASSUME IInv, Outcome, NEW p \in Nat, start <= p, p < start'
  PROVE  Explained(p)'
<1>1. pdus \in Seq(PduEntry) /\ Len(pdus) \in Nat /\ start \in Nat
  BY DEF IInv, TypeOK, PduEntry
<1>2. ~Quiet
  BY <1>1 DEF Quiet
<1>3. CASE GivenUp
  <2>1. PICK g \in nonses' \cup foreign' : g = [from |-> start, to |-> start']
    BY <1>3 DEF GivenUp
  <2>2. Covers(g, p)
    BY <2>1 DEF Covers
  <2>3. \E h \in nonses' \cup foreign' : Covers(h, p)
    BY <2>2
  <2> QED
    BY <2>3 DEF Explained, Handled
<1>4. ASSUME NEW to, Delivered(to)
      PROVE  Explained(p)'
  <2>1. PICK e : /\ e = [from |-> start, to |-> to,
                         request |-> MessageRequest(stream, start)]
                 /\ pdus' = Append(pdus, e)
    BY <1>4 DEF Delivered
  <2>2. Len(pdus) + 1 \in 1 .. Len(pdus') /\ pdus'[Len(pdus) + 1] = e
    BY <1>1, <2>1
  <2>3. to \in Nat /\ start < to
    BY <1>1, <1>4 DEF Delivered
  <2>4. CASE p < to
    <3>1. Covers(e, p)
      BY <2>1, <2>4 DEF Covers
    <3>2. \E i \in 1 .. Len(pdus') : Covers(pdus'[i], p)
      BY <2>2, <3>1
    <3> QED
      BY <3>2 DEF Explained, Handled
  <2>5. CASE ~(p < to)
    <3>1. /\ p = to /\ HasData(MessageRequest(stream, start).fc)
          /\ MessageRequest(stream, start).count = 0
      BY <1>4, <2>3, <2>5 DEF Delivered
    <3>2. e.to = p /\ HasData(e.request.fc) /\ e.request.count = 0
      BY <2>1, <3>1
    <3>3. \E i \in 1 .. Len(pdus') :
            pdus'[i].to = p /\ HasData(pdus'[i].request.fc)
              /\ pdus'[i].request.count = 0
      BY <2>2, <3>2
    <3> QED
      BY <3>3 DEF Explained, Swallowed
  <2> QED
    BY <2>4, <2>5
<1> QED
  BY <1>2, <1>3, <1>4 DEF Outcome

(* And each keeps account of the losses.                                   *)
LEMMA LossStep == IInv /\ LossExplained /\ [Next]_vars => LossExplained'
<1> SUFFICES ASSUME IInv, LossExplained, [Next]_vars PROVE LossExplained'
  OBVIOUS
<1>1. Outcome
  BY NextOutcome
<1>2. stream' = stream /\ Len(stream) \in Nat /\ start \in Nat
  <2>1. stream' = stream
    BY <1>1 DEF Outcome, Quiet, GivenUp, Delivered
  <2> QED
    BY <2>1, StreamsAssumption DEF IInv, TypeOK
<1>3. ASSUME NEW p \in 0 .. Len(stream), Begun(p)'
      PROVE  Explained(p)'
  <2>1. p \in Nat /\ p < start' /\ \E q \in p + 1 .. Len(stream) : IsMessage(stream, p, q)
    BY <1>2, <1>3 DEF Begun
  <2>2. CASE p < start
    <3>1. Explained(p)
      BY <1>3, <2>1, <2>2 DEF Begun, LossExplained, Explained
    <3> QED
      BY <1>1, <3>1, StaysExplained
  <2>3. CASE start <= p
    BY <1>1, <2>1, <2>3, PassedExplained
  <2> QED
    BY <1>2, <2>1, <2>2, <2>3
<1> QED
  BY <1>2, <1>3 DEF LossExplained, Explained

(* A request is lost only in the rest of a portion in which a foreign unit *)
(* id or an invalid function code was met, or right after a request with a *)
(* byte count of 0.                                                        *)
THEOREM LossExplainedHolds == Spec => []LossExplained
<1>1. Init => LossExplained
  <2> SUFFICES ASSUME Init PROVE LossExplained
    OBVIOUS
  <2>1. start = 0 /\ Len(stream) \in Nat
    BY StreamsAssumption DEF Init
  <2>2. \A p \in 0 .. Len(stream) : ~(p < start)
    BY <2>1
  <2> QED
    BY <2>2 DEF LossExplained, Begun
<1> QED
  BY <1>1, LossStep, InvariantHolds, PTL DEF Spec

-------------------------------------------------------------------------------
(* The same results as the reader of TcpMessages that goes by the length   *)
(* field, on connections whose length fields are right, as long as the     *)
(* scanner is in step with the messages.                                   *)

(* The items the reader may hand out.                                      *)
Items(s) == { [from |-> p, to |-> NextMessage(s, p), request |-> MessageRequest(s, p)]
                : p \in 0 .. Len(s) }

(* The length field is a number.                                           *)
LEMMA NextType ==
  ASSUME NEW s \in Seq(Byte), NEW p \in Nat, p + 6 <= Len(s)
  PROVE  NextMessage(s, p) \in Nat /\ NextMessage(s, p) >= p + 6
<1>1. p + 5 \in 1 .. Len(s) /\ p + 6 \in 1 .. Len(s)
  OBVIOUS
<1>2. s[p + 5] \in Byte /\ s[p + 6] \in Byte
  BY <1>1, ElementOfSeq
<1>3. PICK c : c = combine(s[p + 5], s[p + 6])
  OBVIOUS
<1>4. c \in Word16 /\ combine(255, 255) \in Int
  BY <1>2, <1>3, CombineType DEF combine
<1>5. c \in Nat
  BY <1>4 DEF Word16
<1>6. NextMessage(s, p) = p + 6 + c
  BY <1>3 DEF NextMessage
<1> QED
  BY <1>5, <1>6

(* It never goes back, and never past the end of what it reads.            *)
LEMMA NextForward ==
  ASSUME NEW s \in Seq(Byte), NEW p \in 0 .. Len(s), ~Hungry(s, p)
  PROVE  NextMessage(s, p) \in p + 1 .. Len(s)
<1>1. /\ p \in Nat /\ Len(s) \in Nat
      /\ ~(p + 7 > Len(s)) /\ ~(NextMessage(s, p) > Len(s))
  BY DEF Hungry, Header
<1>2. p + 6 <= Len(s)
  BY <1>1
<1>3. NextMessage(s, p) \in Nat /\ NextMessage(s, p) >= p + 6
  BY <1>1, <1>2, NextType
<1> QED
  BY <1>1, <1>3

(* What it finds is at most one item.                                      *)
LEMMA FoundType ==
  ASSUME NEW s \in Seq(Byte), NEW p \in 0 .. Len(s)
  PROVE  Found(s, p) \in Seq(Items(s))
<1> DEFINE x == [from |-> p, to |-> NextMessage(s, p), request |-> MessageRequest(s, p)]
<1>1. x \in Items(s)
  BY DEF Items
<1>2. Found(s, p) = << x >> \/ Found(s, p) = << >>
  BY DEF Found
<1> HIDE DEF x
<1>3. << x >> \in Seq(Items(s)) /\ << >> \in Seq(Items(s))
  BY <1>1
<1> QED
  BY <1>2, <1>3

(* The recursive definition of the reader means what it says.              *)
LEMMA ReaderUnfolds ==
  ASSUME NEW s \in Seq(Byte)
  PROVE  /\ Reader(s) = [p \in 0 .. Len(s) |->
                           IF Hungry(s, p) THEN << >>
                           ELSE Found(s, p) \o Reader(s)[NextMessage(s, p)]]
         /\ \A p \in 0 .. Len(s) : Reader(s)[p] \in Seq(Items(s))
<1> DEFINE n == Len(s)
           stop == {p \in 0 .. n : Hungry(s, p)}
           found == [p \in 0 .. n |-> Found(s, p)]
           next == [p \in 0 .. n |-> NextMessage(s, p)]
           Unfolded(f) == f = [p \in 0 .. Len(s) |->
                                 IF Hungry(s, p) THEN << >>
                                 ELSE Found(s, p) \o f[NextMessage(s, p)]]
<1>1. n \in Nat
  OBVIOUS
<1>2. \A p \in 0 .. n : p \notin stop => next[p] \in p + 1 .. n
  BY NextForward
<1>3. \A p \in 0 .. n : found[p] \in Seq(Items(s))
  BY FoundType
<1>4. ASSUME NEW f PROVE Reads(f, 0, n, stop, found, next) <=> Unfolded(f)
  <2>1. [p \in 0 .. n |-> IF p \in stop THEN << >> ELSE found[p] \o f[next[p]]] =
        [p \in 0 .. Len(s) |-> IF Hungry(s, p) THEN << >>
                               ELSE Found(s, p) \o f[NextMessage(s, p)]]
    OBVIOUS
  <2> QED
    BY <2>1 DEF Reads
<1>5. \E f : Unfolded(f)
  <2> HIDE DEF n, stop, found, next
  <2>1. PICK f : Reads(f, 0, n, stop, found, next)
    BY <1>1, <1>2, ReaderExists
  <2> QED
    BY <2>1, <1>4
<1>6. Unfolded(Reader(s))
  <2>1. Reader(s) = CHOOSE f : Unfolded(f)
    BY Zenon DEF Reader
  <2> HIDE DEF Unfolded
  <2> QED
    BY <1>5, <2>1, Zenon
<1>7. \A p \in 0 .. n : Reader(s)[p] \in Seq(Items(s))
  <2>1. Reads(Reader(s), 0, n, stop, found, next)
    BY <1>4, <1>6, Zenon
  <2>2. \A p \in 0 .. n : p \notin stop => found[p] \in Seq(Items(s))
    BY <1>3
  <2> HIDE DEF n, stop, found, next, Unfolded
  <2> QED
    BY <1>1, <1>2, <2>1, <2>2, ReaderType, Zenon
<1> QED
  BY <1>6, <1>7

(* A message that ends within the first n bytes of a stream is a message   *)
(* of theirs, with the same request.                                       *)
LEMMA MessageInPrefix ==
  ASSUME NEW s \in Seq(Byte), NEW n \in 0 .. Len(s),
         NEW p \in Nat, NEW q \in 0 .. n, IsMessage(s, p, q)
  PROVE  /\ IsMessage(SubSeq(s, 1, n), p, q)
         /\ MessageRequest(SubSeq(s, 1, n), p) = MessageRequest(s, p)
         /\ p + 8 <= n
<1> DEFINE w == WordBytes(s[p + 8])
           b == p + 9 + w
<1>1. PICK t : t = SubSeq(s, 1, n)
  OBVIOUS
<1>2. /\ t \in Seq(Byte) /\ Len(t) = n /\ n \in Nat /\ q \in Nat /\ q <= n
      /\ \A k \in 1 .. n : t[k] = s[k]
  BY <1>1, PrefixBytes
<1>3. /\ p + Header = p + 7 /\ p + Header + 1 = p + 8 /\ p + 7 + 1 = p + 8
      /\ p + Header + 2 = p + 9
  BY DEF Header
<1>4. /\ p + 8 <= Len(s) /\ s[p + 7] = Address /\ s[p + 8] \in ValidFc
      /\ HasData(s[p + 8]) => b <= Len(s)
      /\ q = MessageEnd(s, p)
  BY <1>3 DEF IsMessage
<1>5. w \in {4, 8} /\ p + 8 + w + 1 = b
  BY WordBytesType
<1> HIDE DEF w
<1>6. MessageEnd(s, p) = IF HasData(s[p + 8]) THEN b + s[b] ELSE p + 8 + w
  BY <1>3, <1>5 DEF MessageEnd, w
<1>7. HasData(s[p + 8]) => s[b] \in Nat /\ b + s[b] = q
  <2> HAVE HasData(s[p + 8])
  <2>1. b \in 1 .. Len(s)
    BY <1>4, <1>5
  <2>2. s[b] \in Nat
    BY <2>1, ElementOfSeq, ByteIsNat
  <2> QED
    BY <1>4, <1>6, <2>2
<1>8. ~HasData(s[p + 8]) => p + 8 + w = q
  BY <1>4, <1>6
<1>9. q >= p + 8 + w
  BY <1>2, <1>5, <1>7, <1>8
<1>10. \A k \in 1 .. 8 : p + k \in 1 .. n
  BY <1>2, <1>5, <1>9
<1>11. HasData(s[p + 8]) => b \in 1 .. n
  BY <1>2, <1>5, <1>7
<1>12. t[p + 1] = s[p + 1] /\ t[p + 2] = s[p + 2] /\ t[p + 7] = s[p + 7] /\ t[p + 8] = s[p + 8]
  BY <1>2, <1>10
<1>13. HasData(s[p + 8]) => t[b] = s[b]
  BY <1>2, <1>11
<1>14. MessageEnd(t, p) = MessageEnd(s, p)
  BY <1>3, <1>5, <1>6, <1>12, <1>13 DEF MessageEnd, w
<1>15. IsMessage(t, p, q)
  <2>1. p + 8 <= Len(t) /\ q <= Len(t)
    BY <1>2, <1>10
  <2>2. HasData(t[p + 8]) => p + 9 + WordBytes(t[p + 8]) <= Len(t)
    BY <1>2, <1>11, <1>12 DEF w
  <2> QED
    BY <1>3, <1>4, <1>12, <1>14, <2>1, <2>2 DEF IsMessage
<1>16. MessageRequest(t, p) = MessageRequest(s, p)
  <2>1. \A k \in 1 .. w \div 2 : /\ t[p + Header + 2 * k] = s[p + Header + 2 * k]
                                 /\ t[p + Header + 1 + 2 * k] = s[p + Header + 1 + 2 * k]
    <3> TAKE k \in 1 .. w \div 2
    <3>1. k \in Nat /\ k >= 1 /\ 2 * k <= w
      BY <1>5
    <3>2. p + 7 + 2 * k \in 1 .. n /\ p + 8 + 2 * k \in 1 .. n
      BY <1>2, <1>5, <1>9, <3>1
    <3> QED
      BY <1>2, <1>3, <3>2
  <2>2. HasData(s[p + 8]) => \A k \in 1 .. s[b] : t[b + k] = s[b + k]
    <3> HAVE HasData(s[p + 8])
    <3> TAKE k \in 1 .. s[b]
    <3>1. b + k \in 1 .. n
      BY <1>2, <1>5, <1>7
    <3> QED
      BY <1>2, <3>1
  <2>3. [k \in 1 .. w \div 2 |->
           combine(t[p + Header + 2 * k], t[p + Header + 1 + 2 * k])] =
        [k \in 1 .. w \div 2 |->
           combine(s[p + Header + 2 * k], s[p + Header + 1 + 2 * k])]
    BY <2>1
  <2>4. HasData(s[p + 8]) =>
          [k \in 1 .. s[b] |-> t[b + k]] = [k \in 1 .. s[b] |-> s[b + k]]
    BY <2>2
  <2> QED
    BY <1>3, <1>5, <1>12, <1>13, <2>3, <2>4 DEF MessageRequest, w
<1> QED
  BY <1>1, <1>10, <1>15, <1>16

(* The length field of a message is among the first n bytes with it.       *)
LEMMA NextInPrefix ==
  ASSUME NEW s \in Seq(Byte), NEW n \in 0 .. Len(s), NEW p \in Nat, p + 6 <= n
  PROVE  NextMessage(SubSeq(s, 1, n), p) = NextMessage(s, p)
<1>1. PICK t : t = SubSeq(s, 1, n)
  OBVIOUS
<1>2. \A k \in 1 .. n : t[k] = s[k]
  BY <1>1, PrefixBytes
<1>3. p + 5 \in 1 .. n /\ p + 6 \in 1 .. n
  OBVIOUS
<1> QED
  BY <1>1, <1>2, <1>3 DEF NextMessage

(* The reader has a message in hand as soon as all of it is there.         *)
LEMMA ReaderTakes ==
  ASSUME NEW s \in Seq(Byte), NEW n \in 0 .. Len(s), NEW p \in Nat, NEW q \in 0 .. n,
         IsMessage(s, p, q), q = NextMessage(s, p)
  PROVE  Reader(SubSeq(s, 1, n))[p] =
           << [from |-> p, to |-> q, request |-> MessageRequest(s, p)] >>
             \o Reader(SubSeq(s, 1, n))[q]
<1>1. PICK t : t = SubSeq(s, 1, n)
  OBVIOUS
<1>2. t \in Seq(Byte) /\ Len(t) = n
  BY <1>1, PrefixBytes
<1>3. /\ IsMessage(t, p, q) /\ MessageRequest(t, p) = MessageRequest(s, p)
      /\ p + 8 <= n
  BY <1>1, MessageInPrefix
<1>4. p + 6 <= n /\ p \in 0 .. n /\ n \in Nat
  BY <1>3
<1>5. NextMessage(t, p) = q
  BY <1>1, <1>4, NextInPrefix
<1>6. ~Hungry(t, p)
  <2>1. ~(p + 7 > n) /\ ~(q > n)
    BY <1>3
  <2> QED
    BY <1>2, <1>5, <2>1 DEF Hungry, Header
<1>7. Reader(t)[p] = Found(t, p) \o Reader(t)[q]
  BY <1>2, <1>4, <1>5, <1>6, ReaderUnfolds
<1> QED
  BY <1>1, <1>3, <1>5, <1>7 DEF Found

(* It has nothing in hand while a byte is missing.                         *)
LEMMA ReaderWaits ==
  ASSUME NEW s \in Seq(Byte), NEW p \in 0 .. Len(s), Hungry(s, p)
  PROVE  Reader(s)[p] = << >>
BY ReaderUnfolds

(* The bytes of a message with the right length, but not yet all of them.  *)
LEMMA Unfinished ==
  ASSUME NEW s \in Seq(Byte), NEW n \in 0 .. Len(s),
         NEW p \in Nat, NEW m \in Nat, n = p + m,
         NEW w, LengthRight(s, p),
         m >= 8 => /\ s[p + 7] = Address /\ s[p + 8] \in ValidFc
                   /\ w = WordBytes(s[p + 8])
                   /\ ~HasData(s[p + 8]) => m < w + 8
                   /\ HasData(s[p + 8]) /\ m >= w + 9 => m < w + 9 + s[p + 9 + w]
  PROVE  Hungry(SubSeq(s, 1, n), p)
<1>1. PICK t : t = SubSeq(s, 1, n)
  OBVIOUS
<1>2. Len(t) = n /\ n \in Nat /\ Len(s) \in Nat /\ n <= Len(s)
  BY <1>1, PrefixBytes
<1>3. CASE m < 7
  <2>1. p + 7 > n
    BY <1>3
  <2> QED
    BY <1>1, <1>2, <2>1 DEF Hungry, Header
<1>4. CASE m >= 7
  <2>1. p + 6 <= n /\ p + 6 <= Len(s) /\ p + 7 <= Len(s)
    BY <1>2, <1>4
  <2>2. PICK q \in Nat : q = NextMessage(s, p)
    BY <2>1, NextType
  <2>3. NextMessage(t, p) = q
    BY <1>1, <2>1, <2>2, NextInPrefix
  <2>4. q > n
    <3>1. CASE m = 7
      <4>1. q > p + 7
        BY <2>1, <2>2 DEF LengthRight, Header
      <4> QED
        BY <3>1, <4>1
    <3>2. CASE m >= 8
      <4>1. p + 8 <= Len(s) /\ w \in {4, 8}
        BY <1>2, <3>2, WordBytesType
      <4>2. p + Header + 1 = p + 8 /\ p + Header + 2 = p + 9 /\ p + Header = p + 7
        BY DEF Header
      <4>3. IF HasData(s[p + 8]) /\ p + 9 + w > Len(s)
              THEN q > Len(s) ELSE q = MessageEnd(s, p)
        BY <2>1, <2>2, <3>2, <4>1, <4>2 DEF LengthRight
      <4>4. MessageEnd(s, p) = IF HasData(s[p + 8])
                                 THEN p + 8 + w + 1 + s[p + 8 + w + 1]
                                 ELSE p + 8 + w
        BY <3>2, <4>2 DEF MessageEnd
      <4>5. CASE ~HasData(s[p + 8])
        <5>1. q = p + 8 + w /\ m < w + 8
          BY <3>2, <4>3, <4>4, <4>5
        <5> QED
          BY <4>1, <5>1
      <4>6. CASE HasData(s[p + 8]) /\ p + 9 + w > Len(s)
        BY <1>2, <4>3, <4>6
      <4>7. CASE HasData(s[p + 8]) /\ ~(p + 9 + w > Len(s))
        <5>1. p + 8 + w + 1 = p + 9 + w /\ p + 9 + w \in 1 .. Len(s)
          BY <1>2, <4>1, <4>7
        <5>2. PICK c \in Nat : c = s[p + 9 + w]
          BY <5>1, ElementOfSeq, ByteIsNat
        <5>3. q = p + 9 + w + c
          BY <4>3, <4>4, <4>7, <5>1, <5>2
        <5>4. m >= w + 9 => m < w + 9 + c
          BY <3>2, <4>7, <5>2
        <5> QED
          BY <4>1, <5>2, <5>3, <5>4
      <4> QED
        BY <4>5, <4>6, <4>7
    <3> QED
      BY <1>4, <3>1, <3>2
  <2> QED
    BY <1>1, <1>2, <2>3, <2>4 DEF Hungry
<1> QED
  BY <1>3, <1>4

(* The first n bytes of the connection.                                    *)
Before(n) == SubSeq(stream, 1, n)

(* The scanner expects a message where one starts, and whatever the reader *)
(* hands out of the first n bytes, for any n, has been handed out or is    *)
(* handed out from there on.                                               *)
InReaderStep ==
  \A starts \in SUBSET (0 .. Len(stream)) :
    FramedBy(stream, starts) =>
      /\ start \in starts
      /\ \A n \in start .. Len(stream) :
           Reader(Before(n))[0] = pdus \o Reader(Before(n))[start]

(* Between two portions the reader has nothing to hand out from start on.  *)
LEMMA NothingLeft ==
  ASSUME IInv, m_coro = "in_sink", pc # "whole_pdu", LengthRight(stream, start)
  PROVE  /\ lo + actual_size \in start .. Len(stream)
         /\ Reader(Before(lo + actual_size))[start] = << >>
<1>1. TypeOK /\ Located /\ Placed /\ Stored
  BY DEF IInv
<1>2. PICK n, m, w, b : /\ n = lo + actual_size /\ m = Progress
                        /\ w = WordBytes(fc) /\ b = WordsRead
  OBVIOUS
<1>3. /\ stream \in Seq(Byte) /\ start \in Nat /\ hb \in 1 .. 6 /\ wb \in 1 .. 8
      /\ ix \in Nat /\ w \in {4, 8}
  BY <1>1, <1>2, WordBytesType, StreamsAssumption DEF TypeOK
<1>4. n \in 0 .. Len(stream) /\ n = start + m
  BY <1>1, <1>2, StreamsAssumption DEF TypeOK, Located, Placed, ReadPos
<1>5. b \in Nat /\ (pc = "i16" => b < w) /\ (pc \in {"i8_1", "data"} => b = w)
  BY <1>1, <1>2, <1>3, SMTT(20) DEF WordsRead, Stored
<1>6. /\ pc \in {"header", "unit_id"} => m \in Nat /\ m < 7
      /\ pc = "function" => m = 7
      /\ pc \in {"i16", "i8_1"} => m = 8 + b
      /\ pc = "data" => m = 9 + b + ix
  BY <1>2, <1>3 DEF Progress, Counted
<1>7. pc \in {"header", "unit_id", "function", "i16", "i8_1", "data"}
  BY <1>1 DEF TypeOK, States
<1>8. m \in Nat
  BY <1>3, <1>5, <1>6, <1>7
<1>9. ASSUME m >= 8
      PROVE  /\ stream[start + 7] = Address /\ stream[start + 8] \in ValidFc
             /\ w = WordBytes(stream[start + 8])
             /\ ~HasData(stream[start + 8]) => m < w + 8
             /\ HasData(stream[start + 8]) /\ m >= w + 9 =>
                  m < w + 9 + stream[start + 9 + w]
  <2>1. pc \in {"i16", "i8_1", "data"}
    BY <1>6, <1>7, <1>9
  <2>2. start + Header = start + 7 /\ start + Header + 1 = start + 8
    BY <1>3 DEF Header
  <2>3. stream[start + 7] = Address /\ stream[start + 8] = fc /\ fc \in ValidFc
    BY <1>1, <2>1, <2>2 DEF Stored
  <2>4. pc \in {"i8_1", "data"} => HasData(fc)
    BY <1>1 DEF Stored
  <2>5. ~HasData(fc) => m < w + 8
    BY <1>3, <1>5, <1>6, <2>1, <2>4
  <2>6. ASSUME m >= w + 9 PROVE m < w + 9 + stream[start + 9 + w]
    <3>1. pc = "data"
      BY <1>3, <1>5, <1>6, <2>1, <2>6
    <3>2. m = 9 + w + ix
      BY <1>5, <1>6, <3>1
    <3>3. PICK c : c = m_pdu.m_i8_1
      OBVIOUS
    <3>4. c = stream[start + 9 + w] /\ ix < c
      BY <1>1, <1>2, <1>5, <3>1, <3>3 DEF Stored, Counted
    <3>5. c \in MaybeByte
      BY <1>1, <3>3 DEF TypeOK, PduType
    <3>6. c \in Int
      BY <3>5 DEF MaybeByte, Undef
    <3> QED
      BY <1>3, <3>2, <3>4, <3>6
  <2> QED
    BY <1>2, <2>3, <2>5, <2>6
<1>10. Hungry(SubSeq(stream, 1, n), start)
  BY <1>3, <1>4, <1>8, <1>9, Unfinished, ZenonT(30)
<1>11. start \in 0 .. n /\ n \in start .. Len(stream)
  BY <1>3, <1>4, <1>8
<1>12. SubSeq(stream, 1, n) \in Seq(Byte) /\ Len(SubSeq(stream, 1, n)) = n
  BY <1>3, <1>4, PrefixBytes
<1>13. Reader(SubSeq(stream, 1, n))[start] = << >>
  BY <1>10, <1>11, <1>12, ReaderWaits
<1> QED
  BY <1>2, <1>11, <1>13 DEF Before

(* No request with a byte count of 0 was handed out.                       *)
NoneEmpty ==
  \A i \in 1 .. Len(pdus) :
    ~(HasData(pdus[i].request.fc) /\ pdus[i].request.count = 0)

(* A scanner that is in step has been so from the start.                   *)
LEMMA InStepFromTheStart ==
  ASSUME IInv, [Next]_vars, InStep'
  PROVE  InStep /\ ~GivenUp
<1>1. /\ nonses' = {} /\ foreign' = {} /\ pc' # "whole_pdu"
      /\ NoneEmpty'
  BY DEF InStep, Swallowed, NoneEmpty
<1>2. pdus \in Seq(PduEntry) /\ start \in Nat
  BY DEF IInv, TypeOK, PduEntry
<1>3. ~GivenUp
  BY <1>1 DEF GivenUp
<1>4. pc # "whole_pdu"
  <2> SUFFICES ASSUME pc = "whole_pdu" PROVE FALSE
    OBVIOUS
  <2>1. EmptyPdu
    BY <1>1 DEF Next, ScanCo, Scan, HeaderByte, UnitMatch, UnitForeign, Function,
                InvalidFunction, Word, ByteCount, Data, At, vars
  <2>2. PICK to : Delivered(to)
    BY <2>1, EmptyPduDelivers
  <2>3. PICK e : e = [from |-> start, to |-> to, request |-> MessageRequest(stream, start)]
    OBVIOUS
  <2>4. pdus' = Append(pdus, e) /\ e.to = to /\ HasData(e.request.fc) /\ e.request.count = 0
    BY <2>2, <2>3 DEF Delivered
  <2>5. Len(pdus') \in 1 .. Len(pdus') /\ pdus'[Len(pdus')] = e
    BY <1>2, <2>4
  <2> QED
    BY <1>1, <2>4, <2>5 DEF NoneEmpty
<1>5. nonses = {} /\ foreign = {}
  BY <1>1, <1>3, NextOutcome DEF Outcome, Quiet, Delivered
<1>6. \A i \in 1 .. Len(pdus) : i \in 1 .. Len(pdus') /\ pdus'[i] = pdus[i]
  <2>1. CASE Quiet
    BY <2>1 DEF Quiet
  <2>2. ASSUME NEW to, Delivered(to) PROVE <1>6
    <3>1. PICK e : pdus' = Append(pdus, e)
      BY <2>2 DEF Delivered
    <3> QED
      BY <1>2, <3>1
  <2> QED
    BY <1>3, <2>1, <2>2, NextOutcome DEF Outcome
<1>7. NoneEmpty
  BY <1>1, <1>6 DEF NoneEmpty
<1> QED
  BY <1>3, <1>4, <1>5, <1>7 DEF InStep, Swallowed, NoneEmpty

(* A delivery is what the reader does at start.                            *)
LEMMA DeliveredInReaderStep ==
  ASSUME IInv, InReaderStep, pc # "whole_pdu", NEW to, Delivered(to)
  PROVE  InReaderStep'
<1>1. stream \in Seq(Byte) /\ Len(stream) \in Nat /\ start \in Nat /\ stream' = stream
  BY StreamsAssumption DEF IInv, TypeOK, Delivered
<1>2. /\ to \in start + 1 .. Len(stream) /\ start' = to /\ IsMessage(stream, start, to)
      /\ pdus' = Append(pdus, [from |-> start, to |-> to,
                               request |-> MessageRequest(stream, start)])
  BY DEF Delivered
<1>3. \A n : Before(n)' = Before(n)
  BY <1>1 DEF Before
<1>4. SUFFICES ASSUME NEW starts \in SUBSET (0 .. Len(stream)), FramedBy(stream, starts)
               PROVE  /\ to \in starts
                      /\ \A n \in to .. Len(stream) :
                           Reader(Before(n))[0] = pdus' \o Reader(Before(n))[to]
  BY <1>1, <1>2, <1>3 DEF InReaderStep
<1>5. start \in starts /\ LengthRight(stream, start)
  BY <1>4 DEF InReaderStep, FramedBy
<1>6. to = NextMessage(stream, start) /\ start + Header <= Len(stream)
  <2>1. /\ start + Header + 1 <= Len(stream) /\ to = MessageEnd(stream, start)
        /\ stream[start + Header] = Address /\ stream[start + Header + 1] \in ValidFc
        /\ HasData(stream[start + Header + 1]) =>
             ~(start + Header + 2 + WordBytes(stream[start + Header + 1]) > Len(stream))
    <3>1. WordBytes(stream[start + Header + 1]) \in {4, 8} /\ Header \in Nat
      BY WordBytesType DEF Header
    <3> QED
      BY <1>1, <1>2, <3>1 DEF IsMessage
  <2>2. start + Header <= Len(stream)
    BY <1>1, <2>1 DEF Header
  <2> QED
    BY <1>5, <2>1, <2>2 DEF LengthRight
<1>7. to \in starts
  <2>1. ~Hungry(stream, start)
    BY <1>1, <1>2, <1>6 DEF Hungry, Header
  <2> QED
    BY <1>4, <1>5, <1>6, <2>1 DEF FramedBy
<1>8. PICK x : x = [from |-> start, to |-> to, request |-> MessageRequest(stream, start)]
  OBVIOUS
<1>9. ASSUME NEW n \in to .. Len(stream)
      PROVE  Reader(Before(n))[0] = Append(pdus, x) \o Reader(Before(n))[to]
  <2>1. PICK s, r : s = Before(n) /\ r = Reader(s)[to]
    OBVIOUS
  <2>2. n \in 0 .. Len(stream) /\ n \in start .. Len(stream) /\ to \in 0 .. n
    BY <1>1, <1>2
  <2>3. s \in Seq(Byte) /\ Len(s) = n
    BY <1>1, <2>1, <2>2, PrefixBytes DEF Before
  <2>4. Reader(s)[start] = << x >> \o r
    BY <1>1, <1>2, <1>6, <1>8, <2>1, <2>2, ReaderTakes DEF Before
  <2>5. r \in Seq(Items(s))
    BY <2>1, <2>2, <2>3, ReaderUnfolds
  <2>6. pdus \in Seq(PduEntry)
    BY DEF IInv, TypeOK, PduEntry
  <2>7. Append(pdus, x) \o r = pdus \o (<< x >> \o r)
    BY <2>5, <2>6, AppendThenMore
  <2>8. Reader(s)[0] = pdus \o Reader(s)[start]
    BY <1>4, <2>1, <2>2 DEF InReaderStep
  <2> QED
    BY <2>1, <2>4, <2>7, <2>8
<1> QED
  BY <1>2, <1>7, <1>8, <1>9

(* As long as the scanner met no foreign unit id, no invalid function code *)
(* and no byte count of 0, its calls of m_pdu_cb when a scan() returns are *)
(* those of a reader that goes by the length fields, if these are right:   *)
(* the scanner never looks at them, and finds the same messages.           *)
THEOREM DeliveredInStepHolds ==
  ASSUME \A s \in Streams : WellFramed(s)
  PROVE  Spec => []DeliveredInStep
<1> DEFINE Inv == InStep => InReaderStep
<1>1. Init => Inv
  <2> SUFFICES ASSUME Init PROVE InReaderStep
    OBVIOUS
  <2>1. pdus = << >> /\ start = 0 /\ stream \in Seq(Byte)
    BY StreamsAssumption DEF Init
  <2>2. ASSUME NEW n \in 0 .. Len(stream)
        PROVE  Reader(Before(n))[0] = << >> \o Reader(Before(n))[0]
    <3>1. Before(n) \in Seq(Byte) /\ 0 \in 0 .. Len(Before(n))
      BY <2>1, PrefixBytes DEF Before
    <3>2. Reader(Before(n))[0] \in Seq(Items(Before(n)))
      BY <3>1, ReaderUnfolds
    <3> QED
      BY <3>2, ConcatEmptySeq
  <2> QED
    BY <2>1, <2>2 DEF InReaderStep, FramedBy
<1>2. IInv /\ Inv /\ [Next]_vars => Inv'
  <2> SUFFICES ASSUME IInv, Inv, [Next]_vars, InStep' PROVE InReaderStep'
    OBVIOUS
  <2>1. InStep /\ ~GivenUp /\ Outcome
    BY InStepFromTheStart, NextOutcome
  <2>2. InReaderStep /\ pc # "whole_pdu"
    BY <2>1 DEF InStep
  <2>3. CASE Quiet
    BY <2>2, <2>3 DEF Quiet, InReaderStep, Before
  <2> QED
    BY <2>1, <2>2, <2>3, DeliveredInReaderStep DEF Outcome
<1>3. IInv /\ Inv => DeliveredInStep
  <2> SUFFICES ASSUME IInv, InReaderStep, InStep, m_coro = "in_sink"
               PROVE  pdus = MessageWise(Before(lo + actual_size))
    BY DEF DeliveredInStep, AllDelivered, Before
  <2>1. PICK starts \in SUBSET (0 .. Len(stream)) : FramedBy(stream, starts)
    BY DEF IInv, TypeOK, WellFramed
  <2>2. start \in starts /\ LengthRight(stream, start)
    BY <2>1 DEF InReaderStep, FramedBy
  <2>3. Reader(Before(lo + actual_size))[0] = pdus \o << >>
    BY <2>1, <2>2, NothingLeft DEF InReaderStep, InStep
  <2>4. pdus \o << >> = pdus
    BY ConcatEmptySeq DEF IInv, TypeOK
  <2> QED
    BY <2>3, <2>4 DEF MessageWise
<1> QED
  BY <1>1, <1>2, <1>3, InvariantHolds, PTL DEF Spec
===============================================================================
