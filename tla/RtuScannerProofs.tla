--------------------------- MODULE RtuScannerProofs ---------------------------
(***************************************************************************)
(* Theorems about RtuScanner for every address, CRC function, set of       *)
(* streams and portion size.                                               *)
(***************************************************************************)
EXTENDS RtuScanner, RtuFramesProofs

-------------------------------------------------------------------------------
(* What the scanner reads is a byte of the stream.                         *)
LEMMA CurIsByte ==
  ASSUME TypeOK, Located, m_coro = "running"
  PROVE  /\ Cur \in Byte
         /\ lo + m_ix + 1 \in 1 .. Len(stream)
<1>1. stream \in Seq(Byte)
  BY StreamsAssumption DEF TypeOK
<1>2. lo + m_ix + 1 \in 1 .. Len(stream)
  <2>1. Len(stream) \in Nat
    BY <1>1
  <2> QED
    BY <2>1 DEF TypeOK, Located
<1>3. Cur \in Byte
  BY <1>1, <1>2, ElementOfSeq DEF Cur
<1> QED
  BY <1>2, <1>3

(* The coroutine starts with nothing read and nothing remembered.          *)
LEMMA InitIInv == Init => IInv
<1> SUFFICES ASSUME Init PROVE IInv
  OBVIOUS
<1>1. stream \in Seq(Byte) /\ Len(stream) \in Nat
  BY StreamsAssumption DEF Init
<1>2. m_pdu \in PduType
  BY InitPduType DEF Init
<1>3. TypeOK
  BY <1>2 DEF Init, TypeOK, States, Byte
<1>4. Located
  BY <1>1 DEF Init, Located
<1>5. Buffered
  BY DEF Init, Buffered, FrameStart, Counted
<1>6. Stored
  BY DEF Init, Stored, WordsRead, Counted
<1>7. PdusAreFrames
  BY DEF Init, PdusAreFrames
<1> QED
  BY <1>3, <1>4, <1>5, <1>6, <1>7 DEF IInv

(* A new portion moves the window on by exactly what was consumed.         *)
LEMMA ScanIInv == IInv /\ Scan => IInv'
<1> SUFFICES ASSUME IInv, Scan PROVE IInv'
  OBVIOUS
<1>1. TypeOK /\ Located /\ Buffered /\ Stored /\ PdusAreFrames
  BY DEF IInv
<1>2. /\ actual_size' \in Nat
      /\ lo + actual_size + actual_size' <= Len(stream)
      /\ actual_size' > 0
  BY PortionAssumption DEF Scan
<1>3. /\ lo' = lo + actual_size /\ m_ix' = 0
      /\ m_coro = "in_sink" /\ m_coro' = "running"
      /\ UNCHANGED <<stream, pc, wb, word, ix, fc, crc_buf, crc_hi, m_pdu,
                     pdus, nonses>>
  BY DEF Scan, line, locals, calls
<1>4. lo \in Nat /\ actual_size \in Nat /\ m_ix \in Nat /\ Len(crc_buf) \in Nat
  BY <1>1 DEF TypeOK
<1>5. TypeOK'
  BY <1>1, <1>2, <1>3, <1>4 DEF TypeOK
<1>6. Located'
  BY <1>2, <1>3, <1>4 DEF Located
<1>7. Buffered'
  <2>1. CASE pc = "address"
    <3>1. Len(crc_buf) = 0
      BY <1>1, <2>1 DEF Buffered
    <3>2. FrameStart' \in Nat
      BY <1>3, <1>4, <2>1, <3>1 DEF FrameStart
    <3> QED
      BY <1>3, <2>1, <3>1, <3>2 DEF Buffered, Counted
  <2>2. CASE pc # "address"
    <3>1. (lo + m_ix)' = lo + m_ix
      BY <1>1, <1>3, <1>4, <2>2 DEF Located
    <3>2. FrameStart' = FrameStart
      BY <1>3, <1>4, <3>1 DEF FrameStart
    <3> QED
      BY <1>1, <1>3, <2>2, <3>1, <3>2 DEF Buffered, Counted, WordsRead
  <2> QED
    BY <2>1, <2>2
<1>8. Stored'
  BY <1>1, <1>3 DEF Stored, Counted, WordsRead
<1>9. PdusAreFrames'
  BY <1>1, <1>3 DEF PdusAreFrames
<1> QED
  BY <1>5, <1>6, <1>7, <1>8, <1>9 DEF IInv

(* check_buf_end keeps m_ix inside the portion while the coroutine runs.   *)
LEMMA CheckBufEndLocated ==
  ASSUME TypeOK, Located, m_coro = "running", CheckBufEnd,
         UNCHANGED <<stream, lo, actual_size>>
  PROVE  /\ Located'
         /\ m_ix' = m_ix + 1 /\ m_ix' \in Nat
         /\ m_coro' \in {"running", "in_sink"}
<1>1. lo \in Nat /\ actual_size \in Nat /\ m_ix \in Nat
  BY DEF TypeOK
<1> QED
  BY <1>1 DEF Located, CheckBufEnd

(* A byte pushed onto crc_buf keeps it the part of the stream since        *)
(* FrameStart.                                                             *)
LEMMA PushByte ==
  ASSUME TypeOK, Located, Buffered, m_coro = "running",
         pc # "crc_low", pc' # "crc_low",
         crc_buf' = Append(crc_buf, Cur),
         m_ix' = m_ix + 1, UNCHANGED <<stream, lo>>
  PROVE  /\ crc_buf' \in Seq(Byte)
         /\ Len(crc_buf') = Len(crc_buf) + 1
         /\ \A k \in 1 .. Len(crc_buf) : crc_buf'[k] = crc_buf[k]
         /\ crc_buf'[Len(crc_buf) + 1] = Cur
         /\ FrameStart' = FrameStart /\ FrameStart' \in Nat
         /\ \A k \in 1 .. Len(crc_buf') : crc_buf'[k] = stream'[FrameStart' + k]
<1>1. /\ lo \in Nat /\ m_ix \in Nat
      /\ crc_buf \in Seq(Byte) /\ Len(crc_buf) \in Nat
  BY DEF TypeOK
<1>2. Cur \in Byte
  BY CurIsByte
<1>3. /\ crc_buf' \in Seq(Byte)
      /\ Len(crc_buf') = Len(crc_buf) + 1
      /\ \A k \in 1 .. Len(crc_buf) : crc_buf'[k] = crc_buf[k]
      /\ crc_buf'[Len(crc_buf) + 1] = Cur
  BY <1>1, <1>2, AppendProperties
<1>4. /\ FrameStart = lo + m_ix - Len(crc_buf)
      /\ FrameStart' = FrameStart
  BY <1>1, <1>3 DEF FrameStart
<1>5. FrameStart' \in Nat
  BY <1>4 DEF Buffered
<1>6. ASSUME NEW k \in 1 .. Len(crc_buf')
      PROVE  crc_buf'[k] = stream'[FrameStart' + k]
  <2>1. CASE k \in 1 .. Len(crc_buf)
    BY <1>3, <1>4, <2>1 DEF Buffered
  <2>2. CASE k = Len(crc_buf) + 1
    <3>1. FrameStart' + k = lo + m_ix + 1
      BY <1>1, <1>4, <2>2
    <3>2. crc_buf'[k] = Cur
      BY <1>3, <2>2
    <3> QED
      BY <3>1, <3>2 DEF Cur
  <2> QED
    BY <1>1, <1>3, <2>1, <2>2
<1> QED
  BY <1>3, <1>4, <1>5, <1>6

(* A byte that is not the address is left behind with an empty crc_buf.    *)
LEMMA AddressSkipIInv == IInv /\ AddressSkip => IInv'
<1> SUFFICES ASSUME IInv, AddressSkip PROVE IInv'
  OBVIOUS
<1>1. TypeOK /\ Located /\ Buffered /\ Stored /\ PdusAreFrames
  BY DEF IInv
<1>2. /\ m_coro = "running" /\ pc = "address" /\ crc_buf' = << >>
      /\ CheckBufEnd
      /\ UNCHANGED <<stream, lo, actual_size, pc, wb, word, ix, fc, crc_hi,
                     m_pdu, pdus, nonses>>
  BY DEF AddressSkip, At, line, input, locals, calls
<1>3. /\ Located'
      /\ m_ix' = m_ix + 1 /\ m_ix' \in Nat
      /\ m_coro' \in {"running", "in_sink"}
  BY <1>1, <1>2, CheckBufEndLocated
<1>4. TypeOK'
  BY <1>1, <1>2, <1>3 DEF TypeOK
<1>5. FrameStart' \in Nat
  BY <1>2, <1>3, <1>4 DEF FrameStart, TypeOK
<1>6. Buffered'
  BY <1>2, <1>5 DEF Buffered, Counted
<1>7. Stored'
  BY <1>2 DEF Stored, Counted, WordsRead
<1>8. PdusAreFrames'
  BY <1>1, <1>2 DEF PdusAreFrames
<1> QED
  BY <1>3, <1>4, <1>6, <1>7, <1>8 DEF IInv

(* The address becomes the first byte of crc_buf.                          *)
LEMMA AddressMatchIInv == IInv /\ AddressMatch => IInv'
<1> SUFFICES ASSUME IInv, AddressMatch PROVE IInv'
  OBVIOUS
<1>1. TypeOK /\ Located /\ Buffered /\ Stored /\ PdusAreFrames
  BY DEF IInv
<1>2. /\ m_coro = "running" /\ pc = "address" /\ pc' = "function"
      /\ Cur = Address /\ crc_buf' = Append(crc_buf, Cur)
      /\ CheckBufEnd
      /\ UNCHANGED <<stream, lo, actual_size, wb, word, ix, fc, crc_hi,
                     m_pdu, pdus, nonses>>
  BY DEF AddressMatch, At, line, input, locals, calls
<1>3. /\ Located'
      /\ m_ix' = m_ix + 1 /\ m_ix' \in Nat
      /\ m_coro' \in {"running", "in_sink"}
  BY <1>1, <1>2, CheckBufEndLocated
<1>4. /\ crc_buf' \in Seq(Byte)
      /\ Len(crc_buf') = Len(crc_buf) + 1
      /\ crc_buf'[Len(crc_buf) + 1] = Cur
      /\ FrameStart' \in Nat
      /\ \A k \in 1 .. Len(crc_buf') : crc_buf'[k] = stream'[FrameStart' + k]
  BY <1>1, <1>2, <1>3, PushByte
<1>5. Len(crc_buf) = 0
  BY <1>1, <1>2 DEF Buffered
<1>6. TypeOK'
  BY <1>1, <1>2, <1>3, <1>4 DEF TypeOK, States
<1>7. Buffered'
  BY <1>2, <1>4, <1>5 DEF Buffered, Counted
<1>8. Stored'
  BY <1>2 DEF Stored, Counted, WordsRead
<1>9. PdusAreFrames'
  BY <1>1, <1>2 DEF PdusAreFrames
<1> QED
  BY <1>3, <1>6, <1>7, <1>8, <1>9 DEF IInv

(* A valid function code becomes fc and the second byte of crc_buf.        *)
LEMMA FunctionIInv == IInv /\ Function => IInv'
<1> SUFFICES ASSUME IInv, Function PROVE IInv'
  OBVIOUS
<1>1. TypeOK /\ Located /\ Buffered /\ Stored /\ PdusAreFrames
  BY DEF IInv
<1>2. /\ m_coro = "running" /\ pc = "function" /\ pc' = "i16"
      /\ Cur \in ValidFc /\ fc' = Cur /\ wb' = 1
      /\ crc_buf' = Append(crc_buf, Cur)
      /\ CheckBufEnd
      /\ UNCHANGED <<stream, lo, actual_size, word, ix, crc_hi,
                     m_pdu, pdus, nonses>>
  BY DEF Function, At, line, input, calls
<1>3. /\ Located'
      /\ m_ix' = m_ix + 1 /\ m_ix' \in Nat
      /\ m_coro' \in {"running", "in_sink"}
  BY <1>1, <1>2, CheckBufEndLocated
<1>4. /\ crc_buf' \in Seq(Byte)
      /\ Len(crc_buf') = Len(crc_buf) + 1
      /\ \A k \in 1 .. Len(crc_buf) : crc_buf'[k] = crc_buf[k]
      /\ crc_buf'[Len(crc_buf) + 1] = Cur
      /\ FrameStart' \in Nat
      /\ \A k \in 1 .. Len(crc_buf') : crc_buf'[k] = stream'[FrameStart' + k]
  BY <1>1, <1>2, <1>3, PushByte
<1>5. Len(crc_buf) = 1 /\ crc_buf[1] = Address
  BY <1>1, <1>2 DEF Buffered
<1>6. TypeOK'
  BY <1>1, <1>2, <1>3, <1>4 DEF TypeOK, States
<1>7. Buffered'
  BY <1>2, <1>4, <1>5 DEF Buffered, Counted, WordsRead
<1>8. Stored'
  BY <1>2, WordBytesType DEF Stored, Counted, WordsRead
<1>9. PdusAreFrames'
  BY <1>1, <1>2 DEF PdusAreFrames
<1> QED
  BY <1>3, <1>6, <1>7, <1>8, <1>9 DEF IInv

(* Both ways into nonsense: the coroutine suspends with an empty crc_buf.  *)
LEMMA GotoInitialStateIInv ==
  ASSUME IInv, m_coro = "running", GotoInitialState,
         UNCHANGED <<stream, lo, actual_size, wb, word, ix, fc, crc_hi, m_pdu>>
  PROVE  IInv'
<1>1. TypeOK /\ Located /\ Buffered /\ Stored /\ PdusAreFrames
  BY DEF IInv
<1>2. /\ pc' = "address" /\ m_coro' = "in_sink" /\ crc_buf' = << >>
      /\ UNCHANGED <<m_ix, pdus>>
      /\ nonses' = nonses \cup {[from |-> FrameStart, to |-> lo + actual_size]}
  BY DEF GotoInitialState
<1>3. FrameStart \in Nat /\ lo \in Nat /\ actual_size \in Nat /\ m_ix \in Nat
  BY <1>1 DEF Buffered, TypeOK
<1>4. nonses' \in SUBSET [from : Nat, to : Nat]
  BY <1>1, <1>2, <1>3 DEF TypeOK
<1>5. TypeOK'
  BY <1>1, <1>2, <1>4 DEF TypeOK, States
<1>6. Located'
  BY <1>1, <1>2 DEF Located
<1>7. FrameStart' \in Nat
  BY <1>2, <1>3 DEF FrameStart
<1>8. Buffered'
  BY <1>2, <1>7 DEF Buffered, Counted
<1>9. Stored'
  BY <1>2 DEF Stored, Counted, WordsRead
<1>10. PdusAreFrames'
  BY <1>1, <1>2 DEF PdusAreFrames
<1> QED
  BY <1>5, <1>6, <1>8, <1>9, <1>10 DEF IInv

(* An invalid function code and a wrong CRC are such ways.                 *)
LEMMA NonsenseIInv == IInv /\ (InvalidFunction \/ CrcWrong) => IInv'
BY GotoInitialStateIInv DEF InvalidFunction, CrcWrong, At, line, input, locals

(* The third and fourth word stored in m_pdu are words.                    *)
LEMMA StoreWordsType ==
  ASSUME TypeOK, Cur \in Byte
  PROVE  /\ StoreWords \in PduType
         /\ StoreWords.m_data = m_pdu.m_data
         /\ wb = 8 => /\ StoreWords.m_i16[3] = combine(word[5], word[6])
                      /\ StoreWords.m_i16[4] = combine(word[7], Cur)
<1>1. m_pdu \in PduType /\ word \in [1..8 -> Byte]
  BY DEF TypeOK
<1>2. /\ combine(word[5], word[6]) \in MaybeWord16
      /\ combine(word[7], Cur) \in MaybeWord16
  BY <1>1, CombineType
<1>3. CASE wb # 8
  BY <1>1, <1>3 DEF StoreWords
<1>4. CASE wb = 8
  <2> DEFINE words == [m_pdu.m_i16 EXCEPT ![3] = combine(word[5], word[6]),
                                          ![4] = combine(word[7], Cur)]
  <2>1. m_pdu.m_i16 \in [1..4 -> MaybeWord16]
    BY <1>1 DEF PduType
  <2>2. /\ words \in [1..4 -> MaybeWord16]
        /\ words[3] = combine(word[5], word[6])
        /\ words[4] = combine(word[7], Cur)
    BY <1>2, <2>1
  <2>3. StoreWords = [m_pdu EXCEPT !.m_i16 = words]
    BY <1>1, <1>4, <2>1 DEF StoreWords, PduType
  <2> HIDE DEF words
  <2>4. /\ StoreWords \in PduType
        /\ StoreWords.m_data = m_pdu.m_data
        /\ StoreWords.m_i16 = words
    BY <1>1, <2>2, <2>3 DEF PduType
  <2> QED
    BY <2>2, <2>4
<1> QED
  BY <1>3, <1>4

(* A byte of a word is in word and crc_buf; the last one ends the words.   *)
LEMMA WordIInv == IInv /\ Word => IInv'
<1> SUFFICES ASSUME IInv, Word PROVE IInv'
  OBVIOUS
<1>1. TypeOK /\ Located /\ Buffered /\ Stored /\ PdusAreFrames
  BY DEF IInv
<1>2. /\ m_coro = "running" /\ pc = "i16"
      /\ crc_buf' = Append(crc_buf, Cur)
      /\ word' = [word EXCEPT ![wb] = Cur]
      /\ m_pdu' = StoreWords
      /\ CheckBufEnd
      /\ UNCHANGED <<stream, lo, actual_size, ix, fc, crc_hi, pdus, nonses>>
  BY DEF Word, At, line, input, calls
<1>3. IF wb < WordBytes(fc)
        THEN wb' = wb + 1 /\ pc' = "i16"
        ELSE wb' = wb /\ pc' = IF HasData(fc) THEN "i8_1" ELSE "crc_hi"
  BY DEF Word
<1>4. /\ Located'
      /\ m_ix' = m_ix + 1 /\ m_ix' \in Nat
      /\ m_coro' \in {"running", "in_sink"}
  BY <1>1, <1>2, CheckBufEndLocated
<1>5. /\ crc_buf' \in Seq(Byte)
      /\ Len(crc_buf') = Len(crc_buf) + 1
      /\ \A k \in 1 .. Len(crc_buf) : crc_buf'[k] = crc_buf[k]
      /\ crc_buf'[Len(crc_buf) + 1] = Cur
      /\ FrameStart' \in Nat
      /\ \A k \in 1 .. Len(crc_buf') : crc_buf'[k] = stream'[FrameStart' + k]
  <2>1. pc' # "crc_low"
    BY <1>3
  <2> QED
    BY <1>1, <1>2, <1>4, <2>1, PushByte
<1>6. /\ wb \in 1..8 /\ WordBytes(fc) \in {4, 8} /\ wb <= WordBytes(fc)
      /\ word \in [1..8 -> Byte]
      /\ Cur \in Byte
      /\ Len(crc_buf) = 1 + wb
      /\ crc_buf[1] = Address /\ crc_buf[2] = fc /\ fc \in ValidFc
  <2>1. wb \in 1..8 /\ word \in [1..8 -> Byte] /\ Cur \in Byte
    BY <1>1, <1>2, CurIsByte DEF TypeOK
  <2>2. ~Counted /\ WordsRead = wb - 1
    BY <1>2 DEF Counted, WordsRead
  <2>3. /\ wb <= WordBytes(fc)
        /\ crc_buf[1] = Address /\ crc_buf[2] = fc /\ fc \in ValidFc
        /\ Len(crc_buf) = 2 + WordsRead
    BY <1>1, <1>2, <2>2 DEF Stored, Buffered
  <2>4. Len(crc_buf) = 1 + wb
    BY <2>1, <2>2, <2>3
  <2> QED
    BY <2>1, <2>3, <2>4, WordBytesType
<1>7. word' \in [1..8 -> Byte] /\ word'[wb] = Cur /\ \A k \in 1 .. wb - 1 : word'[k] = word[k]
  BY <1>2, <1>6
<1>8. WordsRead' = wb
  BY <1>2, <1>3, <1>6 DEF WordsRead
<1>9. TypeOK'
  <2>1. wb' \in 1..8 /\ pc' \in States
    BY <1>3, <1>6 DEF States
  <2>2. m_pdu' \in PduType
    BY <1>1, <1>2, <1>6, StoreWordsType
  <2> QED
    BY <1>1, <1>2, <1>4, <1>5, <1>7, <2>1, <2>2 DEF TypeOK
<1>10. ~Counted' /\ pc' \notin {"address", "function", "data", "crc_low"}
  BY <1>2, <1>3 DEF Counted
<1>11. Buffered'
  <2>1. crc_buf'[1] = Address /\ crc_buf'[2] = fc'
    BY <1>2, <1>5, <1>6
  <2>2. Len(crc_buf') = 2 + WordsRead'
    BY <1>5, <1>6, <1>8
  <2> QED
    BY <1>2, <1>5, <1>6, <1>10, <2>1, <2>2 DEF Buffered
<1>12. Stored'
  <2>1. ASSUME NEW k \in 1 .. WordsRead'
        PROVE  word'[k] = crc_buf'[2 + k]
    <3>1. CASE k = wb
      <4>1. 2 + k = Len(crc_buf) + 1
        BY <1>6, <3>1
      <4> QED
        BY <1>5, <1>7, <3>1, <4>1
    <3>2. CASE k # wb
      <4>1. k \in 1 .. wb - 1 /\ 2 + k \in 1 .. Len(crc_buf)
        BY <1>6, <1>8, <3>2
      <4>2. word[k] = crc_buf[2 + k]
        BY <1>1, <1>2, <4>1 DEF Stored, WordsRead
      <4> QED
        BY <1>5, <1>7, <4>1, <4>2
    <3> QED
      BY <3>1, <3>2
  <2>2. WordsRead' = 8 =>
          /\ m_pdu'.m_i16[3] = combine(word'[5], word'[6])
          /\ m_pdu'.m_i16[4] = combine(word'[7], word'[8])
    BY <1>1, <1>2, <1>6, <1>7, <1>8, StoreWordsType
  <2>3. pc' = "i16" => wb' <= WordBytes(fc')
    BY <1>2, <1>3, <1>6
  <2>4. pc' \in {"i8_1", "data"} => HasData(fc')
    BY <1>2, <1>3
  <2> QED
    BY <1>10, <2>1, <2>2, <2>3, <2>4 DEF Stored
<1>13. PdusAreFrames'
  BY <1>1, <1>2 DEF PdusAreFrames
<1> QED
  BY <1>4, <1>9, <1>11, <1>12, <1>13 DEF IInv

(* The byte count clears m_data: what was in it came from older frames.    *)
LEMMA ByteCountIInv == IInv /\ ByteCount => IInv'
<1> SUFFICES ASSUME IInv, ByteCount PROVE IInv'
  OBVIOUS
<1>1. TypeOK /\ Located /\ Buffered /\ Stored /\ PdusAreFrames
  BY DEF IInv
<1>2. /\ m_coro = "running" /\ pc = "i8_1"
      /\ crc_buf' = Append(crc_buf, Cur)
      /\ m_pdu' = [m_pdu EXCEPT !.m_data = << >>, !.m_i8_1 = Cur]
      /\ ix' = 0
      /\ pc' = IF Cur = 0 THEN "crc_hi" ELSE "data"
      /\ CheckBufEnd
      /\ UNCHANGED <<stream, lo, actual_size, wb, word, fc, crc_hi, pdus, nonses>>
  BY DEF ByteCount, At, line, input, calls
<1>3. /\ Located'
      /\ m_ix' = m_ix + 1 /\ m_ix' \in Nat
      /\ m_coro' \in {"running", "in_sink"}
  BY <1>1, <1>2, CheckBufEndLocated
<1>4. /\ crc_buf' \in Seq(Byte)
      /\ Len(crc_buf') = Len(crc_buf) + 1
      /\ \A k \in 1 .. Len(crc_buf) : crc_buf'[k] = crc_buf[k]
      /\ crc_buf'[Len(crc_buf) + 1] = Cur
      /\ FrameStart' \in Nat
      /\ \A k \in 1 .. Len(crc_buf') : crc_buf'[k] = stream'[FrameStart' + k]
  BY <1>1, <1>2, <1>3, PushByte
<1>5. /\ WordBytes(fc) \in {4, 8} /\ HasData(fc) /\ Cur \in Byte
      /\ WordsRead = WordBytes(fc) /\ WordsRead' = WordBytes(fc)
      /\ Len(crc_buf) = 2 + WordBytes(fc)
      /\ crc_buf[1] = Address /\ crc_buf[2] = fc /\ fc \in ValidFc
  BY <1>1, <1>2, WordBytesType, CurIsByte DEF Stored, Buffered, Counted, WordsRead
<1>6. /\ m_pdu' \in PduType
      /\ m_pdu'.m_data = << >> /\ m_pdu'.m_i8_1 = Cur
      /\ m_pdu'.m_i16 = m_pdu.m_i16
  <2>1. m_pdu \in PduType /\ << >> \in Seq(Byte)
    BY <1>1 DEF TypeOK
  <2> QED
    BY <1>2, <1>5, <2>1, MaybeByteType DEF PduType
<1>7. TypeOK'
  BY <1>1, <1>2, <1>3, <1>4, <1>6 DEF TypeOK, States
<1>8. Counted'
  BY <1>2, <1>5 DEF Counted
<1>9. Buffered'
  <2>1. crc_buf'[1] = Address /\ crc_buf'[2] = fc'
    BY <1>2, <1>4, <1>5
  <2>2. Len(crc_buf') = 3 + WordsRead' + Len(m_pdu'.m_data)
    BY <1>4, <1>5, <1>6
  <2> QED
    BY <1>2, <1>4, <1>5, <1>8, <2>1, <2>2 DEF Buffered
<1>10. Stored'
  <2>1. \A k \in 1 .. WordsRead' : word'[k] = crc_buf'[2 + k]
    BY <1>1, <1>2, <1>4, <1>5 DEF Stored
  <2>2. m_pdu'.m_i8_1 = crc_buf'[3 + WordsRead']
    BY <1>4, <1>5, <1>6
  <2>3. IF pc' = "data" THEN ix' = Len(m_pdu'.m_data) /\ ix' < m_pdu'.m_i8_1
                        ELSE Len(m_pdu'.m_data) = m_pdu'.m_i8_1
    <3>1. Len(m_pdu'.m_data) = 0 /\ Cur \in Nat
      BY <1>5, <1>6, ByteIsNat
    <3> QED
      BY <1>2, <1>6, <3>1
  <2>4. WordsRead' = 8 =>
          /\ m_pdu'.m_i16[3] = combine(word'[5], word'[6])
          /\ m_pdu'.m_i16[4] = combine(word'[7], word'[8])
    BY <1>1, <1>2, <1>5, <1>6 DEF Stored
  <2> QED
    BY <1>2, <1>5, <1>6, <2>1, <2>2, <2>3, <2>4 DEF Stored
<1>11. PdusAreFrames'
  BY <1>1, <1>2 DEF PdusAreFrames
<1> QED
  BY <1>3, <1>7, <1>9, <1>10, <1>11 DEF IInv

(* Data bytes follow the address, the function code, the words and the     *)
(* byte count.                                                             *)
LEMMA DataPlace ==
  ASSUME NEW w \in Nat, NEW n \in Nat, NEW k \in 1 .. n
  PROVE  3 + w + k \in 1 .. 3 + w + n
OBVIOUS

(* A byte of data is in m_data and crc_buf; the last one ends the data.    *)
LEMMA DataIInv == IInv /\ Data => IInv'
<1> SUFFICES ASSUME IInv, Data PROVE IInv'
  OBVIOUS
<1>1. TypeOK /\ Located /\ Buffered /\ Stored /\ PdusAreFrames
  BY DEF IInv
<1>2. /\ m_coro = "running" /\ pc = "data"
      /\ crc_buf' = Append(crc_buf, Cur)
      /\ m_pdu' = [m_pdu EXCEPT !.m_data = Append(@, Cur)]
      /\ ix' = ix + 1
      /\ pc' = IF ix + 1 < m_pdu.m_i8_1 THEN "data" ELSE "crc_hi"
      /\ CheckBufEnd
      /\ UNCHANGED <<stream, lo, actual_size, wb, word, fc, crc_hi, pdus, nonses>>
  BY DEF Data, At, line, input, calls
<1>3. /\ Located'
      /\ m_ix' = m_ix + 1 /\ m_ix' \in Nat
      /\ m_coro' \in {"running", "in_sink"}
  BY <1>1, <1>2, CheckBufEndLocated
<1>4. /\ crc_buf' \in Seq(Byte)
      /\ Len(crc_buf') = Len(crc_buf) + 1
      /\ \A k \in 1 .. Len(crc_buf) : crc_buf'[k] = crc_buf[k]
      /\ crc_buf'[Len(crc_buf) + 1] = Cur
      /\ FrameStart' \in Nat
      /\ \A k \in 1 .. Len(crc_buf') : crc_buf'[k] = stream'[FrameStart' + k]
  BY <1>1, <1>2, <1>3, PushByte
<1>5. /\ WordBytes(fc) \in {4, 8} /\ HasData(fc) /\ Cur \in Byte
      /\ WordsRead = WordBytes(fc) /\ WordsRead' = WordBytes(fc)
      /\ Counted
      /\ Len(crc_buf) = 3 + WordBytes(fc) + ix
      /\ crc_buf[1] = Address /\ crc_buf[2] = fc /\ fc \in ValidFc
  BY <1>1, <1>2, WordBytesType, CurIsByte DEF Stored, Buffered, Counted, WordsRead
<1>6. /\ ix \in Nat /\ ix = Len(m_pdu.m_data) /\ ix < m_pdu.m_i8_1
      /\ m_pdu.m_data \in Seq(Byte)
      /\ m_pdu.m_i8_1 = crc_buf[3 + WordBytes(fc)]
      /\ m_pdu.m_i8_1 \in Int
  <2>1. m_pdu.m_i8_1 = crc_buf[3 + WordBytes(fc)]
    BY <1>1, <1>5 DEF Stored
  <2>2. ix \in Nat /\ m_pdu.m_data \in Seq(Byte) /\ crc_buf \in Seq(Byte)
    BY <1>1 DEF TypeOK, PduType
  <2>3. crc_buf[3 + WordBytes(fc)] \in Byte
    BY <1>5, <2>2, ElementOfSeq
  <2>4. m_pdu.m_i8_1 \in Nat
    BY <2>1, <2>3, ByteIsNat
  <2>5. ix = Len(m_pdu.m_data) /\ ix < m_pdu.m_i8_1
    BY <1>1, <1>2, <1>5 DEF Stored
  <2> QED
    BY <2>1, <2>2, <2>4, <2>5
<1>7. /\ m_pdu' \in PduType
      /\ m_pdu'.m_data = Append(m_pdu.m_data, Cur)
      /\ m_pdu'.m_i8_1 = m_pdu.m_i8_1
      /\ m_pdu'.m_i16 = m_pdu.m_i16
  <2>1. Append(m_pdu.m_data, Cur) \in Seq(Byte)
    BY <1>5, <1>6, AppendProperties
  <2> QED
    BY <1>1, <1>2, <2>1 DEF TypeOK, PduType
<1>8. /\ Len(m_pdu'.m_data) = ix'
      /\ \A k \in 1 .. ix : m_pdu'.m_data[k] = m_pdu.m_data[k]
      /\ m_pdu'.m_data[ix + 1] = Cur
  <2>1. /\ Len(m_pdu'.m_data) = Len(m_pdu.m_data) + 1
        /\ \A k \in 1 .. Len(m_pdu.m_data) : m_pdu'.m_data[k] = m_pdu.m_data[k]
        /\ m_pdu'.m_data[Len(m_pdu.m_data) + 1] = Cur
    BY <1>5, <1>6, <1>7, AppendProperties
  <2> QED
    BY <1>2, <1>6, <2>1
<1>9. TypeOK'
  <2>1. ix' \in Nat /\ pc' \in States
    BY <1>2, <1>6 DEF States
  <2> QED
    BY <1>1, <1>2, <1>3, <1>4, <1>7, <2>1 DEF TypeOK
<1>10. Counted'
  BY <1>2, <1>5 DEF Counted
<1>11. Buffered'
  <2>1. crc_buf'[1] = Address /\ crc_buf'[2] = fc'
    BY <1>2, <1>4, <1>5, <1>6, SMTT(20)
  <2>2. Len(crc_buf') = 3 + WordsRead' + Len(m_pdu'.m_data)
    BY <1>2, <1>4, <1>5, <1>6, <1>8
  <2> QED
    BY <1>2, <1>4, <1>5, <1>10, <2>1, <2>2 DEF Buffered
<1>12. Stored'
  <2>1. ASSUME NEW k \in 1 .. WordsRead'
        PROVE  word'[k] = crc_buf'[2 + k]
    <3>1. 2 + k \in 1 .. Len(crc_buf)
      BY <1>5, <1>6
    <3>2. word[k] = crc_buf[2 + k]
      BY <1>1, <1>5 DEF Stored
    <3> QED
      BY <1>2, <1>4, <3>1, <3>2
  <2>2. m_pdu'.m_i8_1 = crc_buf'[3 + WordsRead']
    <3>1. 3 + WordBytes(fc) \in 1 .. Len(crc_buf)
      BY <1>5, <1>6
    <3>2. crc_buf'[3 + WordBytes(fc)] = crc_buf[3 + WordBytes(fc)]
      BY <1>4, <3>1
    <3> QED
      BY <1>5, <1>6, <1>7, <3>2
  <2>3. IF pc' = "data" THEN ix' = Len(m_pdu'.m_data) /\ ix' < m_pdu'.m_i8_1
                        ELSE Len(m_pdu'.m_data) = m_pdu'.m_i8_1
    BY <1>2, <1>6, <1>7, <1>8
  <2>4. WordsRead' = 8 =>
          /\ m_pdu'.m_i16[3] = combine(word'[5], word'[6])
          /\ m_pdu'.m_i16[4] = combine(word'[7], word'[8])
    BY <1>1, <1>2, <1>5, <1>7 DEF Stored
  <2>5. ASSUME NEW k \in 1 .. Len(m_pdu'.m_data)
        PROVE  m_pdu'.m_data[k] = crc_buf'[3 + WordsRead' + k]
    <3> k \in 1 .. ix + 1
      BY <1>2, <1>8
    <3>1. CASE k = ix + 1
      <4>1. 3 + WordsRead' + k = Len(crc_buf) + 1
        BY <1>5, <1>6, <3>1
      <4> QED
        BY <1>4, <1>8, <3>1, <4>1, Zenon
    <3>2. CASE k # ix + 1
      <4> k \in 1 .. ix
        BY <1>6, <3>2
      <4>1. 3 + WordsRead' + k \in 1 .. Len(crc_buf)
        <5>1. /\ WordsRead' \in Nat /\ ix \in Nat
              /\ Len(crc_buf) = 3 + WordsRead' + ix
          BY <1>5, <1>6
        <5>2. 3 + WordsRead' + k \in 1 .. 3 + WordsRead' + ix
          BY <5>1, DataPlace
        <5> QED
          BY <5>1, <5>2
      <4>2. \A j \in 1 .. Len(m_pdu.m_data) :
              m_pdu.m_data[j] = crc_buf[3 + WordsRead + j]
        BY <1>1, <1>5 DEF Stored
      <4>3. m_pdu.m_data[k] = crc_buf[3 + WordsRead' + k]
        BY <1>5, <1>6, <4>1, <4>2
      <4> QED
        BY <1>4, <1>8, <4>1, <4>3
    <3> QED
      BY <3>1, <3>2
  <2> QED
    BY <1>2, <1>5, <2>1, <2>2, <2>3, <2>4, <2>5 DEF Stored
<1>13. PdusAreFrames'
  BY <1>1, <1>2 DEF PdusAreFrames
<1> QED
  BY <1>3, <1>9, <1>11, <1>12, <1>13 DEF IInv

(* The first byte of the CRC is kept apart from the bytes it is about.     *)
LEMMA CrcHiIInv == IInv /\ CrcHi => IInv'
<1> SUFFICES ASSUME IInv, CrcHi PROVE IInv'
  OBVIOUS
<1>1. TypeOK /\ Located /\ Buffered /\ Stored /\ PdusAreFrames
  BY DEF IInv
<1>2. /\ m_coro = "running" /\ pc = "crc_hi" /\ pc' = "crc_low"
      /\ crc_hi' = Cur
      /\ CheckBufEnd
      /\ UNCHANGED <<stream, lo, actual_size, wb, word, ix, fc, crc_buf, m_pdu,
                     pdus, nonses>>
  BY DEF CrcHi, At, line, input, calls
<1>3. /\ Located'
      /\ m_ix' = m_ix + 1 /\ m_ix' \in Nat
      /\ m_coro' \in {"running", "in_sink"}
  BY <1>1, <1>2, CheckBufEndLocated
<1>4. lo \in Nat /\ m_ix \in Nat /\ Len(crc_buf) \in Nat /\ Cur \in Byte
  BY <1>1, <1>2, CurIsByte DEF TypeOK
<1>5. TypeOK'
  BY <1>1, <1>2, <1>3, <1>4 DEF TypeOK, States
<1>6. FrameStart' = FrameStart
  BY <1>2, <1>3, <1>4 DEF FrameStart
<1>7. crc_hi' = stream'[lo' + m_ix']
  <2>1. lo' + m_ix' = lo + m_ix + 1
    BY <1>2, <1>3, <1>4
  <2> QED
    BY <1>2, <2>1 DEF Cur
<1>8. (Counted' <=> Counted) /\ WordsRead' = WordsRead
  BY <1>2 DEF Counted, WordsRead
<1>9. Buffered'
  BY <1>1, <1>2, <1>6, <1>7, <1>8 DEF Buffered
<1>10. Stored'
  BY <1>1, <1>2, <1>8 DEF Stored
<1>11. PdusAreFrames'
  BY <1>1, <1>2 DEF PdusAreFrames
<1> QED
  BY <1>3, <1>5, <1>9, <1>10, <1>11 DEF IInv

(* Before the second CRC byte crc_buf holds the body of the frame, and the *)
(* locals repeat it.                                                       *)
LEMMA BodyInHand ==
  ASSUME TypeOK, Located, Buffered, Stored, m_coro = "running", pc = "crc_low"
  PROVE  /\ stream \in Seq(Byte) /\ FrameStart \in Nat /\ crc_buf \in Seq(Byte)
         /\ m_pdu.m_data \in Seq(Byte)
         /\ BodyRead(stream, FrameStart, crc_buf, fc, word,
                     m_pdu.m_i8_1, m_pdu.m_data)
         /\ FrameStart + Len(crc_buf) + 2 = lo + m_ix + 1
         /\ FrameStart + Len(crc_buf) + 2 <= Len(stream)
         /\ stream[FrameStart + Len(crc_buf) + 1] = crc_hi
         /\ stream[FrameStart + Len(crc_buf) + 2] = Cur
<1>1. /\ stream \in Seq(Byte) /\ FrameStart \in Nat /\ crc_buf \in Seq(Byte)
      /\ m_pdu.m_data \in Seq(Byte) /\ Len(crc_buf) \in Nat /\ Len(stream) \in Nat
      /\ lo \in Nat /\ m_ix \in Nat
  BY StreamsAssumption DEF TypeOK, Buffered, PduType
<1>2. WordsRead = WordBytes(fc) /\ (Counted <=> HasData(fc))
  BY DEF WordsRead, Counted
<1>3. BodyRead(stream, FrameStart, crc_buf, fc, word, m_pdu.m_i8_1, m_pdu.m_data)
  <2>1. /\ fc \in ValidFc
        /\ \A k \in 1 .. Len(crc_buf) : crc_buf[k] = stream[FrameStart + k]
        /\ crc_buf[1] = Address /\ crc_buf[2] = fc
        /\ ~HasData(fc) => Len(crc_buf) = 2 + WordBytes(fc)
        /\ HasData(fc) => Len(crc_buf) = 3 + WordBytes(fc) + Len(m_pdu.m_data)
    BY <1>2 DEF Buffered
  <2>2. /\ \A k \in 1 .. WordBytes(fc) : word[k] = crc_buf[2 + k]
        /\ HasData(fc) =>
             /\ m_pdu.m_i8_1 = crc_buf[3 + WordBytes(fc)]
             /\ m_pdu.m_i8_1 = Len(m_pdu.m_data)
             /\ \A k \in 1 .. Len(m_pdu.m_data) :
                  m_pdu.m_data[k] = crc_buf[3 + WordBytes(fc) + k]
    BY <1>2 DEF Stored
  <2> QED
    BY <2>1, <2>2 DEF BodyRead
<1>4. FrameStart = lo + m_ix - Len(crc_buf) - 1
  BY DEF FrameStart
<1>5. /\ FrameStart + Len(crc_buf) + 2 = lo + m_ix + 1
      /\ FrameStart + Len(crc_buf) + 1 = lo + m_ix
  BY <1>1, <1>4
<1>6. FrameStart + Len(crc_buf) + 2 <= Len(stream)
  BY <1>1, <1>5, CurIsByte
<1>7. crc_hi = stream[lo + m_ix] /\ Cur = stream[lo + m_ix + 1]
  BY DEF Buffered, Cur
<1> QED
  BY <1>1, <1>3, <1>5, <1>6, <1>7

(* With the second CRC byte in hand, a frame that starts at FrameStart can *)
(* only end there, and it is one exactly if the CRC agrees.                *)
LEMMA FrameInHand ==
  ASSUME TypeOK, Located, Buffered, Stored, m_coro = "running", pc = "crc_low",
         NEW q
  PROVE  IsFrame(stream, FrameStart, q) <=>
           q = lo + m_ix + 1 /\ CheckCrc(crc_buf, crc_hi, Cur)
<1>1. PICK n : n = Len(crc_buf)
  OBVIOUS
<1>2. IsFrame(stream, FrameStart, q) <=>
        /\ q = FrameStart + n + 2
        /\ CheckCrc(crc_buf, stream[FrameStart + n + 1], stream[FrameStart + n + 2])
  BY <1>1, BodyInHand, BodyIsFrame
<1> QED
  BY <1>1, <1>2, BodyInHand

(* The record handed to the callback says what the frame says.             *)
LEMMA FinishedRequest ==
  ASSUME TypeOK, Located, Buffered, Stored, m_coro = "running", pc = "crc_low"
  PROVE  /\ FinishedPdu \in PduType
         /\ Request(FinishedPdu) = FrameRequest(stream, FrameStart)
         /\ Request(FinishedPdu) \in RequestType
<1> DEFINE words == [m_pdu.m_i16 EXCEPT ![1] = combine(word[1], word[2]),
                                        ![2] = combine(word[3], word[4])]
<1>1. /\ fc \in ValidFc /\ word \in [1..8 -> Byte]
      /\ m_pdu \in PduType /\ m_pdu.m_i16 \in [1..4 -> MaybeWord16]
      /\ Len(stream) \in Nat /\ Len(crc_buf) \in Nat
  BY BodyInHand, SMTT(20) DEF TypeOK, Buffered, PduType
<1>2. FinishedPdu = [m_pdu EXCEPT !.m_i16 = words, !.m_fc = fc]
  BY <1>1 DEF FinishedPdu, PduType
<1>3. /\ words \in [1..4 -> MaybeWord16]
      /\ words[1] = combine(word[1], word[2])
      /\ words[2] = combine(word[3], word[4])
      /\ words[3] = m_pdu.m_i16[3]
      /\ words[4] = m_pdu.m_i16[4]
  <2>1. /\ combine(word[1], word[2]) \in MaybeWord16
        /\ combine(word[3], word[4]) \in MaybeWord16
    BY <1>1, CombineType
  <2> QED
    BY <1>1, <2>1, FirstTwoWords
<1> HIDE DEF words
<1>4. PICK pdu : pdu = FinishedPdu
  OBVIOUS
<1>5. /\ pdu \in PduType
      /\ pdu.m_fc = fc /\ pdu.m_i16 = words
      /\ pdu.m_i8_1 = m_pdu.m_i8_1 /\ pdu.m_data = m_pdu.m_data
  BY <1>1, <1>2, <1>3, <1>4 DEF PduType
<1>6. WordBytes(fc) = 8 => /\ m_pdu.m_i16[3] = combine(word[5], word[6])
                          /\ m_pdu.m_i16[4] = combine(word[7], word[8])
  BY DEF Stored, WordsRead
<1>7. BodyRead(stream, FrameStart, crc_buf, fc, word, pdu.m_i8_1, pdu.m_data)
  BY <1>5, BodyInHand
<1>8. FrameStart + Len(crc_buf) <= Len(stream)
  BY <1>1, BodyInHand
<1>9. /\ Request(pdu) = FrameRequest(stream, FrameStart)
      /\ Request(pdu) \in RequestType
  BY <1>1, <1>3, <1>5, <1>6, <1>7, <1>8, BodyInHand, FrameSays
<1> QED
  BY <1>4, <1>5, <1>9

(* A delivered request is a frame, and the next frame starts from nothing. *)
LEMMA PduOkIInv == IInv /\ PduOk => IInv'
<1> SUFFICES ASSUME IInv, PduOk PROVE IInv'
  OBVIOUS
<1> DEFINE entry == [from |-> FrameStart, to |-> lo + m_ix + 1,
                     request |-> Request(FinishedPdu)]
<1>1. TypeOK /\ Located /\ Buffered /\ Stored /\ PdusAreFrames
  BY DEF IInv
<1>2. /\ m_coro = "running" /\ pc = "crc_low" /\ pc' = "address"
      /\ CheckCrc(crc_buf, crc_hi, Cur)
      /\ m_pdu' = FinishedPdu /\ pdus' = Append(pdus, entry)
      /\ crc_buf' = << >>
      /\ CheckBufEnd
      /\ UNCHANGED <<stream, lo, actual_size, wb, word, ix, fc, crc_hi, nonses>>
  BY DEF PduOk, At, line, input, locals
<1>3. /\ Located'
      /\ m_ix' = m_ix + 1 /\ m_ix' \in Nat
      /\ m_coro' \in {"running", "in_sink"}
  BY <1>1, <1>2, CheckBufEndLocated
<1>4. IsFrame(stream, FrameStart, lo + m_ix + 1)
  BY <1>1, <1>2, FrameInHand
<1>5. /\ FinishedPdu \in PduType
      /\ Request(FinishedPdu) = FrameRequest(stream, FrameStart)
      /\ Request(FinishedPdu) \in RequestType
  BY <1>1, <1>2, FinishedRequest
<1>6. /\ entry \in [from : Nat, to : Nat, request : RequestType]
      /\ entry.from = FrameStart /\ entry.to = lo + m_ix + 1
      /\ entry.request = FrameRequest(stream, FrameStart)
  <2>1. FrameStart \in Nat /\ lo \in Nat /\ m_ix \in Nat
    BY <1>1 DEF Buffered, TypeOK
  <2>2. lo + m_ix + 1 \in Nat
    BY <2>1
  <2> QED
    BY <1>5, <2>1, <2>2
<1> HIDE DEF entry
<1>7. /\ pdus \in Seq([from : Nat, to : Nat, request : RequestType])
      /\ pdus' \in Seq([from : Nat, to : Nat, request : RequestType])
      /\ Len(pdus') = Len(pdus) + 1 /\ Len(pdus) \in Nat
      /\ \A i \in 1 .. Len(pdus) : pdus'[i] = pdus[i]
      /\ pdus'[Len(pdus) + 1] = entry
  BY <1>1, <1>2, <1>6, AppendProperties DEF TypeOK
<1>8. TypeOK'
  <2>1. pc' \in States /\ crc_buf' \in Seq(Byte)
    BY <1>2 DEF States
  <2> QED
    BY <1>1, <1>2, <1>3, <1>5, <1>7, <2>1 DEF TypeOK
<1>9. FrameStart' \in Nat
  BY <1>2, <1>3, <1>8, SMTT(20) DEF FrameStart, TypeOK
<1>10. Buffered'
  BY <1>2, <1>9 DEF Buffered, Counted
<1>11. Stored'
  BY <1>2 DEF Stored, Counted, WordsRead
<1>12. PdusAreFrames'
  <2>1. ASSUME NEW i \in 1 .. Len(pdus')
        PROVE  /\ IsFrame(stream, pdus'[i].from, pdus'[i].to)
               /\ pdus'[i].request = FrameRequest(stream, pdus'[i].from)
    <3>1. CASE i = Len(pdus) + 1
      BY <1>4, <1>6, <1>7, <3>1
    <3>2. CASE i # Len(pdus) + 1
      <4>1. i \in 1 .. Len(pdus)
        BY <1>7, <3>2
      <4> QED
        BY <1>1, <1>7, <4>1 DEF PdusAreFrames
    <3> QED
      BY <3>1, <3>2
  <2> QED
    BY <1>2, <2>1 DEF PdusAreFrames
<1> QED
  BY <1>3, <1>8, <1>10, <1>11, <1>12 DEF IInv

(* The invariant is about the variables of the scanner only.               *)
LEMMA StutterIInv == IInv /\ UNCHANGED vars => IInv'
BY DEF IInv, vars, TypeOK, Located, Buffered, Stored, PdusAreFrames,
       FrameStart, Counted, WordsRead

(* Every step of the specification preserves the invariant.                *)
LEMMA NextIInv == IInv /\ [Next]_vars => IInv'
BY ScanIInv, AddressSkipIInv, AddressMatchIInv, FunctionIInv, NonsenseIInv,
   WordIInv, ByteCountIInv, DataIInv, CrcHiIInv, PduOkIInv, StutterIInv
   DEF Next, ScanCo

(* What the coroutine remembers in every state repeats the bytes of the    *)
(* stream since the frame began: the inductive invariant of scan_co.       *)
THEOREM InvariantHolds == Spec => []IInv
BY InitIInv, NextIInv, PTL DEF Spec

-------------------------------------------------------------------------------
(* Every variable of the scanner keeps its type: in particular m_pdu never *)
(* hands out a field that was never written.                               *)
THEOREM TypeCorrect == Spec => []TypeOK
BY InvariantHolds, PTL DEF IInv

(* scan() never reads past the end of its portion.                         *)
THEOREM NoReadPastEndHolds == Spec => []NoReadPastEnd
<1>1. IInv => NoReadPastEnd
  BY DEF IInv, Located, NoReadPastEnd
<1> QED
  BY <1>1, InvariantHolds, PTL

(* Whatever the portions, m_pdu_cb gets requests that are on the line,     *)
(* byte for byte.                                                          *)
THEOREM PdusAreFramesHolds == Spec => []PdusAreFrames
BY InvariantHolds, PTL DEF IInv

-------------------------------------------------------------------------------
(* RtuScanner implements PduStream, hands requests out in order and loses  *)
(* none silently.  The argument is about Settled: each step leaves it      *)
(* alone, moves it over one byte that is not the address, gives up bytes   *)
(* in which no frame starts at Settled, or delivers the frame that does.   *)

Quiet == Settled' = Settled /\ UNCHANGED <<pdus, nonses>>

Skipped ==
  /\ Settled' = Settled + 1 /\ Settled + 1 <= Len(stream)
  /\ stream[Settled + 1] # Address
  /\ UNCHANGED <<pdus, nonses>>

GivenUp ==
  /\ Settled' \in Settled + 1 .. Len(stream)
  /\ \A q : ~IsFrame(stream, Settled, q)
  /\ nonses' = nonses \cup {[from |-> Settled, to |-> Settled']}
  /\ UNCHANGED pdus

Delivered ==
  /\ Settled' \in Settled + 1 .. Len(stream)
  /\ IsFrame(stream, Settled, Settled')
  /\ pdus' = Append(pdus, [from |-> Settled, to |-> Settled',
                           request |-> FrameRequest(stream, Settled)])
  /\ UNCHANGED nonses

(* Settled is a position of the stream.                                    *)
LEMMA SettledType == IInv => Settled \in Nat
BY DEF IInv, Settled, Buffered, TypeOK

(* Where the parts of the window are, as numbers.                          *)
LEMMA WindowType ==
  ASSUME IInv
  PROVE  /\ lo \in Nat /\ actual_size \in Nat /\ m_ix \in Nat
         /\ stream \in Seq(Byte) /\ Len(stream) \in Nat
         /\ crc_buf \in Seq(Byte) /\ Len(crc_buf) \in Nat
         /\ lo + actual_size <= Len(stream)
         /\ FrameStart \in Nat
<1>1. TypeOK /\ Located /\ Buffered
  BY DEF IInv
<1> QED
  BY <1>1, StreamsAssumption DEF TypeOK, Located, Buffered

(* Handing over a portion settles nothing.                                 *)
LEMMA ScanOutcome ==
  ASSUME IInv, Scan
  PROVE  Quiet /\ stream' = stream
<1>1. /\ m_coro = "in_sink" /\ m_coro' = "running"
      /\ lo' = lo + actual_size /\ m_ix' = 0
      /\ UNCHANGED <<stream, pc, crc_buf, pdus, nonses>>
  BY DEF Scan, line, locals, calls
<1>2. /\ lo \in Nat /\ actual_size \in Nat /\ m_ix \in Nat /\ Len(crc_buf) \in Nat
  BY WindowType
<1>3. /\ m_ix = actual_size \/ pc = "address"
      /\ pc = "address" => Len(crc_buf) = 0
  BY <1>1 DEF IInv, Located, Buffered
<1>4. Settled' = Settled
  <2>1. CASE pc = "address"
    BY <1>1, <1>2, <1>3, <2>1 DEF Settled, FrameStart
  <2>2. CASE pc # "address"
    BY <1>1, <1>2, <1>3, <2>2 DEF Settled, FrameStart
  <2> QED
    BY <2>1, <2>2
<1> QED
  BY <1>1, <1>4 DEF Quiet

(* A byte that is not the address is settled by itself.                    *)
LEMMA AddressSkipOutcome ==
  ASSUME IInv, AddressSkip
  PROVE  Skipped /\ stream' = stream
<1>1. /\ m_coro = "running" /\ pc = "address" /\ pc' = "address"
      /\ Cur # Address /\ crc_buf' = << >>
      /\ CheckBufEnd
      /\ UNCHANGED <<stream, lo, actual_size, pdus, nonses>>
  BY DEF AddressSkip, At, line, input, calls
<1>2. /\ lo \in Nat /\ actual_size \in Nat /\ m_ix \in Nat
      /\ lo + actual_size <= Len(stream) /\ Len(stream) \in Nat
      /\ m_ix < actual_size /\ Len(crc_buf) = 0
  BY <1>1, WindowType DEF IInv, Located, Buffered
<1>3. Settled = lo + m_ix
  BY <1>1, <1>2 DEF Settled, FrameStart
<1>4. Settled' = lo + m_ix + 1
  BY <1>1, <1>2 DEF Settled, FrameStart, CheckBufEnd
<1> QED
  BY <1>1, <1>2, <1>3, <1>4 DEF Skipped, Cur

(* A byte pushed onto crc_buf settles nothing.                             *)
LEMMA PushOutcome ==
  ASSUME IInv, m_coro = "running", CheckBufEnd,
         pc \notin {"crc_low"}, pc' \notin {"address", "crc_low"},
         crc_buf' = Append(crc_buf, Cur),
         UNCHANGED <<stream, lo, pdus, nonses>>
  PROVE  Quiet /\ stream' = stream
<1>1. TypeOK /\ Located /\ Buffered
  BY DEF IInv
<1>2. FrameStart' = FrameStart
  BY <1>1, PushByte DEF CheckBufEnd
<1>3. Settled = FrameStart /\ Settled' = FrameStart'
  BY DEF Settled
<1> QED
  BY <1>2, <1>3 DEF Quiet

(* So is the first byte of the CRC, which is kept elsewhere.               *)
LEMMA CrcHiOutcome ==
  ASSUME IInv, CrcHi
  PROVE  Quiet /\ stream' = stream
<1>1. /\ m_coro = "running" /\ pc = "crc_hi" /\ pc' = "crc_low"
      /\ m_ix' = m_ix + 1
      /\ UNCHANGED <<stream, lo, crc_buf, pdus, nonses>>
  BY DEF CrcHi, At, line, input, calls, CheckBufEnd
<1>2. lo \in Nat /\ m_ix \in Nat /\ Len(crc_buf) \in Nat
  BY WindowType
<1>3. Settled' = Settled
  BY <1>1, <1>2 DEF Settled, FrameStart
<1> QED
  BY <1>1, <1>3 DEF Quiet

(* What is given up as nonsense goes to the end of the portion.            *)
LEMMA NonsenseOutcome ==
  ASSUME IInv, m_coro = "running", pc \in {"function", "crc_low"},
         GotoInitialState, UNCHANGED <<stream, lo, actual_size>>,
         \A q : ~IsFrame(stream, FrameStart, q)
  PROVE  GivenUp
<1>1. /\ nonses' = nonses \cup {[from |-> FrameStart, to |-> lo + actual_size]}
      /\ pc' = "address" /\ m_coro' = "in_sink" /\ pdus' = pdus
  BY DEF GotoInitialState
<1>2. Settled = FrameStart /\ Settled' = lo + actual_size
  BY <1>1 DEF Settled
<1>3. FrameStart <= lo + m_ix /\ m_ix < actual_size
  <2>1. FrameStart = lo + m_ix - Len(crc_buf) - (IF pc = "crc_low" THEN 1 ELSE 0)
    BY DEF FrameStart
  <2>2. m_ix < actual_size
    BY DEF IInv, Located
  <2> QED
    BY <2>1, <2>2, WindowType
<1>4. lo + actual_size \in FrameStart + 1 .. Len(stream)
  BY <1>3, WindowType
<1> QED
  BY <1>1, <1>2, <1>4 DEF GivenUp

(* No frame starts with an invalid function code.                          *)
LEMMA InvalidFunctionOutcome ==
  ASSUME IInv, InvalidFunction
  PROVE  GivenUp /\ stream' = stream
<1>1. /\ m_coro = "running" /\ pc = "function" /\ Cur \notin ValidFc
      /\ GotoInitialState
      /\ UNCHANGED <<stream, lo, actual_size>>
  BY DEF InvalidFunction, At, line, input
<1>2. lo \in Nat /\ m_ix \in Nat /\ Len(crc_buf) = 1
  BY <1>1, WindowType DEF IInv, Buffered
<1>3. FrameStart + 2 = lo + m_ix + 1
  BY <1>1, <1>2 DEF FrameStart
<1>4. stream[FrameStart + 2] \notin ValidFc
  BY <1>1, <1>3 DEF Cur
<1>5. \A q : ~IsFrame(stream, FrameStart, q)
  BY <1>4 DEF IsFrame
<1> QED
  BY <1>1, <1>5, NonsenseOutcome

(* With a wrong CRC the bytes in hand are not a frame, and no other frame  *)
(* starts where they do.                                                   *)
LEMMA CrcWrongOutcome ==
  ASSUME IInv, CrcWrong
  PROVE  GivenUp /\ stream' = stream
<1>1. /\ m_coro = "running" /\ pc = "crc_low" /\ ~CheckCrc(crc_buf, crc_hi, Cur)
      /\ GotoInitialState
      /\ UNCHANGED <<stream, lo, actual_size>>
  BY DEF CrcWrong, At, line, input
<1>2. TypeOK /\ Located /\ Buffered /\ Stored
  BY DEF IInv
<1>3. \A q : ~IsFrame(stream, FrameStart, q)
  BY <1>1, <1>2, FrameInHand
<1> QED
  BY <1>1, <1>3, NonsenseOutcome

(* With the right CRC they are, and they are handed out.                   *)
LEMMA PduOkOutcome ==
  ASSUME IInv, PduOk
  PROVE  Delivered /\ stream' = stream
<1>1. /\ m_coro = "running" /\ pc = "crc_low" /\ pc' = "address"
      /\ CheckCrc(crc_buf, crc_hi, Cur)
      /\ pdus' = Append(pdus, [from |-> FrameStart, to |-> lo + m_ix + 1,
                               request |-> Request(FinishedPdu)])
      /\ crc_buf' = << >>
      /\ CheckBufEnd
      /\ UNCHANGED <<stream, lo, actual_size, nonses>>
  BY DEF PduOk, At, line, input
<1>2. TypeOK /\ Located /\ Buffered /\ Stored
  BY DEF IInv
<1>3. /\ lo \in Nat /\ actual_size \in Nat /\ m_ix \in Nat /\ Len(stream) \in Nat
      /\ lo + actual_size <= Len(stream) /\ m_ix < actual_size
      /\ Len(crc_buf) \in Nat
  BY <1>1, <1>2, WindowType DEF Located
<1>4. Settled = FrameStart
  BY <1>1 DEF Settled
<1>5. Settled' = lo + m_ix + 1
  <2>1. Len(crc_buf') = 0
    BY <1>1
  <2>2. FrameStart' = lo + m_ix + 1
    BY <1>1, <1>3, <2>1 DEF FrameStart, CheckBufEnd
  <2>3. m_coro' = "in_sink" => lo + actual_size = lo + m_ix + 1
    BY <1>1, <1>3 DEF CheckBufEnd
  <2> QED
    BY <1>1, <2>2, <2>3 DEF Settled
<1>6. IsFrame(stream, FrameStart, lo + m_ix + 1)
  BY <1>1, <1>2, FrameInHand
<1>7. Request(FinishedPdu) = FrameRequest(stream, FrameStart)
  BY <1>1, <1>2, FinishedRequest
<1>8. lo + m_ix + 1 \in FrameStart + 1 .. Len(stream)
  <2>1. FrameStart = lo + m_ix - Len(crc_buf) - 1
    BY <1>1 DEF FrameStart
  <2> QED
    BY <1>3, <2>1, WindowType
<1> QED
  BY <1>1, <1>4, <1>5, <1>6, <1>7, <1>8 DEF Delivered

(* Every step has one of the four outcomes.                                *)
LEMMA Outcomes ==
  ASSUME IInv, [Next]_vars
  PROVE  stream' = stream /\ (Quiet \/ Skipped \/ GivenUp \/ Delivered)
<1>1. CASE UNCHANGED vars
  BY <1>1 DEF vars, Quiet, Settled, FrameStart
<1>2. CASE Scan
  BY <1>2, ScanOutcome
<1>3. CASE AddressSkip
  BY <1>3, AddressSkipOutcome
<1>4. CASE AddressMatch \/ Function \/ Word \/ ByteCount \/ Data
  <2>1. /\ m_coro = "running" /\ pc # "crc_low" /\ CheckBufEnd
        /\ crc_buf' = Append(crc_buf, Cur)
        /\ UNCHANGED <<stream, lo, pdus, nonses>>
    BY <1>4 DEF AddressMatch, Function, Word, ByteCount, Data, At, line, input, calls
  <2>2. pc' \notin {"address", "crc_low"}
    BY <1>4 DEF AddressMatch, Function, Word, ByteCount, Data
  <2> QED
    BY <2>1, <2>2, PushOutcome
<1>5. CASE CrcHi
  BY <1>5, CrcHiOutcome
<1>6. CASE InvalidFunction
  BY <1>6, InvalidFunctionOutcome
<1>7. CASE CrcWrong
  BY <1>7, CrcWrongOutcome
<1>8. CASE PduOk
  BY <1>8, PduOkOutcome
<1> QED
  BY <1>1, <1>2, <1>3, <1>4, <1>5, <1>6, <1>7, <1>8 DEF Next, ScanCo

-------------------------------------------------------------------------------
(* A step of the scanner is a delivery or a discard of PduStream.          *)
LEMMA StepPromise ==
  ASSUME IInv, [Next]_vars
  PROVE  Promised!Next \/ UNCHANGED Promised!vars
<1>1. stream' = stream /\ (Quiet \/ Skipped \/ GivenUp \/ Delivered)
  BY Outcomes
<1>2. Settled \in Nat /\ Len(stream) \in Nat
  BY SettledType, WindowType
<1>3. CASE Quiet
  BY <1>1, <1>3 DEF Quiet, Promised!vars
<1>4. CASE Skipped
  <2>1. \A q : ~IsFrame(stream, Settled, q)
    BY <1>4 DEF Skipped, IsFrame
  <2>2. Settled' \in Settled + 1 .. Len(stream)
    BY <1>2, <1>4 DEF Skipped
  <2>3. Promised!Discard
    BY <1>1, <1>4, <2>1, <2>2 DEF Skipped, Promised!Discard
  <2> QED
    BY <2>3 DEF Promised!Next
<1>5. CASE GivenUp
  <2>1. Promised!Discard
    BY <1>1, <1>5 DEF GivenUp, Promised!Discard
  <2> QED
    BY <2>1 DEF Promised!Next
<1>6. CASE Delivered
  <2>1. Promised!Deliver
    BY <1>1, <1>6 DEF Delivered, Promised!Deliver
  <2> QED
    BY <2>1 DEF Promised!Next
<1> QED
  BY <1>1, <1>3, <1>4, <1>5, <1>6

(* The coroutine scanner implements PduStream: whatever the portions, the  *)
(* requests come out whole, in order, none twice, and no frame that starts *)
(* where everything before is settled is passed over.                      *)
THEOREM PromiseHolds == Spec => Promise
<1>1. Init => Promised!Init
  BY DEF Init, Promised!Init, Settled
<1>2. IInv /\ [Next]_vars => [Promised!Next]_(Promised!vars)
  BY StepPromise
<1> QED
  BY <1>1, <1>2, InvariantHolds, PTL DEF Spec, Promise, Promised!Spec

-------------------------------------------------------------------------------
(* The entries of pdus have positions.                                     *)
LEMMA PdusType ==
  ASSUME IInv
  PROVE  /\ pdus \in Seq([from : Nat, to : Nat, request : RequestType])
         /\ Len(pdus) \in Nat
         /\ \A i \in 1 .. Len(pdus) : pdus[i].from \in Nat /\ pdus[i].to \in Nat
<1>1. pdus \in Seq([from : Nat, to : Nat, request : RequestType])
  BY DEF IInv, TypeOK
<1>2. \A i \in 1 .. Len(pdus) : pdus[i] \in [from : Nat, to : Nat, request : RequestType]
  BY <1>1, ElementOfSeq
<1> QED
  BY <1>1, <1>2

(* What a delivery does to the list of requests.                           *)
LEMMA DeliveredList ==
  ASSUME IInv, Delivered
  PROVE  /\ Len(pdus') = Len(pdus) + 1
         /\ \A i \in 1 .. Len(pdus) : pdus'[i] = pdus[i]
         /\ pdus'[Len(pdus) + 1].from = Settled
         /\ pdus'[Len(pdus) + 1].to = Settled'
<1> DEFINE entry == [from |-> Settled, to |-> Settled',
                     request |-> FrameRequest(stream, Settled)]
<1>1. pdus' = Append(pdus, entry)
  BY DEF Delivered
<1>2. pdus \in Seq(Range(pdus) \cup {entry}) /\ entry \in Range(pdus) \cup {entry}
  <2>1. pdus \in Seq(Range(pdus))
    BY PdusType, SeqOfRange
  <2> QED
    BY <2>1, SeqMonotonic
<1>3. entry.from = Settled /\ entry.to = Settled'
  OBVIOUS
<1> HIDE DEF entry
<1>4. /\ Len(pdus') = Len(pdus) + 1
      /\ \A i \in 1 .. Len(pdus) : pdus'[i] = pdus[i]
      /\ pdus'[Len(pdus) + 1] = entry
  BY <1>1, <1>2, AppendProperties
<1> QED
  BY <1>3, <1>4

(* Requests in the order of the stream, the last one settled: as an        *)
(* invariant of the specification with IInv.                               *)
LEMMA StepInOrder ==
  ASSUME IInv, PdusInOrder, [Next]_vars
  PROVE  PdusInOrder'
<1>1. Quiet \/ Skipped \/ GivenUp \/ Delivered
  BY Outcomes
<1>2. /\ Settled \in Nat /\ Len(stream) \in Nat /\ Len(pdus) \in Nat
      /\ \A i \in 1 .. Len(pdus) : pdus[i].from \in Nat /\ pdus[i].to \in Nat
  BY SettledType, WindowType, PdusType
<1>3. \A i \in 1 .. Len(pdus) : pdus[i].to <= Settled
  BY DEF PdusInOrder
<1>4. CASE Quiet
  BY <1>4 DEF Quiet, PdusInOrder
<1>5. CASE Skipped \/ GivenUp
  <2>1. pdus' = pdus /\ Settled' \in Nat /\ Settled <= Settled'
    BY <1>2, <1>5 DEF Skipped, GivenUp
  <2>2. \A i \in 1 .. Len(pdus) : pdus[i].to <= Settled'
    BY <1>2, <1>3, <2>1
  <2> QED
    BY <2>1, <2>2 DEF PdusInOrder
<1>6. CASE Delivered
  <2>1. /\ Len(pdus') = Len(pdus) + 1
        /\ \A i \in 1 .. Len(pdus) : pdus'[i] = pdus[i]
        /\ pdus'[Len(pdus) + 1].from = Settled
        /\ pdus'[Len(pdus) + 1].to = Settled'
    BY <1>6, DeliveredList
  <2>2. Settled' \in Nat /\ Settled <= Settled'
    BY <1>2, <1>6 DEF Delivered
  <2>3. ASSUME NEW i \in 1 .. Len(pdus'), NEW j \in 1 .. Len(pdus'), i < j
        PROVE  pdus'[i].to <= pdus'[j].from
    <3>1. i \in 1 .. Len(pdus) /\ pdus'[i] = pdus[i]
      BY <1>2, <2>1, <2>3
    <3>2. CASE j = Len(pdus) + 1
      BY <1>3, <2>1, <3>1, <3>2
    <3>3. CASE j # Len(pdus) + 1
      <4>1. j \in 1 .. Len(pdus) /\ pdus'[j] = pdus[j]
        BY <1>2, <2>1, <3>3
      <4> QED
        BY <2>3, <3>1, <4>1 DEF PdusInOrder
    <3> QED
      BY <3>2, <3>3
  <2>4. ASSUME NEW i \in 1 .. Len(pdus')
        PROVE  pdus'[i].to <= Settled'
    <3>1. CASE i = Len(pdus) + 1
      BY <2>1, <2>2, <3>1
    <3>2. CASE i # Len(pdus) + 1
      <4>1. i \in 1 .. Len(pdus) /\ pdus'[i] = pdus[i]
        BY <1>2, <2>1, <3>2
      <4> QED
        BY <1>2, <1>3, <2>2, <4>1
    <3> QED
      BY <3>1, <3>2
  <2> QED
    BY <2>3, <2>4 DEF PdusInOrder
<1> QED
  BY <1>1, <1>4, <1>5, <1>6

(* Requests are handed out in the order of the stream, and no byte of the  *)
(* line is used for two of them.                                           *)
THEOREM PdusInOrderHolds == Spec => []PdusInOrder
<1>1. Init => PdusInOrder
  BY DEF Init, PdusInOrder
<1>2. IInv /\ PdusInOrder /\ [Next]_vars => PdusInOrder'
  BY StepInOrder
<1> QED
  BY <1>1, <1>2, InvariantHolds, PTL DEF Spec

-------------------------------------------------------------------------------
(* A request that starts at p was handed out or given up aloud.            *)
Accounted(p) ==
  (\E q \in 1 .. Len(stream) : IsFrame(stream, p, q)) =>
    \/ \E i \in 1 .. Len(pdus) : Covers(pdus[i], p)
    \/ \E n \in nonses : Covers(n, p)

(* Once accounted for, a place stays so.                                   *)
LEMMA StaysAccounted ==
  ASSUME IInv, [Next]_vars, NEW p, Accounted(p)
  PROVE  Accounted(p)'
<1>1. stream' = stream /\ (Quiet \/ Skipped \/ GivenUp \/ Delivered)
  BY Outcomes
<1>2. nonses \subseteq nonses'
  BY <1>1 DEF Quiet, Skipped, GivenUp, Delivered
<1>3. \A i \in 1 .. Len(pdus) : i \in 1 .. Len(pdus') /\ pdus'[i] = pdus[i]
  <2>1. CASE Delivered
    BY <2>1, DeliveredList, PdusType
  <2>2. CASE ~Delivered
    BY <1>1, <2>2 DEF Quiet, Skipped, GivenUp
  <2> QED
    BY <2>1, <2>2
<1> QED
  BY <1>1, <1>2, <1>3 DEF Accounted, Covers

(* What a step settles is accounted for.                                   *)
LEMMA NewlyAccounted ==
  ASSUME IInv, [Next]_vars, NEW p \in Nat, Settled <= p, p < Settled'
  PROVE  Accounted(p)'
<1>1. stream' = stream /\ (Quiet \/ Skipped \/ GivenUp \/ Delivered)
  BY Outcomes
<1>2. Settled \in Nat /\ Len(stream) \in Nat /\ Len(pdus) \in Nat
  BY SettledType, WindowType, PdusType
<1>3. CASE Quiet
  BY <1>2, <1>3 DEF Quiet
<1>4. CASE Skipped
  <2>1. p = Settled
    BY <1>2, <1>4 DEF Skipped
  <2>2. \A q : ~IsFrame(stream, p, q)
    BY <1>4, <2>1 DEF Skipped, IsFrame
  <2> QED
    BY <1>1, <2>2 DEF Accounted
<1>5. CASE GivenUp
  <2> DEFINE gap == [from |-> Settled, to |-> Settled']
  <2>1. gap \in nonses'
    BY <1>5 DEF GivenUp
  <2>2. Covers(gap, p)
    BY DEF Covers
  <2> QED
    BY <2>1, <2>2 DEF Accounted, Covers
<1>6. CASE Delivered
  <2>1. /\ Len(pdus') = Len(pdus) + 1
        /\ pdus'[Len(pdus) + 1].from = Settled
        /\ pdus'[Len(pdus) + 1].to = Settled'
    BY <1>6, DeliveredList
  <2>2. Len(pdus) + 1 \in 1 .. Len(pdus')
    BY <1>2, <2>1
  <2> QED
    BY <2>1, <2>2 DEF Accounted, Covers
<1> QED
  BY <1>1, <1>3, <1>4, <1>5, <1>6

(* What lies below an integer bound.                                       *)
LEMMA BelowBound ==
  ASSUME NEW x \in Int, NEW p \in 0 .. x - 1
  PROVE  p \in Nat /\ p < x
OBVIOUS

(* Every step keeps the settled part of the stream accounted for.          *)
LEMMA StepNoSilentLoss ==
  ASSUME IInv, NoSilentLoss, [Next]_vars
  PROVE  NoSilentLoss'
<1> SUFFICES ASSUME NEW p \in 0 .. Settled' - 1
             PROVE  Accounted(p)'
  BY DEF NoSilentLoss, Accounted
<1>1. Settled \in Nat /\ Settled' \in Int
  BY Outcomes, SettledType DEF Quiet, Skipped, GivenUp, Delivered
<1>2. p \in Nat /\ p < Settled'
  BY <1>1, BelowBound
<1>3. CASE p < Settled
  <2>1. p \in 0 .. Settled - 1
    BY <1>1, <1>2, <1>3
  <2>2. Accounted(p)
    BY <2>1 DEF NoSilentLoss, Accounted
  <2> QED
    BY <2>2, StaysAccounted
<1>4. CASE ~(p < Settled)
  <2>1. Settled <= p
    BY <1>1, <1>2, <1>4
  <2> QED
    BY <1>2, <2>1, NewlyAccounted
<1> QED
  BY <1>3, <1>4

(* No request is lost silently: wherever one starts in the settled part of *)
(* the stream, it was handed out, or it starts inside one that was, or     *)
(* inside bytes that the nonsense callback reported.                       *)
THEOREM NoSilentLossHolds == Spec => []NoSilentLoss
<1>1. Init => NoSilentLoss
  BY DEF Init, NoSilentLoss, Settled
<1>2. IInv /\ NoSilentLoss /\ [Next]_vars => NoSilentLoss'
  BY StepNoSilentLoss
<1> QED
  BY <1>1, <1>2, InvariantHolds, PTL DEF Spec

-------------------------------------------------------------------------------
(* The same results as the byte-at-a-time reader of RtuFrames, whatever    *)
(* the portions, until the first nonsense.  What the reader is given at    *)
(* the end of a portion is the stream so far, so the argument is about     *)
(* every beginning of the stream that holds what is settled.               *)

Before(n) == SubSeq(stream, 1, n)

(* Whatever the reader hands out of one of them has been handed out, or it *)
(* is handed out from Settled on.                                          *)
InReaderStep ==
  \A n \in Settled .. Len(stream) :
    Reader(Before(n))[0] = pdus \o Reader(Before(n))[Settled]

(* What is known of an unfinished frame once its function code is there.   *)
LEMMA BodyBegun ==
  ASSUME IInv, pc # "address", NEW s, NEW m, NEW w,
         w = WordBytes(fc),
         m = Len(crc_buf) + (IF pc = "crc_low" THEN 1 ELSE 0),
         m >= 2,
         \A k \in 1 .. Len(crc_buf) : s[FrameStart + k] = crc_buf[k]
  PROVE  /\ s[FrameStart + 1] = Address
         /\ s[FrameStart + 2] \in ValidFc
         /\ w = WordBytes(s[FrameStart + 2])
         /\ ~HasData(s[FrameStart + 2]) => m < w + 4
         /\ HasData(s[FrameStart + 2]) /\ m >= w + 3 =>
              m_pdu.m_i8_1 = s[FrameStart + 3 + w] /\ m < w + 5 + m_pdu.m_i8_1
<1>1. PICK st, b, d, c, n : /\ st = FrameStart /\ b = Len(crc_buf)
                            /\ d = Len(m_pdu.m_data) /\ c = m_pdu.m_i8_1
                            /\ n = WordsRead
  OBVIOUS
<1>2. TypeOK /\ Located /\ Buffered /\ Stored
  BY DEF IInv
<1>3. w \in {4, 8} /\ st \in Nat /\ b \in Nat /\ d \in Nat
  BY <1>1, <1>2, WindowType, WordBytesType DEF TypeOK, PduType
<1>4. pc \in {"i16", "i8_1", "data", "crc_hi", "crc_low"}
  <2>1. pc # "function"
    <3> SUFFICES ASSUME pc = "function" PROVE FALSE
      OBVIOUS
    <3>1. Len(crc_buf) = 1
      BY <1>2 DEF Buffered
    <3>2. m = Len(crc_buf)
      BY <1>1, <1>3
    <3> QED
      BY <3>1, <3>2
  <2> QED
    BY <1>2, <2>1 DEF TypeOK, States
<1>5. n \in Nat /\ (pc = "i16" => n < w) /\ (pc # "i16" => n = w)
  <2>1. wb \in 1 .. 8
    BY <1>2 DEF TypeOK
  <2> QED
    BY <1>1, <1>2, <1>3, <1>4, <2>1 DEF WordsRead, Stored
<1>6. (~Counted => b = 2 + n) /\ (Counted => b = 3 + n + d)
  BY <1>1, <1>2, <1>4 DEF Buffered
<1>7. 1 \in 1 .. b /\ 2 \in 1 .. b
  BY <1>3, <1>5, <1>6
<1>8. s[st + 1] = Address /\ s[st + 2] = fc /\ fc \in ValidFc
  BY <1>1, <1>2, <1>4, <1>7 DEF Buffered
<1>9. pc \in {"i8_1", "data"} => HasData(fc)
  BY <1>2 DEF Stored
<1>10. CASE Counted
  <2>1. HasData(fc) /\ n = w /\ b = 3 + w + d
    BY <1>5, <1>6, <1>9, <1>10 DEF Counted
  <2>2. 3 + w \in 1 .. b /\ st + (3 + w) = st + 3 + w
    BY <1>3, <2>1
  <2>3. c = crc_buf[3 + w]
    BY <1>1, <1>2, <1>10, <2>1 DEF Stored
  <2>4. c = s[st + 3 + w]
    BY <1>1, <2>2, <2>3
  <2>5. c \in Nat
    <3>1. c \in Byte
      BY <1>1, <1>2, <2>2, <2>3 DEF TypeOK
    <3> QED
      BY <3>1, ByteIsNat
  <2>6. m < w + 5 + c
    <3>1. CASE pc = "data"
      <4>1. d < c
        BY <1>1, <1>2, <1>10, <3>1 DEF Stored
      <4>2. m = b
        BY <1>1, <1>3, <3>1
      <4> QED
        BY <1>3, <2>1, <2>5, <4>1, <4>2, SMTT(20)
    <3>2. CASE pc # "data"
      <4>1. d = c
        BY <1>1, <1>2, <1>10, <3>2 DEF Stored
      <4>2. m = b \/ m = b + 1
        BY <1>1, <1>3
      <4> QED
        BY <1>3, <2>1, <2>5, <4>1, <4>2
    <3> QED
      BY <3>1, <3>2
  <2> QED
    BY <1>1, <1>8, <2>1, <2>4, <2>6
<1>11. CASE ~Counted
  <2>1. CASE pc \in {"i16", "i8_1"}
    <3>1. m = b /\ b < w + 3
      BY <1>1, <1>3, <1>5, <1>6, <1>11, <2>1
    <3> QED
      BY <1>1, <1>3, <1>8, <3>1
  <2>2. CASE pc \in {"crc_hi", "crc_low"}
    <3>1. ~HasData(fc) /\ b = 2 + w
      BY <1>5, <1>6, <1>11, <2>2 DEF Counted
    <3>2. m < w + 4
      BY <1>1, <1>3, <3>1
    <3> QED
      BY <1>1, <1>8, <3>1, <3>2
  <2> QED
    BY <1>4, <1>11, <2>1, <2>2 DEF Counted
<1> QED
  BY <1>10, <1>11

(* Between two portions the reader has nothing to hand out from there on.  *)
LEMMA NothingLeft ==
  ASSUME IInv, m_coro = "in_sink"
  PROVE  /\ lo + actual_size \in Settled .. Len(stream)
         /\ Reader(Before(lo + actual_size))[Settled] = << >>
<1> DEFINE n == lo + actual_size
<1>1. PICK s : s = Before(n)
  OBVIOUS
<1>2. /\ n \in Nat /\ n \in 0 .. Len(stream) /\ stream \in Seq(Byte)
      /\ lo \in Nat /\ m_ix \in Nat /\ actual_size \in Nat
      /\ FrameStart \in Nat /\ Len(crc_buf) \in Nat
  BY WindowType
<1>3. /\ s \in Seq(Byte) /\ Len(s) = n
      /\ \A k \in 1 .. n : s[k] = stream[k]
  BY <1>1, <1>2, PrefixBytes DEF Before
<1>4. CASE pc = "address"
  <2>1. Settled = n
    BY <1>4 DEF Settled
  <2>2. Hungry(s, n)
    BY <1>2, <1>3 DEF Hungry
  <2>3. n \in 0 .. Len(s)
    BY <1>2, <1>3
  <2>4. Reader(s)[n] = << >>
    BY <1>3, <2>2, <2>3, ReaderWaits
  <2> QED
    BY <1>1, <1>2, <2>1, <2>4
<1>5. CASE pc # "address"
  <2>1. Settled = FrameStart /\ m_ix = actual_size
    BY <1>5 DEF Settled, IInv, Located
  <2>2. PICK m : m = n - FrameStart
    OBVIOUS
  <2>3. m = Len(crc_buf) + (IF pc = "crc_low" THEN 1 ELSE 0)
    BY <1>2, <2>1, <2>2 DEF FrameStart
  <2>4. m \in Nat /\ Len(s) = FrameStart + m
    BY <1>2, <1>3, <2>2, <2>3, SMTT(20)
  <2>5. PICK w : w = WordBytes(fc)
    OBVIOUS
  <2>6. w \in {4, 8}
    BY <2>5, WordBytesType
  <2>7. \A k \in 1 .. Len(crc_buf) : s[FrameStart + k] = crc_buf[k]
    <3> TAKE k \in 1 .. Len(crc_buf)
    <3>1. FrameStart + k \in 1 .. n
      BY <1>2, <2>2, <2>3
    <3> QED
      BY <1>3, <3>1 DEF IInv, Buffered
  <2>8. ASSUME m >= 2
        PROVE  /\ s[FrameStart + 1] = Address
               /\ s[FrameStart + 2] \in ValidFc
               /\ w = WordBytes(s[FrameStart + 2])
               /\ ~HasData(s[FrameStart + 2]) => m < w + 4
               /\ HasData(s[FrameStart + 2]) /\ m >= w + 3 =>
                    m_pdu.m_i8_1 = s[FrameStart + 3 + w] /\ m < w + 5 + m_pdu.m_i8_1
    BY <1>5, <2>3, <2>5, <2>7, <2>8, BodyBegun, ZenonT(30)
  <2>9. Hungry(s, FrameStart)
    BY <1>2, <1>3, <2>4, <2>8, Unfinished
  <2>10. FrameStart \in 0 .. Len(s) /\ n \in FrameStart .. Len(stream)
    BY <1>2, <1>3, <2>4
  <2>11. Reader(s)[FrameStart] = << >>
    BY <1>3, <2>9, <2>10, ReaderWaits
  <2> QED
    BY <1>1, <2>1, <2>10, <2>11
<1> QED
  BY <1>4, <1>5

(* Each outcome of a step but nonsense is what the reader does at Settled. *)
LEMMA StepInReaderStep ==
  ASSUME IInv, InReaderStep, Quiet \/ Skipped \/ Delivered, stream' = stream
  PROVE  InReaderStep'
<1>1. stream \in Seq(Byte) /\ Settled \in Nat /\ Len(stream) \in Nat
  BY SettledType, WindowType
<1>2. \A n : Before(n)' = Before(n)
  BY DEF Before
<1>3. CASE Quiet
  BY <1>2, <1>3 DEF Quiet, InReaderStep
<1>4. CASE Skipped
  <2> SUFFICES ASSUME NEW n \in Settled + 1 .. Len(stream)
               PROVE  Reader(Before(n))[0] = pdus \o Reader(Before(n))[Settled + 1]
    BY <1>2, <1>4 DEF Skipped, InReaderStep
  <2>1. PICK s : s = Before(n)
    OBVIOUS
  <2>2. n \in 0 .. Len(stream) /\ n \in Settled .. Len(stream) /\ Settled + 1 \in 1 .. n
    BY <1>1
  <2>3. s \in Seq(Byte) /\ Len(s) = n /\ s[Settled + 1] = stream[Settled + 1]
    BY <1>1, <2>1, <2>2, PrefixBytes DEF Before
  <2>4. Reader(s)[Settled] = Reader(s)[Settled + 1]
    BY <1>1, <1>4, <2>2, <2>3, ReaderSkips DEF Skipped
  <2> QED
    BY <2>1, <2>2, <2>4 DEF InReaderStep
<1>5. CASE Delivered
  <2>1. PICK q \in Settled + 1 .. Len(stream) :
          /\ Settled' = q /\ IsFrame(stream, Settled, q)
          /\ pdus' = Append(pdus, [from |-> Settled, to |-> q,
                                   request |-> FrameRequest(stream, Settled)])
    BY <1>5 DEF Delivered
  <2>2. PICK x : x = [from |-> Settled, to |-> q,
                      request |-> FrameRequest(stream, Settled)]
    OBVIOUS
  <2>3. ASSUME NEW n \in q .. Len(stream)
        PROVE  Reader(Before(n))[0] = Append(pdus, x) \o Reader(Before(n))[q]
    <3>1. PICK s : s = Before(n)
      OBVIOUS
    <3>2. /\ n \in 0 .. Len(stream) /\ n \in Settled .. Len(stream)
          /\ q \in Nat /\ q \in 0 .. n
      BY <1>1
    <3>3. s \in Seq(Byte) /\ Len(s) = n
      BY <1>1, <3>1, <3>2, PrefixBytes DEF Before
    <3>4. IsFrame(s, Settled, q) /\ FrameRequest(s, Settled) = FrameRequest(stream, Settled)
      BY <1>1, <2>1, <3>1, <3>2, FrameInPrefix DEF Before
    <3>5. PICK r : r = Reader(s)[q]
      OBVIOUS
    <3>6. Reader(s)[Settled] = << x >> \o r
      BY <1>1, <2>2, <3>2, <3>3, <3>4, <3>5, ReaderTakes
    <3>7. r \in Seq(Items(s))
      BY <3>2, <3>3, <3>5, ReaderUnfolds
    <3>8. pdus \in Seq([from : Nat, to : Nat, request : RequestType])
      BY DEF IInv, TypeOK
    <3>9. Append(pdus, x) \o r = pdus \o (<< x >> \o r)
      BY <3>7, <3>8, AppendThenMore
    <3>10. Reader(s)[0] = pdus \o Reader(s)[Settled]
      BY <3>1, <3>2 DEF InReaderStep
    <3> QED
      BY <3>1, <3>5, <3>6, <3>9, <3>10
  <2> QED
    BY <1>2, <2>1, <2>2, <2>3 DEF InReaderStep
<1> QED
  BY <1>3, <1>4, <1>5

(* Up to the first nonsense, the calls of m_pdu_cb when a scan() returns   *)
(* are those of the byte-at-a-time reader, however the stream was cut.     *)
THEOREM ReadsByteWiseHolds == Spec => []ReadsByteWise
<1> DEFINE Inv == nonses = {} => InReaderStep
<1>1. Init => Inv
  <2> SUFFICES ASSUME Init PROVE InReaderStep
    OBVIOUS
  <2>1. pdus = << >> /\ Settled = 0 /\ stream \in Seq(Byte)
    BY StreamsAssumption DEF Init, Settled
  <2> SUFFICES ASSUME NEW n \in 0 .. Len(stream)
               PROVE  Reader(Before(n))[0] = << >> \o Reader(Before(n))[0]
    BY <2>1 DEF InReaderStep
  <2>2. Before(n) \in Seq(Byte) /\ 0 \in 0 .. Len(Before(n))
    BY <2>1, PrefixBytes DEF Before
  <2>3. Reader(Before(n))[0] \in Seq(Items(Before(n)))
    BY <2>2, ReaderUnfolds
  <2> QED
    BY <2>3, ConcatEmptySeq
<1>2. IInv /\ Inv /\ [Next]_vars => Inv'
  <2> SUFFICES ASSUME IInv, Inv, [Next]_vars, nonses' = {} PROVE InReaderStep'
    OBVIOUS
  <2>1. stream' = stream /\ (Quiet \/ Skipped \/ GivenUp \/ Delivered)
    BY Outcomes
  <2>2. ~GivenUp /\ nonses = {}
    BY <2>1 DEF Quiet, Skipped, GivenUp, Delivered
  <2> QED
    BY <2>1, <2>2, StepInReaderStep
<1>3. IInv /\ Inv => ReadsByteWise
  <2> SUFFICES ASSUME IInv, InReaderStep, m_coro = "in_sink"
               PROVE  pdus = ByteWise(Before(lo + actual_size))
    BY DEF ReadsByteWise, Before
  <2>1. Reader(Before(lo + actual_size))[0] = pdus \o << >>
    BY NothingLeft DEF InReaderStep
  <2>2. pdus \o << >> = pdus
    BY ConcatEmptySeq DEF IInv, TypeOK
  <2> QED
    BY <2>1, <2>2 DEF ByteWise
<1> QED
  BY <1>1, <1>2, <1>3, InvariantHolds, PTL DEF Spec
===============================================================================
