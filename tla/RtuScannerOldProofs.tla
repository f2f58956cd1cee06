------------------------- MODULE RtuScannerOldProofs --------------------------
(***************************************************************************)
(* Theorems about RtuScannerOld for every address, CRC function and set of *)
(* streams.  The types hold on every stream; what the scanner hands out is *)
(* shown to be on the line as long as it has not met a byte count of 0,    *)
(* after which it is out of step with the frame.                           *)
(***************************************************************************)
EXTENDS RtuScannerOld, RtuFramesProofs

PduEntry == [from : Nat, to : Nat, request : RequestType]

(* What the state objects are called with is a byte of the stream.         *)
LEMMA CurIsByte ==
  ASSUME TypeOK, pos < Len(stream)
  PROVE  /\ Cur \in Byte
         /\ stream \in Seq(Byte) /\ Len(stream) \in Nat /\ pos \in Nat
         /\ pos + 1 \in 0 .. Len(stream)
         /\ Len(m_crc_buffer) \in Nat
<1>1. stream \in Seq(Byte) /\ Len(stream) \in Nat /\ pos \in Nat
  BY StreamsAssumption DEF TypeOK
<1>2. pos + 1 \in 1 .. Len(stream)
  BY <1>1
<1>3. Cur \in Byte
  BY <1>1, <1>2, ElementOfSeq DEF Cur
<1> QED
  BY <1>1, <1>2, <1>3 DEF TypeOK

(* A byte put in the buffer, outside of the CRC.                           *)
LEMMA PutInBufferKeeps ==
  ASSUME TypeOK, Positioned, pos < Len(stream), pos' = pos + 1, stream' = stream,
         PutInBuffer,
         m_p_current_state # "checksum_2", m_p_current_state' # "checksum_2"
  PROVE  /\ m_crc_buffer' \in Seq(Byte)
         /\ Len(m_crc_buffer') = Len(m_crc_buffer) + 1
         /\ \A k \in 1 .. Len(m_crc_buffer) : m_crc_buffer'[k] = m_crc_buffer[k]
         /\ m_crc_buffer'[Len(m_crc_buffer) + 1] = Cur
         /\ FrameStart' = FrameStart
<1>1. /\ Cur \in Byte /\ pos \in Nat /\ Len(m_crc_buffer) \in Nat
      /\ m_crc_buffer \in Seq(Byte)
  BY CurIsByte DEF TypeOK
<1>2. /\ m_crc_buffer' \in Seq(Byte)
      /\ Len(m_crc_buffer') = Len(m_crc_buffer) + 1
      /\ \A k \in 1 .. Len(m_crc_buffer) : m_crc_buffer'[k] = m_crc_buffer[k]
      /\ m_crc_buffer'[Len(m_crc_buffer) + 1] = Cur
  BY <1>1, AppendProperties DEF PutInBuffer
<1>3. FrameStart' = FrameStart
  BY <1>1, <1>2 DEF FrameStart
<1> QED
  BY <1>2, <1>3

(* Such a byte keeps the buffer a part of the stream.                      *)
LEMMA PutInBufferRepeats ==
  ASSUME TypeOK, Positioned, Buffered, pos < Len(stream), pos' = pos + 1,
         stream' = stream, PutInBuffer,
         m_p_current_state # "checksum_2", m_p_current_state' # "checksum_2"
  PROVE  \A k \in 1 .. Len(m_crc_buffer') :
           m_crc_buffer'[k] = stream'[FrameStart' + k]
<1>1. /\ Len(m_crc_buffer') = Len(m_crc_buffer) + 1
      /\ \A k \in 1 .. Len(m_crc_buffer) : m_crc_buffer'[k] = m_crc_buffer[k]
      /\ m_crc_buffer'[Len(m_crc_buffer) + 1] = Cur
      /\ FrameStart' = FrameStart
  BY PutInBufferKeeps
<1>2. pos \in Nat /\ Len(m_crc_buffer) \in Nat
  BY CurIsByte
<1>3. FrameStart + (Len(m_crc_buffer) + 1) = pos + 1
  BY <1>2 DEF FrameStart
<1> TAKE k \in 1 .. Len(m_crc_buffer')
<1>4. CASE k = Len(m_crc_buffer) + 1
  BY <1>1, <1>3, <1>4 DEF Cur
<1>5. CASE k # Len(m_crc_buffer) + 1
  <2>1. k \in 1 .. Len(m_crc_buffer)
    BY <1>1, <1>2, <1>5
  <2> QED
    BY <1>1, <2>1 DEF Buffered
<1> QED
  BY <1>4, <1>5

(* What has been met stays met.                                            *)
LEMMA EmptyStays ==
  ASSUME NEW s, NEW m \in Nat, NEW n \in Nat, m <= n, EmptyIn(s, m)
  PROVE  EmptyIn(s, n)
<1>1. PICK p \in 0 .. m :
        /\ p + 2 <= m
        /\ s[p + 1] = Address /\ HasData(s[p + 2])
        /\ p + 3 + WordBytes(s[p + 2]) <= m
        /\ s[p + 3 + WordBytes(s[p + 2])] = 0
  BY DEF EmptyIn
<1>2. WordBytes(s[p + 2]) \in {4, 8}
  BY WordBytesType
<1>3. p \in 0 .. n /\ p + 2 <= n /\ p + 3 + WordBytes(s[p + 2]) <= n
  BY <1>1, <1>2
<1> QED
  BY <1>1, <1>3 DEF EmptyIn

(* The scanner starts with nothing read and nothing remembered.            *)
LEMMA InitIInv == Init => IInv
<1> SUFFICES ASSUME Init PROVE IInv
  OBVIOUS
<1>1. stream \in Seq(Byte) /\ Len(stream) \in Nat
  BY StreamsAssumption DEF Init
<1>2. m_pdu \in PduType
  BY InitPduType DEF Init
<1>3. TypeOK
  BY <1>1, <1>2 DEF Init, TypeOK, States, Byte
<1>4. Positioned
  BY DEF Init, Positioned, FrameStart
<1>5. Sound
  BY DEF Init, Sound, Buffered, Stored, PdusAreFrames, Counted, WordsRead
<1> QED
  BY <1>3, <1>4, <1>5 DEF IInv

(* One step: the types and positions always, the rest while no byte count  *)
(* of 0 has been met.                                                      *)
Step == TypeOK' /\ Positioned' /\ (Sound /\ ~MetEmpty' => Sound')

(* A byte that is not the address.                                         *)
LEMMA InitSkipStep ==
  ASSUME TypeOK, Positioned, InitSkip
  PROVE  Step
<1>1. /\ m_p_current_state = "init" /\ pos < Len(stream) /\ pos' = pos + 1
      /\ UNCHANGED <<stream, m_p_current_state, wb, m_index, word, m_fc, m_i8_1,
                     m_crc1, m_crc_buffer, m_pdu, pdus, nonses>>
  BY DEF InitSkip, OnChar, values, calls
<1>2. pos \in Nat /\ pos + 1 \in 0 .. Len(stream) /\ m_crc_buffer = << >>
  BY <1>1, CurIsByte DEF Positioned
<1>3. TypeOK'
  BY <1>1, <1>2 DEF TypeOK
<1>4. Positioned'
  BY <1>1, <1>2 DEF Positioned, FrameStart
<1>5. Sound => Sound'
  BY <1>1, <1>2 DEF Sound, Buffered, Stored, PdusAreFrames, Counted, WordsRead
<1> QED
  BY <1>3, <1>4, <1>5 DEF Step

(* The address.                                                            *)
LEMMA InitMatchStep ==
  ASSUME TypeOK, Positioned, InitMatch
  PROVE  Step
<1>1. /\ m_p_current_state = "init" /\ pos < Len(stream) /\ pos' = pos + 1
      /\ Cur = Address /\ PutInBuffer /\ m_p_current_state' = "fc"
      /\ UNCHANGED <<stream, wb, m_index, word, m_fc, m_i8_1,
                     m_crc1, m_pdu, pdus, nonses>>
  BY DEF InitMatch, OnChar, values, calls
<1>2. pos \in Nat /\ pos + 1 \in 0 .. Len(stream) /\ Len(m_crc_buffer) = 0
  BY <1>1, CurIsByte DEF Positioned
<1>3. /\ m_crc_buffer' \in Seq(Byte) /\ Len(m_crc_buffer') = 1
      /\ m_crc_buffer'[1] = Address
      /\ FrameStart' = FrameStart
  BY <1>1, <1>2, PutInBufferKeeps
<1>4. TypeOK'
  BY <1>1, <1>2, <1>3 DEF TypeOK, States
<1>5. Positioned'
  BY <1>1, <1>3 DEF Positioned
<1>6. ASSUME Sound PROVE Sound'
  <2>1. \A k \in 1 .. Len(m_crc_buffer') : m_crc_buffer'[k] = stream'[FrameStart' + k]
    BY <1>1, <1>6, PutInBufferRepeats DEF Sound
  <2>2. Buffered'
    BY <1>1, <1>3, <2>1 DEF Buffered, Counted
  <2>3. Stored'
    BY <1>1, <1>6 DEF Sound, Stored, Counted, WordsRead
  <2> QED
    BY <1>1, <1>6, <2>2, <2>3 DEF Sound, PdusAreFrames
<1> QED
  BY <1>4, <1>5, <1>6 DEF Step

(* A function code the scanner knows.                                      *)
LEMMA FunctionStep ==
  ASSUME TypeOK, Positioned, Function
  PROVE  Step
<1>1. /\ m_p_current_state = "fc" /\ pos < Len(stream) /\ pos' = pos + 1
      /\ Cur \in ValidFc /\ m_fc' = Cur /\ PutInBuffer
      /\ m_p_current_state' = "i16" /\ wb' = 1
      /\ UNCHANGED <<stream, m_index, word, m_i8_1, m_crc1, m_pdu, pdus, nonses>>
  BY DEF Function, OnChar, calls
<1>2. pos + 1 \in 0 .. Len(stream)
  BY <1>1, CurIsByte
<1>3. /\ m_crc_buffer' \in Seq(Byte)
      /\ Len(m_crc_buffer') = Len(m_crc_buffer) + 1
      /\ \A k \in 1 .. Len(m_crc_buffer) : m_crc_buffer'[k] = m_crc_buffer[k]
      /\ m_crc_buffer'[Len(m_crc_buffer) + 1] = Cur
      /\ FrameStart' = FrameStart
  BY <1>1, PutInBufferKeeps
<1>4. TypeOK'
  BY <1>1, <1>2, <1>3 DEF TypeOK, States
<1>5. Positioned'
  BY <1>1, <1>3 DEF Positioned
<1>6. ASSUME Sound PROVE Sound'
  <2>1. \A k \in 1 .. Len(m_crc_buffer') : m_crc_buffer'[k] = stream'[FrameStart' + k]
    BY <1>1, <1>6, PutInBufferRepeats DEF Sound
  <2>2. Len(m_crc_buffer) = 1 /\ m_crc_buffer[1] = Address
    BY <1>1, <1>6 DEF Sound, Buffered
  <2>3. /\ Len(m_crc_buffer') = 2 /\ m_crc_buffer'[1] = Address
        /\ m_crc_buffer'[2] = m_fc' /\ WordsRead' = 0 /\ ~Counted'
    BY <1>1, <1>3, <2>2 DEF WordsRead, Counted
  <2>4. Buffered'
    BY <1>1, <2>1, <2>3 DEF Buffered
  <2>5. wb' <= WordBytes(m_fc')
    BY <1>1, WordBytesType
  <2>6. Stored'
    BY <1>1, <1>6, <2>3, <2>5 DEF Sound, Stored
  <2> QED
    BY <1>1, <1>6, <2>4, <2>6 DEF Sound, PdusAreFrames
<1> QED
  BY <1>4, <1>5, <1>6 DEF Step

(* Back to init_state with an empty buffer.                                *)
LEMMA ToInitStep ==
  ASSUME TypeOK, Positioned, pos < Len(stream), pos' = pos + 1,
         SwitchState("init"),
         UNCHANGED <<stream, wb, m_index, word, m_fc, m_i8_1, m_crc1>>,
         m_pdu' \in PduType, pdus' \in Seq(PduEntry),
         nonses' \in SUBSET [from : Nat, to : Nat],
         m_p_current_state # "data",
         Sound => PdusAreFrames'
  PROVE  Step
<1>1. m_p_current_state' = "init" /\ m_crc_buffer' = << >>
  BY DEF SwitchState
<1>2. pos \in Nat /\ pos + 1 \in 0 .. Len(stream)
  BY CurIsByte
<1>3. TypeOK'
  BY <1>1, <1>2 DEF TypeOK, States, PduEntry
<1>4. Positioned'
  BY <1>1, <1>2 DEF Positioned, FrameStart
<1>5. Sound => Sound'
  BY <1>1 DEF Sound, Buffered, Stored, Counted, WordsRead
<1> QED
  BY <1>3, <1>4, <1>5 DEF Step

(* A function code it does not know.                                       *)
LEMMA InvalidFunctionStep ==
  ASSUME TypeOK, Positioned, InvalidFunction
  PROVE  Step
<1>1. /\ m_p_current_state = "fc" /\ pos < Len(stream) /\ pos' = pos + 1
      /\ SwitchState("init")
      /\ UNCHANGED <<stream, wb, m_index, word, m_fc, m_i8_1, m_crc1, m_pdu,
                     pdus, nonses>>
  BY DEF InvalidFunction, OnChar, values, calls
<1>2. Sound => PdusAreFrames'
  BY <1>1 DEF Sound, PdusAreFrames
<1>3. /\ m_pdu' \in PduType /\ pdus' \in Seq(PduEntry)
      /\ nonses' \in SUBSET [from : Nat, to : Nat]
  BY <1>1 DEF TypeOK, PduEntry
<1> QED
  BY <1>1, <1>2, <1>3, ToInitStep

(* A frame whose CRC is wrong.                                             *)
LEMMA CrcWrongStep ==
  ASSUME TypeOK, Positioned, CrcWrong
  PROVE  Step
<1>1. /\ m_p_current_state = "checksum_2" /\ pos < Len(stream) /\ pos' = pos + 1
      /\ nonses' = nonses \cup {[from |-> FrameStart, to |-> pos + 1]}
      /\ SwitchState("init")
      /\ UNCHANGED <<stream, wb, m_index, word, m_fc, m_i8_1, m_crc1, m_pdu, pdus>>
  BY DEF CrcWrong, OnChar, values
<1>2. Sound => PdusAreFrames'
  BY <1>1 DEF Sound, PdusAreFrames
<1>3. [from |-> FrameStart, to |-> pos + 1] \in [from : Nat, to : Nat]
  BY <1>1, CurIsByte DEF Positioned
<1>4. /\ m_pdu' \in PduType /\ pdus' \in Seq(PduEntry)
      /\ nonses' \in SUBSET [from : Nat, to : Nat]
  BY <1>1, <1>3 DEF TypeOK, PduEntry
<1> QED
  BY <1>1, <1>2, <1>4, ToInitStep

(* A byte of a data word.                                                  *)
LEMMA WordStep ==
  ASSUME TypeOK, Positioned, Word
  PROVE  Step
<1> DEFINE n == Len(m_crc_buffer)
           w == WordBytes(m_fc)
<1>1. /\ m_p_current_state = "i16" /\ pos < Len(stream) /\ pos' = pos + 1
      /\ word' = [word EXCEPT ![wb] = Cur] /\ PutInBuffer
      /\ IF wb < w
           THEN wb' = wb + 1 /\ m_p_current_state' = "i16"
           ELSE /\ m_p_current_state' = IF HasData(m_fc) THEN "i8_1" ELSE "checksum_1"
                /\ wb' = wb
      /\ UNCHANGED <<stream, m_index, m_fc, m_i8_1, m_crc1, m_pdu, pdus, nonses>>
  BY DEF Word, OnChar, calls
<1>2. /\ pos + 1 \in 0 .. Len(stream) /\ Cur \in Byte /\ n \in Nat
      /\ w \in {4, 8} /\ wb \in 1..8 /\ word \in [1..8 -> Byte]
  BY <1>1, CurIsByte, WordBytesType DEF TypeOK
<1>3. /\ m_crc_buffer' \in Seq(Byte)
      /\ Len(m_crc_buffer') = n + 1
      /\ \A k \in 1 .. n : m_crc_buffer'[k] = m_crc_buffer[k]
      /\ m_crc_buffer'[n + 1] = Cur
      /\ FrameStart' = FrameStart
  BY <1>1, PutInBufferKeeps
<1>4. word' \in [1..8 -> Byte] /\ wb' \in 1..8
  BY <1>1, <1>2
<1>5. m_p_current_state' \in {"i16", "i8_1", "checksum_1"}
  BY <1>1
<1>6. TypeOK'
  BY <1>1, <1>2, <1>3, <1>4, <1>5 DEF TypeOK, States
<1>7. Positioned'
  BY <1>1, <1>3, <1>5 DEF Positioned
<1>8. ASSUME Sound PROVE Sound'
  <2>1. \A k \in 1 .. Len(m_crc_buffer') : m_crc_buffer'[k] = stream'[FrameStart' + k]
    BY <1>1, <1>5, <1>8, PutInBufferRepeats DEF Sound
  <2>2. /\ n = 2 + (wb - 1) /\ wb <= w
        /\ m_crc_buffer[1] = Address /\ m_fc = m_crc_buffer[2]
        /\ \A k \in 1 .. wb - 1 : word[k] = m_crc_buffer[2 + k]
        /\ m_index = 0
    BY <1>1, <1>8 DEF Sound, Buffered, Stored, Counted, WordsRead
  <2>3. WordsRead' = wb /\ ~Counted'
    <3>1. CASE wb < w
      BY <1>1, <1>2, <3>1 DEF WordsRead, Counted
    <3>2. CASE ~(wb < w)
      <4>1. wb = w
        BY <1>2, <2>2, <3>2
      <4> QED
        BY <1>1, <3>2, <4>1 DEF WordsRead, Counted
    <3> QED
      BY <3>1, <3>2
  <2> HIDE DEF n, w
  <2>4. Len(m_crc_buffer') = 2 + WordsRead'
    BY <1>2, <1>3, <2>2, <2>3, SMTT(20)
  <2>5. m_crc_buffer'[1] = Address /\ m_fc' = m_crc_buffer'[2]
    <3>1. 1 \in 1 .. n /\ 2 \in 1 .. n
      BY <1>2, <2>2
    <3> QED
      BY <1>1, <1>3, <2>2, <3>1
  <2>6. Buffered'
    BY <1>5, <2>1, <2>3, <2>4, <2>5 DEF Buffered
  <2>7. \A k \in 1 .. WordsRead' : word'[k] = m_crc_buffer'[2 + k]
    <3> TAKE k \in 1 .. WordsRead'
    <3>1. k \in 1 .. wb
      BY <2>3
    <3>2. CASE k = wb
      <4>1. 2 + k = n + 1
        BY <1>2, <2>2, <3>2
      <4> QED
        BY <1>1, <1>2, <1>3, <3>2, <4>1
    <3>3. CASE k # wb
      <4>1. k \in 1 .. wb - 1 /\ 2 + k \in 1 .. n /\ k \in 1..8
        BY <1>2, <2>2, <3>1, <3>3
      <4>2. word'[k] = word[k]
        BY <1>1, <1>2, <3>3, <4>1
      <4> QED
        BY <1>3, <2>2, <4>1, <4>2
    <3> QED
      BY <3>2, <3>3
  <2>8. m_p_current_state' = "i16" => wb' <= WordBytes(m_fc')
    BY <1>1, <1>2 DEF w
  <2>9. m_p_current_state' \in {"i8_1", "data"} => HasData(m_fc')
    BY <1>1
  <2>10. Stored'
    BY <1>1, <1>5, <2>2, <2>3, <2>7, <2>8, <2>9 DEF Stored
  <2> QED
    BY <1>1, <1>8, <2>6, <2>10 DEF Sound, PdusAreFrames
<1> QED
  BY <1>6, <1>7, <1>8 DEF Step

(* The byte count.                                                         *)
LEMMA ByteCountStep ==
  ASSUME TypeOK, Positioned, ByteCount
  PROVE  Step
<1> DEFINE n == Len(m_crc_buffer)
           w == WordBytes(m_fc)
<1>1. /\ m_p_current_state = "i8_1" /\ pos < Len(stream) /\ pos' = pos + 1
      /\ m_i8_1' = Cur /\ PutInBuffer
      /\ m_pdu' = [m_pdu EXCEPT !.m_data = << >>]
      /\ m_p_current_state' = "data"
      /\ UNCHANGED <<stream, wb, m_index, word, m_fc, m_crc1, pdus, nonses>>
  BY DEF ByteCount, OnChar, calls
<1>2. /\ pos + 1 \in 0 .. Len(stream) /\ Cur \in Byte /\ n \in Nat /\ pos \in Nat
      /\ w \in {4, 8}
  BY <1>1, CurIsByte, WordBytesType
<1>3. /\ m_crc_buffer' \in Seq(Byte)
      /\ Len(m_crc_buffer') = n + 1
      /\ \A k \in 1 .. n : m_crc_buffer'[k] = m_crc_buffer[k]
      /\ m_crc_buffer'[n + 1] = Cur
      /\ FrameStart' = FrameStart
  BY <1>1, PutInBufferKeeps
<1>4. m_pdu' \in PduType /\ m_pdu'.m_data = << >>
  <2>1. m_pdu \in PduType
    BY DEF TypeOK
  <2>2. << >> \in Seq(Byte)
    OBVIOUS
  <2> QED
    BY <1>1, <2>1, <2>2 DEF PduType
<1>5. TypeOK'
  BY <1>1, <1>2, <1>3, <1>4 DEF TypeOK, States
<1>6. Positioned'
  BY <1>1, <1>3 DEF Positioned
<1>7. ASSUME Sound, ~MetEmpty' PROVE Sound'
  <2>1. \A k \in 1 .. Len(m_crc_buffer') : m_crc_buffer'[k] = stream'[FrameStart' + k]
    BY <1>1, <1>7, PutInBufferRepeats DEF Sound
  <2>2. /\ n = 2 + w /\ HasData(m_fc)
        /\ m_crc_buffer[1] = Address /\ m_fc = m_crc_buffer[2]
        /\ \A k \in 1 .. w : word[k] = m_crc_buffer[2 + k]
        /\ \A k \in 1 .. n : m_crc_buffer[k] = stream[FrameStart + k]
        /\ m_index = 0
    BY <1>1, <1>7 DEF Sound, Buffered, Stored, Counted, WordsRead
  <2>3. WordsRead' = w /\ Counted'
    BY <1>1 DEF WordsRead, Counted
  <2>4. FrameStart \in Nat /\ FrameStart + n = pos
    BY <1>1, <1>2 DEF FrameStart, Positioned
  <2>5. Cur # 0
    <3> SUFFICES ASSUME Cur = 0 PROVE FALSE
      OBVIOUS
    <3> DEFINE p == FrameStart
    <3>1. 1 \in 1 .. n /\ 2 \in 1 .. n
      BY <1>2, <2>2
    <3>2. stream[p + 1] = Address /\ stream[p + 2] = m_fc
      BY <2>2, <3>1
    <3>3. p \in 0 .. pos + 1 /\ p + 2 <= pos + 1 /\ p + 3 + w = pos + 1
      BY <1>2, <2>2, <2>4, SMTT(20)
    <3> HIDE DEF p
    <3>4. EmptyIn(stream, pos + 1)
      BY <1>2, <2>2, <3>2, <3>3 DEF EmptyIn, Cur
    <3> QED
      BY <1>1, <1>7, <3>4 DEF MetEmpty
  <2> HIDE DEF n, w
  <2>6. m_crc_buffer'[1] = Address /\ m_fc' = m_crc_buffer'[2]
    <3>1. 1 \in 1 .. n /\ 2 \in 1 .. n
      BY <1>2, <2>2
    <3> QED
      BY <1>1, <1>3, <2>2, <3>1
  <2>7. Len(m_pdu'.m_data) = 0
    BY <1>4
  <2>8. Len(m_crc_buffer') = 3 + WordsRead' + Len(m_pdu'.m_data)
    BY <1>2, <1>3, <2>2, <2>3, <2>7
  <2>9. Buffered'
    BY <1>1, <2>1, <2>3, <2>6, <2>8 DEF Buffered
  <2>10. \A k \in 1 .. WordsRead' : word'[k] = m_crc_buffer'[2 + k]
    <3> TAKE k \in 1 .. WordsRead'
    <3>1. k \in 1 .. w /\ 2 + k \in 1 .. n
      BY <1>2, <2>2, <2>3
    <3> QED
      BY <1>1, <1>3, <2>2, <3>1
  <2>11. m_i8_1' = m_crc_buffer'[3 + WordsRead']
    <3>1. 3 + WordsRead' = n + 1
      BY <1>2, <2>2, <2>3
    <3> QED
      BY <1>1, <1>3, <3>1
  <2>12. m_index' = Len(m_pdu'.m_data) /\ m_index' < m_i8_1'
    <3>1. Cur \in Nat
      BY <1>2, ByteIsNat
    <3>2. 0 < Cur
      BY <2>5, <3>1
    <3> QED
      BY <1>1, <2>2, <2>7, <3>2
  <2>13. HasData(m_fc')
    BY <1>1, <2>2
  <2>14. \A k \in 1 .. Len(m_pdu'.m_data) :
            m_pdu'.m_data[k] = m_crc_buffer'[3 + WordsRead' + k]
    BY <2>7
  <2>15. Stored'
    BY <1>1, <2>10, <2>11, <2>12, <2>13, <2>14 DEF Stored
  <2> QED
    BY <1>1, <1>7, <2>9, <2>15 DEF Sound, PdusAreFrames
<1> QED
  BY <1>5, <1>6, <1>7 DEF Step

(* A data byte, or what data_state takes for one.                          *)
LEMMA DataStep ==
  ASSUME TypeOK, Positioned, Data
  PROVE  Step
<1> DEFINE n == Len(m_crc_buffer)
           w == WordBytes(m_fc)
           d == Len(m_pdu.m_data)
           more == m_index < m_i8_1
           next == IF more THEN m_index + 1 ELSE m_index
<1>1. /\ m_p_current_state = "data" /\ pos < Len(stream) /\ pos' = pos + 1
      /\ IF more THEN PutInBuffer /\ m_pdu' = [m_pdu EXCEPT !.m_data = Append(@, Cur)]
                 ELSE m_crc_buffer' = m_crc_buffer /\ m_pdu' = m_pdu
      /\ IF next = m_i8_1
           THEN m_index' = 0 /\ m_p_current_state' = "checksum_1"
           ELSE m_index' = next /\ m_p_current_state' = "data"
      /\ UNCHANGED <<stream, wb, word, m_fc, m_i8_1, m_crc1, pdus, nonses>>
  BY DEF Data, OnChar, calls
<1>2. /\ pos + 1 \in 0 .. Len(stream) /\ Cur \in Byte /\ n \in Nat /\ pos \in Nat
      /\ w \in {4, 8} /\ m_index \in Byte /\ m_i8_1 \in Byte
      /\ m_pdu \in PduType /\ m_pdu.m_data \in Seq(Byte) /\ d \in Nat
      /\ m_crc_buffer \in Seq(Byte)
  BY <1>1, CurIsByte, WordBytesType, SMTT(20) DEF TypeOK, PduType
<1>3. m_p_current_state' \in {"data", "checksum_1"}
  BY <1>1
<1>4. ASSUME more
      PROVE  /\ m_crc_buffer' \in Seq(Byte)
             /\ Len(m_crc_buffer') = n + 1
             /\ \A k \in 1 .. n : m_crc_buffer'[k] = m_crc_buffer[k]
             /\ m_crc_buffer'[n + 1] = Cur
             /\ FrameStart' = FrameStart
  BY <1>1, <1>3, <1>4, PutInBufferKeeps
<1>5. ASSUME more
      PROVE  /\ m_pdu' \in PduType
             /\ Len(m_pdu'.m_data) = d + 1
             /\ \A k \in 1 .. d : m_pdu'.m_data[k] = m_pdu.m_data[k]
             /\ m_pdu'.m_data[d + 1] = Cur
  <2>1. m_pdu' = [m_pdu EXCEPT !.m_data = Append(m_pdu.m_data, Cur)]
    BY <1>1, <1>5
  <2>2. m_pdu'.m_data = Append(m_pdu.m_data, Cur)
    BY <1>2, <2>1 DEF PduType
  <2>3. /\ Append(m_pdu.m_data, Cur) \in Seq(Byte)
        /\ Len(Append(m_pdu.m_data, Cur)) = d + 1
        /\ \A k \in 1 .. d : Append(m_pdu.m_data, Cur)[k] = m_pdu.m_data[k]
        /\ Append(m_pdu.m_data, Cur)[d + 1] = Cur
    BY <1>2, AppendProperties
  <2>4. m_pdu' \in PduType
    BY <1>2, <2>1, <2>3 DEF PduType
  <2> QED
    BY <2>2, <2>3, <2>4
<1>6. next \in Byte
  <2>1. more => m_index + 1 \in Byte
    BY <1>2, SMTT(20) DEF Byte
  <2> HIDE DEF more
  <2> QED
    BY <1>2, <2>1
<1>7. m_index' \in Byte
  <2>1. 0 \in Byte
    BY DEF Byte
  <2> HIDE DEF next, more
  <2> QED
    BY <1>1, <1>6, <2>1
<1>8. m_crc_buffer' \in Seq(Byte) /\ m_pdu' \in PduType
  BY <1>1, <1>2, <1>4, <1>5
<1>9. TypeOK'
  BY <1>1, <1>2, <1>3, <1>7, <1>8 DEF TypeOK, States
<1>10. Positioned'
  <2>1. CASE more
    BY <1>1, <1>3, <1>4, <2>1 DEF Positioned
  <2>2. CASE ~more
    <3>1. FrameStart' = pos + 1 - n /\ FrameStart = pos - n /\ FrameStart \in Nat
      BY <1>1, <1>2, <1>3, <2>2 DEF FrameStart, Positioned
    <3>2. FrameStart' \in Nat
      BY <1>2, <3>1
    <3> QED
      BY <1>1, <1>3, <3>2 DEF Positioned
  <2> QED
    BY <2>1, <2>2
<1>11. ASSUME Sound PROVE Sound'
  <2>1. /\ n = 3 + w + d /\ HasData(m_fc)
        /\ m_crc_buffer[1] = Address /\ m_fc = m_crc_buffer[2]
        /\ \A k \in 1 .. w : word[k] = m_crc_buffer[2 + k]
        /\ m_i8_1 = m_crc_buffer[3 + w]
        /\ \A k \in 1 .. d : m_pdu.m_data[k] = m_crc_buffer[3 + w + k]
        /\ m_index = d /\ m_index < m_i8_1
    BY <1>1, <1>11 DEF Sound, Buffered, Stored, Counted, WordsRead
  <2>2. next = d + 1 /\ more
    BY <2>1
  <2>3. \A k \in 1 .. Len(m_crc_buffer') : m_crc_buffer'[k] = stream'[FrameStart' + k]
    BY <1>1, <1>3, <1>11, <2>2, PutInBufferRepeats DEF Sound
  <2>4. WordsRead' = w /\ Counted'
    BY <1>1, <1>3, <2>1 DEF WordsRead, Counted
  <2>5. /\ Len(m_crc_buffer') = n + 1
        /\ \A k \in 1 .. n : m_crc_buffer'[k] = m_crc_buffer[k]
        /\ m_crc_buffer'[n + 1] = Cur
    BY <1>4, <2>2
  <2>6. /\ Len(m_pdu'.m_data) = d + 1
        /\ \A k \in 1 .. d : m_pdu'.m_data[k] = m_pdu.m_data[k]
        /\ m_pdu'.m_data[d + 1] = Cur
    BY <1>5, <2>2
  <2> HIDE DEF n, w, d
  <2>7. Len(m_crc_buffer') = 3 + WordsRead' + Len(m_pdu'.m_data)
    BY <1>2, <2>1, <2>4, <2>5, <2>6
  <2>8. m_crc_buffer'[1] = Address /\ m_fc' = m_crc_buffer'[2]
    <3>1. 1 \in 1 .. n /\ 2 \in 1 .. n
      BY <1>2, <2>1, SMTT(20)
    <3> QED
      BY <1>1, <2>1, <2>5, <3>1
  <2>9. Buffered'
    BY <1>3, <2>3, <2>4, <2>7, <2>8 DEF Buffered
  <2>10. \A k \in 1 .. WordsRead' : word'[k] = m_crc_buffer'[2 + k]
    <3> TAKE k \in 1 .. WordsRead'
    <3>1. k \in 1 .. w /\ 2 + k \in 1 .. n
      BY <1>2, <2>1, <2>4
    <3> QED
      BY <1>1, <2>1, <2>5, <3>1
  <2>11. m_i8_1' = m_crc_buffer'[3 + WordsRead']
    <3>1. 3 + WordsRead' = 3 + w /\ 3 + w \in 1 .. n
      BY <1>2, <2>1, <2>4
    <3> QED
      BY <1>1, <2>1, <2>5, <3>1
  <2>12. \A k \in 1 .. Len(m_pdu'.m_data) :
            m_pdu'.m_data[k] = m_crc_buffer'[3 + WordsRead' + k]
    <3> TAKE k \in 1 .. Len(m_pdu'.m_data)
    <3>1. k \in 1 .. d + 1
      BY <2>6
    <3>2. CASE k = d + 1
      <4>1. 3 + WordsRead' + k = n + 1
        BY <1>2, <2>1, <2>4, <3>2
      <4> QED
        BY <2>5, <2>6, <3>2, <4>1
    <3>3. CASE k # d + 1
      <4>1. k \in 1 .. d
        BY <1>2, <3>1, <3>3
      <4>2. 3 + w + k \in 1 .. n
        BY <1>2, <2>1, <4>1
      <4> QED
        BY <2>1, <2>4, <2>5, <2>6, <4>1, <4>2
    <3> QED
      BY <3>2, <3>3
  <2>13. /\ m_p_current_state' # "data" => Len(m_pdu'.m_data) = m_i8_1'
         /\ IF m_p_current_state' = "data"
              THEN m_index' = Len(m_pdu'.m_data) /\ m_index' < m_i8_1'
              ELSE m_index' = 0
    <3>1. d < m_i8_1 /\ m_i8_1 \in Nat
      BY <1>2, <2>1, ByteIsNat
    <3>2. d + 1 <= m_i8_1
      BY <1>2, <3>1
    <3>3. CASE next = m_i8_1
      BY <1>1, <2>2, <2>6, <3>3
    <3>4. CASE next # m_i8_1
      <4>1. d + 1 < m_i8_1
        BY <1>2, <2>2, <3>1, <3>2, <3>4
      <4> QED
        BY <1>1, <2>2, <2>6, <3>4, <4>1
    <3> QED
      BY <3>3, <3>4
  <2>14. HasData(m_fc')
    BY <1>1, <2>1
  <2>15. Stored'
    BY <1>3, <2>10, <2>11, <2>12, <2>13, <2>14 DEF Stored
  <2> QED
    BY <1>1, <1>11, <2>9, <2>15 DEF Sound, PdusAreFrames
<1> QED
  BY <1>9, <1>10, <1>11 DEF Step

(* The first byte of the CRC.                                              *)
LEMMA Checksum1Step ==
  ASSUME TypeOK, Positioned, Checksum1
  PROVE  Step
<1>1. /\ m_p_current_state = "checksum_1" /\ pos < Len(stream) /\ pos' = pos + 1
      /\ m_crc1' = Cur /\ m_p_current_state' = "checksum_2"
      /\ UNCHANGED <<stream, wb, m_index, word, m_fc, m_i8_1, m_crc_buffer, m_pdu,
                     pdus, nonses>>
  BY DEF Checksum1, OnChar, calls
<1>2. /\ pos + 1 \in 0 .. Len(stream) /\ Cur \in Byte /\ pos \in Nat
      /\ Len(m_crc_buffer) \in Nat
  BY <1>1, CurIsByte
<1>3. TypeOK'
  BY <1>1, <1>2 DEF TypeOK, States
<1>4. FrameStart' = FrameStart
  BY <1>1, <1>2 DEF FrameStart
<1>5. Positioned'
  BY <1>1, <1>4 DEF Positioned
<1>6. ASSUME Sound PROVE Sound'
  <2>1. Counted' = Counted /\ WordsRead' = WordsRead
    BY <1>1 DEF Counted, WordsRead
  <2>2. m_crc1' = stream'[pos']
    BY <1>1 DEF Cur
  <2>3. Buffered'
    BY <1>1, <1>4, <1>6, <2>1, <2>2 DEF Sound, Buffered
  <2>4. Stored'
    BY <1>1, <1>6, <2>1 DEF Sound, Stored
  <2> QED
    BY <1>1, <1>6, <2>3, <2>4 DEF Sound, PdusAreFrames
<1> QED
  BY <1>3, <1>5, <1>6 DEF Step

-------------------------------------------------------------------------------
(* The record process_pdu() fills, field by field.                         *)
LEMMA FinishedFields ==
  ASSUME TypeOK, Positioned, m_p_current_state = "checksum_2"
  PROVE  /\ FinishedPdu \in PduType
         /\ FinishedPdu.m_fc = m_fc /\ m_fc \in ValidFc
         /\ FinishedPdu.m_i8_1 = m_i8_1 /\ m_i8_1 \in Byte
         /\ FinishedPdu.m_data = m_pdu.m_data /\ m_pdu.m_data \in Seq(Byte)
         /\ FinishedPdu.m_i16[1] = combine(word[1], word[2])
         /\ FinishedPdu.m_i16[2] = combine(word[3], word[4])
         /\ FinishedPdu.m_i16[3] = combine(word[5], word[6])
         /\ FinishedPdu.m_i16[4] = combine(word[7], word[8])
         /\ FinishedPdu.m_i16 \in [1..4 -> Word16]
<1> DEFINE words == [k \in 1..4 |-> combine(word[2 * k - 1], word[2 * k])]
<1>1. /\ m_fc \in ValidFc /\ m_i8_1 \in Byte /\ word \in [1..8 -> Byte]
      /\ m_pdu \in PduType /\ m_pdu.m_data \in Seq(Byte)
  BY DEF TypeOK, Positioned, PduType
<1>2. /\ words[1] = combine(word[1], word[2])
      /\ words[2] = combine(word[3], word[4])
      /\ words[3] = combine(word[5], word[6])
      /\ words[4] = combine(word[7], word[8])
  OBVIOUS
<1>3. words \in [1..4 -> Word16] /\ words \in [1..4 -> MaybeWord16]
  <2>1. \A k \in 1..4 : /\ combine(word[2 * k - 1], word[2 * k]) \in Word16
                        /\ combine(word[2 * k - 1], word[2 * k]) \in MaybeWord16
    <3> TAKE k \in 1..4
    <3>1. word[2 * k - 1] \in Byte /\ word[2 * k] \in Byte
      BY <1>1
    <3> QED
      BY <3>1, CombineType
  <2> QED
    BY <2>1
<1>4. FinishedPdu = [m_pdu EXCEPT !.m_i16 = words, !.m_i8_1 = m_i8_1, !.m_fc = m_fc]
  BY DEF FinishedPdu
<1> HIDE DEF words
<1>5. m_i8_1 \in MaybeByte
  BY <1>1, MaybeByteType
<1>6. /\ FinishedPdu \in PduType
      /\ FinishedPdu.m_fc = m_fc /\ FinishedPdu.m_i16 = words
      /\ FinishedPdu.m_i8_1 = m_i8_1 /\ FinishedPdu.m_data = m_pdu.m_data
  BY <1>1, <1>3, <1>4, <1>5 DEF PduType
<1> QED
  BY <1>1, <1>2, <1>3, <1>6

(* Whatever it says, it is a request with no unwritten field.              *)
LEMMA FinishedIsRequest ==
  ASSUME TypeOK, Positioned, m_p_current_state = "checksum_2"
  PROVE  Request(FinishedPdu) \in RequestType
<1>1. PICK pdu : pdu = FinishedPdu
  OBVIOUS
<1>2. /\ pdu.m_fc \in ValidFc /\ pdu.m_i8_1 \in Byte /\ pdu.m_data \in Seq(Byte)
      /\ pdu.m_i16 \in [1..4 -> Word16]
  BY <1>1, FinishedFields
<1>3. PICK h \in Nat : h = WordBytes(pdu.m_fc) \div 2
  BY DEF WordBytes
<1>4. h \in {2, 4}
  BY <1>3 DEF WordBytes
<1>5. \A k \in 1 .. h : pdu.m_i16[k] \in Word16
  BY <1>2, <1>4
<1>6. [k \in 1 .. h |-> pdu.m_i16[k]] \in Seq(Word16)
  BY <1>5
<1>7. 0 \in Byte /\ << >> \in Seq(Byte)
  BY DEF Byte
<1>8. Request(pdu) \in RequestType
  BY <1>2, <1>3, <1>6, <1>7 DEF Request, RequestType
<1> QED
  BY <1>1, <1>8

(* In checksum_2_state everything but the CRC is in hand.                  *)
LEMMA BodyInHand ==
  ASSUME TypeOK, Positioned, Buffered, Stored,
         m_p_current_state = "checksum_2", pos < Len(stream)
  PROVE  /\ stream \in Seq(Byte) /\ FrameStart \in Nat
         /\ m_crc_buffer \in Seq(Byte) /\ m_pdu.m_data \in Seq(Byte)
         /\ BodyRead(stream, FrameStart, m_crc_buffer, m_fc, word,
                     m_i8_1, m_pdu.m_data)
         /\ FrameStart + Len(m_crc_buffer) + 2 = pos + 1
         /\ FrameStart + Len(m_crc_buffer) + 2 <= Len(stream)
         /\ stream[FrameStart + Len(m_crc_buffer) + 1] = m_crc1
         /\ stream[FrameStart + Len(m_crc_buffer) + 2] = Cur
<1>1. /\ stream \in Seq(Byte) /\ FrameStart \in Nat /\ Len(stream) \in Nat
      /\ m_crc_buffer \in Seq(Byte) /\ m_pdu.m_data \in Seq(Byte)
      /\ Len(m_crc_buffer) \in Nat /\ pos \in Nat
  BY CurIsByte DEF TypeOK, Positioned, PduType
<1>2. WordsRead = WordBytes(m_fc) /\ (Counted <=> HasData(m_fc))
  BY DEF WordsRead, Counted
<1>3. BodyRead(stream, FrameStart, m_crc_buffer, m_fc, word, m_i8_1, m_pdu.m_data)
  <2>1. /\ m_fc \in ValidFc
        /\ \A k \in 1 .. Len(m_crc_buffer) : m_crc_buffer[k] = stream[FrameStart + k]
        /\ m_crc_buffer[1] = Address /\ m_crc_buffer[2] = m_fc
        /\ ~HasData(m_fc) => Len(m_crc_buffer) = 2 + WordBytes(m_fc)
        /\ HasData(m_fc) =>
             Len(m_crc_buffer) = 3 + WordBytes(m_fc) + Len(m_pdu.m_data)
    BY <1>2 DEF Buffered, Positioned
  <2>2. /\ \A k \in 1 .. WordBytes(m_fc) : word[k] = m_crc_buffer[2 + k]
        /\ HasData(m_fc) =>
             /\ m_i8_1 = m_crc_buffer[3 + WordBytes(m_fc)]
             /\ m_i8_1 = Len(m_pdu.m_data)
             /\ \A k \in 1 .. Len(m_pdu.m_data) :
                  m_pdu.m_data[k] = m_crc_buffer[3 + WordBytes(m_fc) + k]
    BY <1>2 DEF Stored
  <2> QED
    BY <2>1, <2>2 DEF BodyRead
<1>4. FrameStart = pos - Len(m_crc_buffer) - 1
  BY DEF FrameStart
<1>5. /\ FrameStart + Len(m_crc_buffer) + 2 = pos + 1
      /\ FrameStart + Len(m_crc_buffer) + 1 = pos
  BY <1>1, <1>4
<1>6. m_crc1 = stream[pos] /\ Cur = stream[pos + 1]
  BY DEF Buffered, Cur
<1> QED
  BY <1>1, <1>3, <1>5, <1>6

(* A frame that starts at FrameStart can only end with the byte at hand,   *)
(* and it is one exactly if the CRC agrees.                                *)
LEMMA FrameInHand ==
  ASSUME TypeOK, Positioned, Buffered, Stored,
         m_p_current_state = "checksum_2", pos < Len(stream), NEW q
  PROVE  IsFrame(stream, FrameStart, q) <=>
           q = pos + 1 /\ CheckCrc(m_crc_buffer, m_crc1, Cur)
<1>1. PICK n : n = Len(m_crc_buffer)
  OBVIOUS
<1>2. IsFrame(stream, FrameStart, q) <=>
        /\ q = FrameStart + n + 2
        /\ CheckCrc(m_crc_buffer, stream[FrameStart + n + 1], stream[FrameStart + n + 2])
  BY <1>1, BodyInHand, BodyIsFrame
<1> QED
  BY <1>1, <1>2, BodyInHand

(* The record handed to m_pdu_cb says what the frame says.                 *)
LEMMA FinishedRequest ==
  ASSUME TypeOK, Positioned, Buffered, Stored,
         m_p_current_state = "checksum_2", pos < Len(stream)
  PROVE  Request(FinishedPdu) = FrameRequest(stream, FrameStart)
<1>1. PICK pdu : pdu = FinishedPdu
  OBVIOUS
<1>2. /\ pdu \in PduType /\ pdu.m_fc = m_fc
      /\ pdu.m_i8_1 = m_i8_1 /\ pdu.m_data = m_pdu.m_data
      /\ pdu.m_i16[1] = combine(word[1], word[2])
      /\ pdu.m_i16[2] = combine(word[3], word[4])
      /\ pdu.m_i16[3] = combine(word[5], word[6])
      /\ pdu.m_i16[4] = combine(word[7], word[8])
  BY <1>1, FinishedFields
<1>3. word \in [1..8 -> Byte] /\ Len(m_crc_buffer) \in Nat /\ Len(stream) \in Nat
  BY CurIsByte DEF TypeOK
<1>4. BodyRead(stream, FrameStart, m_crc_buffer, m_fc, word, pdu.m_i8_1, pdu.m_data)
  BY <1>2, BodyInHand
<1>5. FrameStart + Len(m_crc_buffer) <= Len(stream)
  BY <1>3, BodyInHand
<1>6. Request(pdu) = FrameRequest(stream, FrameStart)
  BY <1>2, <1>3, <1>4, <1>5, BodyInHand, FrameSays
<1> QED
  BY <1>1, <1>6

(* A frame whose CRC is right.                                             *)
LEMMA PduOkStep ==
  ASSUME TypeOK, Positioned, PduOk
  PROVE  Step
<1> DEFINE entry == [from |-> FrameStart, to |-> pos + 1,
                     request |-> Request(FinishedPdu)]
<1>1. /\ m_p_current_state = "checksum_2" /\ pos < Len(stream) /\ pos' = pos + 1
      /\ CheckCrc(m_crc_buffer, m_crc1, Cur)
      /\ m_pdu' = FinishedPdu /\ pdus' = Append(pdus, entry)
      /\ SwitchState("init")
      /\ UNCHANGED <<stream, wb, m_index, word, m_fc, m_i8_1, m_crc1, nonses>>
  BY DEF PduOk, OnChar, values
<1>2. entry \in PduEntry /\ entry.from = FrameStart /\ entry.to = pos + 1
  <2>1. FrameStart \in Nat /\ pos + 1 \in Nat
    BY <1>1, CurIsByte DEF Positioned
  <2> QED
    BY <1>1, <2>1, FinishedIsRequest DEF PduEntry
<1>3. entry.request = Request(FinishedPdu)
  OBVIOUS
<1> HIDE DEF entry
<1>4. /\ pdus' \in Seq(PduEntry)
      /\ Len(pdus') = Len(pdus) + 1 /\ Len(pdus) \in Nat
      /\ \A i \in 1 .. Len(pdus) : pdus'[i] = pdus[i]
      /\ pdus'[Len(pdus) + 1] = entry
  <2>1. pdus \in Seq(PduEntry)
    BY DEF TypeOK, PduEntry
  <2> QED
    BY <1>1, <1>2, <2>1, AppendProperties
<1>5. ASSUME Sound PROVE PdusAreFrames'
  <2>1. Buffered /\ Stored /\ PdusAreFrames
    BY <1>5 DEF Sound
  <2>2. IsFrame(stream, FrameStart, pos + 1)
    BY <1>1, <2>1, FrameInHand
  <2>3. Request(FinishedPdu) = FrameRequest(stream, FrameStart)
    BY <1>1, <2>1, FinishedRequest
  <2>4. ASSUME NEW i \in 1 .. Len(pdus')
        PROVE  /\ IsFrame(stream, pdus'[i].from, pdus'[i].to)
               /\ pdus'[i].request = FrameRequest(stream, pdus'[i].from)
    <3>1. CASE i = Len(pdus) + 1
      BY <1>2, <1>3, <1>4, <2>2, <2>3, <3>1
    <3>2. CASE i # Len(pdus) + 1
      <4>1. i \in 1 .. Len(pdus)
        BY <1>4, <3>2
      <4> QED
        BY <1>4, <2>1, <4>1 DEF PdusAreFrames
    <3> QED
      BY <3>1, <3>2
  <2> QED
    BY <1>1, <2>4 DEF PdusAreFrames
<1>6. m_pdu' \in PduType
  BY <1>1, FinishedFields
<1>7. nonses' \in SUBSET [from : Nat, to : Nat]
  BY <1>1 DEF TypeOK
<1> QED
  BY <1>1, <1>4, <1>5, <1>6, <1>7, ToInitStep

-------------------------------------------------------------------------------
(* The invariant is about the variables of the scanner only.               *)
LEMMA StutterIInv == IInv /\ UNCHANGED vars => IInv'
BY DEF IInv, vars, TypeOK, Positioned, MetEmpty, EmptyIn, Sound, Buffered, Stored,
       PdusAreFrames, FrameStart, Counted, WordsRead

(* What has been met stays met.                                            *)
LEMMA EmptyMetStays ==
  ASSUME TypeOK, MetEmpty, [Next]_vars
  PROVE  MetEmpty'
<1>1. CASE UNCHANGED vars
  BY <1>1 DEF vars, MetEmpty, EmptyIn
<1>2. CASE Next
  <2>1. stream' = stream /\ pos < Len(stream) /\ pos' = pos + 1
    BY <1>2 DEF Next, InitSkip, InitMatch, Function, InvalidFunction, Word, ByteCount,
                Data, Checksum1, PduOk, CrcWrong, OnChar
  <2>2. pos \in Nat /\ pos + 1 \in Nat /\ pos <= pos + 1
    BY <2>1, CurIsByte
  <2>3. EmptyIn(stream, pos + 1)
    BY <2>2, EmptyStays DEF MetEmpty
  <2> QED
    BY <2>1, <2>3 DEF MetEmpty
<1> QED
  BY <1>1, <1>2

(* Every step of the specification preserves the invariant: what has been  *)
(* met stays met, and until then the scanner stays in step with the frame. *)
LEMMA NextIInv == IInv /\ [Next]_vars => IInv'
<1> SUFFICES ASSUME IInv, Next PROVE IInv'
  BY StutterIInv
<1>1. TypeOK /\ Positioned /\ (MetEmpty \/ Sound)
  BY DEF IInv
<1>2. Step
  BY <1>1, InitSkipStep, InitMatchStep, FunctionStep, InvalidFunctionStep, WordStep,
     ByteCountStep, DataStep, Checksum1Step, PduOkStep, CrcWrongStep DEF Next
<1>3. MetEmpty => MetEmpty'
  BY <1>1, EmptyMetStays
<1> QED
  BY <1>1, <1>2, <1>3 DEF Step, IInv

(* While no byte count of 0 has been met, the state objects repeat the     *)
(* bytes of the stream since the frame began.                              *)
THEOREM InvariantHolds == Spec => []IInv
BY InitIInv, NextIInv, PTL DEF Spec

(* On every stream the members of the state objects keep their types, and  *)
(* m_pdu_cb is called with nothing but written fields.                     *)
THEOREM TypeCorrect == Spec => []TypeOK
BY InvariantHolds, PTL DEF IInv

(* On a line with no byte count of 0 the scanner never falls out of step.  *)
LEMMA NothingEmptyMet ==
  ASSUME \A s \in Streams : ~EmptyIn(s, Len(s)), IInv
  PROVE  TypeOK /\ Positioned /\ Buffered /\ Stored /\ PdusAreFrames
<1>1. TypeOK /\ Positioned
  BY DEF IInv
<1>2. /\ stream \in Streams /\ pos \in Nat /\ Len(stream) \in Nat
      /\ pos <= Len(stream)
  BY <1>1, StreamsAssumption DEF TypeOK
<1>3. ~MetEmpty
  BY <1>2, EmptyStays DEF MetEmpty
<1> QED
  BY <1>1, <1>3 DEF IInv, Sound

(* On a stream with no byte count of 0 every call of m_pdu_cb is for a     *)
(* frame of the line and says what it says.                                *)
THEOREM PdusAreFramesHolds ==
  ASSUME \A s \in Streams : ~EmptyIn(s, Len(s))
  PROVE  Spec => []PdusAreFrames
<1>1. IInv => PdusAreFrames
  BY NothingEmptyMet
<1>2. Spec => []IInv
  BY InvariantHolds
<1> QED
  BY <1>1, <1>2, PTL

-------------------------------------------------------------------------------
(* The promise.  Everything before the frame in hand is settled.           *)
Settled == IF m_p_current_state = "init" THEN pos ELSE FrameStart

(* In every state that is where the bytes in hand start.                   *)
LEMMA SettledIsFrameStart ==
  ASSUME TypeOK, Positioned
  PROVE  /\ Settled = FrameStart /\ Settled \in Nat
         /\ Len(stream) \in Nat /\ pos \in Nat /\ pos <= Len(stream)
<1>1. /\ Len(stream) \in Nat /\ pos \in Nat /\ pos <= Len(stream)
      /\ FrameStart \in Nat
  BY StreamsAssumption DEF TypeOK, Positioned
<1>2. m_p_current_state = "init" => FrameStart = pos
  BY <1>1 DEF Positioned, FrameStart
<1> QED
  BY <1>1, <1>2 DEF Settled

(* What a step does to what is settled and handed out: nothing, a foreign  *)
(* byte skipped, a start given up where the reference reader gives it up,  *)
(* or a request delivered.                                                 *)
Quiet   == Settled' = Settled /\ pdus' = pdus
Skipped == /\ Settled' = Settled + 1 /\ Settled < Len(stream)
           /\ stream[Settled + 1] # Address
           /\ pdus' = pdus
GivenUp == /\ Settled' \in Settled + 1 .. Len(stream)
           /\ \A q : ~IsFrame(stream, Settled, q)
           /\ ~Hungry(stream, Settled) /\ Settled' = Resume(stream, Settled)
           /\ pdus' = pdus
Delivered ==
  \E q \in Settled + 1 .. Len(stream) :
    /\ IsFrame(stream, Settled, q)
    /\ Settled' = q
    /\ pdus' = Append(pdus, [from |-> Settled, to |-> q,
                             request |-> FrameRequest(stream, Settled)])

(* A byte that is not the address is settled by itself.                    *)
LEMMA InitSkipOutcome ==
  ASSUME TypeOK, Positioned, InitSkip
  PROVE  Skipped
<1>1. /\ m_p_current_state = "init" /\ pos < Len(stream) /\ pos' = pos + 1
      /\ Cur # Address /\ m_p_current_state' = "init" /\ pdus' = pdus
  BY DEF InitSkip, OnChar, calls
<1> QED
  BY <1>1 DEF Skipped, Settled, Cur

(* A byte put in the buffer, or kept as the first of the CRC, settles      *)
(* nothing.                                                                *)
LEMMA InFrameOutcome ==
  ASSUME TypeOK, Positioned,
         InitMatch \/ Function \/ Word \/ ByteCount \/ Checksum1
           \/ (Data /\ m_index < m_i8_1)
  PROVE  Quiet
<1>1. /\ pos < Len(stream) /\ pos' = pos + 1 /\ stream' = stream /\ pdus' = pdus
      /\ m_p_current_state # "checksum_2" /\ m_p_current_state' # "init"
  BY DEF InitMatch, Function, Word, ByteCount, Data, Checksum1, OnChar, calls
<1>2. CASE Checksum1
  <2>1. /\ m_p_current_state' = "checksum_2" /\ m_crc_buffer' = m_crc_buffer
        /\ m_p_current_state = "checksum_1"
    BY <1>2 DEF Checksum1, OnChar
  <2>2. pos \in Nat /\ Len(m_crc_buffer) \in Nat
    BY <1>1, CurIsByte
  <2>3. FrameStart' = FrameStart
    BY <1>1, <2>1, <2>2 DEF FrameStart
  <2> QED
    BY <1>1, <2>3, SettledIsFrameStart DEF Settled, Quiet
<1>3. CASE ~Checksum1
  <2>1. PutInBuffer /\ m_p_current_state' # "checksum_2"
    <3>1. CASE InitMatch \/ Function \/ ByteCount
      BY <3>1 DEF InitMatch, Function, ByteCount
    <3>2. CASE Word
      BY <3>2 DEF Word, OnChar
    <3>3. CASE Data /\ m_index < m_i8_1
      BY <3>3 DEF Data
    <3> QED
      BY <1>3, <3>1, <3>2, <3>3
  <2>2. FrameStart' = FrameStart
    BY <1>1, <2>1, PutInBufferKeeps
  <2> QED
    BY <1>1, <2>2, SettledIsFrameStart DEF Settled, Quiet
<1> QED
  BY <1>2, <1>3

(* Back to init_state everything read is settled.                          *)
LEMMA ToInitSettles ==
  ASSUME TypeOK, Positioned, pos < Len(stream), pos' = pos + 1,
         SwitchState("init")
  PROVE  /\ Settled' = pos + 1
         /\ pos + 1 \in Settled + 1 .. Len(stream)
<1>1. Settled' = pos + 1
  BY DEF SwitchState, Settled
<1>2. pos \in Nat /\ Len(stream) \in Nat /\ Len(m_crc_buffer) \in Nat
  BY CurIsByte
<1>3. FrameStart \in Nat /\ FrameStart <= pos
  BY <1>2 DEF FrameStart, Positioned
<1> QED
  BY <1>1, <1>2, <1>3, SettledIsFrameStart

(* No frame starts with a function code nobody knows.                      *)
LEMMA InvalidFunctionOutcome ==
  ASSUME TypeOK, Positioned, Buffered, InvalidFunction
  PROVE  GivenUp
<1>1. /\ m_p_current_state = "fc" /\ pos < Len(stream) /\ pos' = pos + 1
      /\ Cur \notin ValidFc /\ SwitchState("init") /\ pdus' = pdus
  BY DEF InvalidFunction, OnChar, calls
<1>2. Len(m_crc_buffer) = 1 /\ pos \in Nat
  BY <1>1, CurIsByte DEF Buffered
<1>3. FrameStart + 2 = pos + 1
  BY <1>1, <1>2 DEF FrameStart
<1>4. stream[FrameStart + 1] = Address /\ stream[FrameStart + 2] \notin ValidFc
  <2>1. m_crc_buffer[1] = Address /\ m_crc_buffer[1] = stream[FrameStart + 1]
    BY <1>1, <1>2 DEF Buffered
  <2> QED
    BY <1>1, <1>3, <2>1 DEF Cur
<1>5. \A q : ~IsFrame(stream, FrameStart, q)
  BY <1>4 DEF IsFrame
<1>6. ~Hungry(stream, FrameStart) /\ Resume(stream, FrameStart) = pos + 1
  BY <1>1, <1>2, <1>3, <1>4, CurIsByte DEF Hungry, Resume
<1> QED
  BY <1>1, <1>5, <1>6, ToInitSettles, SettledIsFrameStart DEF GivenUp

(* No frame starts where the CRC came out wrong.                           *)
LEMMA CrcWrongOutcome ==
  ASSUME TypeOK, Positioned, Buffered, Stored, CrcWrong
  PROVE  GivenUp
<1>1. /\ m_p_current_state = "checksum_2" /\ pos < Len(stream) /\ pos' = pos + 1
      /\ ~CheckCrc(m_crc_buffer, m_crc1, Cur) /\ SwitchState("init") /\ pdus' = pdus
  BY DEF CrcWrong, OnChar
<1>2. \A q : ~IsFrame(stream, FrameStart, q)
  BY <1>1, FrameInHand
<1>3. ~Hungry(stream, FrameStart) /\ Resume(stream, FrameStart) = pos + 1
  <2>1. PICK n : n = Len(m_crc_buffer)
    OBVIOUS
  <2> QED
    BY <1>1, <2>1, BodyInHand, BodyResumes
<1> QED
  BY <1>1, <1>2, <1>3, ToInitSettles, SettledIsFrameStart DEF GivenUp

(* What is handed out is the frame that started there.                     *)
LEMMA PduOkOutcome ==
  ASSUME TypeOK, Positioned, Buffered, Stored, PduOk
  PROVE  Delivered
<1>1. /\ m_p_current_state = "checksum_2" /\ pos < Len(stream) /\ pos' = pos + 1
      /\ CheckCrc(m_crc_buffer, m_crc1, Cur) /\ SwitchState("init")
      /\ pdus' = Append(pdus, [from |-> FrameStart, to |-> pos + 1,
                               request |-> Request(FinishedPdu)])
  BY DEF PduOk, OnChar
<1>2. IsFrame(stream, FrameStart, pos + 1)
  BY <1>1, FrameInHand
<1>3. Request(FinishedPdu) = FrameRequest(stream, FrameStart)
  BY <1>1, FinishedRequest
<1> QED
  BY <1>1, <1>2, <1>3, ToInitSettles, SettledIsFrameStart DEF Delivered

(* Every step of a scanner in step with the frame has one of the outcomes. *)
LEMMA Outcomes ==
  ASSUME TypeOK, Positioned, Buffered, Stored, [Next]_vars
  PROVE  stream' = stream /\ (Quiet \/ Skipped \/ GivenUp \/ Delivered)
<1>1. CASE UNCHANGED vars
  BY <1>1 DEF vars, Quiet, Settled, FrameStart
<1>2. CASE Next
  <2>1. stream' = stream
    BY <1>2 DEF Next, InitSkip, InitMatch, Function, InvalidFunction, Word,
                ByteCount, Data, Checksum1, PduOk, CrcWrong, OnChar
  <2>2. Data => m_index < m_i8_1
    BY DEF Data, OnChar, Stored
  <2> QED
    BY <1>2, <2>1, <2>2, InitSkipOutcome, InFrameOutcome, InvalidFunctionOutcome,
       CrcWrongOutcome, PduOkOutcome DEF Next
<1> QED
  BY <1>1, <1>2

(* Each of them is a step of PduStream, or none.                           *)
LEMMA StepPromise ==
  ASSUME TypeOK, Positioned, Buffered, Stored, [Next]_vars
  PROVE  Promised!Next \/ UNCHANGED Promised!vars
<1>1. stream' = stream /\ (Quiet \/ Skipped \/ GivenUp \/ Delivered)
  BY Outcomes
<1>2. Settled \in Nat /\ Len(stream) \in Nat
  BY SettledIsFrameStart
<1>3. CASE Quiet
  BY <1>1, <1>3 DEF Quiet, Promised!vars, Settled
<1>4. CASE Skipped
  <2>1. \A q : ~IsFrame(stream, Settled, q)
    BY <1>4 DEF Skipped, IsFrame
  <2>2. Settled' \in Settled + 1 .. Len(stream)
    BY <1>2, <1>4 DEF Skipped
  <2>3. Promised!Discard
    BY <1>1, <1>4, <2>1, <2>2 DEF Skipped, Promised!Discard, Settled
  <2> QED
    BY <2>3 DEF Promised!Next
<1>5. CASE GivenUp
  <2>1. Promised!Discard
    BY <1>1, <1>5 DEF GivenUp, Promised!Discard, Settled
  <2> QED
    BY <2>1 DEF Promised!Next
<1>6. CASE Delivered
  <2>1. Promised!Deliver
    BY <1>1, <1>6 DEF Delivered, Promised!Deliver, Settled
  <2> QED
    BY <2>1 DEF Promised!Next
<1> QED
  BY <1>1, <1>3, <1>4, <1>5, <1>6

(* On every stream the scanner keeps the promise of PduStream until it has *)
(* met a byte count of 0.                                                  *)
THEOREM KeptUntilEmpty ==
  Spec => [][~MetEmpty => PdusAreFrames /\ (Promised!Next \/ UNCHANGED Promised!vars)]_vars
<1>1. IInv /\ [Next]_vars =>
        [~MetEmpty => PdusAreFrames /\ (Promised!Next \/ UNCHANGED Promised!vars)]_vars
  BY StepPromise DEF IInv, Sound
<1>2. Spec => []IInv
  BY InvariantHolds
<1> QED
  BY <1>1, <1>2, PTL DEF Spec

(* The traditional scanner makes the promise of the coroutine scanner,     *)
(* PduStream, on every line that carries no byte count of 0.               *)
THEOREM PromiseHolds ==
  ASSUME \A s \in Streams : ~EmptyIn(s, Len(s))
  PROVE  Spec => Promise
<1>1. Init => Promised!Init
  BY DEF Init, Promised!Init
<1>2. IInv /\ [Next]_vars => [Promised!Next]_(Promised!vars)
  BY NothingEmptyMet, StepPromise
<1>3. Spec => []IInv
  BY InvariantHolds
<1> QED
  BY <1>1, <1>2, <1>3, PTL DEF Spec, Promise, Promised!Spec

-------------------------------------------------------------------------------
(* The same results as the byte-at-a-time reader of RtuFrames.  Whatever   *)
(* the reader hands out from the beginning of the stream is what has been  *)
(* handed out, and then what the reader hands out from Settled on.         *)
InReaderStep == Reader(stream)[0] = pdus \o Reader(stream)[Settled]

(* At the end of the stream the reader has nothing more to hand out.       *)
LEMMA NothingLeft ==
  ASSUME TypeOK, Positioned, Buffered, Stored, pos = Len(stream)
  PROVE  Reader(stream)[Settled] = << >>
<1>1. /\ Settled = FrameStart /\ FrameStart \in Nat /\ pos \in Nat
      /\ stream \in Seq(Byte) /\ Len(m_crc_buffer) \in Nat
      /\ Len(m_pdu.m_data) \in Nat /\ m_i8_1 \in Nat /\ m_index \in Nat
  <2>1. /\ m_pdu.m_data \in Seq(Byte) /\ m_i8_1 \in Byte /\ m_index \in Byte
        /\ m_crc_buffer \in Seq(Byte) /\ stream \in Streams
    BY DEF TypeOK, PduType
  <2>2. m_i8_1 \in Nat /\ m_index \in Nat
    BY <2>1, ByteIsNat
  <2>3. Settled = FrameStart /\ FrameStart \in Nat /\ pos \in Nat
    BY SettledIsFrameStart
  <2> QED
    BY <2>1, <2>2, <2>3, StreamsAssumption
<1>2. PICK m : m = pos - FrameStart
  OBVIOUS
<1>3. m = Len(m_crc_buffer) + (IF m_p_current_state = "checksum_2" THEN 1 ELSE 0)
  BY <1>1, <1>2 DEF FrameStart
<1>4. m \in Nat /\ Len(stream) = FrameStart + m
  BY <1>1, <1>2, <1>3
<1>5. PICK w : w = WordBytes(m_fc)
  OBVIOUS
<1>6. w \in {4, 8} /\ wb \in Nat
  BY <1>5, WordBytesType DEF TypeOK
<1>7. ASSUME m >= 2
      PROVE  /\ stream[FrameStart + 1] = Address
             /\ stream[FrameStart + 2] \in ValidFc
             /\ w = WordBytes(stream[FrameStart + 2])
             /\ ~HasData(stream[FrameStart + 2]) => m < w + 4
             /\ HasData(stream[FrameStart + 2]) /\ m >= w + 3 =>
                  m_i8_1 = stream[FrameStart + 3 + w] /\ m < w + 5 + m_i8_1
  <2>1. m_p_current_state \in {"i16", "i8_1", "data", "checksum_1", "checksum_2"}
    <3>1. m_p_current_state = "init" => Len(m_crc_buffer) = 0
      BY DEF Positioned
    <3>2. m_p_current_state = "fc" => Len(m_crc_buffer) = 1
      BY DEF Buffered
    <3> QED
      <4>1. m_p_current_state \in States
        BY DEF TypeOK
      <4>2. m_p_current_state \notin {"init", "fc"}
        <5>1. CASE m_p_current_state = "init"
          <6>1. m = 0
            BY <1>3, <3>1, <5>1
          <6> QED
            BY <1>7, <6>1
        <5>2. CASE m_p_current_state = "fc"
          <6>1. m_p_current_state # "checksum_2"
            BY <5>2
          <6>2. Len(m_crc_buffer) = 1
            BY <3>2, <5>2
          <6>3. m = Len(m_crc_buffer)
            BY <1>1, <1>3, <6>1
          <6>4. m = 1
            BY <6>2, <6>3
          <6> QED
            BY <1>7, <6>4
        <5> QED
          BY <5>1, <5>2
      <4> QED
        BY <4>1, <4>2 DEF States
  <2>2. Len(m_crc_buffer) >= 2
    <3>1. WordsRead \in Nat
      <4>1. wb \in 1 .. 8
        BY DEF TypeOK
      <4> QED
        BY <1>5, <1>6, <4>1 DEF WordsRead
    <3>2. ~Counted => Len(m_crc_buffer) = 2 + WordsRead
      BY <2>1 DEF Buffered
    <3>3. Counted => Len(m_crc_buffer) = 3 + WordsRead + Len(m_pdu.m_data)
      BY DEF Buffered
    <3>4. PICK b, d, n : /\ b = Len(m_crc_buffer) /\ d = Len(m_pdu.m_data)
                         /\ n = WordsRead
      OBVIOUS
    <3>5. d \in Nat /\ n \in Nat /\ (b = 2 + n \/ b = 3 + n + d)
      BY <1>1, <3>1, <3>2, <3>3, <3>4
    <3>6. b >= 2
      BY <3>5
    <3> QED
      BY <3>4, <3>6
  <2>3. stream[FrameStart + 1] = Address /\ stream[FrameStart + 2] = m_fc
    <3>1. 1 \in 1 .. Len(m_crc_buffer) /\ 2 \in 1 .. Len(m_crc_buffer)
      BY <1>1, <2>2
    <3> QED
      BY <2>1, <3>1 DEF Buffered
  <2>4. m_fc \in ValidFc
    BY <2>1 DEF Positioned
  <2>5. CASE Counted
    <3>1. HasData(m_fc) /\ WordsRead = w
      BY <1>5, <2>5 DEF Counted, WordsRead, Stored
    <3>2. Len(m_crc_buffer) = 3 + w + Len(m_pdu.m_data)
      BY <2>5, <3>1 DEF Buffered
    <3>3. m_i8_1 = m_crc_buffer[3 + w]
      BY <2>5, <3>1 DEF Stored
    <3>4. 3 + w \in 1 .. Len(m_crc_buffer) /\ FrameStart + (3 + w) = FrameStart + 3 + w
      <4>1. PICK b, d : b = Len(m_crc_buffer) /\ d = Len(m_pdu.m_data)
        OBVIOUS
      <4>2. b \in Nat /\ d \in Nat /\ b = 3 + w + d
        BY <1>1, <3>2, <4>1
      <4>3. 3 + w \in 1 .. b
        BY <1>6, <4>2
      <4>4. FrameStart + (3 + w) = FrameStart + 3 + w
        BY <1>1, <1>6
      <4> QED
        BY <4>1, <4>3, <4>4
    <3>5. m_crc_buffer[3 + w] = stream[FrameStart + (3 + w)]
      BY <3>4 DEF Buffered
    <3>6. m < w + 5 + m_i8_1
      <4>1. PICK b, d, c : /\ b = Len(m_crc_buffer) /\ d = Len(m_pdu.m_data)
                           /\ c = m_i8_1
        OBVIOUS
      <4>2. b \in Nat /\ d \in Nat /\ c \in Nat /\ b = 3 + w + d
        BY <1>1, <3>2, <4>1
      <4>3. \/ d < c /\ m = b
            \/ d = c /\ m <= b + 1
        <5>1. CASE m_p_current_state = "data"
          BY <1>3, <4>1, <4>2, <5>1 DEF Stored
        <5>2. CASE m_p_current_state # "data"
          <6>1. d = c
            BY <2>5, <4>1, <5>2 DEF Stored
          <6>2. m = b \/ m = b + 1
            BY <1>3, <4>1, <4>2
          <6> QED
            BY <4>2, <6>1, <6>2
        <5> QED
          BY <5>1, <5>2
      <4>4. m < w + 5 + c
        BY <1>4, <1>6, <4>2, <4>3
      <4> QED
        BY <4>1, <4>4
    <3> QED
      BY <1>5, <2>3, <2>4, <3>1, <3>3, <3>4, <3>5, <3>6
  <2>6. CASE ~Counted
    <3>1. Len(m_crc_buffer) = 2 + WordsRead
      BY <2>1, <2>6 DEF Buffered
    <3>2. CASE m_p_current_state \in {"i16", "i8_1"}
      <4>1. m = 2 + WordsRead /\ m < w + 3
        BY <1>3, <1>5, <1>6, <3>1, <3>2 DEF WordsRead, Stored
      <4> QED
        BY <1>4, <1>5, <1>6, <2>3, <2>4, <4>1
    <3>3. CASE m_p_current_state \in {"checksum_1", "checksum_2"}
      <4>1. ~HasData(m_fc) /\ WordsRead = w
        BY <1>5, <2>6, <3>3 DEF Counted, WordsRead
      <4>2. m < w + 4
        BY <1>3, <1>6, <3>1, <4>1
      <4> QED
        BY <1>5, <2>3, <2>4, <4>1, <4>2
    <3> QED
      BY <2>1, <2>6, <3>2, <3>3 DEF Counted
  <2> QED
    BY <2>5, <2>6
<1>8. Hungry(stream, FrameStart)
  BY <1>1, <1>4, <1>7, Unfinished
<1>9. FrameStart \in 0 .. Len(stream)
  BY <1>1, <1>4
<1> QED
  BY <1>1, <1>8, <1>9, ReaderWaits

(* Each outcome of a step is what the reader does at Settled.              *)
LEMMA StepInReaderStep ==
  ASSUME TypeOK, Positioned, Buffered, Stored, InReaderStep, [Next]_vars
  PROVE  InReaderStep'
<1>1. stream' = stream /\ (Quiet \/ Skipped \/ GivenUp \/ Delivered)
  BY Outcomes
<1>2. /\ stream \in Seq(Byte) /\ Settled \in Nat /\ Len(stream) \in Nat
      /\ Settled \in 0 .. Len(stream)
  <2>1. FrameStart <= pos /\ pos <= Len(stream)
    BY SettledIsFrameStart, StreamsAssumption DEF FrameStart, TypeOK
  <2> QED
    BY <2>1, SettledIsFrameStart, StreamsAssumption DEF TypeOK
<1>3. CASE Quiet
  BY <1>1, <1>3 DEF Quiet, InReaderStep
<1>4. CASE Skipped
  <2>1. Reader(stream)[Settled] = Reader(stream)[Settled + 1]
    BY <1>2, <1>4, ReaderSkips DEF Skipped
  <2> QED
    BY <1>1, <1>4, <2>1 DEF Skipped, InReaderStep
<1>5. CASE GivenUp
  <2>1. Reader(stream)[Settled] = Reader(stream)[Resume(stream, Settled)]
    BY <1>2, <1>5, ReaderGivesUp DEF GivenUp
  <2> QED
    BY <1>1, <1>5, <2>1 DEF GivenUp, InReaderStep
<1>6. CASE Delivered
  <2>1. PICK q \in Settled + 1 .. Len(stream) :
          /\ IsFrame(stream, Settled, q)
          /\ Settled' = q
          /\ pdus' = Append(pdus, [from |-> Settled, to |-> q,
                                   request |-> FrameRequest(stream, Settled)])
    BY <1>6 DEF Delivered
  <2>2. PICK x : x = [from |-> Settled, to |-> q,
                      request |-> FrameRequest(stream, Settled)]
    OBVIOUS
  <2>3. q \in Nat /\ q \in 0 .. Len(stream)
    BY <1>2
  <2>4. PICK r : r = Reader(stream)[q]
    OBVIOUS
  <2>5. Reader(stream)[Settled] = << x >> \o r
    BY <1>2, <2>1, <2>2, <2>3, <2>4, ReaderTakes
  <2>6. r \in Seq(Items(stream))
    BY <1>2, <2>3, <2>4, ReaderUnfolds
  <2>7. pdus \in Seq([from : Nat, to : Nat, request : RequestType])
    BY DEF TypeOK
  <2>8. Append(pdus, x) \o r = pdus \o (<< x >> \o r)
    BY <2>6, <2>7, AppendThenMore
  <2> QED
    BY <1>1, <2>1, <2>2, <2>4, <2>5, <2>8 DEF InReaderStep
<1> QED
  BY <1>1, <1>3, <1>4, <1>5, <1>6

(* On every stream, and until a byte count of 0 has been met, the calls of *)
(* m_pdu_cb at the end of the stream are those of the reader.              *)
THEOREM ByteWiseUntilEmpty == Spec => [](~MetEmpty => ReadsByteWise)
<1> DEFINE Inv == MetEmpty \/ InReaderStep
<1>1. Init => Inv
  <2> SUFFICES ASSUME Init PROVE InReaderStep
    OBVIOUS
  <2>1. pdus = << >> /\ Settled = 0 /\ stream \in Seq(Byte)
    BY StreamsAssumption DEF Init, Settled
  <2>2. Reader(stream)[0] \in Seq(Items(stream))
    BY <2>1, ReaderUnfolds
  <2> QED
    BY <2>1, <2>2, ConcatEmptySeq DEF InReaderStep
<1>2. IInv /\ Inv /\ [Next]_vars => Inv'
  <2> SUFFICES ASSUME IInv, Inv, [Next]_vars PROVE Inv'
    OBVIOUS
  <2>1. CASE MetEmpty
    BY <2>1, EmptyMetStays DEF IInv
  <2>2. CASE ~MetEmpty
    BY <2>2, StepInReaderStep DEF IInv, Sound
  <2> QED
    BY <2>1, <2>2
<1>3. IInv /\ Inv => (~MetEmpty => ReadsByteWise)
  <2> SUFFICES ASSUME IInv, InReaderStep, ~MetEmpty, pos = Len(stream)
               PROVE  pdus = ByteWise(stream)
    BY DEF ReadsByteWise
  <2>1. TypeOK /\ Positioned /\ Buffered /\ Stored
    BY DEF IInv, Sound
  <2>2. Reader(stream)[0] = pdus \o << >>
    BY <2>1, NothingLeft DEF InReaderStep
  <2>3. pdus \o << >> = pdus
    BY <2>1, ConcatEmptySeq DEF TypeOK
  <2> QED
    BY <2>2, <2>3 DEF ByteWise
<1>4. Spec => []IInv
  BY InvariantHolds
<1> QED
  BY <1>1, <1>2, <1>3, <1>4, PTL DEF Spec

(* On a line with no byte count of 0 what is delivered is what the         *)
(* byte-at-a-time reader finds.                                            *)
THEOREM ReadsByteWiseHolds ==
  ASSUME \A s \in Streams : ~EmptyIn(s, Len(s))
  PROVE  Spec => []ReadsByteWise
<1>1. IInv => ~MetEmpty
  <2> SUFFICES ASSUME IInv PROVE ~MetEmpty
    OBVIOUS
  <2>1. stream \in Streams /\ pos \in Nat /\ Len(stream) \in Nat /\ pos <= Len(stream)
    BY StreamsAssumption DEF IInv, TypeOK
  <2> QED
    BY <2>1, EmptyStays DEF MetEmpty
<1>2. Spec => []IInv
  BY InvariantHolds
<1> QED
  BY <1>1, <1>2, ByteWiseUntilEmpty, PTL
===============================================================================
