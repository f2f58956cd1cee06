---------------------------- MODULE RtuScannerOld -----------------------------
(***************************************************************************)
(* slave_rtu_old_c: the same RTU scanner as a traditional state machine,   *)
(* one state object per byte of the frame (slave_rtu_old.cpp); the         *)
(* coroutine scanner is measured against it.  scan() hands each byte of    *)
(* its portion to on_char() of the current state and keeps nothing of its  *)
(* own, so portions do not appear here: an action is one on_char().  The   *)
(* eight i16 states are one, with wb telling which.  The four diagnostic   *)
(* states are not modelled: fc_state enters them for function 8, which     *)
(* valid_fc() has just refused.                                            *)
(***************************************************************************)
EXTENDS RtuFrames

CONSTANT Streams      \* byte streams the line may carry

ASSUME AddressAssumption == Address \in Byte
ASSUME StreamsAssumption == Streams \subseteq Seq(Byte)

VARIABLES
  stream,             \* the bytes on the line
  pos,                \* how many of them on_char() was called with
  m_p_current_state,
  wb,                 \* which of the i16 states
  m_index,            \* of data_state
  word,               \* m_i16_1_hi, m_i16_1_lo, .. m_i16_4_lo
  m_fc,
  m_i8_1,
  m_crc1,
  m_crc_buffer,
  m_pdu,
  pdus,               \* history: what m_pdu_cb was called with
  nonses              \* history: what each call of m_nonse_cb gave up

values == <<m_index, word, m_fc, m_i8_1, m_crc1>>
calls  == <<pdus, nonses>>
vars   == <<stream, pos, m_p_current_state, wb, m_index, word, m_fc, m_i8_1,
            m_crc1, m_crc_buffer, m_pdu, pdus, nonses>>

States == {"init", "fc", "i16", "i8_1", "data", "checksum_1", "checksum_2"}

-------------------------------------------------------------------------------
Init ==
  /\ stream \in Streams /\ pos = 0
  /\ m_p_current_state = "init" /\ wb = 1
  /\ m_index = 0 /\ word = [k \in 1..8 |-> 0]
  /\ m_fc = 0 /\ m_i8_1 = 0 /\ m_crc1 = 0 /\ m_crc_buffer = << >>
  /\ m_pdu = InitPdu
  /\ pdus = << >> /\ nonses = {}

Cur == stream[pos + 1]

(* on_char() of one state, with the next byte.                             *)
OnChar(state) ==
  /\ m_p_current_state = state
  /\ pos < Len(stream)
  /\ pos' = pos + 1
  /\ UNCHANGED stream

PutInBuffer == m_crc_buffer' = Append(m_crc_buffer, Cur)

SwitchState(state) ==
  /\ m_p_current_state' = state
  /\ IF state = "init" THEN m_crc_buffer' = << >> ELSE UNCHANGED m_crc_buffer

InitSkip ==
  /\ OnChar("init") /\ Cur # Address
  /\ UNCHANGED <<m_p_current_state, wb, values, m_crc_buffer, m_pdu, calls>>

InitMatch ==
  /\ OnChar("init") /\ Cur = Address
  /\ PutInBuffer
  /\ m_p_current_state' = "fc"
  /\ UNCHANGED <<wb, values, m_pdu, calls>>

Function ==
  /\ OnChar("fc") /\ Cur \in ValidFc
  /\ m_fc' = Cur
  /\ PutInBuffer
  /\ m_p_current_state' = "i16" /\ wb' = 1
  /\ UNCHANGED <<m_index, word, m_i8_1, m_crc1, m_pdu, calls>>

(* Unlike in the coroutine scanner nobody is told.                         *)
InvalidFunction ==
  /\ OnChar("fc") /\ Cur \notin ValidFc
  /\ SwitchState("init")
  /\ UNCHANGED <<wb, values, m_pdu, calls>>

Word ==
  /\ OnChar("i16")
  /\ word' = [word EXCEPT ![wb] = Cur]
  /\ PutInBuffer
  /\ IF wb < WordBytes(m_fc)
       THEN wb' = wb + 1 /\ UNCHANGED m_p_current_state
       ELSE /\ m_p_current_state' = IF HasData(m_fc) THEN "i8_1" ELSE "checksum_1"
            /\ UNCHANGED wb
  /\ UNCHANGED <<m_index, m_fc, m_i8_1, m_crc1, m_pdu, calls>>

ByteCount ==
  /\ OnChar("i8_1")
  /\ m_i8_1' = Cur
  /\ PutInBuffer
  /\ m_pdu' = [m_pdu EXCEPT !.m_data = << >>]
  /\ m_p_current_state' = "data"
  /\ UNCHANGED <<wb, m_index, word, m_fc, m_crc1, calls>>

(* data_state always consumes a byte: with a byte count of 0 it is the     *)
(* first byte of the CRC, which is stored nowhere.                         *)
Data_KeepIndex ==
  LET more == m_index < m_i8_1
      next == IF more THEN m_index + 1 ELSE m_index
  IN  /\ OnChar("data")
      /\ IF more THEN PutInBuffer /\ m_pdu' = [m_pdu EXCEPT !.m_data = Append(@, Cur)]
                 ELSE UNCHANGED <<m_crc_buffer, m_pdu>>
      /\ m_index' = next
      /\ m_p_current_state' = IF next = m_i8_1 THEN "checksum_1" ELSE "data"
      /\ UNCHANGED <<wb, word, m_fc, m_i8_1, m_crc1, calls>>

Data ==
  LET more == m_index < m_i8_1
      next == IF more THEN m_index + 1 ELSE m_index
  IN  /\ OnChar("data")
      /\ IF more THEN PutInBuffer /\ m_pdu' = [m_pdu EXCEPT !.m_data = Append(@, Cur)]
                 ELSE UNCHANGED <<m_crc_buffer, m_pdu>>
      /\ IF next = m_i8_1
           THEN m_index' = 0 /\ m_p_current_state' = "checksum_1"
           ELSE m_index' = next /\ m_p_current_state' = "data"
      /\ UNCHANGED <<wb, word, m_fc, m_i8_1, m_crc1, calls>>

Checksum1 ==
  /\ OnChar("checksum_1")
  /\ m_crc1' = Cur
  /\ m_p_current_state' = "checksum_2"
  /\ UNCHANGED <<wb, m_index, word, m_fc, m_i8_1, m_crc_buffer, m_pdu, calls>>

(* Where the bytes of the frame in hand start.                             *)
FrameStart ==
  pos - Len(m_crc_buffer) - (IF m_p_current_state = "checksum_2" THEN 1 ELSE 0)

FinishedPdu_NoFourth ==
  [m_pdu EXCEPT !.m_i16[1] = combine(word[1], word[2]),
                !.m_i16[2] = combine(word[3], word[4]),
                !.m_i16[3] = combine(word[5], word[6]),
                !.m_i16[4] = combine(word[5], word[6]),
                !.m_i8_1 = m_i8_1, !.m_fc = m_fc]

FinishedPdu_NoFc ==
  [m_pdu EXCEPT !.m_i16 = [k \in 1..4 |-> combine(word[2 * k - 1], word[2 * k])],
                !.m_i8_1 = m_i8_1]

FinishedPdu ==
  [m_pdu EXCEPT !.m_i16 = [k \in 1..4 |-> combine(word[2 * k - 1], word[2 * k])],
                !.m_i8_1 = m_i8_1, !.m_fc = m_fc]

(* checksum_2_state and process_pdu().                                     *)
PduOk ==
  /\ OnChar("checksum_2") /\ CheckCrc(m_crc_buffer, m_crc1, Cur)
  /\ m_pdu' = FinishedPdu
  /\ pdus' = Append(pdus, [from |-> FrameStart, to |-> pos + 1,
                           request |-> Request(FinishedPdu)])
  /\ SwitchState("init")
  /\ UNCHANGED <<wb, values, nonses>>

CrcWrong_KeepBuffer ==
  /\ OnChar("checksum_2") /\ ~CheckCrc(m_crc_buffer, m_crc1, Cur)
  /\ nonses' = nonses \cup {[from |-> FrameStart, to |-> pos + 1]}
  /\ m_p_current_state' = "init"
  /\ UNCHANGED <<wb, values, m_crc_buffer, m_pdu, pdus>>

CrcWrong ==
  /\ OnChar("checksum_2") /\ ~CheckCrc(m_crc_buffer, m_crc1, Cur)
  /\ nonses' = nonses \cup {[from |-> FrameStart, to |-> pos + 1]}
  /\ SwitchState("init")
  /\ UNCHANGED <<wb, values, m_pdu, pdus>>

Next == \/ InitSkip \/ InitMatch
        \/ Function \/ InvalidFunction
        \/ Word \/ ByteCount \/ Data
        \/ Checksum1 \/ PduOk \/ CrcWrong

Spec == Init /\ [][Next]_vars

-------------------------------------------------------------------------------
(* Properties.                                                             *)

(* The ranges of the state objects' members: m_index and m_i8_1 stay       *)
(* bytes, and a delivered request has no unwritten field.                  *)
TypeOK ==
  /\ stream \in Streams /\ pos \in 0 .. Len(stream)
  /\ m_p_current_state \in States /\ wb \in 1..8
  /\ m_index \in Byte /\ word \in [1..8 -> Byte]
  /\ m_fc \in ValidFc \cup {0} /\ m_i8_1 \in Byte /\ m_crc1 \in Byte
  /\ m_crc_buffer \in Seq(Byte)
  /\ m_pdu \in PduType
  /\ pdus \in Seq([from : Nat, to : Nat, request : RequestType])
  /\ nonses \in SUBSET [from : Nat, to : Nat]

(* What m_pdu_cb is called with is a request that is on the line, byte for *)
(* byte: m_index, the words and m_pdu survive from frame to frame and past *)
(* frames with a wrong CRC.                                                *)
PdusAreFrames ==
  \A i \in 1 .. Len(pdus) :
    /\ IsFrame(stream, pdus[i].from, pdus[i].to)
    /\ pdus[i].request = FrameRequest(stream, pdus[i].from)

(* The two scanners make the same promise.                                 *)
Promised == INSTANCE PduStream WITH
              pos <- IF m_p_current_state = "init" THEN pos ELSE FrameStart,
              Decode <- FrameRequest

(* Every step of the scanner is a delivery or a discard of PduStream.      *)
Promise == Promised!Spec

(* At the end of the stream the callbacks are those of a byte-at-a-time    *)
(* reader: this scanner is the one whose result never depends on portions. *)
ReadsByteWise == pos = Len(stream) => pdus = ByteWise(stream)

-------------------------------------------------------------------------------
(* The inductive invariant behind the proofs.  After a byte count of 0     *)
(* data_state takes the first byte of the CRC for data and stores it       *)
(* nowhere: from then on the buffer is no longer a part of the stream, and *)
(* only the types are certain.                                             *)

Positioned ==
  /\ FrameStart \in Nat
  /\ m_p_current_state = "init" => m_crc_buffer = << >>
  /\ m_p_current_state \notin {"init", "fc"} => m_fc \in ValidFc

(* The first n bytes of s hold the byte count 0 of what may be a request.  *)
EmptyIn(s, n) ==
  \E p \in 0 .. n :
    /\ p + 2 <= n
    /\ s[p + 1] = Address /\ HasData(s[p + 2])
    /\ p + 3 + WordBytes(s[p + 2]) <= n
    /\ s[p + 3 + WordBytes(s[p + 2])] = 0

(* One has been read.                                                      *)
MetEmpty == EmptyIn(stream, pos)

WordsRead == IF m_p_current_state \in {"init", "fc"} THEN 0
             ELSE IF m_p_current_state = "i16" THEN wb - 1
             ELSE WordBytes(m_fc)

(* The byte count is known.                                                *)
Counted == \/ m_p_current_state = "data"
           \/ m_p_current_state \in {"checksum_1", "checksum_2"} /\ HasData(m_fc)

(* m_crc_buffer is the part of the stream since FrameStart, and as long as *)
(* the state says.                                                         *)
Buffered ==
  /\ \A k \in 1 .. Len(m_crc_buffer) : m_crc_buffer[k] = stream[FrameStart + k]
  /\ m_p_current_state = "fc" => Len(m_crc_buffer) = 1
  /\ m_p_current_state \notin {"init", "fc"} /\ ~Counted =>
       Len(m_crc_buffer) = 2 + WordsRead
  /\ Counted => Len(m_crc_buffer) = 3 + WordsRead + Len(m_pdu.m_data)
  /\ m_p_current_state # "init" => m_crc_buffer[1] = Address
  /\ m_p_current_state \notin {"init", "fc"} => m_fc = m_crc_buffer[2]
  /\ m_p_current_state = "checksum_2" => m_crc1 = stream[pos]

(* The members of the state objects and m_pdu repeat what it holds.        *)
Stored ==
  /\ m_p_current_state = "i16" => wb <= WordBytes(m_fc)
  /\ m_p_current_state \in {"i8_1", "data"} => HasData(m_fc)
  /\ \A k \in 1 .. WordsRead : word[k] = m_crc_buffer[2 + k]
  /\ Counted =>
       /\ m_i8_1 = m_crc_buffer[3 + WordsRead]
       /\ \A k \in 1 .. Len(m_pdu.m_data) :
            m_pdu.m_data[k] = m_crc_buffer[3 + WordsRead + k]
       /\ m_p_current_state # "data" => Len(m_pdu.m_data) = m_i8_1
  /\ IF m_p_current_state = "data"
       THEN m_index = Len(m_pdu.m_data) /\ m_index < m_i8_1
       ELSE m_index = 0

Sound == Buffered /\ Stored /\ PdusAreFrames

IInv == TypeOK /\ Positioned /\ (MetEmpty \/ Sound)
===============================================================================
