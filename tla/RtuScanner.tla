------------------------------ MODULE RtuScanner ------------------------------
(***************************************************************************)
(* slave_rtu_scanner_c: the Modbus RTU slave scanner written as one        *)
(* coroutine (slave_rtu_scanner.cpp).  The caller cuts the byte stream of  *)
(* the line into portions; every scan() resumes the coroutine, which       *)
(* consumes its portion byte by byte and suspends in sink() when it has    *)
(* no more use for it.  An action is one byte of the parse, from one       *)
(* check_buf_end to the next; the statements between a sink() and the next *)
(* read of a byte touch only coroutine locals and belong to the action     *)
(* before the sink().                                                      *)
(***************************************************************************)
EXTENDS RtuFrames, FiniteSets

CONSTANTS Streams,    \* byte streams the line may carry
          MaxPortion  \* the largest portion: BUF_SIZE in defs.h

ASSUME AddressAssumption == Address \in Byte
ASSUME StreamsAssumption == Streams \subseteq Seq(Byte)
ASSUME PortionAssumption == MaxPortion \in Nat

VARIABLES
  stream,       \* the bytes on the line
  lo,           \* where the current portion (m_p_input) starts in stream
  actual_size,  \* m_p_input->actual_size()
  m_ix,         \* next byte of the portion
  pc,           \* the state the coroutine is in
  m_coro,       \* "running", or "in_sink": suspended, scan() has returned
  wb,           \* which byte of the i16 words comes next
  word,         \* i16_1_hi, i16_1_lo, .. i16_4_lo
  ix,           \* data bytes read
  fc,
  crc_buf,
  crc_hi,
  m_pdu,
  pdus,         \* history: what m_pdu_cb was called with
  nonses        \* history: what each call of m_nonse_cb gave up

line   == <<stream>>
input  == <<lo, actual_size>>
locals == <<wb, word, ix, fc, crc_hi>>
calls  == <<pdus, nonses>>
vars   == <<stream, lo, actual_size, m_ix, pc, m_coro, wb, word, ix, fc,
            crc_buf, crc_hi, m_pdu, pdus, nonses>>

States == {"address", "function", "i16", "i8_1", "data", "crc_hi", "crc_low"}

-------------------------------------------------------------------------------
(* The coroutine's steps.                                                  *)

Init ==
  /\ stream \in Streams
  /\ lo = 0 /\ actual_size = 0 /\ m_ix = 0
  /\ pc = "address" /\ m_coro = "in_sink"
  /\ wb = 1 /\ word = [k \in 1..8 |-> 0]
  /\ ix = 0 /\ fc = 0 /\ crc_buf = << >> /\ crc_hi = 0
  /\ m_pdu = InitPdu
  /\ pdus = << >> /\ nonses = {}

(* The byte being scanned: ( *m_p_input)[m_ix].                            *)
Cur == stream[lo + m_ix + 1]

(* Where the unfinished frame starts, given that the buffered bytes are    *)
(* the checked part of it.                                                 *)
FrameStart ==
  lo + m_ix - Len(crc_buf) - (IF pc = "crc_low" THEN 1 ELSE 0)

(* The caller hands over the next portion: it does not wait for a frame to *)
(* end, and never passes an empty one.                                     *)
Scan ==
  /\ m_coro = "in_sink"
  /\ \E n \in 1..MaxPortion :
       /\ lo + actual_size + n <= Len(stream)
       /\ actual_size' = n
  /\ lo' = lo + actual_size
  /\ m_ix' = 0
  /\ m_coro' = "running"
  /\ UNCHANGED <<line, pc, locals, crc_buf, m_pdu, calls>>

CheckBufEnd_Late ==
  /\ m_ix' = m_ix + 1
  /\ m_coro' = IF m_ix + 1 > actual_size THEN "in_sink" ELSE "running"

CheckBufEnd ==
  /\ m_ix' = m_ix + 1
  /\ m_coro' = IF m_ix + 1 = actual_size THEN "in_sink" ELSE "running"

At(state) == m_coro = "running" /\ pc = state

(* The while loop of address_state; at the end of the portion it falls     *)
(* back to initial_state and suspends there.                               *)
AddressSkip ==
  /\ At("address") /\ Cur # Address
  /\ CheckBufEnd
  /\ crc_buf' = << >>
  /\ UNCHANGED <<line, input, pc, locals, m_pdu, calls>>

AddressMatch_Forgets ==
  /\ At("address") /\ Cur = Address
  /\ IF m_ix + 1 = actual_size
       THEN UNCHANGED <<crc_buf, pc>>
       ELSE crc_buf' = Append(crc_buf, Cur) /\ pc' = "function"
  /\ CheckBufEnd
  /\ UNCHANGED <<line, input, locals, m_pdu, calls>>

AddressMatch ==
  /\ At("address") /\ Cur = Address
  /\ crc_buf' = Append(crc_buf, Cur)
  /\ pc' = "function"
  /\ CheckBufEnd
  /\ UNCHANGED <<line, input, locals, m_pdu, calls>>

Function ==
  /\ At("function") /\ Cur \in ValidFc
  /\ crc_buf' = Append(crc_buf, Cur)
  /\ fc' = Cur
  /\ wb' = 1
  /\ pc' = "i16"
  /\ CheckBufEnd
  /\ UNCHANGED <<line, input, word, ix, crc_hi, m_pdu, calls>>

(* goto initial_state: the coroutine suspends at once, so scan() returns   *)
(* and what is left of the portion is never looked at.                     *)
GotoInitialState_Quiet ==
  /\ crc_buf' = << >>
  /\ pc' = "address"
  /\ m_coro' = "in_sink"
  /\ UNCHANGED <<m_ix, calls>>

GotoInitialState ==
  /\ nonses' = nonses \cup {[from |-> FrameStart, to |-> lo + actual_size]}
  /\ crc_buf' = << >>
  /\ pc' = "address"
  /\ m_coro' = "in_sink"
  /\ UNCHANGED <<m_ix, pdus>>

InvalidFunction ==
  /\ At("function") /\ Cur \notin ValidFc
  /\ GotoInitialState
  /\ UNCHANGED <<line, input, locals, m_pdu>>

(* One byte of the words.  The last one of a function 23 request also      *)
(* stores the third and fourth word, before the CRC is known.              *)
StoreWords_SwappedWords ==
  IF wb = 8 THEN [m_pdu EXCEPT !.m_i16[4] = combine(word[5], word[6]),
                               !.m_i16[3] = combine(word[7], Cur)]
            ELSE m_pdu

StoreWords ==
  IF wb = 8 THEN [m_pdu EXCEPT !.m_i16[3] = combine(word[5], word[6]),
                               !.m_i16[4] = combine(word[7], Cur)]
            ELSE m_pdu

Word ==
  /\ At("i16")
  /\ crc_buf' = Append(crc_buf, Cur)
  /\ word' = [word EXCEPT ![wb] = Cur]
  /\ m_pdu' = StoreWords
  /\ IF wb < WordBytes(fc)
       THEN wb' = wb + 1 /\ pc' = "i16"
       ELSE wb' = wb /\ pc' = IF HasData(fc) THEN "i8_1" ELSE "crc_hi"
  /\ CheckBufEnd
  /\ UNCHANGED <<line, input, ix, fc, crc_hi, calls>>

ByteCount_NoClear ==
  /\ At("i8_1")
  /\ crc_buf' = Append(crc_buf, Cur)
  /\ m_pdu' = [m_pdu EXCEPT !.m_i8_1 = Cur]
  /\ ix' = 0
  /\ pc' = IF Cur = 0 THEN "crc_hi" ELSE "data"
  /\ CheckBufEnd
  /\ UNCHANGED <<line, input, wb, word, fc, crc_hi, calls>>

ByteCount ==
  /\ At("i8_1")
  /\ crc_buf' = Append(crc_buf, Cur)
  /\ m_pdu' = [m_pdu EXCEPT !.m_data = << >>, !.m_i8_1 = Cur]
  /\ ix' = 0
  /\ pc' = IF Cur = 0 THEN "crc_hi" ELSE "data"
  /\ CheckBufEnd
  /\ UNCHANGED <<line, input, wb, word, fc, crc_hi, calls>>

Data_OneMore ==
  /\ At("data")
  /\ crc_buf' = Append(crc_buf, Cur)
  /\ m_pdu' = [m_pdu EXCEPT !.m_data = Append(@, Cur)]
  /\ ix' = ix + 1
  /\ pc' = IF ix + 1 <= m_pdu.m_i8_1 THEN "data" ELSE "crc_hi"
  /\ CheckBufEnd
  /\ UNCHANGED <<line, input, wb, word, fc, crc_hi, calls>>

Data ==
  /\ At("data")
  /\ crc_buf' = Append(crc_buf, Cur)
  /\ m_pdu' = [m_pdu EXCEPT !.m_data = Append(@, Cur)]
  /\ ix' = ix + 1
  /\ pc' = IF ix + 1 < m_pdu.m_i8_1 THEN "data" ELSE "crc_hi"
  /\ CheckBufEnd
  /\ UNCHANGED <<line, input, wb, word, fc, crc_hi, calls>>

CrcHi ==
  /\ At("crc_hi")
  /\ crc_hi' = Cur
  /\ pc' = "crc_low"
  /\ CheckBufEnd
  /\ UNCHANGED <<line, input, wb, word, ix, fc, crc_buf, m_pdu, calls>>

FinishedPdu_NoFc ==
  [m_pdu EXCEPT !.m_i16[1] = combine(word[1], word[2]),
                !.m_i16[2] = combine(word[3], word[4])]

FinishedPdu ==
  [m_pdu EXCEPT !.m_i16[1] = combine(word[1], word[2]),
                !.m_i16[2] = combine(word[3], word[4]),
                !.m_fc = fc]

PduOk_NoAdvance ==
  /\ At("crc_low") /\ CheckCrc(crc_buf, crc_hi, Cur)
  /\ m_pdu' = FinishedPdu
  /\ pdus' = Append(pdus, [from |-> FrameStart, to |-> lo + m_ix + 1,
                           request |-> Request(FinishedPdu)])
  /\ crc_buf' = << >>
  /\ pc' = "address"
  /\ UNCHANGED <<line, input, m_ix, m_coro, locals, nonses>>

PduOk_DropRest ==
  /\ At("crc_low") /\ CheckCrc(crc_buf, crc_hi, Cur)
  /\ m_pdu' = FinishedPdu
  /\ pdus' = Append(pdus, [from |-> FrameStart, to |-> lo + m_ix + 1,
                           request |-> Request(FinishedPdu)])
  /\ crc_buf' = << >>
  /\ pc' = "address"
  /\ m_coro' = "in_sink"
  /\ UNCHANGED <<line, input, m_ix, locals, nonses>>

(* The callback, and straight on to the next frame of the same portion.    *)
PduOk ==
  /\ At("crc_low") /\ CheckCrc(crc_buf, crc_hi, Cur)
  /\ m_pdu' = FinishedPdu
  /\ pdus' = Append(pdus, [from |-> FrameStart, to |-> lo + m_ix + 1,
                           request |-> Request(FinishedPdu)])
  /\ crc_buf' = << >>
  /\ pc' = "address"
  /\ CheckBufEnd
  /\ UNCHANGED <<line, input, locals, nonses>>

CrcWrong ==
  /\ At("crc_low") /\ ~CheckCrc(crc_buf, crc_hi, Cur)
  /\ GotoInitialState
  /\ UNCHANGED <<line, input, locals, m_pdu>>

(* Everything one scan() does after it has resumed the coroutine.          *)
ScanCo == \/ AddressSkip \/ AddressMatch
          \/ Function \/ InvalidFunction
          \/ Word \/ ByteCount \/ Data
          \/ CrcHi \/ PduOk \/ CrcWrong

Next == Scan \/ ScanCo

Spec == Init /\ [][Next]_vars

(* scan() runs on the caller's thread without blocking until it returns;   *)
(* that the rest of the stream arrives is the line's fairness.             *)
Fairness == WF_vars(ScanCo) /\ WF_vars(Scan)

FairSpec == Spec /\ Fairness

-------------------------------------------------------------------------------
(* Properties.                                                             *)

(* The ranges of the coroutine's locals, of m_pdu and of what the          *)
(* callbacks were given: fields of m_pdu may be unwritten, those of a      *)
(* delivered request never are.                                            *)
TypeOK ==
  /\ stream \in Streams
  /\ lo \in Nat /\ actual_size \in Nat /\ m_ix \in Nat
  /\ pc \in States /\ m_coro \in {"running", "in_sink"}
  /\ wb \in 1..8 /\ word \in [1..8 -> Byte]
  /\ ix \in Nat /\ fc \in ValidFc \cup {0}
  /\ crc_buf \in Seq(Byte) /\ crc_hi \in Byte
  /\ m_pdu \in PduType
  /\ pdus \in Seq([from : Nat, to : Nat, request : RequestType])
  /\ nonses \in SUBSET [from : Nat, to : Nat]

(* Every byte before this position is settled: it belongs to a request     *)
(* that was handed out, or it will never be part of one.                   *)
Settled == IF pc = "address" /\ m_coro = "in_sink"
             THEN lo + actual_size
             ELSE FrameStart

(* The coroutine never reads a byte its portion does not have (the buffer  *)
(* beyond actual_size() holds the bytes of earlier portions), and it never *)
(* forgets to return: check_buf_end follows every byte it consumes.        *)
NoReadPastEnd == m_coro = "running" => m_ix < actual_size

(* What m_pdu_cb is called with is a request that really is on the line,   *)
(* byte for byte, however the stream was cut into portions: words, byte    *)
(* count and data come from this frame although the locals, m_pdu and      *)
(* crc_buf all survive from frame to frame.                                *)
PdusAreFrames ==
  \A i \in 1 .. Len(pdus) :
    /\ IsFrame(stream, pdus[i].from, pdus[i].to)
    /\ pdus[i].request = FrameRequest(stream, pdus[i].from)

(* Requests are handed out in the order of the stream, and no byte of the  *)
(* line is used for two of them.                                           *)
PdusInOrder ==
  /\ \A i, j \in 1 .. Len(pdus) : i < j => pdus[i].to <= pdus[j].from
  /\ \A i \in 1 .. Len(pdus) : pdus[i].to <= Settled

Covers(range, p) == range.from <= p /\ p < range.to

(* No request is lost silently: wherever a request for this slave starts   *)
(* in the settled part of the stream, it was handed out, or it starts      *)
(* inside one that was, or inside bytes the nonsense callback reported.    *)
NoSilentLoss ==
  \A p \in 0 .. Settled - 1 :
    (\E q \in 1 .. Len(stream) : IsFrame(stream, p, q)) =>
      \/ \E i \in 1 .. Len(pdus) : Covers(pdus[i], p)
      \/ \E n \in nonses : Covers(n, p)

(* The scanner keeps the promise of PduStream.                             *)
Promised == INSTANCE PduStream WITH pos <- Settled, Decode <- FrameRequest

(* Every step of the scanner is a delivery or a discard of PduStream.      *)
Promise == Promised!Spec

(* A request that starts where everything before is settled does not wait  *)
(* for ever: once the line has carried all of it, in however many          *)
(* portions, it is handed out, as Promise leaves no other way to settle it.*)
Waiting == \E q \in 1 .. Len(stream) : IsFrame(stream, Settled, q)
FrameDelivered == Waiting ~> ~Waiting

(* Up to the first nonsense, the requests handed out when a scan() returns *)
(* are those a byte-at-a-time reader finds in the bytes so far: none       *)
(* depends on where a portion ends, and none is late.                      *)
ReadsByteWise ==
  (m_coro = "in_sink" /\ nonses = {}) =>
    pdus = ByteWise(SubSeq(stream, 1, lo + actual_size))

(* "Takes stream of bytes as input and produces callbacks": what comes out *)
(* is determined by the bytes and not by where the portions end, nonsense  *)
(* or not.                                                                 *)
PortionIndependent ==
  (m_coro = "in_sink" /\ lo + actual_size = Len(stream)) => pdus = ByteWise(stream)

-------------------------------------------------------------------------------
(* The inductive invariant behind the proofs: what the coroutine remembers *)
(* at each of its states, in terms of the stream.                          *)

(* The portion is a window of the stream and m_ix points into it.          *)
Located ==
  /\ lo + actual_size <= Len(stream)
  /\ m_ix <= actual_size
  /\ m_coro = "running" => m_ix < actual_size
  /\ m_coro = "in_sink" => m_ix = actual_size \/ pc = "address"

WordsRead == IF pc \in {"address", "function"} THEN 0
             ELSE IF pc = "i16" THEN wb - 1
             ELSE WordBytes(fc)

(* The byte count is known.                                                *)
Counted == pc = "data" \/ (pc \in {"crc_hi", "crc_low"} /\ HasData(fc))

(* crc_buf is the part of the stream since FrameStart, and as long as the  *)
(* state says.                                                             *)
Buffered ==
  /\ FrameStart \in Nat
  /\ \A k \in 1 .. Len(crc_buf) : crc_buf[k] = stream[FrameStart + k]
  /\ pc = "address" => Len(crc_buf) = 0
  /\ pc = "function" => Len(crc_buf) = 1
  /\ pc \notin {"address", "function"} /\ ~Counted => Len(crc_buf) = 2 + WordsRead
  /\ Counted => Len(crc_buf) = 3 + WordsRead + Len(m_pdu.m_data)
  /\ pc # "address" => crc_buf[1] = Address
  /\ pc \notin {"address", "function"} => fc = crc_buf[2] /\ fc \in ValidFc
  /\ pc = "crc_low" => crc_hi = stream[lo + m_ix]

(* The locals and m_pdu repeat what crc_buf holds.                         *)
Stored ==
  /\ pc = "i16" => wb <= WordBytes(fc)
  /\ pc \in {"i8_1", "data"} => HasData(fc)
  /\ \A k \in 1 .. WordsRead : word[k] = crc_buf[2 + k]
  /\ WordsRead = 8 => /\ m_pdu.m_i16[3] = combine(word[5], word[6])
                      /\ m_pdu.m_i16[4] = combine(word[7], word[8])
  /\ Counted =>
       /\ m_pdu.m_i8_1 = crc_buf[3 + WordsRead]
       /\ \A k \in 1 .. Len(m_pdu.m_data) :
            m_pdu.m_data[k] = crc_buf[3 + WordsRead + k]
       /\ IF pc = "data" THEN ix = Len(m_pdu.m_data) /\ ix < m_pdu.m_i8_1
                         ELSE Len(m_pdu.m_data) = m_pdu.m_i8_1

(* All of it, with what the requests handed out so far satisfy.            *)
IInv == TypeOK /\ Located /\ Buffered /\ Stored /\ PdusAreFrames
===============================================================================
