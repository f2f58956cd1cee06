------------------------------ MODULE TcpScanner ------------------------------
(***************************************************************************)
(* slave_tcp_scanner_c: the Modbus TCP slave scanner, one coroutine        *)
(* (slave_tcp_scanner.cpp), fed like the RTU one in portions.  There is no *)
(* CRC and no resynchronisation: the scanner knows where a message starts  *)
(* only because it knows where the previous one ended.  An action is one   *)
(* byte of the parse.  Unlike the RTU scanner this one delivers a request  *)
(* while it still stands on its last byte, and a byte count of 0 leads to  *)
(* the delivery with the next byte already under m_ix.                     *)
(***************************************************************************)
EXTENDS TcpMessages, FiniteSets

CONSTANTS Streams,    \* byte streams a connection may carry
          MaxPortion  \* the largest portion: BUF_SIZE in defs.h

ASSUME AddressAssumption == Address \in Byte
ASSUME StreamsAssumption == Streams \subseteq Seq(Byte)
ASSUME PortionAssumption == MaxPortion \in Nat

VARIABLES
  stream,       \* the bytes of the connection
  lo,           \* where the current portion (m_p_input) starts in stream
  actual_size,  \* m_p_input->actual_size()
  m_ix,         \* next byte of the portion
  pc,           \* the state the coroutine is in
  m_coro,       \* "running", or "in_sink": suspended, scan() has returned
  hb,           \* which of the six bytes before the unit id comes next
  wb,           \* which byte of the i16 words comes next
  word,         \* i16_1_hi, i16_1_lo, .. i16_4_lo
  ix,           \* data bytes read
  fc,
  m_transact_id,  \* m_pdu.m_transact_id_1 and _2
  m_pdu,        \* the rest of m_pdu
  start,        \* history: where the message in hand starts
  pdus,         \* history: what m_pdu_cb was called with
  nonses,       \* history: what each call of m_nonse_cb gave up
  foreign       \* history: what was given up because of a unit id

line   == <<stream>>
input  == <<lo, actual_size>>
locals == <<hb, wb, word, ix, fc>>
record == <<m_transact_id, m_pdu>>
calls  == <<pdus, nonses, foreign>>
vars   == <<stream, lo, actual_size, m_ix, pc, m_coro, hb, wb, word, ix, fc,
            m_transact_id, m_pdu, start, pdus, nonses, foreign>>

States == {"header", "unit_id", "function", "i16", "i8_1", "data", "whole_pdu"}

-------------------------------------------------------------------------------
Init ==
  /\ stream \in Streams
  /\ lo = 0 /\ actual_size = 0 /\ m_ix = 0
  /\ pc = "header" /\ m_coro = "in_sink"
  /\ hb = 1 /\ wb = 1 /\ word = [k \in 1..8 |-> 0] /\ ix = 0 /\ fc = 0
  /\ m_transact_id = <<Undef, Undef>> /\ m_pdu = InitPdu
  /\ start = 0 /\ pdus = << >> /\ nonses = {} /\ foreign = {}

Cur == stream[lo + m_ix + 1]

Scan ==
  /\ m_coro = "in_sink"
  /\ \E n \in 1..MaxPortion :
       /\ lo + actual_size + n <= Len(stream)
       /\ actual_size' = n
  /\ lo' = lo + actual_size
  /\ m_ix' = 0
  /\ m_coro' = "running"
  /\ UNCHANGED <<line, pc, locals, record, start, calls>>

CheckBufEnd_Late ==
  /\ m_ix' = m_ix + 1
  /\ m_coro' = IF m_ix + 1 > actual_size THEN "in_sink" ELSE "running"

CheckBufEnd ==
  /\ m_ix' = m_ix + 1
  /\ m_coro' = IF m_ix + 1 = actual_size THEN "in_sink" ELSE "running"

At(state) == m_coro = "running" /\ pc = state

(* transact_id_state, protocol_id_state and length_state.  The protocol id *)
(* is skipped; the length is computed and never used.                      *)
HeaderByte_StaleId ==
  /\ At("header")
  /\ m_transact_id' = IF start = 0 /\ hb \in {1, 2}
                        THEN [m_transact_id EXCEPT ![hb] = Cur] ELSE m_transact_id
  /\ IF hb < 6 THEN hb' = hb + 1 /\ pc' = "header" ELSE hb' = 1 /\ pc' = "unit_id"
  /\ CheckBufEnd
  /\ UNCHANGED <<line, input, wb, word, ix, fc, m_pdu, start, calls>>

HeaderByte_Forgets ==
  /\ At("header")
  /\ m_transact_id' = IF hb \in {1, 2} THEN [m_transact_id EXCEPT ![hb] = Cur]
                                       ELSE m_transact_id
  /\ IF hb < 6 THEN hb' = (IF m_ix + 1 < actual_size THEN hb + 1 ELSE 1) /\ pc' = "header"
     ELSE hb' = 1 /\ pc' = "unit_id"
  /\ CheckBufEnd
  /\ UNCHANGED <<line, input, wb, word, ix, fc, m_pdu, start, calls>>

HeaderByte ==
  /\ At("header")
  /\ m_transact_id' = IF hb \in {1, 2} THEN [m_transact_id EXCEPT ![hb] = Cur]
                                       ELSE m_transact_id
  /\ IF hb < 6 THEN hb' = hb + 1 /\ pc' = "header" ELSE hb' = 1 /\ pc' = "unit_id"
  /\ CheckBufEnd
  /\ UNCHANGED <<line, input, wb, word, ix, fc, m_pdu, start, calls>>

UnitMatch ==
  /\ At("unit_id") /\ Cur = Address
  /\ pc' = "function"
  /\ CheckBufEnd
  /\ UNCHANGED <<line, input, locals, record, start, calls>>

(* goto pre_transact_state: the coroutine suspends at once; what is left   *)
(* of the portion is never looked at, what the next one starts with is     *)
(* taken for a header.                                                     *)
GotoPreTransactState ==
  /\ pc' = "header"
  /\ m_coro' = "in_sink"
  /\ start' = lo + actual_size
  /\ UNCHANGED m_ix

(* Another unit: no callback.                                              *)
UnitForeign ==
  /\ At("unit_id") /\ Cur # Address
  /\ GotoPreTransactState
  /\ foreign' = foreign \cup {[from |-> start, to |-> lo + actual_size]}
  /\ UNCHANGED <<line, input, locals, record, pdus, nonses>>

Function ==
  /\ At("function") /\ Cur \in ValidFc
  /\ fc' = Cur
  /\ wb' = 1
  /\ pc' = "i16"
  /\ CheckBufEnd
  /\ UNCHANGED <<line, input, hb, word, ix, record, start, calls>>

InvalidFunction ==
  /\ At("function") /\ Cur \notin ValidFc
  /\ GotoPreTransactState
  /\ nonses' = nonses \cup {[from |-> start, to |-> lo + actual_size]}
  /\ UNCHANGED <<line, input, locals, record, pdus, foreign>>

FinishedPdu_NoFc(pdu, words) ==
  [pdu EXCEPT !.m_i16[1] = combine(words[1], words[2]),
              !.m_i16[2] = combine(words[3], words[4])]

FinishedPdu(pdu, words) ==
  [pdu EXCEPT !.m_i16[1] = combine(words[1], words[2]),
              !.m_i16[2] = combine(words[3], words[4]),
              !.m_fc = fc]

TcpRequest(id, pdu) ==
  [ id |-> id, fc |-> pdu.m_fc, words |-> Request(pdu).words,
    count |-> Request(pdu).count, data |-> Request(pdu).data ]

(* whole_pdu: the callback, one more byte done, and on to the next header. *)
WholePdu_DropRest(pdu, words, to) ==
  /\ m_pdu' = FinishedPdu(pdu, words)
  /\ pdus' = Append(pdus, [from |-> start, to |-> to,
               request |-> TcpRequest(m_transact_id, FinishedPdu(pdu, words))])
  /\ pc' = "header"
  /\ m_coro' = "in_sink"
  /\ start' = lo + actual_size
  /\ UNCHANGED <<m_ix, nonses, foreign>>

WholePdu(pdu, words, to) ==
  /\ m_pdu' = FinishedPdu(pdu, words)
  /\ pdus' = Append(pdus, [from |-> start, to |-> to,
               request |-> TcpRequest(m_transact_id, FinishedPdu(pdu, words))])
  /\ pc' = "header"
  /\ start' = lo + m_ix + 1
  /\ CheckBufEnd
  /\ UNCHANGED <<nonses, foreign>>

(* One byte of the words; the third and fourth are stored at once.         *)
StoreWords(words) ==
  IF wb = 8 THEN [m_pdu EXCEPT !.m_i16[3] = combine(words[5], words[6]),
                               !.m_i16[4] = combine(words[7], words[8])]
            ELSE m_pdu

Word ==
  LET words == [word EXCEPT ![wb] = Cur] IN
  /\ At("i16")
  /\ word' = words
  /\ \/ /\ wb < WordBytes(fc)
        /\ wb' = wb + 1
        /\ CheckBufEnd
        /\ UNCHANGED <<pc, m_pdu, start, calls>>
     \/ /\ wb = WordBytes(fc) /\ HasData(fc)
        /\ m_pdu' = StoreWords(words)
        /\ pc' = "i8_1"
        /\ CheckBufEnd
        /\ UNCHANGED <<wb, start, calls>>
     \/ /\ wb = WordBytes(fc) /\ ~HasData(fc)
        /\ WholePdu(m_pdu, words, lo + m_ix + 1)
        /\ UNCHANGED wb
  /\ UNCHANGED <<line, input, hb, ix, fc, m_transact_id>>

(* With a count of 0 the loop is not entered: the coroutine is at whole_pdu *)
(* with m_ix one past the message, or suspended there without having       *)
(* called back.                                                            *)
ByteCount_NoClear ==
  /\ At("i8_1")
  /\ m_pdu' = [m_pdu EXCEPT !.m_i8_1 = Cur]
  /\ ix' = 0
  /\ pc' = IF Cur = 0 THEN "whole_pdu" ELSE "data"
  /\ CheckBufEnd
  /\ UNCHANGED <<line, input, hb, wb, word, fc, m_transact_id, start, calls>>

ByteCount ==
  /\ At("i8_1")
  /\ m_pdu' = [m_pdu EXCEPT !.m_data = << >>, !.m_i8_1 = Cur]
  /\ ix' = 0
  /\ pc' = IF Cur = 0 THEN "whole_pdu" ELSE "data"
  /\ CheckBufEnd
  /\ UNCHANGED <<line, input, hb, wb, word, fc, m_transact_id, start, calls>>

EmptyPdu ==
  /\ At("whole_pdu")
  /\ WholePdu(m_pdu, word, lo + m_ix)
  /\ UNCHANGED <<line, input, locals, m_transact_id>>

Data ==
  LET pdu == [m_pdu EXCEPT !.m_data = Append(@, Cur)] IN
  /\ At("data")
  /\ ix' = ix + 1
  /\ \/ /\ ix + 1 < m_pdu.m_i8_1
        /\ m_pdu' = pdu
        /\ CheckBufEnd
        /\ UNCHANGED <<pc, start, calls>>
     \/ /\ ix + 1 = m_pdu.m_i8_1
        /\ WholePdu(pdu, word, lo + m_ix + 1)
  /\ UNCHANGED <<line, input, hb, wb, word, fc, m_transact_id>>

ScanCo == \/ HeaderByte \/ UnitMatch \/ UnitForeign
          \/ Function \/ InvalidFunction
          \/ Word \/ ByteCount \/ EmptyPdu \/ Data

Next == Scan \/ ScanCo

Spec == Init /\ [][Next]_vars

(* scan() returns without blocking; that the rest of the stream arrives is *)
(* the connection's fairness.                                              *)
Fairness == WF_vars(ScanCo) /\ WF_vars(Scan)

FairSpec == Spec /\ Fairness

-------------------------------------------------------------------------------
(* Properties.                                                             *)

(* The ranges of the coroutine's locals, of m_pdu and of what the          *)
(* callbacks were given: a delivered request has no unwritten field.       *)
TypeOK ==
  /\ stream \in Streams
  /\ lo \in Nat /\ actual_size \in Nat /\ m_ix \in Nat
  /\ pc \in States /\ m_coro \in {"running", "in_sink"}
  /\ hb \in 1..6 /\ wb \in 1..8 /\ word \in [1..8 -> Byte]
  /\ ix \in Nat /\ fc \in ValidFc \cup {0}
  /\ m_transact_id \in Seq(MaybeByte) /\ m_pdu \in PduType
  /\ start \in Nat
  /\ pdus \in Seq([from : Nat, to : Nat, request : TcpRequestType])
  /\ nonses \in SUBSET [from : Nat, to : Nat]
  /\ foreign \in SUBSET [from : Nat, to : Nat]

(* The coroutine never reads a byte its portion does not have.             *)
NoReadPastEnd == m_coro = "running" => m_ix < actual_size

(* What m_pdu_cb is called with is a request that is on the connection,    *)
(* byte for byte and with its own transaction id, although the locals and  *)
(* m_pdu survive from message to message and a suspension may fall         *)
(* anywhere; this holds with byte counts of 0 and after lost messages too. *)
PdusAreMessages ==
  \A i \in 1 .. Len(pdus) :
    /\ IsMessage(stream, pdus[i].from, pdus[i].to)
    /\ pdus[i].request = MessageRequest(stream, pdus[i].from)

Covers(range, p) == range.from <= p /\ p < range.to

Handled(p, gaps) == \/ \E i \in 1 .. Len(pdus) : Covers(pdus[i], p)
                    \/ \E g \in gaps : Covers(g, p)

Begun(p) == p < start /\ \E q \in p + 1 .. Len(stream) : IsMessage(stream, p, q)

(* The byte after a request with a byte count of 0 is lost.                *)
Swallowed(p) ==
  \E i \in 1 .. Len(pdus) :
    pdus[i].to = p /\ HasData(pdus[i].request.fc) /\ pdus[i].request.count = 0

(* A request is lost only where it starts in the rest of a portion in      *)
(* which a foreign unit id or an invalid function code was met, or right   *)
(* after a request with a byte count of 0.                                 *)
LossExplained ==
  \A p \in 0 .. Len(stream) :
    Begun(p) => Handled(p, nonses \cup foreign) \/ Swallowed(p)

(* The stream of requests PduStream promises, and the one step that breaks *)
(* the promise.                                                            *)
Promised == INSTANCE PduStream WITH
              pos <- start, IsFrame <- IsMessage, Decode <- MessageRequest

(* Every step but the delivery of a request with a byte count of 0 is a    *)
(* delivery or a discard of PduStream: no request that starts where the    *)
(* scanner expects a header is passed over, whatever came before.          *)
Promise ==
  Promised!Init /\ [][pc # "whole_pdu" =>
                         Promised!Next \/ UNCHANGED Promised!vars]_vars

(* A request that starts where the scanner expects a header does not wait  *)
(* for ever, after lost messages too: once the connection has carried all  *)
(* of it, in however many portions, it is handed out, as Promise leaves no *)
(* other way to move on.  One with a byte count of 0 may wait.             *)
Waiting ==
  \E q \in 1 .. Len(stream) :
    /\ IsMessage(stream, start, q)
    /\ HasData(MessageRequest(stream, start).fc) =>
         MessageRequest(stream, start).count # 0
MessageDelivered == Waiting ~> ~Waiting

(* When a scan() returns, every request the connection has carried whole   *)
(* by then was handed out, and nothing else: however it was cut.           *)
AllDelivered ==
  m_coro = "in_sink" =>
    pdus = MessageWise(SubSeq(stream, 1, lo + actual_size))

InStep == /\ nonses = {} /\ foreign = {} /\ pc # "whole_pdu"
          /\ \A i \in 1 .. Len(pdus) : ~Swallowed(pdus[i].to)

(* The same, as long as the scanner met no foreign unit id, no invalid     *)
(* function code and no byte count of 0.                                   *)
DeliveredInStep == InStep => AllDelivered

-------------------------------------------------------------------------------
(* The inductive invariant behind the proofs: where in the message the     *)
(* coroutine stands at each of its states, and what it remembers of it.    *)

(* The portion is a window of the stream and m_ix points into it; the      *)
(* coroutine gives up the rest of a portion only between messages.         *)
Located ==
  /\ lo + actual_size <= Len(stream)
  /\ m_ix <= actual_size
  /\ m_coro = "running" => m_ix < actual_size
  /\ m_coro = "in_sink" => m_ix = actual_size \/ (pc = "header" /\ hb = 1)

(* The position of the next byte to be looked at.                          *)
ReadPos == IF m_coro = "running" THEN lo + m_ix ELSE lo + actual_size

WordsRead == IF pc \in {"header", "unit_id", "function"} THEN 0
             ELSE IF pc = "i16" THEN wb - 1
             ELSE WordBytes(fc)

(* The byte count is known.                                                *)
Counted == pc \in {"data", "whole_pdu"}

(* How many bytes of the message in hand have been read.                   *)
Progress ==
  IF pc = "header" THEN hb - 1
  ELSE IF pc = "unit_id" THEN 6
  ELSE IF pc = "function" THEN 7
  ELSE IF Counted THEN 9 + WordsRead + ix
  ELSE 8 + WordsRead

Placed ==
  /\ ReadPos = start + Progress
  /\ pc # "header" => hb = 1

(* The locals and the record repeat the bytes of the message in hand.      *)
Stored ==
  /\ Len(m_transact_id) = 2
  /\ \A k \in 1 .. 2 :
       (pc = "header" => k < hb) => m_transact_id[k] = stream[start + k]
  /\ pc \notin {"header", "unit_id"} => stream[start + Header] = Address
  /\ pc \notin {"header", "unit_id", "function"} =>
       fc = stream[start + Header + 1] /\ fc \in ValidFc
  /\ pc = "i16" => wb <= WordBytes(fc)
  /\ pc \in {"i8_1", "data", "whole_pdu"} => HasData(fc)
  /\ \A k \in 1 .. WordsRead : word[k] = stream[start + 8 + k]
  /\ WordsRead = 8 => /\ m_pdu.m_i16[3] = combine(word[5], word[6])
                      /\ m_pdu.m_i16[4] = combine(word[7], word[8])
  /\ Counted =>
       /\ m_pdu.m_i8_1 = stream[start + 9 + WordsRead]
       /\ ix = Len(m_pdu.m_data)
       /\ \A k \in 1 .. ix : m_pdu.m_data[k] = stream[start + 9 + WordsRead + k]
  /\ pc = "data" => ix < m_pdu.m_i8_1
  /\ pc = "whole_pdu" => m_pdu.m_i8_1 = 0 /\ ix = 0

IInv == TypeOK /\ Located /\ Placed /\ Stored /\ PdusAreMessages
===============================================================================
