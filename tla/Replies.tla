------------------------------- MODULE Replies --------------------------------
(***************************************************************************)
(* What rtu_server_data_handler_c does with a request and what it answers  *)
(* (reply_f1 .. reply_f23): the map of coils, the map of registers and the *)
(* bytes of the reply between function code and CRC.  When the reply goes  *)
(* out is the subject of module RtuServer.                                 *)
(*                                                                         *)
(* The arithmetic is the code's, in bytes of Bits bits: with Bits = 8 it   *)
(* is uint8_t and uint16_t, with a smaller value every wrap and carry      *)
(* comes earlier.  The requests are those whose reply fits m_output_buffer:*)
(* add() does not look at its size, so that with more than 509 registers   *)
(* or 8152 coils the code writes beyond it, and anything may follow.       *)
(***************************************************************************)
EXTENDS Integers, Sequences

CONSTANTS Bits,     \* bits in a byte
          BUF_SIZE, \* bytes in m_output_buffer
          Requests  \* the requests that on_pdu may be called with

ASSUME BitsAssumption == Bits \in Nat \ {0}

(* 1 << i *)
Mask[i \in 0 .. Bits] == IF i = 0 THEN 1 ELSE 2 * Mask[i - 1]

U8  == Mask[Bits]        \* number of values of a uint8_t
U16 == U8 * U8

(* A request as the scanners deliver it: the byte count is the number of   *)
(* data bytes, the quantities need not agree with it.                      *)
ASSUME RequestsAssumption ==
  \A r \in Requests :
    /\ r.fc \in {1, 2, 3, 4, 5, 6, 15, 16, 23}
    /\ r.a \in 0 .. U16 - 1 /\ r.q \in 0 .. U16 - 1
    /\ r.wa \in 0 .. U16 - 1 /\ r.wq \in 0 .. U16 - 1
    /\ r.data \in Seq(0 .. U8 - 1) /\ Len(r.data) < U8

(* What the calls of add() come to: address, code, what follows, CRC.      *)
(* Functions 5 and 6 call it not at all but repeat the request's 8 bytes.  *)
ReplyLength(r) ==
  IF r.fc \in {1, 2} THEN 5 + (r.q + Bits - 1) \div Bits
  ELSE IF r.fc \in {3, 4, 23} THEN 5 + 2 * r.q
  ELSE 8

ASSUME FitsAssumption ==
  BUF_SIZE \in Nat /\ \A r \in Requests : ReplyLength(r) <= BUF_SIZE

VARIABLES m_coils,  \* std::map: only the addresses used so far are keys
          m_regs,
          request,  \* history: the last request
          reply     \* history: the last reply, without address, code and CRC

vars == <<m_coils, m_regs, request, reply>>

NoRequest == [fc |-> 0]

-------------------------------------------------------------------------------
combine(hi, lo) == U8 * hi + lo
get_hi_lo(w) == << w \div U8, w % U8 >>

(* The addresses of a run of cells: ix++ on a uint16_t.                    *)
Run_NoWrap(a, n) == {a + k : k \in 0 .. n - 1}
Run(a, n) == {(a + k) % U16 : k \in 0 .. n - 1}

(* Which cell of the run that starts at a is address x.                    *)
Nth(x, a) == (x + U16 - a) % U16

(* get_coil, get_reg: a missing key reads as the default ...               *)
Coil(x) == IF x \in DOMAIN m_coils THEN m_coils[x] ELSE FALSE
Reg(x)  == IF x \in DOMAIN m_regs THEN m_regs[x] ELSE 0

(* ... and is inserted.                                                    *)
Touched(map, a, n, default) ==
  [x \in DOMAIN map \cup Run(a, n) |-> IF x \in DOMAIN map THEN map[x] ELSE default]

(* set_coil, set_reg over a run of cells.                                  *)
Stored(map, a, values) ==
  [x \in DOMAIN map \cup Run(a, Len(values)) |->
     IF Nth(x, a) < Len(values) THEN values[Nth(x, a) + 1] ELSE map[x]]

Init == /\ m_coils = << >> /\ m_regs = << >>
        /\ request = NoRequest /\ reply = << >>

(* uint8_t byte_count: the quotient is cut to a byte, then incremented.    *)
CoilBytes(q) ==
  (((q \div Bits) % U8) + (IF q % Bits > 0 THEN 1 ELSE 0)) % U8

(* byte |= aux_byte, bit after bit: byte after the first i bits, of which  *)
(* those in on are set.                                                    *)
Packing(on) ==
  LET byte[i \in 0 .. Bits] ==
        IF i = 0 THEN 0
        ELSE byte[i - 1] + (IF i - 1 \in on THEN Mask[i - 1] ELSE 0)
  IN  byte

(* The bits of the coils from a on, first coil in the lowest bit.          *)
Packed(a, q) ==
  [j \in 1 .. (q + Bits - 1) \div Bits |->
     Packing({i \in 0 .. Bits - 1 :
                /\ ((j - 1) * Bits) + i < q
                /\ Coil((a + ((j - 1) * Bits) + i) % U16)})[Bits]]

reply_f1(r) ==
  /\ r.fc \in {1, 2}
  /\ m_coils' = Touched(m_coils, r.a, r.q, FALSE)
  /\ reply' = << CoilBytes(r.q) >> \o Packed(r.a, r.q)
  /\ UNCHANGED m_regs

(* The registers of map from a on, two bytes each.                         *)
Registers(map, a, q) ==
  [j \in 1 .. 2 * q |->
     get_hi_lo(map[(a + (j - 1) \div 2) % U16])[IF j % 2 = 1 THEN 1 ELSE 2]]

(* reply_f3, of the registers a write may have left behind.                *)
ReadRegs(map, a, q) ==
  /\ m_regs' = Touched(map, a, q, 0)
  /\ reply' = << (2 * q) % U8 >> \o Registers(m_regs', a, q)

reply_f3(r) ==
  /\ r.fc \in {3, 4}
  /\ ReadRegs(m_regs, r.a, r.q)
  /\ UNCHANGED m_coils

(* mirror_pdu: the reply is the request.                                   *)
Mirror(r) == get_hi_lo(r.a) \o get_hi_lo(r.q)

reply_f5(r) ==
  /\ r.fc = 5
  /\ m_coils' = Stored(m_coils, r.a, << r.q # 0 >>)
  /\ reply' = Mirror(r)
  /\ UNCHANGED m_regs

reply_f6(r) ==
  /\ r.fc = 6
  /\ m_regs' = Stored(m_regs, r.a, << r.q >>)
  /\ reply' = Mirror(r)
  /\ UNCHANGED m_coils

(* Bit i of a byte, by its mask.                                           *)
Bit(byte, i) == (byte \div Mask[i]) % 2

OnOff(b) == IF b THEN 1 ELSE 0

MinOf(x, y) == IF x < y THEN x ELSE y

(* The first n bits of the data.                                           *)
Switches(bytes, n) ==
  [k \in 1 .. n |-> Bit(bytes[(k - 1) \div Bits + 1], (k - 1) % Bits) = 1]

(* The loop ends with the data or with the quantity, whichever is first.   *)
reply_f15_OneMore(r) ==
  /\ r.fc = 15
  /\ m_coils' = Stored(m_coils, r.a, Switches(r.data, Bits * Len(r.data)))
  /\ reply' = get_hi_lo(r.a) \o get_hi_lo(r.q)
  /\ UNCHANGED m_regs

reply_f15(r) ==
  /\ r.fc = 15
  /\ m_coils' = Stored(m_coils, r.a,
                       Switches(r.data, MinOf(Bits * Len(r.data), r.q)))
  /\ reply' = get_hi_lo(r.a) \o get_hi_lo(r.q)
  /\ UNCHANGED m_regs

(* The write loop of reply_f16 and reply_f23.  byte_ix is a uint8_t that   *)
(* takes two bytes a time: an odd byte count makes it read one byte beyond *)
(* the data, and the largest one is never reached, so that byte_ix wraps   *)
(* and only the quantity ends the loop.                                    *)
WriteCount(q, bytes) ==
  IF bytes = U8 - 1 THEN q ELSE MinOf((bytes + 1) \div 2, q)

(* data[ix], where what lies beyond the data is anything; it only matters  *)
(* for an odd byte count.                                                  *)
DataAt(data, ix, beyond) == IF ix < Len(data) THEN data[ix + 1] ELSE beyond

Beyond(data) == IF Len(data) % 2 = 1 THEN 0 .. U8 - 1 ELSE {0}

WriteRegs(a, q, data, beyond) ==
  Stored(m_regs, a,
         [k \in 1 .. WriteCount(q, Len(data)) |->
            combine(DataAt(data, (2 * k - 2) % U8, beyond),
                    DataAt(data, (2 * k - 1) % U8, beyond))])

reply_f16(r) ==
  /\ r.fc = 16
  /\ \E beyond \in Beyond(r.data) : m_regs' = WriteRegs(r.a, r.q, r.data, beyond)
  /\ reply' = get_hi_lo(r.a) \o get_hi_lo(r.q)
  /\ UNCHANGED m_coils

reply_f23_ReadFirst(r) ==
  /\ r.fc = 23
  /\ \E beyond \in Beyond(r.data) :
       m_regs' = Touched(WriteRegs(r.wa, r.wq, r.data, beyond), r.a, r.q, 0)
  /\ reply' = << (2 * r.q) % U8 >> \o Registers(Touched(m_regs, r.a, r.q, 0), r.a, r.q)
  /\ UNCHANGED m_coils

reply_f23(r) ==
  /\ r.fc = 23
  /\ \E beyond \in Beyond(r.data) :
       ReadRegs(WriteRegs(r.wa, r.wq, r.data, beyond), r.a, r.q)
  /\ UNCHANGED m_coils

on_pdu(r) ==
  /\ request' = r
  /\ \/ reply_f1(r) \/ reply_f3(r) \/ reply_f5(r) \/ reply_f6(r)
     \/ reply_f15(r) \/ reply_f16(r) \/ reply_f23(r)

Next == \E r \in Requests : on_pdu(r)

Spec == Init /\ [][Next]_vars

-------------------------------------------------------------------------------
(* Properties.                                                             *)

(* Keys are uint16_t, values bool and uint16_t.                            *)
Maps ==
  /\ DOMAIN m_coils \subseteq 0 .. U16 - 1 /\ DOMAIN m_regs \subseteq 0 .. U16 - 1
  /\ \A x \in DOMAIN m_coils : m_coils[x] \in BOOLEAN
  /\ \A x \in DOMAIN m_regs : m_regs[x] \in 0 .. U16 - 1

(* And every byte of a reply is a uint8_t, and has a place in the buffer.  *)
TypeOK ==
  /\ Maps
  /\ request \in Requests \cup {NoRequest}
  /\ \A i \in 1 .. Len(reply) : reply[i] \in 0 .. U8 - 1
  /\ reply # << >> => Len(reply) + 4 <= BUF_SIZE

IsRead == request.fc \in {1, 2, 3, 4, 23}

(* The answer as a master reads it: it trusts the byte count, and what     *)
(* does not add up is no answer.                                           *)
Malformed == << -1 >>

Answer ==
  IF reply = << >> THEN << >>
  ELSE IF ~IsRead
    THEN << combine(reply[1], reply[2]),
            IF request.fc \in {5, 6} THEN 1 ELSE combine(reply[3], reply[4]) >>
  ELSE IF reply[1] # Len(reply) - 1 THEN Malformed
  ELSE IF request.fc \in {1, 2}
    THEN IF reply[1] # (request.q + Bits - 1) \div Bits THEN Malformed
         ELSE [k \in 1 .. request.q |->
                 Bit(reply[2 + (k - 1) \div Bits], (k - 1) % Bits)]
  ELSE IF reply[1] # 2 * request.q THEN Malformed
       ELSE [k \in 1 .. request.q |-> combine(reply[2 * k], reply[2 * k + 1])]

(* A request whose quantities agree with its byte count, and whose reply   *)
(* can say how long it is.                                                 *)
Proper(r) ==
  /\ r.fc \in {1, 2} => (r.q + Bits - 1) \div Bits < U8
  /\ r.fc \in {3, 4, 23} => 2 * r.q < U8
  /\ r.fc = 15 => Len(r.data) = (r.q + Bits - 1) \div Bits
  /\ r.fc = 16 => Len(r.data) = 2 * r.q
  /\ r.fc = 23 => Len(r.data) = 2 * r.wq

(* The cells a request may change.                                         *)
Coils(r) == IF r.fc = 5 THEN {r.a} ELSE IF r.fc = 15 THEN Run(r.a, r.q) ELSE {}
Regs(r)  == IF r.fc = 6 THEN {r.a}
            ELSE IF r.fc = 16 THEN Run(r.a, r.q)
            ELSE IF r.fc = 23 THEN Run(r.wa, r.wq) ELSE {}

(* Whatever the quantities and the byte count say, no cell outside the run *)
(* a write addresses changes its value, a read changes none, and inserting *)
(* missing keys goes unnoticed.                                            *)
OthersKept ==
  [][ /\ \A x \in (DOMAIN m_coils \cup DOMAIN m_coils') \ Coils(request') :
           Coil(x)' = Coil(x)
      /\ \A x \in (DOMAIN m_regs \cup DOMAIN m_regs') \ Regs(request') :
           Reg(x)' = Reg(x) ]_vars

(* The request without its encoding.                                       *)
Bools(r) == [k \in 1 .. r.q |-> Bit(r.data[(k - 1) \div Bits + 1], (k - 1) % Bits)]
Values(r, n) == [k \in 1 .. n |-> combine(r.data[2 * k - 1], r.data[2 * k])]

Meaning(r) ==
  [ op     |-> IF r.fc \in {1, 2} THEN "read coils"
               ELSE IF r.fc \in {3, 4} THEN "read regs"
               ELSE IF r.fc \in {5, 15} THEN "write coils"
               ELSE IF r.fc \in {6, 16} THEN "write regs"
               ELSE "write and read regs",
    at     |-> r.a,
    n      |-> r.q,
    to     |-> IF r.fc = 23 THEN r.wa ELSE r.a,
    values |-> IF r.fc = 5 THEN << OnOff(r.q # 0) >>
               ELSE IF r.fc = 6 THEN << r.q >>
               ELSE IF r.fc = 15 THEN Bools(r)
               ELSE IF r.fc = 16 THEN Values(r, r.q)
               ELSE IF r.fc = 23 THEN Values(r, r.wq)
               ELSE << >> ]

(* The bank of coils and registers that the maps and replies stand for.    *)
Bank == INSTANCE RegisterBank WITH
          Space    <- U16,
          Requests <- {Meaning(r) : r \in {s \in Requests : Proper(s)}},
          coils    <- [x \in 0 .. U16 - 1 |-> OnOff(Coil(x))],
          regs     <- [x \in 0 .. U16 - 1 |-> Reg(x)],
          answer   <- Answer

(* Every proper request is one read or write of RegisterBank, with the     *)
(* answer the bank gives, also after requests that were not proper.        *)
IsBank == Bank!Init /\ [][Proper(request') => Bank!Next]_vars
===============================================================================
