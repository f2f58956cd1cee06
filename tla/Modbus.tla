-------------------------------- MODULE Modbus --------------------------------
(***************************************************************************)
(* What every scanner of the library shares: bytes, the function codes it  *)
(* knows, the shape of a request and the record handed to the PDU          *)
(* callback (scanner.h, scanner.cpp, defs.h).                              *)
(***************************************************************************)
EXTENDS Integers, Sequences

Byte == 0..255

(* What a field holds that nobody has written yet: no byte and no register.*)
Undef == -1

(* Two wire bytes, most significant first, as one 16-bit register. *)
combine(hi, lo) == 256 * hi + lo

(* uint16_t: 0 .. 65535 *)
Word16 == 0 .. combine(255, 255)

(* A field of either width before and after its first assignment. *)
MaybeByte   == Undef .. 255
MaybeWord16 == Undef .. combine(255, 255)

ValidFc == {1, 2, 3, 4, 5, 6, 15, 16, 23}

(* The requests that carry a byte count and data. *)
HasData(fc) == fc \in {15, 16, 23}

(* Bytes between the function code and the byte count, or the end. *)
WordBytes(fc) == IF fc = 23 THEN 8 ELSE 4

(* pdu_c: m_i16 holds m_i16_1 .. m_i16_4.  A scanner keeps one object of   *)
(* this type for its whole life, and its default initialisation leaves     *)
(* every scalar field indeterminate.                                       *)
PduType == [ m_fc   : ValidFc \cup {Undef},
             m_i16  : [1..4 -> MaybeWord16],
             m_i8_1 : MaybeByte,
             m_data : Seq(Byte) ]

InitPdu == [ m_fc |-> Undef, m_i16 |-> [k \in 1..4 |-> Undef],
             m_i8_1 |-> Undef, m_data |-> << >> ]

RequestType == [ fc : ValidFc, words : Seq(Word16), count : Byte,
                 data : Seq(Byte) ]

(* The part of the record that a handler of function code m_fc reads: the  *)
(* F<n>_REQ_ names of defs.h.  The other fields keep values of earlier     *)
(* requests.                                                               *)
Request(pdu) ==
  [ fc    |-> pdu.m_fc,
    words |-> [k \in 1 .. WordBytes(pdu.m_fc) \div 2 |-> pdu.m_i16[k]],
    count |-> IF HasData(pdu.m_fc) THEN pdu.m_i8_1 ELSE 0,
    data  |-> IF HasData(pdu.m_fc) THEN pdu.m_data ELSE << >> ]
===============================================================================
