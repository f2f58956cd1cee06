-------------------------------- MODULE Crc16 ---------------------------------
(***************************************************************************)
(* The CRC of a serial frame (crc_check.cpp): calc_crc_rtu over what is    *)
(* sent, check_crc_rtu over what is received, both byte by byte with two   *)
(* tables.  On the way the line may damage up to two neighbouring bytes,   *)
(* of the message, of the CRC after it, or the last and the first of them. *)
(* Next to them runs the definition of the code the tables are meant to    *)
(* compute: CRC-16 with the reversed polynomial A001, a bit at a time.     *)
(* The scanners and the server use the two functions as given: RtuFrames   *)
(* has any function in their place.                                        *)
(***************************************************************************)
EXTENDS Integers, Sequences

CONSTANTS MaxLength,  \* of a message
          Alphabet,   \* the bytes that may stand at each place of it
          Masks       \* what the line may do to a byte

ASSUME LengthAssumption == MaxLength \in Nat
ASSUME AlphabetAssumption == Alphabet \in [1 .. MaxLength -> SUBSET (0 .. 255)]
ASSUME MasksAssumption == Masks \subseteq 0 .. 255

VARIABLES length,    \* bytes sent
          crc,       \* crc_hi and crc_lo of calc_crc_rtu
          checked,   \* calculated_crc_hi and _lo of check_crc_rtu
          reference, \* the CRC register of the definition
          damage     \* "none", "one" byte damaged and the next may be, "over"

CrcVars == <<length, crc, checked, reference, damage>>

CRCHI == <<
     0, 193, 129,  64,   1, 192, 128,  65,   1, 192, 128,  65,   0, 193, 129,  64,
     1, 192, 128,  65,   0, 193, 129,  64,   0, 193, 129,  64,   1, 192, 128,  65,
     1, 192, 128,  65,   0, 193, 129,  64,   0, 193, 129,  64,   1, 192, 128,  65,
     0, 193, 129,  64,   1, 192, 128,  65,   1, 192, 128,  65,   0, 193, 129,  64,
     1, 192, 128,  65,   0, 193, 129,  64,   0, 193, 129,  64,   1, 192, 128,  65,
     0, 193, 129,  64,   1, 192, 128,  65,   1, 192, 128,  65,   0, 193, 129,  64,
     0, 193, 129,  64,   1, 192, 128,  65,   1, 192, 128,  65,   0, 193, 129,  64,
     1, 192, 128,  65,   0, 193, 129,  64,   0, 193, 129,  64,   1, 192, 128,  65,
     1, 192, 128,  65,   0, 193, 129,  64,   0, 193, 129,  64,   1, 192, 128,  65,
     0, 193, 129,  64,   1, 192, 128,  65,   1, 192, 128,  65,   0, 193, 129,  64,
     0, 193, 129,  64,   1, 192, 128,  65,   1, 192, 128,  65,   0, 193, 129,  64,
     1, 192, 128,  65,   0, 193, 129,  64,   0, 193, 129,  64,   1, 192, 128,  65,
     0, 193, 129,  64,   1, 192, 128,  65,   1, 192, 128,  65,   0, 193, 129,  64,
     1, 192, 128,  65,   0, 193, 129,  64,   0, 193, 129,  64,   1, 192, 128,  65,
     1, 192, 128,  65,   0, 193, 129,  64,   0, 193, 129,  64,   1, 192, 128,  65,
     0, 193, 129,  64,   1, 192, 128,  65,   1, 192, 128,  65,   0, 193, 129,  64 >>

CRCLO == <<
     0, 192, 193,   1, 195,   3,   2, 194, 198,   6,   7, 199,   5, 197, 196,   4,
   204,  12,  13, 205,  15, 207, 206,  14,  10, 202, 203,  11, 201,   9,   8, 200,
   216,  24,  25, 217,  27, 219, 218,  26,  30, 222, 223,  31, 221,  29,  28, 220,
    20, 212, 213,  21, 215,  23,  22, 214, 210,  18,  19, 211,  17, 209, 208,  16,
   240,  48,  49, 241,  51, 243, 242,  50,  54, 246, 247,  55, 245,  53,  52, 244,
    60, 252, 253,  61, 255,  63,  62, 254, 250,  58,  59, 251,  57, 249, 248,  56,
    40, 232, 233,  41, 235,  43,  42, 234, 238,  46,  47, 239,  45, 237, 236,  44,
   228,  36,  37, 229,  39, 231, 230,  38,  34, 226, 227,  35, 225,  33,  32, 224,
   160,  96,  97, 161,  99, 163, 162,  98, 102, 166, 167, 103, 165, 101, 100, 164,
   108, 172, 173, 109, 175, 111, 110, 174, 170, 106, 107, 171, 105, 169, 168, 104,
   120, 184, 185, 121, 187, 123, 122, 186, 190, 126, 127, 191, 125, 189, 188, 124,
   180, 116, 117, 181, 119, 183, 182, 118, 114, 178, 179, 115, 177, 113, 112, 176,
    80, 144, 145,  81, 147,  83,  82, 146, 150,  86,  87, 151,  85, 149, 148,  84,
   156,  92,  93, 157,  95, 159, 158,  94,  90, 154, 155,  91, 153,  89,  88, 152,
   136,  72,  73, 137,  75, 139, 138,  74,  78, 142, 143,  79, 141,  77,  76, 140,
    68, 132, 133,  69, 135,  71,  70, 134, 130,  66,  67, 131,  65, 129, 128,  64 >>

(* Exclusive or of the last n bits of two numbers: a byte, a CRC register. *)
Xor[n \in 0 .. 16] ==
  [x \in Nat |-> [y \in Nat |->
     IF n = 0 THEN 0 ELSE 2 * Xor[n - 1][x \div 2][y \div 2] + ((x + y) % 2)]]

XorByte(x, y) == Xor[8][x][y]
XorWord(x, y) == Xor[16][x][y]

(* One round of either loop; the tables are indexed from 0.                *)
Round_Added(reg, byte) ==
  LET index == XorByte(reg[1], byte)
  IN  << reg[2] + CRCHI[index + 1], CRCLO[index + 1] >>

Round_TablesSwapped(reg, byte) ==
  LET index == XorByte(reg[1], byte)
  IN  << XorByte(reg[2], CRCLO[index + 1]), CRCHI[index + 1] >>

Round_NoCarry(reg, byte) ==
  LET index == XorByte(reg[1], byte)
  IN  << CRCHI[index + 1], CRCLO[index + 1] >>

Round(reg, byte) ==
  LET index == XorByte(reg[1], byte)
  IN  << XorByte(reg[2], CRCHI[index + 1]), CRCLO[index + 1] >>

(* The definition: the byte goes into the low half of the register, and    *)
(* eight times the register is shifted right, with the polynomial added    *)
(* where a one falls out.                                                  *)
Polynomial == 40961

Shift(reg) == IF reg % 2 = 1 THEN XorWord(reg \div 2, Polynomial) ELSE reg \div 2

ShiftTwice(reg) == Shift(Shift(reg))
ShiftByte(reg) == ShiftTwice(ShiftTwice(ShiftTwice(ShiftTwice(reg))))

Definition(reg, byte) == ShiftByte(XorWord(reg, byte))

-------------------------------------------------------------------------------
CrcInit ==
  /\ length = 0
  /\ crc = << 255, 255 >> /\ checked = << 255, 255 >>
  /\ reference = 65535
  /\ damage = "none"

(* The next byte of the message, and what arrives of it.                   *)
Transmit(mask) ==
  /\ length < MaxLength
  /\ length' = length + 1
  /\ \E byte \in Alphabet[length + 1] :
       /\ crc' = Round(crc, byte)
       /\ checked' = Round(checked, XorByte(byte, mask))
       /\ reference' = Definition(reference, byte)

Intact ==
  /\ Transmit(0)
  /\ damage' = IF damage = "one" THEN "over" ELSE damage

Damaged ==
  /\ damage \in {"none", "one"}
  /\ \E mask \in Masks \ {0} : Transmit(mask)
  /\ damage' = IF damage = "none" THEN "one" ELSE "over"

CrcNext == Intact \/ Damaged

CrcSpec == CrcInit /\ [][CrcNext]_CrcVars

(* check_crc_rtu(), when the message ends here and its CRC arrives with    *)
(* these masks on it.                                                      *)
Accepts(hi_mask, lo_mask) ==
  checked = << XorByte(crc[1], hi_mask), XorByte(crc[2], lo_mask) >>

-------------------------------------------------------------------------------
(* Properties.                                                             *)

(* Both halves of the two running checksums stay bytes.                    *)
CrcTypeOK ==
  /\ length \in 0 .. MaxLength
  /\ crc \in (0 .. 255) \X (0 .. 255) /\ checked \in (0 .. 255) \X (0 .. 255)
  /\ reference \in Nat /\ damage \in {"none", "one", "over"}

(* The tables compute the CRC: what the code calls hi is the low half of   *)
(* the register, and goes on the line first.                               *)
TablesTrue == crc = << reference % 256, reference \div 256 >>

(* The damage to the message and to its CRC lies within two neighbours.    *)
Neighbours(hi_mask, lo_mask) ==
  \/ damage = "none"
  \/ damage = "one" /\ lo_mask = 0
  \/ hi_mask = 0 /\ lo_mask = 0

(* check_crc_rtu accepts what calc_crc_rtu sealed exactly if nothing was   *)
(* damaged: any damage within two neighbouring bytes, swapped bytes among  *)
(* them, is noticed wherever the message ends, and as well when it hits    *)
(* the CRC or the last byte and the CRC.                                   *)
AcceptedIffIntact ==
  \A hi_mask, lo_mask \in Masks \cup {0} :
    Neighbours(hi_mask, lo_mask) =>
      (Accepts(hi_mask, lo_mask) <=> damage = "none" /\ hi_mask = 0 /\ lo_mask = 0)
===============================================================================
