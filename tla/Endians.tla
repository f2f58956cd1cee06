-------------------------------- MODULE Endians --------------------------------
(***************************************************************************)
(* The byte order of the target machine (endians.h, scanner.cpp).  The     *)
(* other modules take combine for arithmetic and its inverse for granted;  *)
(* here combine stores two bytes in a union and reads them back as one     *)
(* uint16_t, and the target decides what that gives.                       *)
(*                                                                         *)
(* endian_c is meant to find out about the target, but its cast of a       *)
(* uint32_t to const uint8_t& is a conversion, as it must be in a          *)
(* constexpr, and not a look at the memory: it says little on every one.   *)
(***************************************************************************)
EXTENDS Modbus

(* What the two bytes of a uint16_t are worth, in the order of memory.     *)
m_ui16(target, m_bytes) ==
  IF target = "little" THEN m_bytes[1] + 256 * m_bytes[2]
                       ELSE 256 * m_bytes[1] + m_bytes[2]

uint32_ == 16909060          \* 0x01020304
magic_  == uint32_ % 256
little  == magic_ = 4

combine_bytes(target, hi, lo) ==
  m_ui16(target, IF little THEN <<lo, hi>> ELSE <<hi, lo>>)

get_hi_lo(reg) ==
  IF little THEN [hi |-> (reg \div 256) % 256, lo |-> reg % 256]
            ELSE [hi |-> reg % 256, lo |-> (reg \div 256) % 256]
===============================================================================
