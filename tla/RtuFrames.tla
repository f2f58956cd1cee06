------------------------------ MODULE RtuFrames -------------------------------
(***************************************************************************)
(* What a Modbus RTU request of this slave looks like on the wire.  This   *)
(* is the vocabulary of the promises the RTU scanners make; it says what   *)
(* a frame is without saying how to find one.                              *)
(***************************************************************************)
EXTENDS Modbus

CONSTANTS Address,   \* m_address: the slave the scanner listens for
          Crc(_)     \* the CRC of a sequence of bytes, as a pair <<hi, lo>>

(* check_crc_rtu: the two received bytes equal the two computed ones.  The *)
(* algorithm itself is the subject of module Crc16.                        *)
CheckCrc(buf, hi, lo) == Crc(buf) = <<hi, lo>>

(* Where the checked part of the frame that starts after p ends, if the    *)
(* stream is long enough to tell.                                          *)
BodyEnd(s, p) ==
  LET h == p + 2 + WordBytes(s[p + 2])
  IN  IF HasData(s[p + 2]) THEN h + 1 + s[h + 1] ELSE h

(* Bytes p+1 .. q of s are one well-formed request for this slave. *)
IsFrame(s, p, q) ==
  /\ p + 2 <= Len(s)
  /\ s[p + 1] = Address
  /\ s[p + 2] \in ValidFc
  /\ HasData(s[p + 2]) => p + 3 + WordBytes(s[p + 2]) <= Len(s)
  /\ q = BodyEnd(s, p) + 2
  /\ q <= Len(s)
  /\ CheckCrc(SubSeq(s, p + 1, q - 2), s[q - 1], s[q])

(* The request that frame carries. *)
FrameRequest(s, p) ==
  LET fc == s[p + 2]
      h  == p + 2 + WordBytes(fc)
  IN  [ fc    |-> fc,
        words |-> [k \in 1 .. WordBytes(fc) \div 2 |->
                     combine(s[p + 1 + 2 * k], s[p + 2 + 2 * k])],
        count |-> IF HasData(fc) THEN s[h + 1] ELSE 0,
        data  |-> IF HasData(fc)
                    THEN [k \in 1 .. s[h + 1] |-> s[h + 1 + k]]
                    ELSE << >> ]

(* A byte-at-a-time reader of s: the reference for the scanners, which     *)
(* knows nothing of portions.  It skips foreign bytes one by one, gives a  *)
(* frame that turns out to be nonsense up where that shows, and goes on    *)
(* with the very next byte.  At p it needs more bytes than s has ...       *)
Hungry(s, p) ==
  \/ p + 2 > Len(s)
  \/ /\ s[p + 1] = Address /\ s[p + 2] \in ValidFc
     /\ \/ HasData(s[p + 2]) /\ p + 3 + WordBytes(s[p + 2]) > Len(s)
        \/ BodyEnd(s, p) + 2 > Len(s)

(* ... or it goes on from here ...                                         *)
Resume(s, p) ==
  IF s[p + 1] # Address THEN p + 1
  ELSE IF s[p + 2] \notin ValidFc THEN p + 2
  ELSE BodyEnd(s, p) + 2

(* ... with this in hand.                                                  *)
Found(s, p) ==
  IF IsFrame(s, p, Resume(s, p))
    THEN << [from |-> p, to |-> Resume(s, p), request |-> FrameRequest(s, p)] >>
    ELSE << >>

(* What it finds from each position on.                                    *)
Reader(s) ==
  LET parse[p \in 0 .. Len(s)] ==
        IF Hungry(s, p) THEN << >> ELSE Found(s, p) \o parse[Resume(s, p)]
  IN  parse

(* The requests it finds in s.                                             *)
ByteWise(s) == Reader(s)[0]
===============================================================================
