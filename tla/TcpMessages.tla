----------------------------- MODULE TcpMessages ------------------------------
(***************************************************************************)
(* What a Modbus TCP request looks like on a connection: seven bytes of    *)
(* MBAP header (transaction id, protocol id, length, unit id), then the    *)
(* function code and the same fields as on the serial line, without a CRC. *)
(* This is the vocabulary of the promise the TCP scanner makes.            *)
(***************************************************************************)
EXTENDS Modbus

CONSTANT Address    \* m_address: the unit id the scanner answers to

Header == 7

(* Where the message that starts after p ends by its function code, byte   *)
(* count and nothing else, if the stream is long enough to tell.           *)
MessageEnd(s, p) ==
  LET h == p + Header + 1 + WordBytes(s[p + Header + 1])
  IN  IF HasData(s[p + Header + 1]) THEN h + 1 + s[h + 1] ELSE h

(* Bytes p+1 .. q of s are one request for this unit.                      *)
IsMessage(s, p, q) ==
  /\ p + Header + 1 <= Len(s)
  /\ s[p + Header] = Address
  /\ s[p + Header + 1] \in ValidFc
  /\ HasData(s[p + Header + 1]) =>
       p + Header + 2 + WordBytes(s[p + Header + 1]) <= Len(s)
  /\ q = MessageEnd(s, p)
  /\ q <= Len(s)

(* The request it carries: the transaction id is part of it, an answer has *)
(* to repeat it.                                                           *)
MessageRequest(s, p) ==
  LET fc == s[p + Header + 1]
      h  == p + Header + 1 + WordBytes(fc)
  IN  [ id    |-> << s[p + 1], s[p + 2] >>,
        fc    |-> fc,
        words |-> [k \in 1 .. WordBytes(fc) \div 2 |->
                     combine(s[p + Header + 2 * k], s[p + Header + 1 + 2 * k])],
        count |-> IF HasData(fc) THEN s[h + 1] ELSE 0,
        data  |-> IF HasData(fc)
                    THEN [k \in 1 .. s[h + 1] |-> s[h + 1 + k]]
                    ELSE << >> ]

TcpRequestType == [ id : Seq(Byte), fc : ValidFc, words : Seq(Word16),
                    count : Byte, data : Seq(Byte) ]

(* Where the next message starts by the length field of the header, which  *)
(* counts the bytes from the unit id on.                                   *)
NextMessage(s, p) == p + 6 + combine(s[p + 5], s[p + 6])

(* A reader of s that goes from message to message by the length field:    *)
(* the reference the scanner, which never looks at that field, is compared *)
(* with.  It knows nothing of portions.  At p it needs more bytes ...      *)
Hungry(s, p) == p + Header > Len(s) \/ NextMessage(s, p) > Len(s)

(* ... or it has this in hand, and goes on with the next message.          *)
Found(s, p) ==
  IF IsMessage(s, p, NextMessage(s, p))
    THEN << [from |-> p, to |-> NextMessage(s, p), request |-> MessageRequest(s, p)] >>
    ELSE << >>

(* What it finds from each position on.                                    *)
Reader(s) ==
  LET parse[p \in 0 .. Len(s)] ==
        IF Hungry(s, p) THEN << >> ELSE Found(s, p) \o parse[NextMessage(s, p)]
  IN  parse

(* The requests for this unit that it finds in s.                          *)
MessageWise(s) == Reader(s)[0]

(* The length field of the message that starts after p leaves room for a   *)
(* function code; for a request of this unit it says where the request     *)
(* ends, or that s does not hold all of it.                                *)
LengthRight(s, p) ==
  p + Header <= Len(s) =>
    /\ NextMessage(s, p) > p + Header
    /\ (/\ p + Header + 1 <= Len(s)
        /\ s[p + Header] = Address /\ s[p + Header + 1] \in ValidFc) =>
          IF /\ HasData(s[p + Header + 1])
             /\ p + Header + 2 + WordBytes(s[p + Header + 1]) > Len(s)
            THEN NextMessage(s, p) > Len(s)
            ELSE NextMessage(s, p) = MessageEnd(s, p)

(* In s a message starts after each position of starts and nowhere else,   *)
(* each with the right length.                                             *)
FramedBy(s, starts) ==
  /\ 0 \in starts
  /\ \A p \in starts :
       /\ p \in 0 .. Len(s) /\ LengthRight(s, p)
       /\ ~Hungry(s, p) => NextMessage(s, p) \in starts

(* The messages of s, the last of them perhaps cut off, have right lengths.*)
WellFramed(s) == \E starts \in SUBSET (0 .. Len(s)) : FramedBy(s, starts)
===============================================================================
