----------------------------- MODULE MCTcpScanner -----------------------------
(***************************************************************************)
(* Connections and portion sizes for model-checking TcpScanner.            *)
(***************************************************************************)
EXTENDS TcpScanner

MCAddress == 17

(* A message with transaction id t for unit u: the length field is right.  *)
Message(t, u, body) == << 0, t, 0, 0, 0, Len(body) + 1, u >> \o body

F3      == Message(1, 17, <<3, 0, 19, 0, 37>>)
F6      == Message(2, 17, <<6, 17, 3, 17, 8>>)
F15     == Message(3, 17, <<15, 0, 19, 0, 1, 1, 255>>)
F16     == Message(4, 17, <<16, 0, 1, 0, 1, 2, 17, 3>>)
F23     == Message(5, 17, <<23, 0, 4, 0, 6, 1, 15, 0, 1, 2, 1, 255>>)
Empty   == Message(6, 17, <<15, 0, 19, 0, 0, 0>>)    \* byte count 0
BadFc   == Message(7, 17, <<8, 0, 0>>)
Foreign == Message(8, 5, <<3, 0, 7, 0, 3>>)          \* for another unit
Cut     == SubSeq(F16, 1, 9)                         \* the connection ends early

Own == {F3, F6, F15, F16, F23}

(* F6 has the shape of F3, F15 that of F16: second come one of each shape. *)
OwnStreams ==
  {a \o b : a \in Own, b \in {F3, F16, F23, Cut}}
    \cup {F3, F16 \o F15 \o F3}

MixedStreams ==
  OwnStreams
    \cup {a \o b : a \in {BadFc, Foreign}, b \in Own \cup {BadFc, Foreign}}
    \cup {F16 \o a \o F6 : a \in {BadFc, Foreign}}

(* Byte counts of 0, and what may follow them.                             *)
EmptyStreams == {Empty \o a : a \in Own \cup {Foreign, BadFc, Empty}} \cup {F16 \o Empty}

AllStreams == MixedStreams \cup EmptyStreams

(* Where the length fields say that messages start.                        *)
Starts(s) ==
  LET from[p \in 0 .. Len(s)] ==
        {p} \cup IF Hungry(s, p) THEN {} ELSE from[NextMessage(s, p)]
  IN  from[0]

(* The lengths of all these streams are right: what the theorem about      *)
(* DeliveredInStep assumes of a connection.                                *)
ASSUME StreamsAreFramed == \A s \in AllStreams : FramedBy(s, Starts(s))
===============================================================================
