------------------------------ MODULE MCReplies -------------------------------
(***************************************************************************)
(* Requests for model-checking Replies with bytes of three bits: 64        *)
(* addresses, at most 7 bytes in a reply that can say how long it is, and  *)
(* every history of a few requests at the edges of that arithmetic.        *)
(***************************************************************************)
EXTENDS Replies

Req(fc, a, q, wa, wq, data) ==
  [fc |-> fc, a |-> a, q |-> q, wa |-> wa, wq |-> wq, data |-> data]

Read(fc, a, q)        == Req(fc, a, q, 0, 0, << >>)
Write(fc, a, q, data) == Req(fc, a, q, 0, 0, data)

(* Runs that wrap from 63 to 0, of one cell and of several; 21 coils and 3 *)
(* registers are the largest quantities whose byte count fits.             *)
ProperRequests ==
  {Read(1, 63, 21), Read(2, 63, 0), Read(3, 63, 3), Read(4, 63, 1)}
    \cup {Write(5, 63, v, << >>) : v \in {0, 60}} \cup {Write(6, 0, 43, << >>)}
    \cup {Write(15, 62, 4, <<5, 1>>), Write(16, 63, 2, <<2, 1, 0, 7>>)}
    \cup {Req(23, 63, 3, 63, 2, <<3, 2, 4, 5>>)}

(* An odd byte count, the largest one, a run cut short by the data, data   *)
(* that goes on after the run, and replies that cannot say how long they   *)
(* are; the two longest fill the output buffer.                            *)
OddRequests ==
  {Write(16, 2, 2, <<7>>), Write(15, 63, 5, <<2>>), Write(15, 63, 1, <<7, 7>>),
   Req(23, 63, 2, 63, 5, <<1, 2, 3, 4, 5, 6, 7>>), Read(1, 63, 22), Read(4, 63, 4)}

MCRequests == ProperRequests \cup OddRequests
===============================================================================
