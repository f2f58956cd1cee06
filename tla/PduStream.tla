------------------------------ MODULE PduStream -------------------------------
(***************************************************************************)
(* The promise of a scanner, with no buffers, portions or states in it:    *)
(* a stream of bytes goes in, the requests it contains come out, each one  *)
(* whole, in the order of the stream, and none twice (README.md:3-4).  A   *)
(* request that starts exactly where the scanner has settled everything    *)
(* before it must come out; only a place where no request starts may be    *)
(* skipped.                                                                *)
(***************************************************************************)
EXTENDS Naturals, Sequences

CONSTANTS Streams,           \* the byte streams the line may carry
          IsFrame(_, _, _),  \* bytes p+1 .. q of a stream are one request
          Decode(_, _)       \* the request that starts after p

VARIABLES stream,   \* what the line carries
          pos,      \* every byte up to here is settled
          pdus      \* the requests handed out so far

vars == <<stream, pos, pdus>>

Init == /\ stream \in Streams
        /\ pos = 0
        /\ pdus = << >>

Deliver ==
  \E q \in pos + 1 .. Len(stream) :
    /\ IsFrame(stream, pos, q)
    /\ pos' = q
    /\ pdus' = Append(pdus, [from |-> pos, to |-> q,
                             request |-> Decode(stream, pos)])
    /\ UNCHANGED stream

Discard ==
  /\ \A q \in pos + 1 .. Len(stream) : ~IsFrame(stream, pos, q)
  /\ pos' \in pos + 1 .. Len(stream)
  /\ UNCHANGED <<stream, pdus>>

Next == Deliver \/ Discard

Spec == Init /\ [][Next]_vars
===============================================================================
