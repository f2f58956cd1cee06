---------------------------- MODULE RequestService -----------------------------
(***************************************************************************)
(* What a Modbus server promises its master, with no port, buffers or      *)
(* callbacks in it: each request takes effect once, in the order asked,    *)
(* and is then answered once, with the reply that belongs to it, or with a *)
(* part of it if the line fails.                                           *)
(***************************************************************************)
EXTENDS Naturals, Sequences

CONSTANTS Requests,
          Reply(_)  \* the answer to a request, as it appears on the wire

VARIABLES asked,    \* what the master has sent
          applied,  \* what has taken effect
          sent      \* what was answered, and whether that was cut short

vars == <<asked, applied, sent>>

Init == asked = << >> /\ applied = << >> /\ sent = << >>

Ask ==
  /\ \E r \in Requests : asked' = Append(asked, r)
  /\ UNCHANGED <<applied, sent>>

Apply ==
  /\ Len(applied) < Len(asked)
  /\ applied' = Append(applied, asked[Len(applied) + 1])
  /\ UNCHANGED <<asked, sent>>

Answer ==
  /\ Len(sent) < Len(applied)
  /\ LET r == Reply(applied[Len(sent) + 1]) IN
       sent' = Append(sent, [bytes |-> r, error |-> FALSE])
  /\ UNCHANGED <<asked, applied>>

AnswerCutShort ==
  /\ Len(sent) < Len(applied)
  /\ LET r == Reply(applied[Len(sent) + 1]) IN
       \E n \in 0 .. Len(r) - 1 :
         sent' = Append(sent, [bytes |-> SubSeq(r, 1, n), error |-> TRUE])
  /\ UNCHANGED <<asked, applied>>

Next == Ask \/ Apply \/ Answer \/ AnswerCutShort

Spec == Init /\ [][Next]_vars
===============================================================================
