------------------------------- MODULE RtuServer -------------------------------
(***************************************************************************)
(* rtu_server_data_handler_c: the sample RTU server, one serial port and   *)
(* one timer on one io_service thread (rtu_server/).  The subject is the   *)
(* asynchronous life of a request: which operation is outstanding, which   *)
(* buffer it uses, in which order completion handlers run.  A request is   *)
(* two tokens, its front and its back, so that a portion can end inside it; *)
(* the scanner is what RtuScanner promises, at the grain of tokens.  What  *)
(* the replies contain is the subject of module Replies.  start() and      *)
(* open_port() come first, each of whose steps can fail.                   *)
(*                                                                         *)
(* asio is external: an operation that was started performs its I/O at     *)
(* some later moment, reading or writing the caller's buffer at that       *)
(* moment, and queues its completion handler; the handlers run one at a    *)
(* time in the order they were queued.                                     *)
(***************************************************************************)
EXTENDS Naturals, Sequences

CONSTANTS Requests,  \* the requests the master may send
          Echoed,    \* those answered by mirror_pdu: functions 5 and 6
          None,      \* no request
          Window,    \* how many answers the master may be waiting for
          Split,     \* may a read return part of a request?
          MayClose   \* may the other side of the port go away?

ASSUME RequestsAssumption == Echoed \subseteq Requests /\ None \notin Requests
ASSUME PolicyAssumption == Window \in Nat /\ Split \in BOOLEAN /\ MayClose \in BOOLEAN

VARIABLES
  at,               \* the step of start(), "running" or "failed"
  descriptor,       \* fd: "closed", "open", or "assigned" to m_serial_port
  wire,             \* tokens the port has received and nobody has read
  port,             \* "open" or "closed"
  m_input_buffer,   \* its contents, stale bytes included
  actual_size,      \* m_input_buffer.actual_size()
  m_output_buffer,  \* the reply being composed or sent
  partial,          \* the scanner: the request whose front it has seen
  todo,             \* requests of the current portion not handed to on_pdu yet
  reads,            \* outstanding async_read_some operations
  writes,           \* outstanding async_write operations, oldest first
  timer,            \* outstanding async_wait operations
  ready,            \* completion handlers queued on the io_service
  asked,            \* history: requests the master has sent
  applied,          \* history: requests on_pdu has carried out
  sent              \* history: what was written to the port, answer by answer

setup == <<at, descriptor>>
io   == <<reads, writes, timer, ready>>
data == <<m_input_buffer, actual_size, m_output_buffer, partial, todo>>
hist == <<asked, applied, sent>>
vars == <<at, descriptor, wire, port, m_input_buffer, actual_size,
          m_output_buffer, partial, todo, reads, writes, timer, ready, asked,
          applied, sent>>

Front(r) == [req |-> r, part |-> "front"]
Back(r)  == [req |-> r, part |-> "back"]
Token    == [req : Requests, part : {"front", "back", "reply"}]

(* What a master that asked r expects on the wire: the echo of the request *)
(* or the one reply that was composed for it.                              *)
Composed(r) == << [req |-> r, part |-> "reply"] >>
Echo(r) == << Front(r), Back(r) >>
Reply(r) == IF r \in Echoed THEN Echo(r) ELSE Composed(r)

(* What came of a write, as the master sees it.                            *)
Complete(bytes)    == [bytes |-> bytes, error |-> FALSE]
CutShort(bytes, n) == [bytes |-> SubSeq(bytes, 1, n), error |-> TRUE]
Written            == [bytes : Seq(Token), error : BOOLEAN]

-------------------------------------------------------------------------------
Init ==
  /\ at = "open" /\ descriptor = "closed"
  /\ wire = << >> /\ port = "open"
  /\ m_input_buffer = << >> /\ actual_size = 0 /\ m_output_buffer = << >>
  /\ partial = None /\ todo = << >>
  /\ reads = 0 /\ writes = << >> /\ timer = 0 /\ ready = << >>
  /\ asked = << >> /\ applied = << >> /\ sent = << >>

(* open_port(): open, isatty and the two calls of set_port_config.  Each of *)
(* them may fail, and each has an early return of its own.                 *)
Opened ==
  /\ at = "open" /\ port = "open"
  /\ at' = "isatty" /\ descriptor' = "open"

OpenFails ==
  /\ at = "open" /\ at' = "failed"
  /\ UNCHANGED descriptor

IsATty ==
  /\ at = "isatty" /\ at' = "tcgetattr"
  /\ UNCHANGED descriptor

NotATty ==
  /\ at = "isatty" /\ at' = "failed"
  /\ descriptor' = "closed"

(* set_port_config(): true after both calls, false after the first that    *)
(* fails.  It leaves the descriptor alone in either case.                  *)
Configures ==
  /\ \/ at = "tcgetattr" /\ at' = "tcsetattr"
     \/ at = "tcsetattr" /\ at' = "assign"
  /\ UNCHANGED descriptor

ConfigFails ==
  /\ at \in {"tcgetattr", "tcsetattr"} /\ at' = "refused"
  /\ UNCHANGED descriptor

Refused_KeepsOpen ==
  /\ at = "refused" /\ at' = "failed"
  /\ UNCHANGED descriptor

(* set_port_config() has returned false.                                   *)
Refused ==
  /\ at = "refused" /\ at' = "failed"
  /\ descriptor' = "closed"

OpenPort == \/ Opened \/ OpenFails \/ IsATty \/ NotATty
            \/ Configures \/ ConfigFails \/ Refused

(* m_serial_port.assign(): its error is not looked at, and the descriptor  *)
(* is then nobody's.  The timer and the first read are started in any case.*)
Assigned ==
  /\ at = "assign" /\ at' = "running"
  /\ descriptor' \in {"assigned", "open"}
  /\ timer' = timer + 1
  /\ reads' = reads + 1

Start ==
  /\ (OpenPort /\ UNCHANGED <<reads, timer>>) \/ Assigned
  /\ UNCHANGED <<wire, port, data, writes, ready, hist>>

(* The master and the line.  What is sent before the port is configured is *)
(* the tty's affair and left out.                                          *)

Asked(r) == \E i \in 1 .. Len(asked) : asked[i] = r

Ask(r) ==
  /\ at = "running" /\ port = "open" /\ ~Asked(r)
  /\ Len(asked) < Len(sent) + Window
  /\ asked' = Append(asked, r)
  /\ wire' = wire \o Echo(r)
  /\ UNCHANGED <<setup, port, io, data, applied, sent>>

Close ==
  /\ MayClose /\ port = "open"
  /\ port' = "closed"
  /\ UNCHANGED <<setup, wire, io, data, hist>>

-------------------------------------------------------------------------------
(* asio performs the I/O of outstanding operations.  The io_service has    *)
(* one thread: while a handler runs, only the attempt that async_write     *)
(* makes at once, when no other write is outstanding, can come between.    *)

Idle == todo = << >>

Overlay(new, old) == new \o SubSeq(old, Len(new) + 1, Len(old))

Usable == port = "open" /\ descriptor = "assigned"

ReadIo ==
  /\ Idle /\ Usable /\ reads > 0
  /\ \E n \in 1 .. Len(wire) :
       /\ Split \/ wire[n].part = "back"
       /\ m_input_buffer' = Overlay(SubSeq(wire, 1, n), m_input_buffer)
       /\ wire' = SubSeq(wire, n + 1, Len(wire))
       /\ ready' = Append(ready, [op |-> "read", length |-> n])
  /\ reads' = reads - 1
  /\ UNCHANGED <<setup, port, actual_size, m_output_buffer, partial, todo, writes,
                 timer, hist>>

ReadFails ==
  /\ Idle /\ ~Usable /\ reads > 0
  /\ ready' = Append(ready, [op |-> "read", length |-> 0])
  /\ reads' = reads - 1
  /\ UNCHANGED <<setup, wire, port, data, writes, timer, hist>>

Contents(op) == IF op.buf = "in" THEN SubSeq(m_input_buffer, 1, op.size)
                ELSE m_output_buffer

(* A write that has come to its end, whatever that was.                    *)
WriteEnds ==
  /\ writes # << >> /\ (Idle \/ Len(writes) = 1)
  /\ writes' = Tail(writes)
  /\ ready' = Append(ready, [op |-> "write", length |-> 0])
  /\ UNCHANGED <<setup, wire, port, data, reads, timer, asked, applied>>

(* The write takes what its buffer holds now; on a closed port it fails.   *)
WriteIo ==
  /\ WriteEnds
  /\ sent' = IF Usable THEN Append(sent, Complete(Contents(Head(writes)))) ELSE sent

(* A write may also fail half way on a port that can be used, and can be   *)
(* used afterwards: the master gets some of the answer, or nothing.        *)
WriteFails ==
  /\ WriteEnds /\ Usable
  /\ \E n \in 0 .. Len(Contents(Head(writes))) - 1 :
       sent' = Append(sent, CutShort(Contents(Head(writes)), n))

TimerExpires ==
  /\ Idle /\ timer > 0
  /\ timer' = timer - 1
  /\ ready' = Append(ready, [op |-> "timer", length |-> 0])
  /\ UNCHANGED <<setup, wire, port, data, reads, writes, hist>>

-------------------------------------------------------------------------------
(* The completion handlers.                                                *)

Runs(op) == Idle /\ ready # << >> /\ Head(ready).op = op /\ ready' = Tail(ready)

ScanToken_NoFront(st, t) ==
  IF t.part = "front" THEN st ELSE [st EXCEPT !.pdus = Append(@, st.partial)]

(* scan(): one token after another; a token that does not continue the     *)
(* request in hand is nonsense, and the rest of the portion goes with it.  *)
ScanToken(st, t) ==
  IF st.dropped THEN st
  ELSE IF t.part = "front" /\ st.partial = None
         THEN [st EXCEPT !.partial = t.req]
  ELSE IF t = Back(st.partial)
         THEN [st EXCEPT !.partial = None, !.pdus = Append(@, t.req)]
  ELSE IF st.partial = None THEN st
  ELSE [st EXCEPT !.partial = None, !.dropped = TRUE]

ScanPortion(n) ==
  LET after[k \in 0 .. n] ==
        IF k = 0 THEN [partial |-> partial, pdus |-> << >>, dropped |-> FALSE]
        ELSE ScanToken(after[k - 1], m_input_buffer[k])
  IN  after[n]

(* handle_read: after an error, or an empty read, no operation is started. *)
(* Otherwise the portion is scanned; a request in it is answered by on_pdu *)
(* and it is only the end of that write that starts the next read.         *)
HandleReadError ==
  /\ Runs("read") /\ Head(ready).length = 0
  /\ UNCHANGED <<setup, wire, port, data, reads, writes, timer, hist>>

HandleRead_Rearmed ==
  /\ Runs("read") /\ Head(ready).length > 0
  /\ LET n == Head(ready).length IN
       /\ actual_size' = n
       /\ todo' = ScanPortion(n).pdus
       /\ partial' = ScanPortion(n).partial
  /\ reads' = reads + 1
  /\ UNCHANGED <<setup, wire, port, m_input_buffer, m_output_buffer, writes, timer, hist>>

HandleRead ==
  /\ Runs("read") /\ Head(ready).length > 0
  /\ LET n == Head(ready).length IN
       /\ actual_size' = n
       /\ todo' = ScanPortion(n).pdus
       /\ partial' = ScanPortion(n).partial
  /\ UNCHANGED <<setup, wire, port, m_input_buffer, m_output_buffer, reads, writes,
                 timer, hist>>

OnPdu_MirrorsOutput ==
  /\ todo # << >>
  /\ todo' = Tail(todo)
  /\ applied' = Append(applied, Head(todo))
  /\ IF Head(todo) \in Echoed
       THEN UNCHANGED m_output_buffer
       ELSE m_output_buffer' = Composed(Head(todo))
  /\ writes' = Append(writes, [buf |-> "out", size |-> 1])
  /\ UNCHANGED <<setup, wire, port, m_input_buffer, actual_size, partial, reads, timer,
                 ready, asked, sent>>

(* on_pdu: the request takes effect, and its answer is the composed reply  *)
(* (send_pdu) or the input buffer as it stands (mirror_pdu).               *)
OnPdu ==
  /\ todo # << >>
  /\ todo' = Tail(todo)
  /\ applied' = Append(applied, Head(todo))
  /\ IF Head(todo) \in Echoed
       THEN /\ writes' = Append(writes, [buf |-> "in", size |-> actual_size])
            /\ UNCHANGED m_output_buffer
       ELSE /\ m_output_buffer' = Composed(Head(todo))
            /\ writes' = Append(writes, [buf |-> "out", size |-> 1])
  /\ UNCHANGED <<setup, wire, port, m_input_buffer, actual_size, partial, reads, timer,
                 ready, asked, sent>>

HandleWriting_StopsOnError ==
  /\ Runs("write")
  /\ reads' = IF sent # << >> /\ sent[Len(sent)].error THEN reads ELSE reads + 1
  /\ UNCHANGED <<setup, wire, port, data, writes, timer, hist>>

(* The error code is not looked at.                                        *)
HandleWriting ==
  /\ Runs("write")
  /\ reads' = reads + 1
  /\ UNCHANGED <<setup, wire, port, data, writes, timer, hist>>

HandleTimer ==
  /\ Runs("timer")
  /\ timer' = timer + 1
  /\ UNCHANGED <<setup, wire, port, data, reads, writes, hist>>

Io      == ReadIo \/ ReadFails \/ WriteIo \/ WriteFails
Handler == HandleReadError \/ HandleRead \/ OnPdu \/ HandleWriting \/ HandleTimer
Server  == Start \/ Io \/ TimerExpires \/ Handler
Master  == Close \/ \E r \in Requests : Ask(r)

Next == Server \/ Master

Spec == Init /\ [][Next]_vars

(* main() goes on; the io_service performs I/O that is possible, lets      *)
(* timers expire and runs what is queued.  Nothing is assumed of the       *)
(* master.                                                                 *)
Fairness == WF_vars(Start) /\ WF_vars(Io) /\ WF_vars(TimerExpires) /\ WF_vars(Handler)

FairSpec == Spec /\ Fairness

-------------------------------------------------------------------------------
(* Properties.                                                             *)

Op == [op : {"read", "write", "timer"}, length : Nat]

(* The kinds of operations, handlers and buffer contents: every request    *)
(* that on_pdu gets is one that was sent.                                  *)
TypeOK ==
  /\ at \in {"open", "isatty", "tcgetattr", "tcsetattr", "refused", "assign",
             "running", "failed"}
  /\ descriptor \in {"closed", "open", "assigned"}
  /\ wire \in Seq(Token) /\ port \in {"open", "closed"}
  /\ m_input_buffer \in Seq(Token) /\ actual_size \in Nat
  /\ m_output_buffer \in Seq(Token)
  /\ partial \in Requests \cup {None} /\ todo \in Seq(Requests)
  /\ reads \in Nat /\ writes \in Seq([buf : {"in", "out"}, size : Nat])
  /\ timer \in Nat /\ ready \in Seq(Op)
  /\ asked \in Seq(Requests) /\ applied \in Seq(Requests)
  /\ sent \in Seq(Written)

Queued(op) == {i \in 1 .. Len(ready) : ready[i].op = op}

(* No two outstanding operations use the same buffer, and no reply is      *)
(* composed in a buffer that is still being sent: what the asio contract   *)
(* asks of the code.  It holds while the master waits for each answer.     *)
BuffersExclusive ==
  /\ reads + Len(writes) <= 1
  /\ todo # << >> => reads = 0 /\ writes = << >>

(* The server never goes deaf: once it has started, on an open port a read *)
(* is outstanding or something is under way that will start one, after a   *)
(* write that failed too.                                                  *)
NeverDeaf ==
  at = "running" /\ Usable =>
    \/ reads > 0 \/ writes # << >> \/ todo # << >>
    \/ Queued("read") # {} \/ Queued("write") # {}

(* The server implements RequestService: whatever the order of reads,      *)
(* writes and handlers, with writes that fail and the port going away at   *)
(* any moment, each request takes effect once, in order, before the one    *)
(* answer it gets.                                                         *)
Promised == INSTANCE RequestService
Serves   == Promised!Spec

(* A master that waits gets its answer, unless the port goes away or was   *)
(* never assigned, or the very write of this answer failed: an earlier one *)
(* that failed is no excuse.                                               *)
Answered ==
  \A r \in Requests :
    Asked(r) ~>
      \/ ~Usable
      \/ \E i \in 1 .. Len(sent) :
           asked[i] = r /\ (sent[i].error \/ sent[i].bytes = Reply(r))

(* No operation outstanding, no handler queued or running.                 *)
NoWork == reads = 0 /\ writes = << >> /\ timer = 0 /\ todo = << >> /\ ready = << >>

(* A start that fails, by whichever early return, leaves no descriptor     *)
(* open and no operation behind.                                           *)
FailedStartIsClean == at = "failed" => descriptor = "closed" /\ NoWork

(* "Connection is closed, we do not continue async calling so that smart   *)
(* pointer will do its work": after the port is gone the handler runs out  *)
(* of work, io_service.run() returns and the object is destroyed.          *)
ClosedThenDone == port = "closed" ~> NoWork
-------------------------------------------------------------------------------
(* What holds whatever the master does.  A read never shortens the input   *)
(* buffer, so that what a portion or a write takes from it is there.       *)
InBuffer ==
  /\ actual_size <= Len(m_input_buffer)
  /\ \A i \in 1 .. Len(ready) : ready[i].length <= Len(m_input_buffer)
  /\ \A i \in 1 .. Len(writes) :
       writes[i].buf = "in" => writes[i].size <= Len(m_input_buffer)

(* Only on a port that cannot be used does a read bring nothing.           *)
ReadsBring ==
  \A i \in 1 .. Len(ready) :
    ready[i].op = "read" /\ ready[i].length = 0 => ~Usable

(* Each front is followed by its back.                                     *)
Whole(s) ==
  \A k \in 1 .. Len(s) :
    IF k % 2 = 1 THEN k < Len(s) /\ s[k].part = "front"
                 ELSE s[k] = Back(s[k - 1].req)

(* Requests that arrive whole stay whole, also in a buffer that the next   *)
(* read has overwritten before the handler of this one runs.               *)
Paired ==
  /\ partial = None /\ Whole(wire) /\ Whole(m_input_buffer)
  /\ \A i \in 1 .. Len(ready) : ready[i].length % 2 = 0

AnyMaster ==
  /\ TypeOK /\ (at # "running" => NoWork) /\ InBuffer /\ ReadsBring
  /\ ~Split => Paired /\ NeverDeaf

-------------------------------------------------------------------------------
(* Why the properties hold while the master waits for each answer: one     *)
(* thing at a time is under way, and what it is says where the request is. *)

InHand == asked[Len(asked)]

(* Nothing has been done before start() is through, or when it has failed. *)
NotStarted ==
  at # "running" =>
    /\ NoWork /\ wire = << >> /\ hist = << << >>, << >>, << >> >>
    /\ partial = None
    /\ descriptor = IF at \in {"open", "failed"} THEN "closed" ELSE "open"

(* One read, write, on_pdu or completion of I/O at a time.                 *)
OneThing ==
  LET busy == reads + Len(writes) + Len(todo) IN
    /\ busy <= 1
    /\ busy = 1 => \A i \in 1 .. Len(ready) : ready[i].op = "timer"
    /\ \A i, j \in 1 .. Len(ready) :
         ready[i].op # "timer" /\ ready[j].op # "timer" => i = j

(* Requests are carried out, and then answered, one by one.                *)
OneByOne ==
  /\ Len(sent) <= Len(applied) /\ Len(applied) <= Len(asked)
  /\ Len(asked) <= Len(sent) + 1
  /\ \A k \in 1 .. Len(applied) : applied[k] = asked[k]

(* The wire carries nothing but the request not answered yet when a read   *)
(* is outstanding or about to be started.                                  *)
Listening ==
  Usable /\ (reads > 0 \/ \E i \in 1 .. Len(ready) : ready[i].op = "write") =>
    /\ Len(applied) = Len(sent) /\ partial = None
    /\ wire = IF Len(asked) = Len(sent) THEN << >> ELSE Echo(InHand)

Unapplied == Len(asked) = Len(sent) + 1 /\ Len(applied) = Len(sent)

(* The first n tokens of the buffer are those of the request in hand.      *)
Holds(n) ==
  /\ Len(m_input_buffer) >= n
  /\ \A k \in 1 .. n : m_input_buffer[k] = Echo(InHand)[k]

(* A read has taken the request in hand, whole unless Split, or has failed.*)
Received ==
  \A i \in 1 .. Len(ready) :
    LET n == ready[i].length IN
    ready[i].op = "read" =>
      \/ n = 0 /\ ~Usable
      \/ /\ Unapplied /\ partial = None /\ Holds(n)
         /\ \/ n = 2 /\ wire = << >>
            \/ n = 1 /\ Split

NothingElse == wire = << >> /\ partial = None

(* on_pdu is given the request in hand, which is still in the buffer.      *)
Handling ==
  todo # << >> =>
    /\ todo = <<InHand>> /\ Unapplied /\ NothingElse
    /\ actual_size = 2 /\ Holds(2)

(* What is being written is the answer to the request in hand.             *)
Answering ==
  writes # << >> =>
    /\ Len(applied) = Len(sent) + 1 /\ NothingElse
    /\ Contents(Head(writes)) = Reply(InHand)

MasterWaits ==
  /\ NotStarted /\ OneThing /\ OneByOne /\ Listening /\ Received /\ Handling
  /\ Answering

IInv == AnyMaster /\ MasterWaits
===============================================================================
