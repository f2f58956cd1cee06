------------------------------- MODULE TcpServer -------------------------------
(***************************************************************************)
(* The sample TCP server (tcp_server/): the accept loop of main(), one     *)
(* server_connection_c with its own scanner per accepted socket, and the   *)
(* part of the library facade they use (create_scanner, scan).  The        *)
(* subject is who owns what and for how long: a connection lives as long   *)
(* as a handler holds its shared_ptr, its buffer is the target of the      *)
(* outstanding read, its scanner calls back into it.  Clients may stop in  *)
(* the middle of a message, close or reset their connection at any moment, *)
(* and accept may fail.                                                    *)
(*                                                                         *)
(* A request is two tokens, all of it but the last byte and that byte, so  *)
(* that a portion can end inside it.  The scanner is what TcpScanner shows *)
(* it to be for messages of its own unit; the others are TcpScanner's      *)
(* subject.  asio and the kernel are external, modelled as in RtuServer.   *)
(***************************************************************************)
EXTENDS Naturals, Sequences, FiniteSets

CONSTANTS Clients,
          Requests,
          None,      \* no client, no request
          Streams,   \* what each client may have to say: sequences of tokens
          MaxOpen,   \* bound: sockets the process may have open
          MaxFails   \* bound: how often accept fails

Token == [req : Requests, part : {"front", "back"}]

ASSUME NoneAssumption == None \notin Clients \cup Requests

(* Whole requests, the last one perhaps cut off: what a scanner makes of   *)
(* anything else is the subject of TcpScanner.                             *)
IsTraffic(s) ==
  \A k \in 1 .. Len(s) :
    IF s[k].part = "front" THEN k > 1 => s[k - 1].part = "back"
    ELSE k > 1 /\ s[k - 1] = [req |-> s[k].req, part |-> "front"]
ASSUME StreamsAssumption ==
  \A c \in Clients : \A s \in Streams[c] : s \in Seq(Token) /\ IsTraffic(s)
ASSUME LimitsAssumption == MaxOpen \in Nat \ {0} /\ MaxFails \in Nat
ASSUME ClientsAssumption == IsFiniteSet(Clients)

(* A server_connection_c, in the order of their creation.  Each uses up a  *)
(* client or a failure.                                                    *)
Conns == 1 .. Cardinality(Clients) + MaxFails

VARIABLES
  stream,    \* what each client sends until it closes
  arrived,   \* how many tokens of it the kernel has received
  taken,     \* how many of these a read has taken
  closed,    \* how the client has closed: "no", "fin" or "rst"
  backlog,   \* clients waiting to be accepted
  sockets,   \* clients the process holds a socket of
  accepts,   \* outstanding async_accept operations
  reads,     \* outstanding async_read_some operations of each connection
  ready,     \* completion handlers queued on the io_service
  refs,      \* shared_ptrs to each connection; 0: not made yet or destroyed
  m_socket,  \* the client at the other end; None: not connected
  scanners,  \* every scanner ever made: its m_user, the request it is inside
  current,   \* the connection whose handle_read is scanning, or 0
  length,    \* the tokens of its portion: bytes_transferred
  m_ix,      \* next token of the portion
  scanned,   \* history: how many tokens of a stream the scanner is done with
  printed,   \* history: what on_pdu was called with
  fails      \* history: how often accept has failed

client == <<stream, arrived, closed>>
io     == <<accepts, reads, ready>>
conn   == <<refs, m_socket, scanners>>
scan   == <<current, length, m_ix>>
hist   == <<scanned, printed>>
vars   == <<stream, arrived, taken, closed, backlog, sockets, accepts, reads,
            ready, refs, m_socket, scanners, current, length, m_ix, scanned,
            printed, fails>>

-------------------------------------------------------------------------------
(* main(): the acceptor listens and one async_accept is outstanding.       *)
Init ==
  /\ stream \in {f \in [Clients -> UNION {Streams[c] : c \in Clients}] :
                   \A c \in Clients : f[c] \in Streams[c]}
  /\ arrived = [c \in Clients |-> 0] /\ taken = [c \in Clients |-> 0]
  /\ closed = [c \in Clients |-> "no"]
  /\ backlog = << >> /\ sockets = {}
  /\ accepts = 1 /\ reads = [i \in Conns |-> 0] /\ ready = << >>
  /\ refs = [i \in Conns |-> 0] /\ m_socket = [i \in Conns |-> None]
  /\ scanners = << >> /\ current = 0 /\ length = 0 /\ m_ix = 0
  /\ scanned = [c \in Clients |-> 0] /\ printed = [c \in Clients |-> << >>]
  /\ fails = 0

(* The clients.                                                            *)

Accepted(c) == \/ \E i \in 1 .. Len(scanners) : m_socket[i] = c
               \/ c \in sockets
Waiting(c)   == \E k \in 1 .. Len(backlog) : backlog[k] = c
Connected(c) == Waiting(c) \/ Accepted(c)

Connect(c) ==
  /\ ~Connected(c)
  /\ backlog' = Append(backlog, c)
  /\ UNCHANGED <<client, taken, sockets, io, conn, scan, hist, fails>>

Send(c) ==
  /\ c \in sockets /\ closed[c] = "no" /\ arrived[c] < Len(stream[c])
  /\ arrived' = [arrived EXCEPT ![c] = @ + 1]
  /\ UNCHANGED <<stream, closed, taken, backlog, sockets, io, conn, scan, hist, fails>>

(* In the middle of a message as well; after a reset nothing more can be   *)
(* read, what has arrived included.                                        *)
Close(c) ==
  /\ c \in sockets /\ closed[c] = "no"
  /\ \E how \in {"fin", "rst"} : closed' = [closed EXCEPT ![c] = how]
  /\ UNCHANGED <<stream, arrived, taken, backlog, sockets, io, conn, scan, hist, fails>>

-------------------------------------------------------------------------------
(* The kernel and asio.                                                    *)

Idle == current = 0
Full == Cardinality(sockets) = MaxOpen

AcceptIo ==
  /\ Idle /\ accepts > 0 /\ backlog # << >> /\ ~Full
  /\ accepts' = accepts - 1
  /\ backlog' = Tail(backlog)
  /\ sockets' = sockets \cup {Head(backlog)}
  /\ ready' = Append(ready, [op |-> "accept", socket |-> Head(backlog)])
  /\ UNCHANGED <<client, taken, reads, conn, scan, hist, fails>>

(* No free descriptor: the client stays in the backlog, so that the next   *)
(* accept fails at once too, until a socket is closed.                     *)
AcceptFails ==
  /\ Idle /\ accepts > 0 /\ backlog # << >> /\ Full /\ fails < MaxFails
  /\ accepts' = accepts - 1
  /\ fails' = fails + 1
  /\ ready' = Append(ready, [op |-> "accept", socket |-> None])
  /\ UNCHANGED <<client, taken, backlog, sockets, reads, conn, scan, hist>>

(* Any part of what has arrived and was not taken yet.                     *)
ReadIo(i) ==
  LET c == m_socket[i] IN
  /\ Idle /\ reads[i] > 0
  /\ c # None /\ closed[c] # "rst"
  /\ \E n \in 1 .. arrived[c] - taken[c] :
       /\ taken' = [taken EXCEPT ![c] = @ + n]
       /\ ready' = Append(ready, [op |-> "read", conn |-> i, length |-> n])
  /\ reads' = [reads EXCEPT ![i] = @ - 1]
  /\ UNCHANGED <<client, backlog, sockets, accepts, conn, scan, hist, fails>>

(* The end of the stream, a reset, or a socket that was never connected.   *)
ReadEnds(i) ==
  LET c == m_socket[i] IN
  /\ Idle /\ reads[i] > 0
  /\ \/ c = None
     \/ c # None /\ closed[c] = "rst"
     \/ c # None /\ closed[c] = "fin" /\ taken[c] = arrived[c]
  /\ ready' = Append(ready, [op |-> "read", conn |-> i, length |-> 0])
  /\ reads' = [reads EXCEPT ![i] = @ - 1]
  /\ UNCHANGED <<client, taken, backlog, sockets, accepts, conn, scan,
                 hist, fails>>

-------------------------------------------------------------------------------
(* The handlers, which run one at a time.                                  *)

Runs(op) == Idle /\ ready # << >> /\ Head(ready).op = op

(* start_read() binds shared_from_this() to the handler of its read.       *)
StartRead_RawThis(i, held) == [held EXCEPT ![i] = @]
StartRead(i, held) == [held EXCEPT ![i] = @ + 1]

(* A shared_ptr goes out of scope; with the last one the connection is     *)
(* destroyed and its m_socket closed.  Its scanner is not deleted.         *)
Release(i, held) ==
  /\ refs' = [held EXCEPT ![i] = @ - 1]
  /\ sockets' = IF held[i] = 1 THEN sockets \ {m_socket'[i]} ELSE sockets

(* create_scanner(): a scanner between messages that will call back this   *)
(* connection.                                                             *)
CreateScanner(i) == Append(scanners, [m_user |-> i, partial |-> None])

(* The scanner that handle_read of a connection uses.                      *)
ScannerOf_Shared(i) == 1
ScannerOf(i) == i

(* The accept handler does not look at its error: every completion makes a *)
(* connection, starts its first read and the next accept.                  *)
HandleAccept_StopsOnError ==
  /\ Runs("accept")
  /\ LET i == Len(scanners) + 1 IN
       /\ m_socket' = [m_socket EXCEPT ![i] = Head(ready).socket]
       /\ scanners' = CreateScanner(i)
       /\ Release(i, StartRead(i, [refs EXCEPT ![i] = 1]))
       /\ reads' = [reads EXCEPT ![i] = @ + 1]
  /\ accepts' = IF Head(ready).socket = None THEN accepts ELSE accepts + 1
  /\ ready' = Tail(ready)
  /\ UNCHANGED <<client, taken, backlog, scan, hist, fails>>

HandleAccept ==
  /\ Runs("accept")
  /\ LET i == Len(scanners) + 1 IN
       /\ m_socket' = [m_socket EXCEPT ![i] = Head(ready).socket]
       /\ scanners' = CreateScanner(i)
       /\ Release(i, StartRead(i, [refs EXCEPT ![i] = 1]))
       /\ reads' = [reads EXCEPT ![i] = @ + 1]
  /\ accepts' = accepts + 1
  /\ ready' = Tail(ready)
  /\ UNCHANGED <<client, taken, backlog, scan, hist, fails>>

(* handle_read with an error or no bytes: nothing is started, so that the  *)
(* shared_ptr of the handler is the last one.                              *)
HandleReadError_ReadsOn ==
  /\ Runs("read") /\ Head(ready).length = 0
  /\ reads' = [reads EXCEPT ![Head(ready).conn] = @ + 1]
  /\ ready' = Tail(ready)
  /\ UNCHANGED <<client, taken, backlog, sockets, accepts, conn, scan,
                 hist, fails>>

HandleReadError ==
  /\ Runs("read") /\ Head(ready).length = 0
  /\ UNCHANGED m_socket
  /\ Release(Head(ready).conn, refs)
  /\ ready' = Tail(ready)
  /\ UNCHANGED <<client, taken, backlog, accepts, reads, scanners, scan,
                 hist, fails>>

(* handle_read with a portion: set_actual_size and scan().                 *)
HandleRead ==
  /\ Runs("read") /\ Head(ready).length > 0
  /\ current' = Head(ready).conn /\ length' = Head(ready).length
  /\ UNCHANGED m_ix
  /\ ready' = Tail(ready)
  /\ UNCHANGED <<client, taken, backlog, sockets, accepts, reads, conn, hist, fails>>

(* The token under m_ix.  A connection's m_buffer is the target of all its *)
(* reads: it holds what was taken last.                                    *)
Cur == stream[m_socket[current]][taken[m_socket[current]] - length + m_ix + 1]
Scanning == current # 0 /\ m_ix < length

(* The scanner has done a token more, and is inside request r.             *)
Consume(r) ==
  /\ m_ix' = m_ix + 1
  /\ scanned' = [scanned EXCEPT ![m_socket[current]] = @ + 1]
  /\ scanners' = [scanners EXCEPT ![ScannerOf(current)].partial = r]
  /\ UNCHANGED <<client, taken, backlog, sockets, io, refs, m_socket, current, length,
                 fails>>

ScanFront ==
  /\ Scanning /\ Cur.part = "front"
  /\ Consume(Cur.req)
  /\ UNCHANGED printed

(* on_pdu_aux and on_pdu of the connection that made the scanner.          *)
OnPdu(s, r) ==
  LET c == m_socket[scanners[s].m_user] IN
  printed' = [printed EXCEPT ![c] = Append(@,
               [from |-> scanned[c] - 1, to |-> scanned[c] + 1, request |-> r])]

ScanBack ==
  /\ Scanning /\ Cur.part = "back"
  /\ OnPdu(ScannerOf(current), scanners[ScannerOf(current)].partial)
  /\ Consume(None)

(* scan() has returned: the next read is started before the handler lets   *)
(* go of the connection.                                                   *)
HandleReadDone_NoRead ==
  /\ current # 0 /\ m_ix = length
  /\ UNCHANGED m_socket
  /\ Release(current, refs)
  /\ current' = 0 /\ length' = 0 /\ m_ix' = 0
  /\ UNCHANGED <<client, taken, backlog, accepts, reads, ready, scanners, hist, fails>>

HandleReadDone ==
  /\ current # 0 /\ m_ix = length
  /\ UNCHANGED m_socket
  /\ reads' = [reads EXCEPT ![current] = @ + 1]
  /\ Release(current, StartRead(current, refs))
  /\ current' = 0 /\ length' = 0 /\ m_ix' = 0
  /\ UNCHANGED <<client, taken, backlog, accepts, ready, scanners, hist,
                 fails>>

Read    == \E i \in Conns : ReadIo(i) \/ ReadEnds(i)
Handler == \/ HandleAccept \/ HandleReadError \/ HandleRead
           \/ ScanFront \/ ScanBack \/ HandleReadDone
Server  == AcceptIo \/ AcceptFails \/ Read \/ Handler
Peers   == Idle /\ \E c \in Clients : Connect(c) \/ Send(c) \/ Close(c)

Next == Server \/ Peers

Spec == Init /\ [][Next]_vars

(* The io_service accepts and reads what is there and runs its handlers.   *)
(* Nothing is assumed of the clients.                                      *)
Fairness == WF_vars(AcceptIo) /\ WF_vars(Read) /\ WF_vars(Handler)

FairSpec == Spec /\ Fairness

-------------------------------------------------------------------------------
(* Properties.                                                             *)

AcceptDone == [op : {"accept"}, socket : Clients \cup {None}]
ReadDone   == [op : {"read"}, conn : Conns, length : Nat]
Printed    == [from : Nat, to : Nat, request : Requests]

(* The kinds of handlers, scanners and requests: a client's requests are   *)
(* requests, never the rest of one.                                        *)
TypeOK ==
  /\ \A c \in Clients : stream[c] \in Streams[c]
  /\ arrived \in [Clients -> Nat] /\ taken \in [Clients -> Nat]
  /\ closed \in [Clients -> {"no", "fin", "rst"}]
  /\ backlog \in Seq(Clients) /\ sockets \in SUBSET Clients
  /\ accepts \in Nat /\ reads \in [Conns -> Nat]
  /\ ready \in Seq(AcceptDone \cup ReadDone)
  /\ refs \in [Conns -> Nat] /\ m_socket \in [Conns -> Clients \cup {None}]
  /\ scanners \in Seq([m_user : Conns, partial : Requests \cup {None}])
  /\ current \in Conns \cup {0} /\ length \in Nat /\ m_ix \in Nat
  /\ scanned \in [Clients -> Nat] /\ printed \in [Clients -> Seq(Printed)]
  /\ fails \in Nat

AcceptsDone == {k \in 1 .. Len(ready) : ready[k].op = "accept"}
ReadsDone(i) == {k \in 1 .. Len(ready) : ready[k].op = "read" /\ ready[k].conn = i}

(* The accept loop neither dies, a failed accept included, nor multiplies. *)
OneAccept == accepts + Cardinality(AcceptsDone) = 1

(* What asio and the scanner have to do with connection i.                 *)
Uses(i) == reads[i] + Cardinality(ReadsDone(i)) + (IF current = i THEN 1 ELSE 0)

(* Whatever asio or a scanner still has to do with a connection, the       *)
(* object is there - no read into a buffer that is gone, no callback into  *)
(* a destroyed connection although its scanner is never deleted - and no   *)
(* read writes to a buffer that is waiting to be scanned or being scanned. *)
HeldWhileUsed ==
  /\ \A i \in Conns : Uses(i) <= 1 /\ (Uses(i) > 0 => refs[i] > 0)
  /\ current # 0 => refs[scanners[ScannerOf(current)].m_user] > 0

(* A client that closes in good order has had every token scanned before   *)
(* its socket is given up.                                                 *)
AllRead ==
  \A c \in Clients :
    Accepted(c) /\ c \notin sockets =>
      closed[c] = "rst" \/ (closed[c] = "fin" /\ scanned[c] = arrived[c])

(* The requests in a client's stream, as the promise of PduStream has it.  *)
IsMessage(s, p, q) ==
  /\ q = p + 2 /\ q <= Len(s)
  /\ s[p + 1].part = "front" /\ s[q].part = "back" /\ s[q].req = s[p + 1].req
RequestAt(s, p) == s[p + 1].req

(* Every token up to here is settled.                                      *)
Settled(c) ==
  scanned[c] - Cardinality({k \in 1 .. Len(scanners) :
                              m_socket[k] = c /\ scanners[k].partial # None})

Connection(c) == INSTANCE PduStream WITH
                   Streams <- Streams[c], IsFrame <- IsMessage, Decode <- RequestAt,
                   stream <- stream[c], pos <- Settled(c), pdus <- printed[c]

(* Each client has the scanner's promise for itself: its requests come out *)
(* whole and in order whatever the other connections do, including those   *)
(* that ended in the middle of a message.                                  *)
Promise ==
  /\ \A c \in Clients : Connection(c)!Init
  /\ [][\A c \in Clients :
          Connection(c)!Next \/ UNCHANGED Connection(c)!vars]_vars

(* A request that has arrived on an accepted connection is handed out,     *)
(* unless the client resets it.                                            *)
Unhandled(c) ==
  /\ Accepted(c) /\ closed[c] # "rst"
  /\ Settled(c) + 2 <= arrived[c]
  /\ IsMessage(stream[c], Settled(c), Settled(c) + 2)
Handled == \A c \in Clients : Unhandled(c) ~> ~Unhandled(c)

(* A connection the client has closed gives its socket back.               *)
SocketFreed ==
  \A c \in Clients : (c \in sockets /\ closed[c] # "no") ~> c \notin sockets

(* As long as sockets are freed again and again, no client waits for ever, *)
(* failed accepts or not.                                                  *)
NextServed ==
  \A c \in Clients : []<>(~Full) => (Waiting(c) ~> ~Waiting(c))
-------------------------------------------------------------------------------
(* Why the properties hold: each connection has at most one thing under    *)
(* way, which holds its one shared_ptr and says how far its stream is done.*)

HasAccept(c) == \E k \in 1 .. Len(ready) : ready[k].op = "accept" /\ ready[k].socket = c
HasRead(i)   == \E k \in 1 .. Len(ready) : ready[k].op = "read" /\ ready[k].conn = i
Made         == 1 .. Len(scanners)
Connects(i)  == i \in Made /\ m_socket[i] # None

(* No handler is queued twice, and an accept is outstanding or completed.  *)
OnceQueued ==
  /\ \A j, k \in 1 .. Len(ready) :
       /\ ready[j].op = ready[k].op
       /\ ready[j].op = "read" => ready[j].conn = ready[k].conn
       => j = k
  /\ accepts = IF AcceptsDone = {} THEN 1 ELSE 0

(* One use of a connection at a time, which is what holds it.              *)
OneUse ==
  \A i \in Conns :
    /\ reads[i] \in {0, 1}
    /\ reads[i] = 1 => current # i /\ ~HasRead(i)
    /\ current = i => ~HasRead(i)
    /\ refs[i] = IF reads[i] = 1 \/ current = i \/ HasRead(i) THEN 1 ELSE 0

(* Connections are numbered as they are made, with a scanner each; the     *)
(* numbers suffice.                                                        *)
Numbered ==
  /\ \A i \in Conns \ Made : m_socket[i] = None /\ refs[i] = 0
  /\ \A i \in Made : i \in Conns /\ scanners[i].m_user = i
  /\ fails <= MaxFails
  /\ Cardinality({i \in Made : m_socket[i] = None})
       + (IF HasAccept(None) THEN 1 ELSE 0) = fails

(* A client is in one place: in the backlog, in an accept or connected.    *)
Apart ==
  /\ \A i, j \in Made : Connects(i) /\ m_socket[i] = m_socket[j] => i = j
  /\ \A j, k \in 1 .. Len(backlog) : backlog[j] = backlog[k] => j = k
  /\ \A c \in Clients : Waiting(c) => ~Accepted(c)
  /\ \A c \in Clients : HasAccept(c) => \A i \in Made : m_socket[i] # c
  /\ \A c \in Clients :
       c \in sockets <=>
         HasAccept(c) \/ \E i \in Made : m_socket[i] = c /\ refs[i] = 1

(* Where the scanner of connection i is in its stream.                     *)
Position ==
  /\ \A c \in Clients :
       /\ taken[c] <= arrived[c] /\ arrived[c] <= Len(stream[c])
       /\ (\A i \in Made : m_socket[i] # c) => taken[c] = 0 /\ scanned[c] = 0
  /\ \A i \in Made :
       Connects(i) /\ current # i /\ ~HasRead(i) =>
         scanned[m_socket[i]] = taken[m_socket[i]]
  /\ IF current = 0 THEN length = 0 /\ m_ix = 0
     ELSE /\ Connects(current) /\ m_ix <= length
          /\ scanned[m_socket[current]] + length = taken[m_socket[current]] + m_ix
  /\ \A k \in 1 .. Len(ready) :
       ready[k].op = "read" =>
         LET c == m_socket[ready[k].conn] IN
         /\ c # None => scanned[c] + ready[k].length = taken[c]
         /\ c = None => ready[k].length = 0

(* A read that ends was told so; so was a connection that is gone.         *)
Ended(c) == closed[c] = "rst" \/ (closed[c] = "fin" /\ taken[c] = arrived[c])
EndsTold ==
  /\ \A k \in 1 .. Len(ready) :
       ready[k].op = "read" /\ ready[k].length = 0 /\ m_socket[ready[k].conn] # None =>
         Ended(m_socket[ready[k].conn])
  /\ \A i \in Made : Connects(i) /\ refs[i] = 0 => Ended(m_socket[i])

(* A scanner remembers the request whose front was the last thing scanned. *)
Inside ==
  \A i \in Made :
    LET c == m_socket[i] IN
    scanners[i].partial =
      IF Connects(i) /\ scanned[c] > 0 /\ stream[c][scanned[c]].part = "front"
        THEN stream[c][scanned[c]].req ELSE None

IInv ==
  /\ TypeOK /\ OnceQueued /\ OneUse /\ Numbered /\ Apart /\ Position /\ EndsTold
  /\ Inside
===============================================================================
