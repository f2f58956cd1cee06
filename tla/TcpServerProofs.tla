---------------------------- MODULE TcpServerProofs ----------------------------
(***************************************************************************)
(* Theorems about TcpServer for every finite set of clients, whatever they *)
(* send, any number of descriptors and of failed accepts.                  *)
(***************************************************************************)
EXTENDS TcpServer, SequenceTheorems, FiniteSetTheorems, TLAPS

Handlers == AcceptDone \cup ReadDone

-------------------------------------------------------------------------------
(* Lemmas about the operators of the model.                                *)

(* Connections have numbers.                                               *)
LEMMA ConnsType ==
  /\ Cardinality(Clients) \in Nat /\ MaxFails \in Nat
  /\ Conns \subseteq Nat /\ 0 \notin Conns
<1>1. Cardinality(Clients) \in Nat
  BY ClientsAssumption, FS_CardinalityType
<1> QED
  BY <1>1, LimitsAssumption DEF Conns

(* The kinds of completion handlers.                                       *)
LEMMA HandlerKinds ==
  ASSUME NEW h \in Handlers
  PROVE  /\ h.op \in {"accept", "read"}
         /\ h.op = "accept" => h.socket \in Clients \cup {None}
         /\ h.op = "read" => h.conn \in Conns /\ h.length \in Nat
BY DEF Handlers, AcceptDone, ReadDone

(* What may be in the queue of handlers.                                   *)
LEMMA QueueType ==
  ASSUME TypeOK
  PROVE  /\ ready \in Seq(Handlers) /\ Len(ready) \in Nat
         /\ \A k \in 1 .. Len(ready) :
              /\ ready[k].op \in {"accept", "read"}
              /\ ready[k].op = "accept" => ready[k].socket \in Clients \cup {None}
              /\ ready[k].op = "read" => ready[k].conn \in Conns /\ ready[k].length \in Nat
<1>1. ready \in Seq(Handlers)
  BY DEF TypeOK, Handlers
<1>2. \A k \in 1 .. Len(ready) : ready[k] \in Handlers
  BY <1>1, ElementOfSeq
<1> QED
  BY <1>1, <1>2, HandlerKinds

(* What a client says is one of the streams it may say.                    *)
LEMMA StreamType ==
  ASSUME TypeOK, NEW c \in Clients
  PROVE  stream[c] \in Seq(Token) /\ Len(stream[c]) \in Nat /\ IsTraffic(stream[c])
<1>1. stream[c] \in Seq(Token) /\ IsTraffic(stream[c])
  BY StreamsAssumption DEF TypeOK
<1> QED
  BY <1>1

(* A connection is connected to a client or to nobody.                     *)
LEMMA ConnType ==
  ASSUME TypeOK, Numbered
  PROVE  /\ Made \subseteq Conns /\ Made \subseteq Nat
         /\ \A i \in Conns : m_socket[i] \in Clients \cup {None}
         /\ \A i : Connects(i) => i \in Conns /\ m_socket[i] \in Clients
BY DEF TypeOK, Numbered, Made, Connects

(* A connection that is read from, or was, has been made.                  *)
LEMMA UsedIsMade ==
  ASSUME TypeOK, Numbered, OneUse, NEW i \in Conns,
         reads[i] > 0 \/ current = i \/ HasRead(i)
  PROVE  i \in Made /\ refs[i] = 1
BY DEF TypeOK, OneUse, Numbered

(* A handler is queued behind the others.                                  *)
LEMMA Enqueued ==
  ASSUME TypeOK, NEW h \in Handlers, ready' = Append(ready, h)
  PROVE  /\ ready' \in Seq(Handlers)
         /\ \A k \in 1 .. Len(ready') :
              \/ k \in 1 .. Len(ready) /\ ready'[k] = ready[k]
              \/ k = Len(ready) + 1 /\ ready'[k] = h
         /\ \A k \in 1 .. Len(ready) : k \in 1 .. Len(ready') /\ ready'[k] = ready[k]
         /\ Len(ready) + 1 \in 1 .. Len(ready') /\ ready'[Len(ready) + 1] = h
<1>1. ready \in Seq(Handlers) /\ Len(ready) \in Nat
  BY QueueType
<1> QED
  BY <1>1, AppendProperties

(* The completion of an accept is queued.                                  *)
LEMMA AcceptEnqueued ==
  ASSUME TypeOK, NEW c \in Clients \cup {None},
         ready' = Append(ready, [op |-> "accept", socket |-> c])
  PROVE  /\ ready' \in Seq(Handlers)
         /\ \A i : HasRead(i)' <=> HasRead(i)
         /\ \A d : HasAccept(d)' <=> HasAccept(d) \/ d = c
         /\ AcceptsDone' # {}
         /\ \A k \in 1 .. Len(ready') :
              \/ k \in 1 .. Len(ready) /\ ready'[k] = ready[k]
              \/ k = Len(ready) + 1 /\ ready'[k].op = "accept" /\ ready'[k].socket = c
<1> DEFINE h == [op |-> "accept", socket |-> c]
<1>1. h \in Handlers /\ h.op = "accept" /\ h.socket = c
  BY DEF Handlers, AcceptDone
<1> HIDE DEF h
<1>2. /\ ready' \in Seq(Handlers)
      /\ \A k \in 1 .. Len(ready') :
           \/ k \in 1 .. Len(ready) /\ ready'[k] = ready[k]
           \/ k = Len(ready) + 1 /\ ready'[k] = h
      /\ \A k \in 1 .. Len(ready) : k \in 1 .. Len(ready') /\ ready'[k] = ready[k]
      /\ Len(ready) + 1 \in 1 .. Len(ready') /\ ready'[Len(ready) + 1] = h
  BY <1>1, Enqueued DEF h
<1>3. \A i : HasRead(i)' <=> HasRead(i)
  BY <1>1, <1>2 DEF HasRead
<1>4. \A d : HasAccept(d)' <=> HasAccept(d) \/ d = c
  BY <1>1, <1>2 DEF HasAccept
<1>5. AcceptsDone' # {}
  BY <1>1, <1>2 DEF AcceptsDone
<1> QED
  BY <1>1, <1>2, <1>3, <1>4, <1>5

(* The completion of a read is queued.                                     *)
LEMMA ReadEnqueued ==
  ASSUME TypeOK, NEW i \in Conns, NEW n \in Nat,
         ready' = Append(ready, [op |-> "read", conn |-> i, length |-> n])
  PROVE  /\ ready' \in Seq(Handlers)
         /\ \A j : HasRead(j)' <=> HasRead(j) \/ j = i
         /\ \A d : HasAccept(d)' <=> HasAccept(d)
         /\ AcceptsDone' = {} <=> AcceptsDone = {}
         /\ \A k \in 1 .. Len(ready') :
              \/ k \in 1 .. Len(ready) /\ ready'[k] = ready[k]
              \/ /\ k = Len(ready) + 1 /\ ready'[k].op = "read"
                 /\ ready'[k].conn = i /\ ready'[k].length = n
<1> DEFINE h == [op |-> "read", conn |-> i, length |-> n]
<1>1. h \in Handlers /\ h.op = "read" /\ h.conn = i /\ h.length = n
  BY DEF Handlers, ReadDone
<1> HIDE DEF h
<1>2. /\ ready' \in Seq(Handlers)
      /\ \A k \in 1 .. Len(ready') :
           \/ k \in 1 .. Len(ready) /\ ready'[k] = ready[k]
           \/ k = Len(ready) + 1 /\ ready'[k] = h
      /\ \A k \in 1 .. Len(ready) : k \in 1 .. Len(ready') /\ ready'[k] = ready[k]
      /\ Len(ready) + 1 \in 1 .. Len(ready') /\ ready'[Len(ready) + 1] = h
  BY <1>1, Enqueued DEF h
<1>3. \A j : HasRead(j)' <=> HasRead(j) \/ j = i
  BY <1>1, <1>2 DEF HasRead
<1>4. \A d : HasAccept(d)' <=> HasAccept(d)
  BY <1>1, <1>2 DEF HasAccept
<1>5. AcceptsDone' = {} <=> AcceptsDone = {}
  BY <1>1, <1>2 DEF AcceptsDone
<1> QED
  BY <1>1, <1>2, <1>3, <1>4, <1>5

(* The first handler leaves the queue.                                     *)
LEMMA Dequeued ==
  ASSUME TypeOK, OnceQueued, ready # << >>, ready' = Tail(ready)
  PROVE  /\ ready' \in Seq(Handlers)
         /\ 1 \in 1 .. Len(ready) /\ Head(ready) = ready[1]
         /\ \A k \in 1 .. Len(ready') : k + 1 \in 1 .. Len(ready) /\ ready'[k] = ready[k + 1]
         /\ \A k \in 1 .. Len(ready) :
              k # 1 => k - 1 \in 1 .. Len(ready') /\ ready'[k - 1] = ready[k]
<1>1. ready \in Seq(Handlers) /\ Len(ready) \in Nat /\ Len(ready) # 0
  BY QueueType, EmptySeq
<1>2. /\ ready' \in Seq(Handlers) /\ Len(ready') = Len(ready) - 1
      /\ \A k \in 1 .. Len(ready') : ready'[k] = ready[k + 1]
  BY <1>1, HeadTailProperties
<1>3. Head(ready) = ready[1]
  BY <1>1
<1>4. ASSUME NEW k \in 1 .. Len(ready), k # 1
      PROVE  k - 1 \in 1 .. Len(ready') /\ ready'[k - 1] = ready[k]
  <2>1. k - 1 \in 1 .. Len(ready') /\ (k - 1) + 1 = k
    BY <1>1, <1>2, <1>4
  <2> QED
    BY <1>2, <2>1
<1> QED
  BY <1>1, <1>2, <1>3, <1>4

(* Those behind it are still queued once.                                  *)
LEMMA StillOnce ==
  ASSUME TypeOK, OnceQueued, ready # << >>, ready' = Tail(ready)
  PROVE  \A j, k \in 1 .. Len(ready') :
           /\ ready'[j].op = ready'[k].op
           /\ ready'[j].op = "read" => ready'[j].conn = ready'[k].conn
           => j = k
<1> SUFFICES ASSUME NEW j \in 1 .. Len(ready'), NEW k \in 1 .. Len(ready'),
                    ready'[j].op = ready'[k].op,
                    ready'[j].op = "read" => ready'[j].conn = ready'[k].conn
             PROVE  j = k
  OBVIOUS
<1>1. /\ j + 1 \in 1 .. Len(ready) /\ ready'[j] = ready[j + 1]
      /\ k + 1 \in 1 .. Len(ready) /\ ready'[k] = ready[k + 1]
  BY Dequeued
<1>2. \A a, b \in 1 .. Len(ready) :
        /\ ready[a].op = ready[b].op
        /\ ready[a].op = "read" => ready[a].conn = ready[b].conn
        => a = b
  BY DEF OnceQueued
<1>3. /\ ready[j + 1].op = ready[k + 1].op
      /\ ready[j + 1].op = "read" => ready[j + 1].conn = ready[k + 1].conn
  BY <1>1
<1>4. j + 1 = k + 1
  BY <1>1, <1>2, <1>3
<1> QED
  BY <1>4

(* The one completion of an accept leaves the queue.                       *)
LEMMA AcceptDequeued ==
  ASSUME TypeOK, OnceQueued, ready # << >>, ready' = Tail(ready),
         NEW c, Head(ready).op = "accept", Head(ready).socket = c
  PROVE  /\ ready' \in Seq(Handlers)
         /\ HasAccept(c)
         /\ \A d : HasAccept(d) => d = c
         /\ \A i : HasRead(i)' <=> HasRead(i)
         /\ AcceptsDone # {} /\ AcceptsDone' = {}
         /\ \A d : ~HasAccept(d)'
         /\ \A k \in 1 .. Len(ready') : k + 1 \in 1 .. Len(ready) /\ ready'[k] = ready[k + 1]
<1>1. /\ ready' \in Seq(Handlers)
      /\ 1 \in 1 .. Len(ready) /\ Head(ready) = ready[1]
      /\ \A k \in 1 .. Len(ready') : k + 1 \in 1 .. Len(ready) /\ ready'[k] = ready[k + 1]
      /\ \A k \in 1 .. Len(ready) :
           k # 1 => k - 1 \in 1 .. Len(ready') /\ ready'[k - 1] = ready[k]
  BY Dequeued
<1>2. \A k \in 1 .. Len(ready) : ready[k].op = "accept" => k = 1
  BY <1>1 DEF OnceQueued
<1>3. \A k \in 1 .. Len(ready') : ready'[k].op # "accept"
  <2> SUFFICES ASSUME NEW k \in 1 .. Len(ready'), ready'[k].op = "accept" PROVE FALSE
    OBVIOUS
  <2>1. k + 1 \in 1 .. Len(ready) /\ ready[k + 1].op = "accept"
    BY <1>1
  <2>2. k + 1 = 1
    BY <1>2, <2>1
  <2> QED
    BY <2>2
<1>4. HasAccept(c) /\ \A d : HasAccept(d) => d = c
  BY <1>1, <1>2 DEF HasAccept
<1>5. ASSUME NEW i PROVE HasRead(i)' <=> HasRead(i)
  BY <1>1 DEF HasRead
<1>6. AcceptsDone # {} /\ AcceptsDone' = {}
  BY <1>1, <1>3 DEF AcceptsDone
<1>7. \A d : ~HasAccept(d)'
  BY <1>3 DEF HasAccept
<1> QED
  BY <1>1, <1>4, <1>5, <1>6, <1>7

(* The one completion of a read of its connection leaves the queue.        *)
LEMMA ReadDequeued ==
  ASSUME TypeOK, OnceQueued, ready # << >>, ready' = Tail(ready),
         NEW i, Head(ready).op = "read", Head(ready).conn = i
  PROVE  /\ ready' \in Seq(Handlers)
         /\ i \in Conns /\ Head(ready).length \in Nat
         /\ HasRead(i)
         /\ ~HasRead(i)'
         /\ \A j : j # i => (HasRead(j)' <=> HasRead(j))
         /\ \A d : HasAccept(d)' <=> HasAccept(d)
         /\ AcceptsDone' = {} <=> AcceptsDone = {}
         /\ 1 \in 1 .. Len(ready) /\ Head(ready) = ready[1]
         /\ \A k \in 1 .. Len(ready') : k + 1 \in 1 .. Len(ready) /\ ready'[k] = ready[k + 1]
<1>1. /\ ready' \in Seq(Handlers)
      /\ 1 \in 1 .. Len(ready) /\ Head(ready) = ready[1]
      /\ \A k \in 1 .. Len(ready') : k + 1 \in 1 .. Len(ready) /\ ready'[k] = ready[k + 1]
      /\ \A k \in 1 .. Len(ready) :
           k # 1 => k - 1 \in 1 .. Len(ready') /\ ready'[k - 1] = ready[k]
  BY Dequeued
<1>2. i \in Conns /\ Head(ready).length \in Nat
  BY <1>1, QueueType
<1>3. \A k \in 1 .. Len(ready) :
        ready[k].op = "read" /\ ready[k].conn = i => k = 1
  BY <1>1 DEF OnceQueued
<1>4. HasRead(i)
  BY <1>1 DEF HasRead
<1>5. ~HasRead(i)'
  <2> SUFFICES ASSUME NEW k \in 1 .. Len(ready'), ready'[k].op = "read", ready'[k].conn = i
               PROVE  FALSE
    BY DEF HasRead
  <2>1. k + 1 \in 1 .. Len(ready) /\ k + 1 = 1
    BY <1>1, <1>3
  <2> QED
    BY <2>1
<1>6. ASSUME NEW j, j # i PROVE HasRead(j)' <=> HasRead(j)
  BY <1>1, <1>6 DEF HasRead
<1>7. ASSUME NEW d PROVE HasAccept(d)' <=> HasAccept(d)
  <2>1. \A k \in 1 .. Len(ready) :
          ready[k].op = "accept" => \E j \in 1 .. Len(ready') : ready'[j] = ready[k]
    BY <1>1
  <2>2. \A k \in 1 .. Len(ready') : \E j \in 1 .. Len(ready) : ready'[k] = ready[j]
    BY <1>1
  <2> QED
    BY <2>1, <2>2 DEF HasAccept
<1>8. AcceptsDone' = {} <=> AcceptsDone = {}
  <2>1. ASSUME AcceptsDone' # {} PROVE AcceptsDone # {}
    <3>1. PICK k \in 1 .. Len(ready') : ready'[k].op = "accept"
      BY <2>1 DEF AcceptsDone
    <3>2. k + 1 \in 1 .. Len(ready) /\ ready[k + 1].op = "accept"
      BY <1>1, <3>1
    <3> QED
      BY <3>2 DEF AcceptsDone
  <2>2. ASSUME AcceptsDone # {} PROVE AcceptsDone' # {}
    <3>1. PICK k \in 1 .. Len(ready) : ready[k].op = "accept"
      BY <2>2 DEF AcceptsDone
    <3>2. k - 1 \in 1 .. Len(ready') /\ ready'[k - 1].op = "accept"
      BY <1>1, <3>1
    <3> QED
      BY <3>2 DEF AcceptsDone
  <2> QED
    BY <2>1, <2>2
<1> QED
  BY <1>1, <1>2, <1>4, <1>5, <1>6, <1>7, <1>8

-------------------------------------------------------------------------------
(* What a step leaves alone.                                               *)

LEMMA Kept ==
  /\ OnceQueued /\ UNCHANGED <<ready, accepts>> => OnceQueued'
  /\ OneUse /\ UNCHANGED <<ready, reads, refs, current>> => OneUse'
  /\ Numbered /\ UNCHANGED <<ready, refs, m_socket, scanners, fails>> => Numbered'
  /\ Apart /\ UNCHANGED <<ready, refs, m_socket, scanners, backlog, sockets>> => Apart'
  /\ EndsTold /\ UNCHANGED <<ready, refs, m_socket, scanners, closed, taken, arrived>>
       => EndsTold'
  /\ Inside /\ UNCHANGED <<m_socket, scanners, scanned, stream>> => Inside'
<1>1. OnceQueued /\ UNCHANGED <<ready, accepts>> => OnceQueued'
  BY DEF OnceQueued, AcceptsDone
<1>2. OneUse /\ UNCHANGED <<ready, reads, refs, current>> => OneUse'
  BY DEF OneUse, HasRead
<1>3. Numbered /\ UNCHANGED <<ready, refs, m_socket, scanners, fails>> => Numbered'
  BY DEF Numbered, HasAccept, Made
<1>4. Apart /\ UNCHANGED <<ready, refs, m_socket, scanners, backlog, sockets>> => Apart'
  BY DEF Apart, HasAccept, Made, Connects, Waiting, Accepted
<1>5. EndsTold /\ UNCHANGED <<ready, refs, m_socket, scanners, closed, taken, arrived>>
        => EndsTold'
  BY DEF EndsTold, Ended, Made, Connects
<1>6. Inside /\ UNCHANGED <<m_socket, scanners, scanned, stream>> => Inside'
  BY DEF Inside, Made, Connects
<1> QED
  BY <1>1, <1>2, <1>3, <1>4, <1>5, <1>6

(* So does this part.                                                      *)
LEMMA PositionKept ==
  Position /\ UNCHANGED <<ready, m_socket, scanners, current, length, m_ix, taken, arrived,
                          scanned, stream>> => Position'
BY DEF Position, HasRead, Made, Connects

-------------------------------------------------------------------------------
(* The invariant, one lemma per action.                                    *)

LEMMA InitIInv == Init => IInv
<1> SUFFICES ASSUME Init PROVE IInv
  OBVIOUS
<1>1. ready = << >> /\ Len(ready) = 0 /\ scanners = << >> /\ Len(scanners) = 0
      /\ backlog = << >> /\ Len(backlog) = 0
  BY DEF Init
<1>2. Made = {} /\ AcceptsDone = {} /\ (\A i : ~HasRead(i)) /\ (\A c : ~HasAccept(c))
  BY <1>1 DEF Made, AcceptsDone, HasRead, HasAccept
<1>3. TypeOK
  BY LimitsAssumption DEF Init, TypeOK
<1>4. OnceQueued
  BY <1>1, <1>2 DEF Init, OnceQueued
<1>5. OneUse
  BY <1>2, ConnsType DEF Init, OneUse
<1>6. Numbered
  <2>1. Cardinality({i \in Made : m_socket[i] = None}) = 0
    BY <1>2, FS_EmptySet
  <2> QED
    BY <1>2, <2>1, LimitsAssumption DEF Init, Numbered
<1>7. Apart
  BY <1>1, <1>2 DEF Init, Apart, Waiting
<1>8. Position
  <2>1. \A c \in Clients : Len(stream[c]) \in Nat
    BY StreamsAssumption DEF Init
  <2> QED
    BY <1>1, <1>2, <2>1 DEF Init, Position
<1>9. EndsTold /\ Inside
  BY <1>1, <1>2 DEF EndsTold, Inside
<1> QED
  BY <1>3, <1>4, <1>5, <1>6, <1>7, <1>8, <1>9 DEF IInv

(* A client connects that is nowhere else.                                 *)
LEMMA ConnectIInv ==
  ASSUME NEW c \in Clients
  PROVE  IInv /\ Connect(c) => IInv'
<1> SUFFICES ASSUME IInv, Connect(c) PROVE IInv'
  OBVIOUS
<1>1. /\ TypeOK /\ OnceQueued /\ OneUse /\ Numbered /\ Apart /\ Position /\ EndsTold /\ Inside
  BY DEF IInv
<1>2. /\ ~Waiting(c) /\ ~Accepted(c) /\ backlog' = Append(backlog, c)
      /\ UNCHANGED <<stream, arrived, taken, closed, sockets, accepts, reads, ready, refs,
                      m_socket, scanners, current, length, m_ix, scanned, printed, fails>>
  BY DEF Connect, Connected, client, io, conn, scan, hist
<1>3. backlog \in Seq(Clients) /\ Len(backlog) \in Nat
  BY <1>1 DEF TypeOK
<1>4. /\ backlog' \in Seq(Clients) /\ Len(backlog') = Len(backlog) + 1
      /\ \A k \in 1 .. Len(backlog) : backlog'[k] = backlog[k]
      /\ backlog'[Len(backlog) + 1] = c
  BY <1>2, <1>3, AppendProperties
<1>5. TypeOK'
  BY <1>1, <1>2, <1>4 DEF TypeOK
<1>6. OnceQueued' /\ OneUse' /\ Numbered' /\ EndsTold' /\ Inside'
  BY <1>1, <1>2, Kept
<1>7. Position'
  BY <1>1, <1>2, PositionKept
<1>8. Apart'
  <2>1. \A k \in 1 .. Len(backlog') :
          \/ k \in 1 .. Len(backlog) /\ backlog'[k] = backlog[k]
          \/ k = Len(backlog) + 1 /\ backlog'[k] = c
    BY <1>3, <1>4
  <2>2. \A j, k \in 1 .. Len(backlog') : backlog'[j] = backlog'[k] => j = k
    BY <1>1, <1>2, <2>1 DEF Apart, Waiting
  <2>3. \A d \in Clients : Waiting(d)' => ~Accepted(d)'
    BY <1>1, <1>2, <2>1 DEF Apart, Waiting, Accepted
  <2> QED
    BY <1>1, <1>2, <2>2, <2>3, ZenonT(30) DEF Apart, HasAccept, Made, Connects
<1> QED
  BY <1>5, <1>6, <1>7, <1>8 DEF IInv

(* What a client sends after it was accepted arrives.                      *)
LEMMA SendIInv ==
  ASSUME NEW c \in Clients
  PROVE  IInv /\ Send(c) => IInv'
<1> SUFFICES ASSUME IInv, Send(c) PROVE IInv'
  OBVIOUS
<1>1. /\ TypeOK /\ OnceQueued /\ OneUse /\ Numbered /\ Apart /\ Position /\ EndsTold /\ Inside
  BY DEF IInv
<1>2. /\ closed[c] = "no" /\ arrived[c] < Len(stream[c])
      /\ arrived' = [arrived EXCEPT ![c] = @ + 1]
      /\ UNCHANGED <<stream, taken, closed, backlog, sockets, accepts, reads, ready, refs,
                      m_socket, scanners, current, length, m_ix, scanned, printed, fails>>
  BY DEF Send, io, conn, scan, hist
<1>3. /\ arrived \in [Clients -> Nat] /\ taken \in [Clients -> Nat]
      /\ stream[c] \in Seq(Token) /\ Len(stream[c]) \in Nat
  BY <1>1, StreamType DEF TypeOK
<1>4. /\ arrived' \in [Clients -> Nat] /\ arrived'[c] = arrived[c] + 1
      /\ \A d \in Clients : d # c => arrived'[d] = arrived[d]
  BY <1>2, <1>3
<1>5. TypeOK'
  BY <1>1, <1>2, <1>4 DEF TypeOK
<1>6. OnceQueued' /\ OneUse' /\ Numbered' /\ Apart' /\ Inside'
  BY <1>1, <1>2, Kept
<1>7. Position'
  <2>1. \A d \in Clients : taken[d] <= arrived'[d] /\ arrived'[d] <= Len(stream[d])
    <3>1. taken[c] <= arrived'[c] /\ arrived'[c] <= Len(stream[c])
      BY <1>1, <1>2, <1>3, <1>4 DEF Position
    <3> QED
      BY <1>1, <1>4, <3>1 DEF Position
  <2> QED
    BY <1>1, <1>2, <2>1 DEF Position, HasRead, Made, Connects
<1>8. EndsTold'
  <2>1. \A d \in Clients : Ended(d) => Ended(d)'
    BY <1>2, <1>4 DEF Ended
  <2> QED
    BY <1>1, <1>2, <2>1, QueueType DEF EndsTold, Made, Connects, TypeOK, Numbered
<1> QED
  BY <1>5, <1>6, <1>7, <1>8 DEF IInv

(* A client closes its connection.                                         *)
LEMMA CloseIInv ==
  ASSUME NEW c \in Clients
  PROVE  IInv /\ Close(c) => IInv'
<1> SUFFICES ASSUME IInv, Close(c) PROVE IInv'
  OBVIOUS
<1>1. /\ TypeOK /\ OnceQueued /\ OneUse /\ Numbered /\ Apart /\ Position /\ EndsTold /\ Inside
  BY DEF IInv
<1>2. /\ closed[c] = "no" /\ \E how \in {"fin", "rst"} : closed' = [closed EXCEPT ![c] = how]
      /\ UNCHANGED <<stream, arrived, taken, backlog, sockets, accepts, reads, ready, refs,
                      m_socket, scanners, current, length, m_ix, scanned, printed, fails>>
  BY DEF Close, io, conn, scan, hist
<1>3. closed' \in [Clients -> {"no", "fin", "rst"}] /\ \A d \in Clients : d # c => closed'[d] = closed[d]
  BY <1>1, <1>2 DEF TypeOK
<1>4. TypeOK'
  BY <1>1, <1>2, <1>3 DEF TypeOK
<1>5. OnceQueued' /\ OneUse' /\ Numbered' /\ Apart' /\ Inside'
  BY <1>1, <1>2, Kept
<1>6. Position'
  BY <1>1, <1>2, PositionKept
<1>7. EndsTold'
  <2>1. \A d \in Clients : Ended(d) => Ended(d)'
    BY <1>2, <1>3 DEF Ended
  <2> QED
    BY <1>1, <1>2, <2>1, QueueType, ZenonT(30) DEF EndsTold, Made, Connects, TypeOK, Numbered
<1> QED
  BY <1>4, <1>5, <1>6, <1>7 DEF IInv

(* The first client of the backlog is accepted.                            *)
LEMMA AcceptIoIInv == IInv /\ AcceptIo => IInv'
<1> SUFFICES ASSUME IInv, AcceptIo PROVE IInv'
  OBVIOUS
<1>1. /\ TypeOK /\ OnceQueued /\ OneUse /\ Numbered /\ Apart /\ Position /\ EndsTold /\ Inside
  BY DEF IInv
<1>2. PICK c : c = Head(backlog)
  OBVIOUS
<1>3. /\ accepts > 0 /\ accepts' = accepts - 1 /\ backlog # << >> /\ backlog' = Tail(backlog)
      /\ sockets' = sockets \cup {c}
      /\ ready' = Append(ready, [op |-> "accept", socket |-> c])
      /\ UNCHANGED <<stream, arrived, taken, closed, reads, refs, m_socket, scanners, current,
                      length, m_ix, scanned, printed, fails>>
  BY <1>2 DEF AcceptIo, client, conn, scan, hist
<1>4. /\ backlog \in Seq(Clients) /\ Len(backlog) \in Nat /\ Len(backlog) # 0
      /\ c \in Clients /\ c = backlog[1] /\ c # None
  BY <1>1, <1>2, <1>3, EmptySeq, NoneAssumption DEF TypeOK
<1>5. /\ backlog' \in Seq(Clients) /\ Len(backlog') = Len(backlog) - 1
      /\ \A k \in 1 .. Len(backlog') : backlog'[k] = backlog[k + 1]
  BY <1>3, <1>4, HeadTailProperties
<1>6. Waiting(c) /\ ~Accepted(c)
  <2>1. 1 \in 1 .. Len(backlog)
    BY <1>4
  <2> QED
    BY <1>1, <1>4, <2>1 DEF Apart, Waiting
<1>7. accepts = 1 /\ AcceptsDone = {} /\ \A d : ~HasAccept(d)
  BY <1>1, <1>3 DEF OnceQueued, AcceptsDone, HasAccept
<1>8. /\ ready' \in Seq(Handlers)
      /\ \A i : HasRead(i)' <=> HasRead(i)
      /\ \A d : HasAccept(d)' <=> HasAccept(d) \/ d = c
      /\ AcceptsDone' # {}
      /\ \A k \in 1 .. Len(ready') :
           \/ k \in 1 .. Len(ready) /\ ready'[k] = ready[k]
           \/ k = Len(ready) + 1 /\ ready'[k].op = "accept" /\ ready'[k].socket = c
  BY <1>1, <1>3, <1>4, AcceptEnqueued
<1>9. TypeOK'
  <2>1. accepts' \in Nat /\ sockets' \in SUBSET Clients
    BY <1>1, <1>3, <1>4, <1>7, SMTT(20) DEF TypeOK
  <2> QED
    BY <1>1, <1>3, <1>5, <1>8, <2>1 DEF TypeOK, Handlers
<1>10. OnceQueued'
  <2>1. \A k \in 1 .. Len(ready) : ready[k].op # "accept"
    BY <1>7 DEF AcceptsDone
  <2> QED
    BY <1>1, <1>3, <1>7, <1>8, <2>1 DEF OnceQueued
<1>11. OneUse'
  BY <1>1, <1>3, <1>8 DEF OneUse
<1>12. Numbered'
  BY <1>1, <1>3, <1>4, <1>8 DEF Numbered, Made
<1>13. Apart'
  <2>1. \A j, k \in 1 .. Len(backlog') : backlog'[j] = backlog'[k] => j = k
    <3> SUFFICES ASSUME NEW j \in 1 .. Len(backlog'), NEW k \in 1 .. Len(backlog'),
                        backlog'[j] = backlog'[k]
                 PROVE  j = k
      OBVIOUS
    <3>1. j + 1 \in 1 .. Len(backlog) /\ k + 1 \in 1 .. Len(backlog)
      BY <1>4, <1>5
    <3>2. j + 1 = k + 1
      BY <1>1, <1>5, <3>1, SMTT(20) DEF Apart
    <3> QED
      BY <3>2
  <2>2. ASSUME NEW d \in Clients, Waiting(d)' PROVE d # c /\ Waiting(d)
    <3>1. PICK k \in 1 .. Len(backlog') : backlog'[k] = d
      BY <2>2 DEF Waiting
    <3>2. k + 1 \in 1 .. Len(backlog) /\ backlog[k + 1] = d /\ k + 1 # 1 /\ 1 \in 1 .. Len(backlog)
      BY <1>4, <1>5, <3>1
    <3> QED
      BY <1>1, <1>4, <3>2 DEF Waiting, Apart
  <2>3. \A d \in Clients : Waiting(d)' => ~Accepted(d)'
    BY <1>1, <1>3, <2>2 DEF Apart, Accepted
  <2>4. \A d \in Clients : HasAccept(d)' => \A i \in Made : m_socket[i] # d
    BY <1>6, <1>7, <1>8 DEF Accepted, Made
  <2>5. \A d \in Clients :
          d \in sockets' <=> HasAccept(d)' \/ \E i \in Made : m_socket[i] = d /\ refs[i] = 1
    BY <1>1, <1>3, <1>8 DEF Apart
  <2> QED
    BY <1>1, <1>3, <2>1, <2>3, <2>4, <2>5 DEF Apart, Made, Connects
<1>14. Position'
  BY <1>1, <1>3, <1>8 DEF Position, Made, Connects
<1>15. EndsTold'
  BY <1>1, <1>3, <1>8 DEF EndsTold, Ended, Made, Connects
<1>16. Inside'
  BY <1>1, <1>3, Kept
<1> QED
  BY <1>9, <1>10, <1>11, <1>12, <1>13, <1>14, <1>15, <1>16 DEF IInv

(* An accept fails, which uses up one of the failures.                     *)
LEMMA AcceptFailsIInv == IInv /\ AcceptFails => IInv'
<1> SUFFICES ASSUME IInv, AcceptFails PROVE IInv'
  OBVIOUS
<1>1. /\ TypeOK /\ OnceQueued /\ OneUse /\ Numbered /\ Apart /\ Position /\ EndsTold /\ Inside
  BY DEF IInv
<1>2. /\ accepts > 0 /\ accepts' = accepts - 1 /\ fails < MaxFails /\ fails' = fails + 1
      /\ ready' = Append(ready, [op |-> "accept", socket |-> None])
      /\ UNCHANGED <<stream, arrived, taken, closed, backlog, sockets, reads, refs, m_socket,
                      scanners, current, length, m_ix, scanned, printed>>
  BY DEF AcceptFails, client, conn, scan, hist
<1>3. accepts = 1 /\ AcceptsDone = {} /\ \A d : ~HasAccept(d)
  BY <1>1, <1>2 DEF OnceQueued, AcceptsDone, HasAccept
<1>4. /\ ready' \in Seq(Handlers)
      /\ \A i : HasRead(i)' <=> HasRead(i)
      /\ \A d : HasAccept(d)' <=> HasAccept(d) \/ d = None
      /\ AcceptsDone' # {}
      /\ \A k \in 1 .. Len(ready') :
           \/ k \in 1 .. Len(ready) /\ ready'[k] = ready[k]
           \/ k = Len(ready) + 1 /\ ready'[k].op = "accept" /\ ready'[k].socket = None
  BY <1>1, <1>2, AcceptEnqueued
<1>5. fails \in Nat /\ fails' \in Nat /\ MaxFails \in Nat
  BY <1>1, <1>2, LimitsAssumption DEF TypeOK
<1>6. TypeOK'
  BY <1>1, <1>2, <1>3, <1>4, <1>5 DEF TypeOK, Handlers
<1>7. OnceQueued'
  <2>1. \A k \in 1 .. Len(ready) : ready[k].op # "accept"
    BY <1>3 DEF AcceptsDone
  <2> QED
    BY <1>1, <1>2, <1>3, <1>4, <2>1 DEF OnceQueued
<1>8. OneUse'
  BY <1>1, <1>2, <1>4 DEF OneUse
<1>9. Numbered'
  <2>1. Made' = Made /\ {i \in Made : m_socket[i] = None}' = {i \in Made : m_socket[i] = None}
    BY <1>2 DEF Made
  <2>2. Cardinality({i \in Made : m_socket[i] = None}) = fails
    <3> DEFINE n == Cardinality({i \in Made : m_socket[i] = None})
    <3>1. n + 0 = fails /\ fails \in Nat
      BY <1>1, <1>3, <1>5 DEF Numbered
    <3>2. n \in Nat
      <4>1. Made = 1 .. Len(scanners) /\ Len(scanners) \in Nat
        BY <1>1 DEF Made, TypeOK
      <4>2. IsFiniteSet(Made)
        BY <4>1, FS_Interval
      <4>3. IsFiniteSet({i \in Made : m_socket[i] = None})
        BY <4>2, FS_Subset
      <4> QED
        BY <4>3, FS_CardinalityType
    <3> HIDE DEF n
    <3>3. n = fails
      BY <3>1, <3>2
    <3> QED
      BY <3>3 DEF n
  <2>3. HasAccept(None)' /\ fails' <= MaxFails
    BY <1>2, <1>4, <1>5
  <2> QED
    BY <1>1, <1>2, <2>1, <2>2, <2>3 DEF Numbered
<1>10. Apart'
  <2>1. \A d \in Clients : HasAccept(d)' <=> HasAccept(d)
    BY <1>4, NoneAssumption
  <2> QED
    BY <1>1, <1>2, <2>1 DEF Apart, Waiting, Accepted, Made, Connects
<1>11. Position'
  BY <1>1, <1>2, <1>4, SMTT(20) DEF Position, Made, Connects
<1>12. EndsTold'
  BY <1>1, <1>2, <1>4 DEF EndsTold, Ended, Made, Connects
<1>13. Inside'
  BY <1>1, <1>2, Kept
<1> QED
  BY <1>6, <1>7, <1>8, <1>9, <1>10, <1>11, <1>12, <1>13 DEF IInv

(* A read of connection i takes some of what its client has sent.          *)
LEMMA ReadIoIInv ==
  ASSUME NEW i \in Conns
  PROVE  IInv /\ ReadIo(i) => IInv'
<1> SUFFICES ASSUME IInv, ReadIo(i) PROVE IInv'
  OBVIOUS
<1>1. /\ TypeOK /\ OnceQueued /\ OneUse /\ Numbered /\ Apart /\ Position /\ EndsTold /\ Inside
  BY DEF IInv
<1>2. PICK c : c = m_socket[i]
  OBVIOUS
<1>3. PICK n \in 1 .. arrived[c] - taken[c] :
        /\ taken' = [taken EXCEPT ![c] = @ + n]
        /\ ready' = Append(ready, [op |-> "read", conn |-> i, length |-> n])
  BY <1>2 DEF ReadIo
<1>4. /\ reads[i] > 0 /\ c # None /\ closed[c] # "rst" /\ current = 0
      /\ reads' = [reads EXCEPT ![i] = @ - 1]
      /\ UNCHANGED <<stream, arrived, closed, backlog, sockets, accepts, refs, m_socket,
                      scanners, current, length, m_ix, scanned, printed, fails>>
  BY <1>2 DEF ReadIo, Idle, client, conn, scan, hist
<1>5. /\ i \in Made /\ refs[i] = 1 /\ Connects(i) /\ c \in Clients
      /\ reads[i] = 1 /\ ~HasRead(i)
  BY <1>1, <1>2, <1>4, UsedIsMade, ConnType DEF Connects, OneUse
<1>6. /\ taken \in [Clients -> Nat] /\ arrived \in [Clients -> Nat] /\ scanned \in [Clients -> Nat]
      /\ reads \in [Conns -> Nat] /\ n \in Nat /\ n > 0 /\ taken[c] + n <= arrived[c]
  BY <1>1, <1>3, <1>5, SMTT(20) DEF TypeOK
<1>7. /\ taken' \in [Clients -> Nat] /\ taken'[c] = taken[c] + n
      /\ \A d \in Clients : d # c => taken'[d] = taken[d]
  BY <1>3, <1>5, <1>6
<1>8. /\ reads' \in [Conns -> Nat] /\ reads'[i] = 0
      /\ \A j \in Conns : j # i => reads'[j] = reads[j]
  BY <1>4, <1>5, <1>6
<1>9. /\ ready' \in Seq(Handlers)
      /\ \A j : HasRead(j)' <=> HasRead(j) \/ j = i
      /\ \A d : HasAccept(d)' <=> HasAccept(d)
      /\ AcceptsDone' = {} <=> AcceptsDone = {}
      /\ \A k \in 1 .. Len(ready') :
           \/ k \in 1 .. Len(ready) /\ ready'[k] = ready[k]
           \/ /\ k = Len(ready) + 1 /\ ready'[k].op = "read"
              /\ ready'[k].conn = i /\ ready'[k].length = n
  BY <1>1, <1>3, <1>6, ReadEnqueued
<1>10. \A j \in Made : j # i => m_socket[j] # c
  BY <1>1, <1>2, <1>5 DEF Apart
<1>11. ASSUME NEW k \in 1 .. Len(ready), ready[k].op = "read"
       PROVE  /\ ready[k].conn \in Made /\ ready[k].conn # i
              /\ m_socket[ready[k].conn] # c /\ m_socket[ready[k].conn] \in Clients \cup {None}
  <2>1. ready[k].conn \in Conns /\ HasRead(ready[k].conn)
    BY <1>1, <1>11, QueueType DEF HasRead
  <2>2. ready[k].conn \in Made /\ ready[k].conn # i
    BY <1>1, <1>5, <2>1, UsedIsMade
  <2> QED
    BY <1>1, <1>10, <2>1, <2>2, ConnType
<1>12. TypeOK'
  BY <1>1, <1>4, <1>7, <1>8, <1>9 DEF TypeOK, Handlers
<1>13. OnceQueued'
  <2>1. \A k \in 1 .. Len(ready) : ready[k].op = "read" => ready[k].conn # i
    BY <1>11
  <2> QED
    BY <1>1, <1>4, <1>9, <2>1 DEF OnceQueued
<1>14. OneUse'
  <2> SUFFICES ASSUME NEW j \in Conns
               PROVE  /\ reads'[j] \in {0, 1}
                      /\ reads'[j] = 1 => current' # j /\ ~HasRead(j)'
                      /\ current' = j => ~HasRead(j)'
                      /\ refs'[j] = IF reads'[j] = 1 \/ current' = j \/ HasRead(j)' THEN 1 ELSE 0
    BY DEF OneUse
  <2>1. CASE j = i
    BY <1>4, <1>5, <1>8, <1>9, <2>1, ConnsType
  <2>2. CASE j # i
    BY <1>1, <1>4, <1>8, <1>9, <2>2 DEF OneUse
  <2> QED
    BY <2>1, <2>2
<1>15. Numbered'
  BY <1>1, <1>4, <1>9 DEF Numbered, Made
<1>16. Apart'
  BY <1>1, <1>4, <1>9 DEF Apart, Waiting, Accepted, Made, Connects
<1>17. Position'
  <2>1. \A d \in Clients :
          /\ taken'[d] <= arrived[d] /\ arrived[d] <= Len(stream[d])
          /\ (\A j \in Made : m_socket[j] # d) => taken'[d] = 0 /\ scanned[d] = 0
    <3> SUFFICES ASSUME NEW d \in Clients
                 PROVE  /\ taken'[d] <= arrived[d] /\ arrived[d] <= Len(stream[d])
                        /\ (\A j \in Made : m_socket[j] # d) => taken'[d] = 0 /\ scanned[d] = 0
      OBVIOUS
    <3>1. CASE d = c
      BY <1>1, <1>2, <1>5, <1>6, <1>7, <3>1 DEF Position
    <3>2. CASE d # c
      BY <1>1, <1>7, <3>2 DEF Position
    <3> QED
      BY <3>1, <3>2
  <2>2. \A j \in Made : Connects(j) /\ current' # j /\ ~HasRead(j)' =>
                          scanned[m_socket[j]] = taken'[m_socket[j]]
    BY <1>1, <1>4, <1>7, <1>9, <1>10, ConnType DEF Position
  <2>3. scanned[c] = taken[c]
    BY <1>1, <1>2, <1>4, <1>5, ConnsType DEF Position
  <2>4. ASSUME NEW k \in 1 .. Len(ready'), ready'[k].op = "read"
        PROVE  LET d == m_socket[ready'[k].conn] IN
               /\ d # None => scanned[d] + ready'[k].length = taken'[d]
               /\ d = None => ready'[k].length = 0
    <3>1. CASE k \in 1 .. Len(ready) /\ ready'[k] = ready[k]
      BY <1>1, <1>7, <1>11, <2>4, <3>1 DEF Position
    <3>2. CASE ready'[k].conn = i /\ ready'[k].length = n
      BY <1>2, <1>4, <1>6, <1>7, <2>3, <3>2
    <3> QED
      BY <1>9, <3>1, <3>2
  <2> QED
    BY <1>1, <1>4, <2>1, <2>2, <2>4 DEF Position, Made, Connects
<1>18. EndsTold'
  <2>1. ASSUME NEW k \in 1 .. Len(ready'), ready'[k].op = "read", ready'[k].length = 0,
               NEW d, d = m_socket[ready'[k].conn], d # None
        PROVE  Ended(d)'
    <3>1. k \in 1 .. Len(ready) /\ ready'[k] = ready[k]
      BY <1>6, <1>9, <2>1
    <3>2. d \in Clients \ {c} /\ Ended(d)
      BY <1>1, <1>11, <2>1, <3>1 DEF EndsTold
    <3> QED
      BY <1>4, <1>7, <3>1, <3>2 DEF Ended
  <2>2. ASSUME NEW j \in Made, Connects(j), refs[j] = 0, NEW d, d = m_socket[j]
        PROVE  Ended(d)'
    <3>1. d \in Clients \ {c} /\ Ended(d)
      BY <1>1, <1>5, <1>10, <2>2, ConnType DEF EndsTold
    <3> QED
      BY <1>4, <1>7, <3>1 DEF Ended
  <2>3. \A k \in 1 .. Len(ready') :
          ready'[k].op = "read" /\ ready'[k].length = 0 /\ m_socket'[ready'[k].conn] # None =>
            Ended(m_socket[ready[k].conn])'
    BY <1>4, <2>1 DEF Ended
  <2>4. \A j \in Made' : Connects(j)' /\ refs'[j] = 0 => Ended(m_socket[j])'
    BY <1>4, <2>2 DEF Ended, Made, Connects
  <2> QED
    BY <2>3, <2>4 DEF EndsTold
<1>19. Inside'
  BY <1>1, <1>4, Kept
<1> QED
  BY <1>12, <1>13, <1>14, <1>15, <1>16, <1>17, <1>18, <1>19 DEF IInv

(* A read of connection i has nothing more to take.                        *)
LEMMA ReadEndsIInv ==
  ASSUME NEW i \in Conns
  PROVE  IInv /\ ReadEnds(i) => IInv'
<1> SUFFICES ASSUME IInv, ReadEnds(i) PROVE IInv'
  OBVIOUS
<1>1. /\ TypeOK /\ OnceQueued /\ OneUse /\ Numbered /\ Apart /\ Position /\ EndsTold /\ Inside
  BY DEF IInv
<1>2. /\ m_socket[i] = None \/ Ended(m_socket[i])
      /\ reads[i] > 0 /\ reads' = [reads EXCEPT ![i] = @ - 1] /\ current = 0
      /\ ready' = Append(ready, [op |-> "read", conn |-> i, length |-> 0])
      /\ UNCHANGED <<stream, arrived, taken, closed, backlog, sockets, accepts, refs, m_socket,
                      scanners, current, length, m_ix, scanned, printed, fails>>
  BY DEF ReadEnds, Ended, Idle, client, conn, scan, hist
<1>3. i \in Made /\ refs[i] = 1 /\ reads[i] = 1 /\ ~HasRead(i)
  BY <1>1, <1>2, UsedIsMade DEF OneUse
<1>4. /\ reads' \in [Conns -> Nat] /\ reads'[i] = 0
      /\ \A j \in Conns : j # i => reads'[j] = reads[j]
  BY <1>1, <1>2, <1>3 DEF TypeOK
<1>5. /\ ready' \in Seq(Handlers)
      /\ \A j : HasRead(j)' <=> HasRead(j) \/ j = i
      /\ \A d : HasAccept(d)' <=> HasAccept(d)
      /\ AcceptsDone' = {} <=> AcceptsDone = {}
      /\ \A k \in 1 .. Len(ready') :
           \/ k \in 1 .. Len(ready) /\ ready'[k] = ready[k]
           \/ /\ k = Len(ready) + 1 /\ ready'[k].op = "read"
              /\ ready'[k].conn = i /\ ready'[k].length = 0
  BY <1>1, <1>2, ReadEnqueued
<1>6. TypeOK'
  BY <1>1, <1>2, <1>4, <1>5 DEF TypeOK, Handlers
<1>7. OnceQueued'
  <2>1. \A k \in 1 .. Len(ready) : ready[k].op = "read" => ready[k].conn # i
    BY <1>3 DEF HasRead
  <2> QED
    BY <1>1, <1>2, <1>5, <2>1 DEF OnceQueued
<1>8. OneUse'
  <2> SUFFICES ASSUME NEW j \in Conns
               PROVE  /\ reads'[j] \in {0, 1}
                      /\ reads'[j] = 1 => current' # j /\ ~HasRead(j)'
                      /\ current' = j => ~HasRead(j)'
                      /\ refs'[j] = IF reads'[j] = 1 \/ current' = j \/ HasRead(j)' THEN 1 ELSE 0
    BY DEF OneUse
  <2>1. CASE j = i
    BY <1>2, <1>3, <1>4, <1>5, <2>1, ConnsType
  <2>2. CASE j # i
    BY <1>1, <1>2, <1>4, <1>5, <2>2 DEF OneUse
  <2> QED
    BY <2>1, <2>2
<1>9. Numbered'
  BY <1>1, <1>2, <1>5 DEF Numbered, Made
<1>10. Apart'
  BY <1>1, <1>2, <1>5 DEF Apart, Waiting, Accepted, Made, Connects
<1>11. Position'
  <2>1. m_socket[i] # None => scanned[m_socket[i]] + 0 = taken[m_socket[i]]
    <3>1. m_socket[i] # None => m_socket[i] \in Clients /\ scanned[m_socket[i]] = taken[m_socket[i]]
      BY <1>1, <1>2, <1>3, ConnsType, ConnType DEF Position, Connects
    <3> QED
      BY <1>1, <3>1 DEF TypeOK
  <2>2. \A k \in 1 .. Len(ready') :
          ready'[k].op = "read" =>
            LET d == m_socket[ready'[k].conn] IN
            /\ d # None => scanned[d] + ready'[k].length = taken[d]
            /\ d = None => ready'[k].length = 0
    BY <1>1, <1>5, <2>1 DEF Position
  <2> QED
    BY <1>1, <1>2, <1>5, <2>2 DEF Position, Made, Connects
<1>12. EndsTold'
  BY <1>1, <1>2, <1>5 DEF EndsTold, Ended, Made, Connects
<1>13. Inside'
  BY <1>1, <1>2, Kept
<1> QED
  BY <1>6, <1>7, <1>8, <1>9, <1>10, <1>11, <1>12, <1>13 DEF IInv

(* A read that ended lets go of its connection, the last to hold it.       *)
LEMMA HandleReadErrorIInv == IInv /\ HandleReadError => IInv'
<1> SUFFICES ASSUME IInv, HandleReadError PROVE IInv'
  OBVIOUS
<1>1. /\ TypeOK /\ OnceQueued /\ OneUse /\ Numbered /\ Apart /\ Position /\ EndsTold /\ Inside
  BY DEF IInv
<1>2. PICK i : i = Head(ready).conn
  OBVIOUS
<1>3. /\ current = 0 /\ ready # << >> /\ Head(ready).op = "read" /\ Head(ready).length = 0
      /\ ready' = Tail(ready)
      /\ refs' = [refs EXCEPT ![i] = @ - 1]
      /\ sockets' = IF refs[i] = 1 THEN sockets \ {m_socket[i]} ELSE sockets
      /\ UNCHANGED <<stream, arrived, taken, closed, backlog, accepts, reads, m_socket,
                      scanners, current, length, m_ix, scanned, printed, fails>>
  BY <1>2 DEF HandleReadError, Runs, Release, Idle, client, scan, hist
<1>4. /\ ready' \in Seq(Handlers)
      /\ i \in Conns
      /\ HasRead(i)
      /\ ~HasRead(i)'
      /\ \A j : j # i => (HasRead(j)' <=> HasRead(j))
      /\ \A d : HasAccept(d)' <=> HasAccept(d)
      /\ AcceptsDone' = {} <=> AcceptsDone = {}
      /\ 1 \in 1 .. Len(ready) /\ Head(ready) = ready[1]
      /\ \A k \in 1 .. Len(ready') : k + 1 \in 1 .. Len(ready) /\ ready'[k] = ready[k + 1]
  BY <1>1, <1>2, <1>3, ReadDequeued
<1>5. i \in Made /\ refs[i] = 1 /\ reads[i] = 0 /\ current # i
  BY <1>1, <1>4, UsedIsMade DEF OneUse
<1>6. /\ refs' \in [Conns -> Nat] /\ refs'[i] = 0
      /\ \A j \in Conns : j # i => refs'[j] = refs[j]
      /\ sockets' = sockets \ {m_socket[i]}
  BY <1>1, <1>3, <1>4, <1>5 DEF TypeOK
<1>7. TypeOK'
  BY <1>1, <1>3, <1>4, <1>6 DEF TypeOK, Handlers
<1>8. OnceQueued'
  BY <1>1, <1>3, <1>4, StillOnce DEF OnceQueued
<1>9. OneUse'
  <2> SUFFICES ASSUME NEW j \in Conns
               PROVE  /\ reads'[j] \in {0, 1}
                      /\ reads'[j] = 1 => current' # j /\ ~HasRead(j)'
                      /\ current' = j => ~HasRead(j)'
                      /\ refs'[j] = IF reads'[j] = 1 \/ current' = j \/ HasRead(j)' THEN 1 ELSE 0
    BY DEF OneUse
  <2>1. CASE j = i
    BY <1>3, <1>4, <1>5, <1>6, <2>1
  <2>2. CASE j # i
    BY <1>1, <1>3, <1>4, <1>6, <2>2 DEF OneUse
  <2> QED
    BY <2>1, <2>2
<1>10. Numbered'
  BY <1>1, <1>3, <1>4, <1>5, <1>6 DEF Numbered, Made
<1>11. Apart'
  <2>1. \A d \in Clients : Accepted(d)' => Accepted(d)
    BY <1>3, <1>6 DEF Accepted
  <2>2. ASSUME NEW d \in Clients
        PROVE  d \in sockets' <=>
                 HasAccept(d)' \/ \E j \in Made : m_socket[j] = d /\ refs'[j] = 1
    <3>1. CASE d = m_socket[i]
      <4>1. ~HasAccept(d)
        BY <1>1, <1>5, <3>1 DEF Apart
      <4>2. \A j \in Made : m_socket[j] = d => j = i
        BY <1>1, <1>5, <3>1, NoneAssumption DEF Apart, Connects
      <4> QED
        BY <1>4, <1>6, <3>1, <4>1, <4>2
    <3>2. CASE d # m_socket[i]
      <4>1. \A j \in Made : m_socket[j] = d => refs'[j] = refs[j]
        BY <1>1, <1>6, <3>2, ConnType
      <4> QED
        BY <1>1, <1>4, <1>6, <3>2, <4>1 DEF Apart
    <3> QED
      BY <3>1, <3>2
  <2> QED
    BY <1>1, <1>3, <1>4, <2>1, <2>2 DEF Apart, Waiting, Made, Connects
<1>12. m_socket[i] # None => scanned[m_socket[i]] = taken[m_socket[i]]
  <2>1. m_socket[i] # None => m_socket[i] \in Clients /\ scanned[m_socket[i]] + 0 = taken[m_socket[i]]
    BY <1>1, <1>2, <1>3, <1>4, <1>5, ConnType DEF Position
  <2> QED
    BY <1>1, <2>1 DEF TypeOK
<1>13. Position'
  <2>1. \A j \in Made :
          Connects(j) /\ current # j /\ ~HasRead(j)' => scanned[m_socket[j]] = taken[m_socket[j]]
    BY <1>1, <1>4, <1>12 DEF Position, Connects
  <2> QED
    BY <1>1, <1>3, <1>4, <2>1 DEF Position, Made, Connects
<1>14. EndsTold'
  <2>1. m_socket[i] # None => Ended(m_socket[i])
    BY <1>1, <1>2, <1>3, <1>4 DEF EndsTold
  <2>2. \A j \in Made : Connects(j) /\ refs'[j] = 0 => Ended(m_socket[j])
    BY <1>1, <1>6, <2>1, ConnType DEF EndsTold, Connects
  <2> QED
    BY <1>1, <1>3, <1>4, <2>2 DEF EndsTold, Ended, Made, Connects
<1>15. Inside'
  BY <1>1, <1>3, Kept
<1> QED
  BY <1>7, <1>8, <1>9, <1>10, <1>11, <1>13, <1>14, <1>15 DEF IInv

(* A portion is there: its connection scans it.                            *)
LEMMA HandleReadIInv == IInv /\ HandleRead => IInv'
<1> SUFFICES ASSUME IInv, HandleRead PROVE IInv'
  OBVIOUS
<1>1. /\ TypeOK /\ OnceQueued /\ OneUse /\ Numbered /\ Apart /\ Position /\ EndsTold /\ Inside
  BY DEF IInv
<1>2. PICK i : i = Head(ready).conn
  OBVIOUS
<1>3. /\ current = 0 /\ ready # << >> /\ Head(ready).op = "read" /\ Head(ready).length > 0
      /\ ready' = Tail(ready) /\ current' = i /\ length' = Head(ready).length
      /\ UNCHANGED <<stream, arrived, taken, closed, backlog, sockets, accepts, reads, refs,
                      m_socket, scanners, m_ix, scanned, printed, fails>>
  BY <1>2 DEF HandleRead, Runs, Idle, client, conn, hist
<1>4. /\ ready' \in Seq(Handlers)
      /\ i \in Conns /\ Head(ready).length \in Nat
      /\ HasRead(i)
      /\ ~HasRead(i)'
      /\ \A j : j # i => (HasRead(j)' <=> HasRead(j))
      /\ \A d : HasAccept(d)' <=> HasAccept(d)
      /\ AcceptsDone' = {} <=> AcceptsDone = {}
      /\ 1 \in 1 .. Len(ready) /\ Head(ready) = ready[1]
      /\ \A k \in 1 .. Len(ready') : k + 1 \in 1 .. Len(ready) /\ ready'[k] = ready[k + 1]
  BY <1>1, <1>2, <1>3, ReadDequeued
<1>5. i \in Made /\ refs[i] = 1 /\ reads[i] = 0 /\ i # 0
  BY <1>1, <1>4, UsedIsMade, ConnsType DEF OneUse
<1>6. TypeOK'
  BY <1>1, <1>3, <1>4 DEF TypeOK, Handlers
<1>7. OnceQueued'
  BY <1>1, <1>3, <1>4, StillOnce DEF OnceQueued
<1>8. OneUse'
  <2> SUFFICES ASSUME NEW j \in Conns
               PROVE  /\ reads'[j] \in {0, 1}
                      /\ reads'[j] = 1 => current' # j /\ ~HasRead(j)'
                      /\ current' = j => ~HasRead(j)'
                      /\ refs'[j] = IF reads'[j] = 1 \/ current' = j \/ HasRead(j)' THEN 1 ELSE 0
    BY DEF OneUse
  <2>1. CASE j = i
    BY <1>3, <1>4, <1>5, <2>1
  <2>2. CASE j # i
    BY <1>1, <1>3, <1>4, <2>2, ConnsType DEF OneUse
  <2> QED
    BY <2>1, <2>2
<1>9. Numbered'
  BY <1>1, <1>3, <1>4 DEF Numbered, Made
<1>10. Apart'
  BY <1>1, <1>3, <1>4 DEF Apart, Waiting, Accepted, Made, Connects
<1>11. Position'
  <2>1. /\ m_socket[i] # None => scanned[m_socket[i]] + Head(ready).length = taken[m_socket[i]]
        /\ m_socket[i] = None => Head(ready).length = 0
    BY <1>1, <1>2, <1>3, <1>4 DEF Position
  <2>2. Connects(i) /\ m_socket[i] \in Clients
    BY <1>1, <1>3, <1>5, <2>1, ConnType DEF Connects
  <2>3. m_ix = 0 /\ taken[m_socket[i]] + 0 = taken[m_socket[i]]
    BY <1>1, <1>3, <2>2 DEF Position, TypeOK
  <2>4. /\ Connects(i) /\ m_ix <= length'
        /\ scanned[m_socket[i]] + length' = taken[m_socket[i]] + m_ix
    BY <1>3, <1>4, <2>1, <2>2, <2>3
  <2>5. \A j \in Made :
          Connects(j) /\ current' # j /\ ~HasRead(j)' => scanned[m_socket[j]] = taken[m_socket[j]]
    BY <1>1, <1>3, <1>4, ConnType, ConnsType DEF Position
  <2> QED
    BY <1>1, <1>3, <1>4, <1>5, <2>4, <2>5 DEF Position, Made, Connects
<1>12. EndsTold'
  BY <1>1, <1>3, <1>4 DEF EndsTold, Ended, Made, Connects
<1>13. Inside'
  BY <1>1, <1>3, Kept
<1> QED
  BY <1>6, <1>7, <1>8, <1>9, <1>10, <1>11, <1>12, <1>13 DEF IInv

(* The next read of the connection holds it when its handler lets go.      *)
LEMMA HandleReadDoneIInv == IInv /\ HandleReadDone => IInv'
<1> SUFFICES ASSUME IInv, HandleReadDone PROVE IInv'
  OBVIOUS
<1>1. /\ TypeOK /\ OnceQueued /\ OneUse /\ Numbered /\ Apart /\ Position /\ EndsTold /\ Inside
  BY DEF IInv
<1>2. PICK i : i = current
  OBVIOUS
<1>3. /\ i # 0 /\ m_ix = length
      /\ reads' = [reads EXCEPT ![i] = @ + 1]
      /\ refs' = [StartRead(i, refs) EXCEPT ![i] = @ - 1]
      /\ sockets' = IF StartRead(i, refs)[i] = 1 THEN sockets \ {m_socket[i]} ELSE sockets
      /\ current' = 0 /\ length' = 0 /\ m_ix' = 0
      /\ UNCHANGED <<stream, arrived, taken, closed, backlog, accepts, ready, m_socket,
                      scanners, scanned, printed, fails>>
  BY <1>2 DEF HandleReadDone, Release, client, hist
<1>4. i \in Conns /\ i \in Made /\ refs[i] = 1 /\ reads[i] = 0 /\ ~HasRead(i)
  BY <1>1, <1>2, <1>3, UsedIsMade DEF TypeOK, OneUse
<1>5. refs' = refs /\ sockets' = sockets
  <2>1. refs \in [Conns -> Nat]
    BY <1>1 DEF TypeOK
  <2>2. StartRead(i, refs)[i] = 2
    BY <1>4, <2>1 DEF StartRead
  <2>3. \A j \in Conns : refs'[j] = refs[j]
    BY <1>3, <1>4, <2>1 DEF StartRead
  <2>4. refs' \in [Conns -> Nat]
    BY <1>3, <1>4, <2>1, <2>2 DEF StartRead
  <2> QED
    BY <1>3, <2>1, <2>2, <2>3, <2>4
<1>6. /\ reads' \in [Conns -> Nat] /\ reads'[i] = 1
      /\ \A j \in Conns : j # i => reads'[j] = reads[j]
  BY <1>1, <1>3, <1>4 DEF TypeOK
<1>7. TypeOK'
  BY <1>1, <1>3, <1>5, <1>6 DEF TypeOK
<1>8. OneUse'
  <2>1. \A j : HasRead(j)' <=> HasRead(j)
    BY <1>3 DEF HasRead
  <2> SUFFICES ASSUME NEW j \in Conns
               PROVE  /\ reads'[j] \in {0, 1}
                      /\ reads'[j] = 1 => current' # j /\ ~HasRead(j)'
                      /\ current' = j => ~HasRead(j)'
                      /\ refs'[j] = IF reads'[j] = 1 \/ current' = j \/ HasRead(j)' THEN 1 ELSE 0
    BY DEF OneUse
  <2>2. CASE j = i
    BY <1>3, <1>4, <1>5, <1>6, <2>1, <2>2
  <2>3. CASE j # i
    BY <1>1, <1>2, <1>3, <1>5, <1>6, <2>1, <2>3, ConnsType DEF OneUse
  <2> QED
    BY <2>2, <2>3
<1>9. Position'
  <2>1. Connects(i) /\ scanned[m_socket[i]] + length = taken[m_socket[i]] + m_ix
    BY <1>1, <1>2, <1>3 DEF Position
  <2>2. scanned[m_socket[i]] \in Nat /\ taken[m_socket[i]] \in Nat /\ length \in Nat
    BY <1>1, <2>1, ConnType DEF TypeOK
  <2>3. scanned[m_socket[i]] = taken[m_socket[i]]
    BY <1>3, <2>1, <2>2
  <2>4. \A j \in Made : Connects(j) /\ ~HasRead(j) => scanned[m_socket[j]] = taken[m_socket[j]]
    BY <1>1, <1>2, <2>3 DEF Position
  <2> QED
    BY <1>1, <1>3, <2>4 DEF Position, Made, Connects, HasRead
<1>10. OnceQueued' /\ Numbered' /\ Apart' /\ EndsTold' /\ Inside'
  BY <1>1, <1>3, <1>5, Kept
<1> QED
  BY <1>7, <1>8, <1>9, <1>10 DEF IInv

(* There is a number left for the connection an accept completes with:     *)
(* each connection has used up a failure or a client of its own.           *)
LEMMA NumberLeft ==
  ASSUME IInv, NEW c \in Clients \cup {None}, HasAccept(c), \A d : HasAccept(d) => d = c
  PROVE  Len(scanners) + 1 \in Conns \ Made
<1> DEFINE Failed == {i \in Made : m_socket[i] = None}
           Served == Made \ Failed
           Others == Clients \ {c}
<1>1. /\ TypeOK /\ Numbered /\ Apart
  BY DEF IInv
<1>2. Made = 1 .. Len(scanners) /\ Len(scanners) \in Nat
  BY <1>1 DEF Made, TypeOK
<1>3. IsFiniteSet(Made) /\ Cardinality(Made) = Len(scanners)
  <2>1. PICK n \in Int : n = Len(scanners)
    BY <1>2
  <2>2. IsFiniteSet(1 .. n) /\ Cardinality(1 .. n) = IF 1 > n THEN 0 ELSE n - 1 + 1
    BY FS_Interval
  <2>3. (IF 1 > n THEN 0 ELSE n - 1 + 1) = n
    BY <1>2, <2>1
  <2> QED
    BY <1>2, <2>1, <2>2, <2>3
<1>4. IsFiniteSet(Failed) /\ Cardinality(Failed) \in Nat
  BY <1>3, FS_Subset, FS_CardinalityType
<1>5. IsFiniteSet(Served) /\ Cardinality(Served) = Len(scanners) - Cardinality(Failed)
  <2>1. IsFiniteSet(Made \ Failed)
        /\ Cardinality(Made \ Failed) = Cardinality(Made) - Cardinality(Made \cap Failed)
    BY <1>3, FS_Difference
  <2>2. Made \cap Failed = Failed
    OBVIOUS
  <2> QED
    BY <1>3, <2>1, <2>2
<1>6. Cardinality(Served) <= Cardinality(Others) /\ IsFiniteSet(Others)
  <2> DEFINE f == [i \in Served |-> m_socket[i]]
  <2>1. \A i \in Served : Connects(i) /\ m_socket[i] \in Clients
    BY <1>1, ConnType DEF Connects
  <2>2. \A i \in Served : m_socket[i] # c
    BY <1>1, <2>1 DEF Apart
  <2>3. f \in [Served -> Others]
    BY <2>1, <2>2
  <2>4. \A i, j \in Served : f[i] = f[j] => i = j
    BY <1>1, <2>1 DEF Apart
  <2>5. f \in Injection(Served, Others)
    BY <2>3, <2>4 DEF Injection, IsInjective
  <2>6. IsFiniteSet(Others)
    BY ClientsAssumption, FS_Subset
  <2> HIDE DEF f
  <2> QED
    BY <2>5, <2>6, FS_Injection
<1>7. Cardinality(Failed) + (IF HasAccept(None) THEN 1 ELSE 0) <= MaxFails
  BY <1>1 DEF Numbered
<1>8. Cardinality(Others) = IF c \in Clients THEN Cardinality(Clients) - 1 ELSE Cardinality(Clients)
  BY ClientsAssumption, FS_RemoveElement
<1>9. HasAccept(None) <=> c \notin Clients
  BY NoneAssumption
<1>10. Cardinality(Served) \in Nat /\ Cardinality(Others) \in Nat
  BY <1>5, <1>6, FS_CardinalityType
<1> HIDE DEF Failed, Served, Others
<1>11. Len(scanners) + 1 <= Cardinality(Clients) + MaxFails
  BY <1>2, <1>4, <1>5, <1>6, <1>7, <1>8, <1>9, <1>10, ConnsType
<1> QED
  BY <1>2, <1>11, ConnsType DEF Conns

(* A connection is made of what the accept completed with, if it failed an *)
(* unconnected one, and is read from; the next accept is started.          *)
LEMMA HandleAcceptIInv == IInv /\ HandleAccept => IInv'
<1> SUFFICES ASSUME IInv, HandleAccept PROVE IInv'
  OBVIOUS
<1>1. /\ TypeOK /\ OnceQueued /\ OneUse /\ Numbered /\ Apart /\ Position /\ EndsTold /\ Inside
  BY DEF IInv
<1>2. PICK c, i : c = Head(ready).socket /\ i = Len(scanners) + 1
  OBVIOUS
<1> DEFINE held == StartRead(i, [refs EXCEPT ![i] = 1])
<1>3. /\ current = 0 /\ ready # << >> /\ Head(ready).op = "accept" /\ ready' = Tail(ready)
      /\ m_socket' = [m_socket EXCEPT ![i] = c]
      /\ scanners' = Append(scanners, [m_user |-> i, partial |-> None])
      /\ refs' = [held EXCEPT ![i] = @ - 1]
      /\ sockets' = IF held[i] = 1 THEN sockets \ {m_socket'[i]} ELSE sockets
      /\ reads' = [reads EXCEPT ![i] = @ + 1]
      /\ accepts' = accepts + 1
      /\ UNCHANGED <<stream, arrived, taken, closed, backlog, current, length, m_ix,
                      scanned, printed, fails>>
  BY <1>2 DEF HandleAccept, Runs, Release, CreateScanner, Idle, client, scan, hist
<1>4. /\ ready' \in Seq(Handlers)
      /\ HasAccept(c)
      /\ \A d : HasAccept(d) => d = c
      /\ \A j : HasRead(j)' <=> HasRead(j)
      /\ AcceptsDone # {} /\ AcceptsDone' = {}
      /\ \A d : ~HasAccept(d)'
      /\ \A k \in 1 .. Len(ready') : k + 1 \in 1 .. Len(ready) /\ ready'[k] = ready[k + 1]
  BY <1>1, <1>2, <1>3, AcceptDequeued
<1>5. c \in Clients \cup {None}
  BY <1>1, <1>4, QueueType DEF HasAccept
<1>6. i \in Conns /\ i \notin Made
  BY <1>2, <1>4, <1>5, NumberLeft
<1>7. refs[i] = 0 /\ reads[i] = 0 /\ ~HasRead(i) /\ m_socket[i] = None
  BY <1>1, <1>6 DEF Numbered, OneUse
<1>8. /\ refs' \in [Conns -> Nat] /\ refs'[i] = 1 /\ sockets' = sockets
      /\ \A j \in Conns : j # i => refs'[j] = refs[j]
  <2>1. refs \in [Conns -> Nat]
    BY <1>1 DEF TypeOK
  <2>2. held \in [Conns -> Nat] /\ held[i] = 2 /\ \A j \in Conns : j # i => held[j] = refs[j]
    BY <1>6, <2>1 DEF StartRead
  <2> HIDE DEF held
  <2> QED
    BY <1>3, <1>6, <2>1, <2>2
<1>9. /\ reads' \in [Conns -> Nat] /\ reads'[i] = 1
      /\ \A j \in Conns : j # i => reads'[j] = reads[j]
  BY <1>1, <1>3, <1>6, <1>7 DEF TypeOK
<1>10. /\ m_socket' \in [Conns -> Clients \cup {None}] /\ m_socket'[i] = c
       /\ \A j \in Conns : j # i => m_socket'[j] = m_socket[j]
  BY <1>1, <1>3, <1>5, <1>6 DEF TypeOK
<1>11. /\ scanners' \in Seq([m_user : Conns, partial : Requests \cup {None}])
       /\ Made' = Made \cup {i} /\ scanners'[i].m_user = i /\ scanners'[i].partial = None
       /\ \A j \in Made : scanners'[j] = scanners[j]
  <2> DEFINE Scanners == [m_user : Conns, partial : Requests \cup {None}]
             new == [m_user |-> i, partial |-> None]
  <2>1. scanners \in Seq(Scanners) /\ Len(scanners) \in Nat
    BY <1>1 DEF TypeOK
  <2>2. new \in Scanners /\ new.m_user = i /\ new.partial = None
    BY <1>6
  <2> HIDE DEF Scanners, new
  <2>3. scanners' = Append(scanners, new)
    BY <1>3 DEF new
  <2>4. /\ scanners' \in Seq(Scanners) /\ Len(scanners') = i /\ scanners'[i] = new
        /\ \A j \in 1 .. Len(scanners) : scanners'[j] = scanners[j]
    BY <1>2, <2>1, <2>2, <2>3, AppendProperties
  <2>5. 1 .. i = (1 .. Len(scanners)) \cup {i}
    BY <1>2, <2>1
  <2> QED
    BY <2>2, <2>4, <2>5 DEF Made, Scanners
<1> HIDE DEF held
<1>12. \A j \in Made : j \in Conns /\ j # i
  BY <1>1, <1>6, ConnType
<1>13. TypeOK'
  <2>1. accepts' \in Nat
    BY <1>1, <1>3 DEF TypeOK
  <2>2. /\ m_socket' \in [Conns -> Clients \cup {None}]
        /\ scanners' \in Seq([m_user : Conns, partial : Requests \cup {None}])
        /\ reads' \in [Conns -> Nat] /\ refs' \in [Conns -> Nat] /\ sockets' = sockets
    BY <1>8, <1>9, <1>10, <1>11
  <2>3. ready' \in Seq(AcceptDone \cup ReadDone)
    BY <1>4 DEF Handlers
  <2>4. UNCHANGED <<stream, arrived, taken, closed, backlog, current, length, m_ix,
                    scanned, printed, fails>>
    BY <1>3
  <2> QED
    BY <1>1, <2>1, <2>2, <2>3, <2>4 DEF TypeOK
<1>14. OnceQueued'
  <2>1. accepts' = 1
    BY <1>1, <1>3, <1>4 DEF OnceQueued
  <2> QED
    BY <1>1, <1>3, <1>4, <2>1, StillOnce DEF OnceQueued
<1>15. OneUse'
  <2> SUFFICES ASSUME NEW j \in Conns
               PROVE  /\ reads'[j] \in {0, 1}
                      /\ reads'[j] = 1 => current' # j /\ ~HasRead(j)'
                      /\ current' = j => ~HasRead(j)'
                      /\ refs'[j] = IF reads'[j] = 1 \/ current' = j \/ HasRead(j)' THEN 1 ELSE 0
    BY DEF OneUse
  <2>1. CASE j = i
    BY <1>3, <1>4, <1>6, <1>7, <1>8, <1>9, <2>1, ConnsType
  <2>2. CASE j # i
    BY <1>1, <1>3, <1>4, <1>8, <1>9, <2>2 DEF OneUse
  <2> QED
    BY <2>1, <2>2
<1>16. Numbered'
  <2> DEFINE Failed == {j \in Made : m_socket[j] = None}
             Failed2 == {j \in Made \cup {i} : m_socket'[j] = None}
  <2>1. IsFiniteSet(Failed) /\ Cardinality(Failed) \in Nat
    <3>1. Made = 1 .. Len(scanners) /\ Len(scanners) \in Nat
      BY <1>1 DEF Made, TypeOK
    <3>2. IsFiniteSet(Made)
      BY <3>1, FS_Interval
    <3> QED
      BY <3>2, FS_Subset, FS_CardinalityType
  <2>2. Cardinality(Failed) + (IF HasAccept(None) THEN 1 ELSE 0) = fails
    BY <1>1 DEF Numbered
  <2>3. Cardinality(Failed2) + 0 = fails
    <3>1. CASE c = None
      <4>1. Failed2 = Failed \cup {i} /\ i \notin Failed
        BY <1>6, <1>10, <1>12, <3>1
      <4>2. Cardinality(Failed2) = Cardinality(Failed) + 1
        BY <2>1, <4>1, FS_AddElement
      <4> HIDE DEF Failed, Failed2
      <4> QED
        BY <1>4, <2>1, <2>2, <3>1, <4>2
    <3>2. CASE c # None
      <4>1. Failed2 = Failed
        BY <1>6, <1>10, <1>12, <3>2
      <4> HIDE DEF Failed, Failed2
      <4> QED
        BY <1>4, <2>1, <2>2, <3>2, <4>1
    <3> QED
      BY <3>1, <3>2
  <2>4. {j \in Made : m_socket[j] = None}' = Failed2
    BY <1>11
  <2>5. \A j \in Conns \ Made' : m_socket'[j] = None /\ refs'[j] = 0
    BY <1>1, <1>8, <1>10, <1>11 DEF Numbered
  <2>6. \A j \in Made' : j \in Conns /\ scanners'[j].m_user = j
    BY <1>1, <1>6, <1>11, <1>12 DEF Numbered
  <2>7. fails' <= MaxFails
    BY <1>1, <1>3 DEF Numbered
  <2> HIDE DEF Failed, Failed2
  <2> QED
    BY <1>3, <1>4, <2>3, <2>4, <2>5, <2>6, <2>7 DEF Numbered
<1>17. c # None => \A j \in Made : m_socket[j] # c
  BY <1>1, <1>4, <1>5 DEF Apart
<1>18. Apart'
  <2>1. \A j, k \in Made' : Connects(j)' /\ m_socket'[j] = m_socket'[k] => j = k
    BY <1>1, <1>10, <1>11, <1>12, <1>17 DEF Apart, Connects
  <2>2. \A d \in Clients : Accepted(d)' => Accepted(d)
    <3> SUFFICES ASSUME NEW d \in Clients, Accepted(d)' PROVE Accepted(d)
      OBVIOUS
    <3>1. CASE d \in sockets
      BY <3>1 DEF Accepted
    <3>2. CASE \E j \in Made' : m_socket'[j] = d
      <4>1. CASE d = c
        BY <1>1, <1>4, <4>1 DEF Apart, Accepted
      <4>2. CASE d # c
        BY <1>10, <1>11, <1>12, <3>2, <4>2 DEF Accepted, Made
      <4> QED
        BY <4>1, <4>2
    <3> QED
      BY <1>8, <3>1, <3>2 DEF Accepted, Made
  <2>3. ASSUME NEW d \in Clients
        PROVE  d \in sockets <=> \E j \in Made' : m_socket'[j] = d /\ refs'[j] = 1
    <3>1. CASE d = c
      <4>1. d \in sockets
        BY <1>1, <1>4, <3>1 DEF Apart
      <4> QED
        BY <1>8, <1>10, <1>11, <3>1, <4>1
    <3>2. CASE d # c
      <4>1. d \in sockets <=> \E j \in Made : m_socket[j] = d /\ refs[j] = 1
        BY <1>1, <1>4, <3>2 DEF Apart
      <4> QED
        BY <1>8, <1>10, <1>11, <1>12, <3>2, <4>1
    <3> QED
      BY <3>1, <3>2
  <2> QED
    BY <1>1, <1>3, <1>4, <1>8, <2>1, <2>2, <2>3 DEF Apart, Waiting
<1>19. ASSUME NEW k \in 1 .. Len(ready'), ready'[k].op = "read"
       PROVE  /\ k + 1 \in 1 .. Len(ready) /\ ready'[k] = ready[k + 1]
              /\ ready'[k].conn \in Made
              /\ m_socket'[ready'[k].conn] = m_socket[ready'[k].conn]
  <2>1. k + 1 \in 1 .. Len(ready) /\ ready'[k] = ready[k + 1]
    BY <1>4
  <2>2. ready'[k].conn \in Conns /\ HasRead(ready'[k].conn)
    BY <1>1, <1>19, <2>1, QueueType DEF HasRead
  <2>3. ready'[k].conn \in Made
    BY <1>1, <2>2, UsedIsMade
  <2> QED
    BY <1>10, <1>12, <2>1, <2>3
<1>20. c # None => taken[c] = 0 /\ scanned[c] = 0
  BY <1>1, <1>5, <1>17 DEF Position
<1>21. Position'
  <2>1. \A d \in Clients :
          /\ taken[d] <= arrived[d] /\ arrived[d] <= Len(stream[d])
          /\ (\A j \in Made' : m_socket'[j] # d) => taken[d] = 0 /\ scanned[d] = 0
    BY <1>1, <1>10, <1>11, <1>12 DEF Position
  <2>2. \A j \in Made' : Connects(j)' /\ current # j /\ ~HasRead(j) =>
                           scanned[m_socket'[j]] = taken[m_socket'[j]]
    BY <1>1, <1>10, <1>11, <1>12, <1>20 DEF Position, Connects
  <2>3. \A k \in 1 .. Len(ready') :
          ready'[k].op = "read" =>
            LET d == m_socket'[ready'[k].conn] IN
            /\ d # None => scanned[d] + ready'[k].length = taken[d]
            /\ d = None => ready'[k].length = 0
    BY <1>1, <1>19 DEF Position
  <2>4. length = 0 /\ m_ix = 0
    BY <1>1, <1>3 DEF Position
  <2> QED
    BY <1>3, <1>4, <2>1, <2>2, <2>3, <2>4 DEF Position
<1>22. EndsTold'
  <2>1. \A k \in 1 .. Len(ready') :
          ready'[k].op = "read" /\ ready'[k].length = 0 /\ m_socket'[ready'[k].conn] # None =>
            Ended(m_socket'[ready'[k].conn])
    BY <1>1, <1>19 DEF EndsTold
  <2>2. \A j \in Made' : Connects(j)' /\ refs'[j] = 0 => Ended(m_socket'[j])
    BY <1>1, <1>8, <1>10, <1>11, <1>12 DEF EndsTold, Connects
  <2> QED
    BY <1>3, <2>1, <2>2 DEF EndsTold, Ended
<1>23. Inside'
  <2> SUFFICES ASSUME NEW j \in Made', NEW d, d = m_socket'[j]
               PROVE  scanners'[j].partial =
                        IF Connects(j)' /\ scanned[d] > 0 /\ stream[d][scanned[d]].part = "front"
                          THEN stream[d][scanned[d]].req ELSE None
    BY <1>3 DEF Inside
  <2>1. CASE j = i
    BY <1>10, <1>11, <1>20, <2>1 DEF Connects
  <2>2. CASE j # i
    <3>1. j \in Made /\ d = m_socket[j] /\ scanners'[j] = scanners[j]
      BY <1>10, <1>11, <1>12, <2>2
    <3>2. Connects(j)' <=> Connects(j)
      BY <1>11, <3>1 DEF Connects
    <3> QED
      BY <1>1, <3>1, <3>2 DEF Inside
  <2> QED
    BY <2>1, <2>2
<1> QED
  BY <1>13, <1>14, <1>15, <1>16, <1>18, <1>21, <1>22, <1>23 DEF IInv

(* What the scanner reads next is the token after those it is done with.   *)
LEMMA NextToken ==
  ASSUME IInv, Scanning, NEW c, c = m_socket[current]
  PROVE  /\ current \in Made /\ Connects(current) /\ current \in Conns /\ c \in Clients
         /\ m_ix + 1 <= length /\ scanned[c] \in Nat
         /\ (scanned[c] + 1) + length = taken[c] + (m_ix + 1)
         /\ scanned[c] + 1 \in 1 .. Len(stream[c])
         /\ Cur = stream[c][scanned[c] + 1] /\ Cur \in Token
<1>1. /\ TypeOK /\ Numbered /\ Position
  BY DEF IInv
<1>2. /\ current # 0 /\ m_ix < length /\ Connects(current)
      /\ scanned[c] + length = taken[c] + m_ix
  BY <1>1 DEF Scanning, Position
<1>3. current \in Made /\ current \in Conns /\ c \in Clients
  BY <1>1, <1>2, ConnType DEF Connects
<1>4. taken[c] <= arrived[c] /\ arrived[c] <= Len(stream[c])
  BY <1>1, <1>3 DEF Position
<1>5. /\ scanned[c] \in Nat /\ taken[c] \in Nat /\ arrived[c] \in Nat
      /\ length \in Nat /\ m_ix \in Nat
  BY <1>1, <1>3 DEF TypeOK
<1>6. stream[c] \in Seq(Token) /\ Len(stream[c]) \in Nat
  BY <1>1, <1>3, StreamType
<1>7. PICK n \in Nat : n = Len(stream[c])
  BY <1>6
<1>8. /\ m_ix + 1 <= length /\ (scanned[c] + 1) + length = taken[c] + (m_ix + 1)
      /\ scanned[c] + 1 \in 1 .. n /\ taken[c] - length + m_ix + 1 = scanned[c] + 1
  <2>1. PICK a, t, x, l, m \in Nat :
          a = arrived[c] /\ t = taken[c] /\ x = scanned[c] /\ l = length /\ m = m_ix
    BY <1>5
  <2>2. m < l /\ x + l = t + m /\ t <= a /\ a <= n
    BY <1>2, <1>4, <1>7, <2>1
  <2>3. m + 1 <= l /\ (x + 1) + l = t + (m + 1) /\ x + 1 \in 1 .. n /\ t - l + m + 1 = x + 1
    BY <2>2
  <2> QED
    BY <2>1, <2>3
<1>9. stream[c][scanned[c] + 1] \in Token
  BY <1>6, <1>7, <1>8, ElementOfSeq
<1>10. Cur = stream[c][scanned[c] + 1]
  BY <1>8 DEF Cur
<1> QED
  BY <1>2, <1>3, <1>5, <1>7, <1>8, <1>9, <1>10

(* The scanner is done with a token more and remembers what it should.     *)
LEMMA ConsumeIInv ==
  ASSUME IInv, Scanning, NEW r \in Requests \cup {None}, Consume(r),
         r = (IF Cur.part = "front" THEN Cur.req ELSE None),
         printed' \in [Clients -> Seq(Printed)]
  PROVE  IInv'
<1>1. /\ TypeOK /\ OnceQueued /\ OneUse /\ Numbered /\ Apart /\ Position /\ EndsTold /\ Inside
  BY DEF IInv
<1>2. PICK i, c : i = current /\ c = m_socket[i]
  OBVIOUS
<1>3. /\ i \in Made /\ Connects(i) /\ i \in Conns /\ c \in Clients
      /\ m_ix + 1 <= length /\ scanned[c] \in Nat
      /\ (scanned[c] + 1) + length = taken[c] + (m_ix + 1)
      /\ scanned[c] + 1 \in 1 .. Len(stream[c])
      /\ Cur = stream[c][scanned[c] + 1] /\ Cur \in Token
  BY <1>2, NextToken
<1>4. /\ m_ix' = m_ix + 1
      /\ scanned' = [scanned EXCEPT ![c] = @ + 1]
      /\ scanners' = [scanners EXCEPT ![i].partial = r]
      /\ UNCHANGED <<stream, arrived, taken, closed, backlog, sockets, accepts, reads, ready,
                      refs, m_socket, current, length, fails>>
  BY <1>2 DEF Consume, ScannerOf, client, io
<1>5. i # 0 /\ refs[i] = 1 /\ ~HasRead(i)
  BY <1>1, <1>2, <1>3, UsedIsMade DEF Scanning, OneUse
<1>6. /\ scanned' \in [Clients -> Nat] /\ scanned'[c] = scanned[c] + 1
      /\ \A d \in Clients : d # c => scanned'[d] = scanned[d]
  <2>1. scanned \in [Clients -> Nat] /\ scanned[c] \in Nat /\ c \in Clients
    BY <1>1, <1>3 DEF TypeOK
  <2>2. scanned[c] + 1 \in Nat
    BY <2>1
  <2> QED
    BY <1>4, <2>1, <2>2
<1>7. /\ scanners' \in Seq([m_user : Conns, partial : Requests \cup {None}])
      /\ Made' = Made /\ scanners'[i].partial = r
      /\ \A j \in Made : scanners'[j].m_user = scanners[j].m_user
      /\ \A j \in Made : j # i => scanners'[j] = scanners[j]
  <2> DEFINE Scanners == [m_user : Conns, partial : Requests \cup {None}]
             new == [scanners[i] EXCEPT !.partial = r]
  <2>1. scanners \in Seq(Scanners) /\ i \in 1 .. Len(scanners)
    BY <1>1, <1>3 DEF TypeOK, Made
  <2>2. scanners[i] \in Scanners
    BY <2>1, ElementOfSeq
  <2>3. new \in Scanners /\ new.partial = r /\ new.m_user = scanners[i].m_user
    BY <2>2
  <2>4. scanners' = [scanners EXCEPT ![i] = new]
    BY <1>4
  <2> HIDE DEF Scanners, new
  <2>5. /\ scanners' \in Seq(Scanners) /\ Len(scanners') = Len(scanners)
        /\ scanners'[i] = new
        /\ \A j \in 1 .. Len(scanners) : j # i => scanners'[j] = scanners[j]
    BY <2>1, <2>3, <2>4, ExceptSeq
  <2> QED
    BY <2>3, <2>5 DEF Made, Scanners
<1>8. \A j \in Made : j # i => m_socket[j] # c
  BY <1>1, <1>2, <1>3 DEF Apart
<1>9. TypeOK'
  <2>1. m_ix' \in Nat
    BY <1>1, <1>4 DEF TypeOK
  <2> QED
    BY <1>1, <1>4, <1>6, <1>7, <2>1 DEF TypeOK
<1>10. Numbered'
  BY <1>1, <1>4, <1>7 DEF Numbered, HasAccept
<1>11. Apart'
  <2>1. Len(scanners') = Len(scanners)
    BY <1>1, <1>4, <1>7 DEF TypeOK
  <2> QED
    BY <1>1, <1>4, <1>7, <2>1 DEF Apart, HasAccept, Waiting, Accepted, Connects
<1>12. Position'
  <2>1. ASSUME NEW k \in 1 .. Len(ready), ready[k].op = "read"
        PROVE  m_socket[ready[k].conn] # c
    <3>1. ready[k].conn \in Conns /\ HasRead(ready[k].conn)
      BY <1>1, <2>1, QueueType DEF HasRead
    <3> QED
      BY <1>1, <1>5, <1>8, <3>1, UsedIsMade
  <2>2. \A k \in 1 .. Len(ready) :
          ready[k].op = "read" =>
            LET d == m_socket[ready[k].conn] IN
            /\ d # None => scanned'[d] + ready[k].length = taken[d]
            /\ d = None => ready[k].length = 0
    <3>1. \A k \in 1 .. Len(ready) :
            ready[k].op = "read" => m_socket[ready[k].conn] \in Clients \cup {None}
      BY <1>1, QueueType, ConnType
    <3> QED
      BY <1>1, <1>6, <2>1, <3>1 DEF Position
  <2>3. \A j \in Made : Connects(j) /\ current # j /\ ~HasRead(j) =>
                         scanned'[m_socket[j]] = taken[m_socket[j]]
    BY <1>1, <1>2, <1>6, <1>8, ConnType DEF Position
  <2>4. \A d \in Clients :
          /\ taken[d] <= arrived[d] /\ arrived[d] <= Len(stream[d])
          /\ (\A j \in Made : m_socket[j] # d) => taken[d] = 0 /\ scanned'[d] = 0
    BY <1>1, <1>2, <1>3, <1>6 DEF Position
  <2>5. /\ Connects(current) /\ m_ix' <= length
        /\ scanned'[m_socket[current]] + length = taken[m_socket[current]] + m_ix'
    BY <1>2, <1>3, <1>4, <1>6
  <2> QED
    BY <1>2, <1>4, <1>5, <1>7, <2>2, <2>3, <2>4, <2>5 DEF Position, HasRead, Connects
<1>13. EndsTold'
  BY <1>1, <1>4, <1>7 DEF EndsTold, Ended, Connects
<1>14. Inside'
  <2> SUFFICES ASSUME NEW j \in Made, NEW d, d = m_socket[j]
               PROVE  scanners'[j].partial =
                        IF Connects(j) /\ scanned'[d] > 0 /\ stream[d][scanned'[d]].part = "front"
                          THEN stream[d][scanned'[d]].req ELSE None
    BY <1>4, <1>7 DEF Inside, Connects
  <2>1. CASE j = i
    <3>1. d = c /\ scanned'[d] = scanned[c] + 1 /\ scanned'[d] > 0
      <4>1. d = c
        BY <1>2, <2>1
      <4>2. scanned[c] \in Nat
        BY <1>3
      <4> QED
        BY <1>6, <4>1, <4>2
    <3>2. stream[d][scanned'[d]] = Cur
      BY <1>3, <3>1
    <3> QED
      BY <1>3, <1>7, <2>1, <3>1, <3>2
  <2>2. CASE j # i
    <3>1. Connects(j) => d \in Clients /\ d # c
      BY <1>1, <1>8, <2>2, ConnType
    <3>2. scanners[j].partial =
            IF Connects(j) /\ scanned[d] > 0 /\ stream[d][scanned[d]].part = "front"
              THEN stream[d][scanned[d]].req ELSE None
      BY <1>1 DEF Inside
    <3> QED
      BY <1>6, <1>7, <2>2, <3>1, <3>2
  <2> QED
    BY <2>1, <2>2
<1>15. OnceQueued' /\ OneUse'
  BY <1>1, <1>4, Kept
<1> QED
  BY <1>9, <1>10, <1>11, <1>12, <1>13, <1>14, <1>15 DEF IInv

(* The scanner remembers the request it has seen all but the end of.       *)
LEMMA ScanFrontIInv == IInv /\ ScanFront => IInv'
<1> SUFFICES ASSUME IInv, ScanFront PROVE IInv'
  OBVIOUS
<1>1. Scanning /\ Cur.part = "front" /\ Consume(Cur.req) /\ printed' = printed
  BY DEF ScanFront
<1>2. Cur \in Token
  BY <1>1, NextToken
<1>3. Cur.req \in Requests \cup {None}
  BY <1>2 DEF Token
<1>4. printed' \in [Clients -> Seq(Printed)]
  BY <1>1 DEF IInv, TypeOK
<1> QED
  BY <1>1, <1>3, <1>4, ConsumeIInv

(* The end of a request follows the rest of it, which the scanner recalls. *)
LEMMA BackFollows ==
  ASSUME IInv, Scanning, Cur.part = "back", NEW c, c = m_socket[current]
  PROVE  /\ scanned[c] - 1 \in Nat /\ scanned[c] \in 1 .. Len(stream[c])
         /\ stream[c][scanned[c]] = [req |-> Cur.req, part |-> "front"]
         /\ scanners[current].partial = Cur.req /\ Cur.req \in Requests
<1>1. /\ current \in Made /\ Connects(current) /\ c \in Clients /\ scanned[c] \in Nat
      /\ scanned[c] + 1 \in 1 .. Len(stream[c])
      /\ Cur = stream[c][scanned[c] + 1] /\ Cur \in Token
  BY NextToken
<1>2. IsTraffic(stream[c]) /\ Len(stream[c]) \in Nat
  BY <1>1, StreamType DEF IInv
<1>3. scanned[c] + 1 > 1 /\ stream[c][(scanned[c] + 1) - 1] = [req |-> Cur.req, part |-> "front"]
  BY <1>1, <1>2 DEF IsTraffic
<1>4. (scanned[c] + 1) - 1 = scanned[c] /\ scanned[c] > 0 /\ scanned[c] - 1 \in Nat
      /\ scanned[c] \in 1 .. Len(stream[c])
  BY <1>1, <1>2, <1>3
<1>5. stream[c][scanned[c]] = [req |-> Cur.req, part |-> "front"]
  BY <1>3, <1>4
<1>6. scanners[current].partial = Cur.req
  BY <1>1, <1>4, <1>5, SMTT(20) DEF IInv, Inside
<1> QED
  BY <1>1, <1>4, <1>5, <1>6 DEF Token

(* What the connection prints by the end of a request.                     *)
LEMMA Prints ==
  ASSUME IInv, ScanBack, NEW c, c = m_socket[current]
  PROVE  printed' = [printed EXCEPT ![c] = Append(@,
                      [from |-> scanned[c] - 1, to |-> scanned[c] + 1, request |-> Cur.req])]
<1>1. Scanning /\ Cur.part = "back" /\ OnPdu(ScannerOf(current), scanners[current].partial)
  BY DEF ScanBack, ScannerOf
<1>2. current \in Made /\ scanners[current].m_user = current
  BY <1>1, NextToken DEF IInv, Numbered
<1>3. scanners[current].partial = Cur.req
  BY <1>1, BackFollows
<1> QED
  BY <1>1, <1>2, <1>3 DEF OnPdu, ScannerOf

(* The back of a request completes it.                                     *)
LEMMA ScanBackIInv == IInv /\ ScanBack => IInv'
<1> SUFFICES ASSUME IInv, ScanBack PROVE IInv'
  OBVIOUS
<1>1. Scanning /\ Cur.part = "back" /\ Consume(None)
  BY DEF ScanBack
<1>2. PICK c : c = m_socket[current]
  OBVIOUS
<1>3. c \in Clients /\ scanned[c] \in Nat
  BY <1>1, <1>2, NextToken
<1>4. scanned[c] - 1 \in Nat /\ Cur.req \in Requests
  BY <1>1, <1>2, BackFollows
<1> DEFINE pdu == [from |-> scanned[c] - 1, to |-> scanned[c] + 1, request |-> Cur.req]
<1>5. pdu \in Printed
  BY <1>3, <1>4 DEF Printed
<1> HIDE DEF pdu
<1>6. printed' = [printed EXCEPT ![c] = Append(@, pdu)]
  BY <1>2, Prints DEF pdu
<1>7. printed \in [Clients -> Seq(Printed)]
  BY DEF IInv, TypeOK
<1>8. Append(printed[c], pdu) \in Seq(Printed)
  BY <1>3, <1>5, <1>7, AppendProperties
<1>9. printed' \in [Clients -> Seq(Printed)]
  BY <1>6, <1>7, <1>8
<1> QED
  BY <1>1, <1>9, ConsumeIInv

-------------------------------------------------------------------------------
(* Every step keeps the invariant.                                         *)
LEMMA NextIInv == IInv /\ [Next]_vars => IInv'
<1> SUFFICES ASSUME IInv, [Next]_vars PROVE IInv'
  OBVIOUS
<1>1. CASE \E i \in Conns : ReadIo(i) \/ ReadEnds(i)
  BY <1>1, ReadIoIInv, ReadEndsIInv
<1>2. CASE HandleAccept \/ HandleReadError \/ HandleRead
  BY <1>2, HandleAcceptIInv, HandleReadErrorIInv, HandleReadIInv
<1>3. CASE ScanFront \/ ScanBack \/ HandleReadDone
  BY <1>3, ScanFrontIInv, ScanBackIInv, HandleReadDoneIInv
<1>4. CASE AcceptIo \/ AcceptFails
  BY <1>4, AcceptIoIInv, AcceptFailsIInv
<1>5. CASE \E c \in Clients : Connect(c) \/ Send(c) \/ Close(c)
  BY <1>5, ConnectIInv, SendIInv, CloseIInv
<1>6. CASE UNCHANGED vars
  <2>1. UNCHANGED <<stream, arrived, taken, closed, backlog, sockets, accepts, reads, ready,
                    refs, m_socket, scanners, current, length, m_ix, scanned, printed, fails>>
    BY <1>6 DEF vars
  <2>2. TypeOK'
    BY <2>1 DEF IInv, TypeOK
  <2> QED
    BY <2>1, <2>2, Kept, PositionKept DEF IInv
<1> QED
  BY <1>1, <1>2, <1>3, <1>4, <1>5, <1>6 DEF Next, Server, Read, Handler, Peers

(* The inductive invariant: each connection has at most one thing under    *)
(* way, which holds it and says how far its stream is done.                *)
THEOREM InvariantHolds == Spec => []IInv
<1>1. Init => IInv
  BY InitIInv
<1>2. IInv /\ [Next]_vars => IInv'
  BY NextIInv
<1> QED
  BY <1>1, <1>2, PTL DEF Spec
(* The accept loop neither dies nor multiplies: no handler of an accept is *)
(* queued twice, and one is queued exactly when no accept is outstanding.  *)
THEOREM OneAcceptHolds == Spec => []OneAccept
<1>1. IInv => OneAccept
  <2> SUFFICES ASSUME IInv PROVE OneAccept
    OBVIOUS
  <2>1. OnceQueued
    BY DEF IInv
  <2>2. CASE AcceptsDone = {}
    <3>1. Cardinality(AcceptsDone) = 0
      BY <2>2, FS_EmptySet
    <3> QED
      BY <2>1, <2>2, <3>1 DEF OnceQueued, OneAccept
  <2>3. CASE AcceptsDone # {}
    <3>1. PICK k : AcceptsDone = {k}
      BY <2>1, <2>3 DEF OnceQueued, AcceptsDone
    <3>2. Cardinality(AcceptsDone) = 1
      BY <3>1, FS_Singleton
    <3> QED
      BY <2>1, <2>3, <3>2 DEF OnceQueued, OneAccept
  <2> QED
    BY <2>2, <2>3
<1> QED
  BY <1>1, InvariantHolds, PTL

(* How many reads of a connection have completed and not been handled.     *)
LEMMA ReadsDoneCount ==
  ASSUME OnceQueued, NEW i
  PROVE  Cardinality(ReadsDone(i)) = IF HasRead(i) THEN 1 ELSE 0
<1>1. CASE HasRead(i)
  <2>1. PICK k \in 1 .. Len(ready) : ready[k].op = "read" /\ ready[k].conn = i
    BY <1>1 DEF HasRead
  <2>2. ReadsDone(i) = {k}
    BY <2>1 DEF OnceQueued, ReadsDone
  <2> QED
    BY <1>1, <2>2, FS_Singleton
<1>2. CASE ~HasRead(i)
  <2>1. ReadsDone(i) = {}
    BY <1>2 DEF HasRead, ReadsDone
  <2> QED
    BY <1>2, <2>1, FS_EmptySet
<1> QED
  BY <1>1, <1>2

(* A connection that asio or a scanner still has to do with is there, and  *)
(* nobody else has to do with it: no read into a freed buffer or into one  *)
(* being scanned, no callback into a connection that is gone.              *)
THEOREM HeldWhileUsedHolds == Spec => []HeldWhileUsed
<1>1. IInv => HeldWhileUsed
  <2> SUFFICES ASSUME IInv PROVE HeldWhileUsed
    OBVIOUS
  <2>1. TypeOK /\ OnceQueued /\ OneUse /\ Numbered
    BY DEF IInv
  <2>2. ASSUME NEW i \in Conns PROVE Uses(i) <= 1 /\ (Uses(i) > 0 => refs[i] > 0)
    <3>1. Cardinality(ReadsDone(i)) = IF HasRead(i) THEN 1 ELSE 0
      BY <2>1, ReadsDoneCount
    <3>2. /\ reads[i] \in {0, 1}
          /\ reads[i] = 1 => current # i /\ ~HasRead(i)
          /\ current = i => ~HasRead(i)
          /\ refs[i] = IF reads[i] = 1 \/ current = i \/ HasRead(i) THEN 1 ELSE 0
      BY <2>1 DEF OneUse
    <3> QED
      BY <3>1, <3>2 DEF Uses
  <2>3. ASSUME current # 0 PROVE refs[scanners[ScannerOf(current)].m_user] > 0
    <3>1. current \in Conns
      BY <2>1, <2>3 DEF TypeOK
    <3>2. current \in Made /\ refs[current] = 1
      BY <2>1, <3>1, UsedIsMade
    <3>3. scanners[ScannerOf(current)].m_user = current
      BY <2>1, <3>2 DEF Numbered, ScannerOf
    <3> QED
      BY <3>2, <3>3
  <2> QED
    BY <2>2, <2>3 DEF HeldWhileUsed
<1> QED
  BY <1>1, InvariantHolds, PTL

(* The socket of a client that closed in good order is given up only when  *)
(* all it sent has been scanned.                                           *)
THEOREM AllReadHolds == Spec => []AllRead
<1>1. IInv => AllRead
  <2> SUFFICES ASSUME IInv, NEW c \in Clients, Accepted(c), c \notin sockets
               PROVE  closed[c] = "rst" \/ (closed[c] = "fin" /\ scanned[c] = arrived[c])
    BY DEF AllRead
  <2>1. TypeOK /\ OneUse /\ Numbered /\ Apart /\ Position /\ EndsTold
    BY DEF IInv
  <2>2. PICK i \in Made : m_socket[i] = c
    BY DEF Accepted, Made
  <2>3. Connects(i) /\ i \in Conns
    BY <2>1, <2>2, NoneAssumption, ConnType DEF Connects
  <2>4. refs[i] # 1
    BY <2>1, <2>2 DEF Apart
  <2>5. refs[i] = 0 /\ current # i /\ ~HasRead(i)
    BY <2>1, <2>3, <2>4 DEF OneUse
  <2>6. Ended(c) /\ scanned[c] = taken[c]
    BY <2>1, <2>2, <2>3, <2>5 DEF EndsTold, Position
  <2> QED
    BY <2>6 DEF Ended
<1> QED
  BY <1>1, InvariantHolds, PTL

(* Type correctness: a client's requests are requests, never the rest of   *)
(* one.                                                                    *)
THEOREM TypeCorrect == Spec => []TypeOK
<1>1. IInv => TypeOK
  BY DEF IInv
<1> QED
  BY <1>1, InvariantHolds, PTL
-------------------------------------------------------------------------------
(* Each connection implements PduStream.                                   *)

(* All that was scanned of a stream is settled, but for the beginning of a *)
(* request that its connection's scanner is inside.                        *)
SettledParts ==
  \A c \in Clients :
    Settled(c) = IF scanned[c] > 0 /\ stream[c][scanned[c]].part = "front"
                   THEN scanned[c] - 1 ELSE scanned[c]

(* What is settled of the stream of a client.                              *)
LEMMA SettledIs == IInv => SettledParts
<1> SUFFICES ASSUME IInv, NEW c \in Clients
             PROVE  Settled(c) = IF scanned[c] > 0 /\ stream[c][scanned[c]].part = "front"
                                   THEN scanned[c] - 1 ELSE scanned[c]
  BY DEF SettledParts
<1> DEFINE Within == {k \in 1 .. Len(scanners) : m_socket[k] = c /\ scanners[k].partial # None}
<1>1. TypeOK /\ Numbered /\ Apart /\ Position /\ Inside /\ scanned[c] \in Nat
  BY DEF IInv, TypeOK
<1>2. CASE scanned[c] > 0 /\ stream[c][scanned[c]].part = "front"
  <2>1. PICK i \in Made : m_socket[i] = c
    BY <1>1, <1>2 DEF Position
  <2>2. Connects(i)
    BY <2>1, NoneAssumption DEF Connects
  <2>3. scanned[c] \in 1 .. Len(stream[c])
    <3>1. PICK x, t, a, n \in Nat :
            x = scanned[c] /\ t = taken[c] /\ a = arrived[c] /\ n = Len(stream[c])
      BY <1>1, StreamType DEF TypeOK
    <3>2. t <= a /\ a <= n
      BY <1>1, <3>1 DEF Position
    <3>3. x <= t
      <4>1. CASE current = i
        <5>1. length \in Nat /\ m_ix \in Nat /\ i # 0
          BY <1>1, <2>2, ConnType, ConnsType DEF TypeOK
        <5>2. m_ix <= length /\ x + length = t + m_ix
          BY <1>1, <2>1, <3>1, <4>1, <5>1 DEF Position
        <5> QED
          BY <5>1, <5>2
      <4>2. CASE HasRead(i)
        <5>1. PICK k \in 1 .. Len(ready) : ready[k].op = "read" /\ ready[k].conn = i
          BY <4>2 DEF HasRead
        <5>2. PICK m \in Nat : m = ready[k].length
          BY <1>1, <5>1, QueueType
        <5>3. x + m = t
          BY <1>1, <2>1, <3>1, <5>1, <5>2, NoneAssumption DEF Position
        <5> QED
          BY <5>2, <5>3
      <4>3. CASE current # i /\ ~HasRead(i)
        BY <1>1, <2>1, <2>2, <3>1, <4>3 DEF Position
      <4> QED
        BY <4>1, <4>2, <4>3
    <3> QED
      BY <1>2, <3>1, <3>2, <3>3
  <2>4. stream[c][scanned[c]] \in Token
    BY <1>1, <2>3, StreamType, ElementOfSeq
  <2>5. scanners[i].partial # None
    BY <1>1, <1>2, <2>1, <2>2, <2>4, NoneAssumption DEF Inside, Token
  <2>6. Within = {i}
    BY <1>1, <2>1, <2>2, <2>5 DEF Apart, Made
  <2>7. Cardinality(Within) = 1
    BY <2>6, FS_Singleton
  <2> QED
    BY <1>2, <2>7 DEF Settled
<1>3. CASE ~(scanned[c] > 0 /\ stream[c][scanned[c]].part = "front")
  <2>1. \A k \in 1 .. Len(scanners) : m_socket[k] = c => scanners[k].partial = None
    BY <1>1, <1>3 DEF Inside, Made
  <2>2. Within = {}
    BY <2>1
  <2>3. Cardinality(Within) = 0
    BY <2>2, FS_EmptySet
  <2>4. Settled(c) = scanned[c] - 0
    BY <2>3 DEF Settled
  <2> QED
    BY <1>1, <1>3, <2>4
<1> QED
  BY <1>2, <1>3

(* It is the same after a step.                                            *)
LEMMA SettledNext == IInv' => SettledParts'
BY SettledIs, PTL

(* A step that has nothing to do with a stream is no step of its promise.  *)
LEMMA ConnectionIdle ==
  ASSUME IInv, IInv', NEW c \in Clients,
         stream' = stream, scanned'[c] = scanned[c], printed'[c] = printed[c]
  PROVE  UNCHANGED Connection(c)!vars
<1>1. Settled(c)' = Settled(c)
  BY SettledIs, SettledNext DEF SettledParts
<1> QED
  BY <1>1 DEF Connection!vars

(* The end of a request delivers it on the connection it came in on.       *)
LEMMA ConnectionDelivers ==
  ASSUME IInv, IInv', ScanBack, NEW c \in Clients, c = m_socket[current]
  PROVE  Connection(c)!Deliver
<1>1. Scanning /\ Cur.part = "back" /\ Consume(None)
  BY DEF ScanBack
<1>2. /\ scanned[c] \in Nat /\ scanned[c] + 1 \in 1 .. Len(stream[c])
      /\ Cur = stream[c][scanned[c] + 1]
  BY <1>1, NextToken
<1>3. /\ scanned[c] - 1 \in Nat /\ scanned[c] \in 1 .. Len(stream[c])
      /\ stream[c][scanned[c]] = [req |-> Cur.req, part |-> "front"]
  BY <1>1, BackFollows
<1>4. stream' = stream /\ scanned' = [scanned EXCEPT ![c] = @ + 1]
  BY <1>1 DEF Consume, client
<1>5. scanned'[c] = scanned[c] + 1 /\ printed \in [Clients -> Seq(Printed)]
  BY <1>4 DEF IInv, TypeOK
<1>6. Settled(c) = scanned[c] - 1
  BY <1>2, <1>3, SettledIs DEF SettledParts
<1>7. Settled(c)' = scanned[c] + 1
  BY <1>1, <1>2, <1>4, <1>5, SettledNext DEF SettledParts
<1>8. printed'[c] = Append(printed[c], [from |-> scanned[c] - 1, to |-> scanned[c] + 1,
                                        request |-> Cur.req])
  BY <1>5, Prints
<1>9. PICK p, q : p = scanned[c] - 1 /\ q = scanned[c] + 1
  OBVIOUS
<1>10. /\ p \in Nat /\ q = p + 2 /\ p + 1 = scanned[c] /\ q \in p + 1 .. Len(stream[c])
       /\ q <= Len(stream[c])
  BY <1>2, <1>3, <1>9
<1>11. IsMessage(stream[c], p, q) /\ RequestAt(stream[c], p) = Cur.req
  <2>1. /\ stream[c][p + 1].part = "front" /\ stream[c][p + 1].req = Cur.req
        /\ stream[c][q] = Cur
    BY <1>2, <1>3, <1>9, <1>10
  <2> QED
    BY <1>1, <1>10, <2>1 DEF IsMessage, RequestAt
<1> QED
  BY <1>4, <1>6, <1>7, <1>8, <1>9, <1>10, <1>11 DEF Connection!Deliver

(* All but the end of a request settles nothing.                           *)
LEMMA ConnectionWaits ==
  ASSUME IInv, IInv', ScanFront, NEW c \in Clients, c = m_socket[current]
  PROVE  UNCHANGED Connection(c)!vars
<1>1. Scanning /\ Cur.part = "front" /\ Consume(Cur.req) /\ printed' = printed
  BY DEF ScanFront
<1>2. /\ scanned[c] \in Nat /\ scanned[c] + 1 \in 1 .. Len(stream[c])
      /\ Cur = stream[c][scanned[c] + 1]
  BY <1>1, NextToken
<1>3. stream' = stream /\ scanned' = [scanned EXCEPT ![c] = @ + 1]
  BY <1>1 DEF Consume, client
<1>4. scanned'[c] = scanned[c] + 1
  BY <1>3 DEF IInv, TypeOK
<1>5. scanned[c] > 0 => stream[c][scanned[c]].part = "back"
  <2>1. IsTraffic(stream[c])
    BY StreamType DEF IInv
  <2>2. scanned[c] + 1 > 1 => stream[c][(scanned[c] + 1) - 1].part = "back"
    BY <1>1, <1>2, <2>1 DEF IsTraffic
  <2>3. (scanned[c] + 1) - 1 = scanned[c] /\ (scanned[c] > 0 => scanned[c] + 1 > 1)
    BY <1>2
  <2> QED
    BY <2>2, <2>3
<1>6. Settled(c) = scanned[c]
  BY <1>5, SettledIs DEF SettledParts
<1>7. Settled(c)' = (scanned[c] + 1) - 1
  BY <1>1, <1>2, <1>3, <1>4, SettledNext DEF SettledParts
<1>8. Settled(c)' = Settled(c)
  BY <1>2, <1>6, <1>7
<1> QED
  BY <1>1, <1>3, <1>8 DEF Connection!vars

(* Each client has the scanner's promise for itself, whatever the other    *)
(* connections do: its requests come out whole, in order and once.         *)
THEOREM PromiseHolds == Spec => Promise
<1>1. Init => \A c \in Clients : Connection(c)!Init
  <2> SUFFICES ASSUME Init, NEW c \in Clients PROVE Connection(c)!Init
    OBVIOUS
  <2>1. Settled(c) = 0
    BY InitIInv, SettledIs DEF Init, SettledParts
  <2> QED
    BY <2>1 DEF Init, Connection!Init
<1>2. IInv /\ IInv' /\ [Next]_vars =>
        [\A c \in Clients : Connection(c)!Next \/ UNCHANGED Connection(c)!vars]_vars
  <2> SUFFICES ASSUME IInv, IInv', Next, NEW c \in Clients
               PROVE  Connection(c)!Next \/ UNCHANGED Connection(c)!vars
    OBVIOUS
  <2>1. CASE ScanFront \/ ScanBack
    <3>1. CASE c = m_socket[current]
      BY <2>1, <3>1, ConnectionDelivers, ConnectionWaits DEF Connection!Next
    <3>2. CASE c # m_socket[current]
      <4>1. /\ stream' = stream /\ scanned' = [scanned EXCEPT ![m_socket[current]] = @ + 1]
        BY <2>1 DEF ScanFront, ScanBack, Consume, client
      <4>2. scanned'[c] = scanned[c]
        BY <3>2, <4>1 DEF IInv, TypeOK
      <4>3. printed'[c] = printed[c]
        <5>1. CASE ScanFront
          BY <5>1 DEF ScanFront
        <5>2. CASE ScanBack
          <6>1. PICK d : d = m_socket[current]
            OBVIOUS
          <6>2. PICK e : printed' = [printed EXCEPT ![d] = e]
            BY <5>2, <6>1, Prints
          <6> QED
            BY <3>2, <6>1, <6>2 DEF IInv, TypeOK
        <5> QED
          BY <2>1, <5>1, <5>2
      <4> QED
        BY <4>1, <4>2, <4>3, ConnectionIdle
    <3> QED
      BY <3>1, <3>2
  <2>2. CASE ~(ScanFront \/ ScanBack)
    <3>1. UNCHANGED <<stream, scanned, printed>>
      <4>1. CASE HandleAccept \/ HandleReadError \/ HandleRead \/ HandleReadDone
        BY <4>1 DEF HandleAccept, HandleReadError, HandleRead, HandleReadDone, client, hist
      <4>2. CASE AcceptIo \/ AcceptFails \/ \E i \in Conns : ReadIo(i) \/ ReadEnds(i)
        BY <4>2 DEF AcceptIo, AcceptFails, ReadIo, ReadEnds, client, hist
      <4>3. CASE \E d \in Clients : Connect(d) \/ Send(d) \/ Close(d)
        BY <4>3 DEF Connect, Send, Close, client, hist
      <4> QED
        BY <2>2, <4>1, <4>2, <4>3 DEF Next, Server, Read, Handler, Peers
    <3> QED
      BY <3>1, ConnectionIdle
  <2> QED
    BY <2>1, <2>2
<1> QED
  BY <1>1, <1>2, InvariantHolds, PTL DEF Spec, Promise
===============================================================================
