---------------------------- MODULE RtuServerProofs ----------------------------
(***************************************************************************)
(* Theorems about RtuServer for all requests, however reads cut them and   *)
(* whenever the port goes away: first what holds whatever the master does, *)
(* then what holds while it waits for each answer (Window = 1).            *)
(***************************************************************************)
EXTENDS RtuServer, SequenceTheorems, TLAPS

(* For steps from each number to the next.                                 *)
Numbers == INSTANCE ModbusProofs

-------------------------------------------------------------------------------
(* The steps of start() leave nothing behind when they fail.  This needs   *)
(* no assumption about the master.                                         *)
THEOREM FailedStartHolds == Spec => []FailedStartIsClean
<1> DEFINE Clean == at # "running" =>
                      NoWork /\ (at \in {"open", "failed"} => descriptor = "closed")
<1>1. Init => Clean
  BY DEF Init, NoWork
<1>2. Clean /\ [Next]_vars => Clean'
  <2> SUFFICES ASSUME Clean, [Next]_vars PROVE Clean'
    OBVIOUS
  <2>1. CASE Start
    BY <2>1 DEF Start, OpenPort, Opened, OpenFails, IsATty, NotATty, Configures,
                ConfigFails, Refused, Assigned, NoWork, data
  <2>2. CASE at = "running" /\ ~Start
    <3>1. at' = at
      BY <2>2 DEF Next, Server, Master, Io, Handler, Ask, Close, ReadIo, ReadFails,
                  WriteIo, TimerExpires, HandleReadError, HandleRead, OnPdu,
                  HandleWriting, HandleTimer, WriteEnds, WriteFails, setup, vars
    <3> QED
      BY <2>2, <3>1
  <2>3. CASE at # "running" /\ ~Start
    <3>1. NoWork
      BY <2>3
    <3>2. UNCHANGED <<at, descriptor, io, todo>>
      BY <2>3, <3>1 DEF NoWork, Next, Server, Master, Io, Handler, Ask, Close, ReadIo,
                  ReadFails, WriteIo, TimerExpires, HandleReadError, HandleRead, OnPdu,
                  HandleWriting, HandleTimer, Runs, WriteEnds, WriteFails, setup, io,
                  data, vars
    <3> QED
      BY <2>3, <3>2 DEF NoWork, io
  <2> QED
    BY <2>1, <2>2, <2>3
<1>3. Clean => FailedStartIsClean
  BY DEF FailedStartIsClean
<1> QED
  BY <1>1, <1>2, <1>3, PTL DEF Spec

-------------------------------------------------------------------------------
(* Lemmas about the operators of the model.                                *)

(* A request on the wire, and its answer.                                  *)
LEMMA EchoType ==
  ASSUME NEW r \in Requests
  PROVE  /\ Echo(r) \in Seq(Token) /\ Len(Echo(r)) = 2
         /\ Echo(r)[1] = Front(r) /\ Echo(r)[2] = Back(r)
         /\ Composed(r) \in Seq(Token) /\ Reply(r) \in Seq(Token)
<1>1. Front(r) \in Token /\ Back(r) \in Token /\ [req |-> r, part |-> "reply"] \in Token
  BY DEF Front, Back, Token
<1> HIDE DEF Front, Back, Token
<1>2. /\ Echo(r) \in Seq(Token) /\ Len(Echo(r)) = 2
      /\ Echo(r)[1] = Front(r) /\ Echo(r)[2] = Back(r)
  BY <1>1 DEF Echo
<1>3. Composed(r) \in Seq(Token)
  BY <1>1 DEF Composed
<1> QED
  BY <1>2, <1>3 DEF Reply

(* A read overwrites the buffer from its beginning.                        *)
LEMMA OverlayType ==
  ASSUME NEW new \in Seq(Token), NEW old \in Seq(Token)
  PROVE  /\ Overlay(new, old) \in Seq(Token)
         /\ Len(Overlay(new, old)) >= Len(new)
         /\ \A k \in 1 .. Len(new) : Overlay(new, old)[k] = new[k]
<1> DEFINE rest == SubSeq(old, Len(new) + 1, Len(old))
<1>1. rest \in Seq(Token) /\ Len(new) \in Nat /\ Len(rest) \in Nat
  <2>1. \A i \in Len(new) + 1 .. Len(old) : old[i] \in Token
    OBVIOUS
  <2>2. Len(new) + 1 \in Int /\ Len(old) \in Int
    OBVIOUS
  <2>3. rest \in Seq(Token)
    BY <2>1, <2>2, SubSeqProperties
  <2> QED
    BY <2>3
<1> HIDE DEF rest
<1>2. /\ new \o rest \in Seq(Token)
      /\ Len(new \o rest) = Len(new) + Len(rest)
      /\ \A i \in 1 .. Len(new) + Len(rest) :
           (new \o rest)[i] = IF i <= Len(new) THEN new[i] ELSE rest[i - Len(new)]
  BY <1>1, ConcatProperties
<1>3. Overlay(new, old) = new \o rest
  BY DEF Overlay, rest
<1> QED
  BY <1>1, <1>2, <1>3

(* What scan() keeps while it goes through a portion.                      *)
ScanState == [partial : Requests \cup {None}, pdus : Seq(Requests), dropped : BOOLEAN]

(* One token leaves a scanner's state one.                                 *)
LEMMA ScanTokenType ==
  ASSUME NEW st \in ScanState, NEW t \in Token
  PROVE  ScanToken(st, t) \in ScanState
<1>1. /\ st.partial \in Requests \cup {None} /\ st.pdus \in Seq(Requests)
      /\ st.dropped \in BOOLEAN /\ t.req \in Requests
  BY DEF ScanState, Token
<1>2. Append(st.pdus, t.req) \in Seq(Requests)
  BY <1>1, AppendProperties
<1>3. /\ [st EXCEPT !.partial = t.req] \in ScanState
      /\ [st EXCEPT !.partial = None, !.pdus = Append(@, t.req)] \in ScanState
      /\ [st EXCEPT !.partial = None, !.dropped = TRUE] \in ScanState
  BY <1>1, <1>2 DEF ScanState
<1> QED
  BY <1>3 DEF ScanToken

(* The states of a scanner along a portion exist: this is what allows the  *)
(* recursive definition in ScanPortion to be unfolded.                     *)
LEMMA ScansExist ==
  ASSUME NEW s \in Seq(Token), NEW n \in Nat, n <= Len(s), NEW a \in ScanState
  PROVE  \E f \in [0 .. n -> ScanState] :
           f = [k \in 0 .. n |-> IF k = 0 THEN a ELSE ScanToken(f[k - 1], s[k])]
<1> DEFINE Scanned(f, m) ==
             f = [k \in 0 .. m |-> IF k = 0 THEN a ELSE ScanToken(f[k - 1], s[k])]
           T == {m \in 0 .. n : \E f \in [0 .. m -> ScanState] : Scanned(f, m)}
<1>1. 0 \in T
  <2> DEFINE f == [k \in 0 .. 0 |-> a]
  <2>1. f \in [0 .. 0 -> ScanState] /\ Scanned(f, 0)
    OBVIOUS
  <2> HIDE DEF f
  <2>2. 0 \in 0 .. n
    OBVIOUS
  <2> HIDE DEF Scanned
  <2> QED
    BY <2>1, <2>2
<1>2. ASSUME NEW m \in 0 .. n, m \in T, m + 1 \in 0 .. n
      PROVE  m + 1 \in T
  <2>1. PICK g \in [0 .. m -> ScanState] : Scanned(g, m)
    BY <1>2
  <2> DEFINE x == ScanToken(g[m], s[m + 1])
             f == [k \in 0 .. m + 1 |-> IF k = m + 1 THEN x ELSE g[k]]
  <2>2. x \in ScanState
    <3>1. m \in 0 .. m /\ m + 1 \in 1 .. Len(s)
      BY <1>2
    <3>2. g[m] \in ScanState /\ s[m + 1] \in Token
      BY <3>1, ElementOfSeq
    <3> QED
      BY <3>2, ScanTokenType
  <2>3. ASSUME NEW k \in 0 .. m + 1
        PROVE  /\ f[k] \in ScanState
               /\ f[k] = IF k = 0 THEN a ELSE ScanToken(f[k - 1], s[k])
    <3>1. CASE k = m + 1
      <4>1. k # 0 /\ k - 1 = m /\ m \in 0 .. m + 1 /\ m # m + 1
        BY <3>1
      <4>2. f[k] = x /\ f[k - 1] = g[m]
        BY <3>1, <4>1
      <4> QED
        BY <2>2, <3>1, <4>1, <4>2
    <3>2. CASE k # m + 1 /\ k # 0
      <4>1. k \in 0 .. m /\ k - 1 \in 0 .. m /\ k - 1 \in 0 .. m + 1 /\ k - 1 # m + 1
        BY <3>2
      <4>2. f[k] = g[k] /\ f[k - 1] = g[k - 1]
        BY <3>2, <4>1
      <4>3. g[k] = ScanToken(g[k - 1], s[k])
        BY <2>1, <3>2, <4>1
      <4> HIDE DEF f
      <4> QED
        BY <3>2, <4>1, <4>2, <4>3
    <3>3. CASE k = 0
      <4>1. 0 \in 0 .. m /\ 0 # m + 1
        OBVIOUS
      <4>2. f[k] = g[0] /\ g[0] = a
        BY <2>1, <3>3, <4>1
      <4> HIDE DEF f
      <4> QED
        BY <3>3, <4>2
    <3> QED
      BY <3>1, <3>2, <3>3
  <2>4. f = [k \in 0 .. m + 1 |-> f[k]]
    OBVIOUS
  <2> HIDE DEF f
  <2>5. f \in [0 .. m + 1 -> ScanState]
    BY <2>3, <2>4
  <2>6. Scanned(f, m + 1)
    BY <2>3, <2>4
  <2> HIDE DEF Scanned
  <2> QED
    BY <1>2, <2>5, <2>6
<1>3. n \in T
  <2>1. 0 .. n \subseteq T
    <3> HIDE DEF T
    <3> QED
      BY <1>1, <1>2, Numbers!FromZero
  <2>2. n \in 0 .. n
    OBVIOUS
  <2> HIDE DEF T
  <2> QED
    BY <2>1, <2>2
<1> QED
  BY <1>3

(* A portion is scanned one token after another.                           *)
LEMMA ScanUnfolds ==
  ASSUME partial \in Requests \cup {None}, m_input_buffer \in Seq(Token),
         NEW n \in Nat, n <= Len(m_input_buffer)
  PROVE  \E f \in [0 .. n -> ScanState] :
           /\ ScanPortion(n) = f[n]
           /\ f[0] = [partial |-> partial, pdus |-> << >>, dropped |-> FALSE]
           /\ \A k \in 1 .. n : f[k] = ScanToken(f[k - 1], m_input_buffer[k])
<1> DEFINE fresh == [partial |-> partial, pdus |-> << >>, dropped |-> FALSE]
           Scanned(f) == f = [k \in 0 .. n |-> IF k = 0 THEN fresh
                                ELSE ScanToken(f[k - 1], m_input_buffer[k])]
           after == CHOOSE f : Scanned(f)
<1>1. fresh \in ScanState
  BY DEF ScanState
<1>2. ScanPortion(n) = after[n]
  BY DEF ScanPortion
<1> HIDE DEF fresh
<1>3. PICK g \in [0 .. n -> ScanState] : Scanned(g)
  BY <1>1, ScansExist
<1>4. Scanned(after)
  BY <1>3
<1> HIDE DEF after
<1>5. \A k \in 0 .. n :
        after[k] = IF k = 0 THEN fresh ELSE ScanToken(after[k - 1], m_input_buffer[k])
  BY <1>4, Zenon
<1>6. after[0] = fresh
  BY <1>5
<1>7. ASSUME NEW k \in 1 .. n
      PROVE  after[k] = ScanToken(after[k - 1], m_input_buffer[k])
  <2>1. k \in 0 .. n /\ k # 0
    OBVIOUS
  <2> QED
    BY <1>5, <2>1
<1>8. DOMAIN after = 0 .. n /\ after = [k \in 0 .. n |-> after[k]]
  BY <1>4
<1>9. ASSUME NEW k \in 0 .. n PROVE after[k] \in ScanState
  <2> DEFINE T == {j \in 0 .. n : after[j] \in ScanState}
  <2>1. 0 \in T
    BY <1>1, <1>6
  <2>2. ASSUME NEW j \in 0 .. n, j \in T, j + 1 \in 0 .. n PROVE j + 1 \in T
    <3>1. j + 1 \in 1 .. n /\ (j + 1) - 1 = j /\ j + 1 \in 1 .. Len(m_input_buffer)
      BY <2>2
    <3>2. after[j + 1] = ScanToken(after[j], m_input_buffer[j + 1])
      BY <1>7, <3>1
    <3>3. after[j] \in ScanState /\ m_input_buffer[j + 1] \in Token
      BY <2>2, <3>1, ElementOfSeq
    <3> QED
      BY <2>2, <3>2, <3>3, ScanTokenType
  <2> HIDE DEF T
  <2>3. k \in T
    BY <2>1, <2>2, Numbers!FromZero
  <2> QED
    BY <2>3 DEF T
<1>10. after \in [0 .. n -> ScanState]
  BY <1>8, <1>9
<1> QED
  BY <1>2, <1>6, <1>7, <1>10 DEF fresh

(* Whatever is in the buffer, a scan leaves the scanner in one of its      *)
(* states.                                                                 *)
LEMMA ScanType ==
  ASSUME partial \in Requests \cup {None}, m_input_buffer \in Seq(Token),
         NEW n \in Nat, n <= Len(m_input_buffer)
  PROVE  /\ ScanPortion(n).partial \in Requests \cup {None}
         /\ ScanPortion(n).pdus \in Seq(Requests)
<1>1. PICK f \in [0 .. n -> ScanState] : ScanPortion(n) = f[n]
  BY ScanUnfolds
<1>2. n \in 0 .. n
  OBVIOUS
<1> QED
  BY <1>1, <1>2 DEF ScanState

(* The scanner gives out no request after the front of one, and the        *)
(* request after both its tokens.                                          *)
LEMMA PortionScanned ==
  ASSUME NEW r \in Requests, NEW n \in {1, 2}, partial = None,
         m_input_buffer \in Seq(Token), n <= Len(m_input_buffer),
         m_input_buffer[1] = Front(r),
         n = 2 => m_input_buffer[2] = Back(r)
  PROVE  ScanPortion(n) = IF n = 1
           THEN [partial |-> r, pdus |-> << >>, dropped |-> FALSE]
           ELSE [partial |-> None, pdus |-> <<r>>, dropped |-> FALSE]
<1> DEFINE fresh == [partial |-> None, pdus |-> << >>, dropped |-> FALSE]
           inside == [partial |-> r, pdus |-> << >>, dropped |-> FALSE]
           complete == [partial |-> None, pdus |-> <<r>>, dropped |-> FALSE]
<1>1. ScanToken(fresh, Front(r)) = inside
  BY DEF ScanToken, Front
<1>2. ScanToken(inside, Back(r)) = complete
  <2>1. ScanToken(inside, Back(r)) =
          [inside EXCEPT !.partial = None, !.pdus = Append(inside.pdus, r)]
    BY RequestsAssumption DEF ScanToken, Back
  <2>2. Append(<< >>, r) = <<r>>
    OBVIOUS
  <2> QED
    BY <2>1, <2>2
<1>3. PICK f \in [0 .. n -> ScanState] :
        /\ ScanPortion(n) = f[n]
        /\ f[0] = [partial |-> partial, pdus |-> << >>, dropped |-> FALSE]
        /\ \A k \in 1 .. n : f[k] = ScanToken(f[k - 1], m_input_buffer[k])
  <2>1. partial \in Requests \cup {None} /\ n \in Nat
    OBVIOUS
  <2> QED
    BY <2>1, ScanUnfolds
<1>4. f[1] = inside
  <2>1. 1 \in 1 .. n /\ 1 - 1 = 0 /\ f[0] = fresh
    BY <1>3
  <2> HIDE DEF fresh, inside
  <2> QED
    BY <1>1, <1>3, <2>1
<1> HIDE DEF fresh, inside, complete
<1>5. n = 2 => f[2] = complete
  <2>1. n = 2 => 2 \in 1 .. n /\ 2 - 1 = 1
    OBVIOUS
  <2> QED
    BY <1>2, <1>3, <1>4, <2>1
<1> QED
  BY <1>3, <1>4, <1>5 DEF inside, complete

(* A portion of whole requests yields at least one and leaves no part of   *)
(* another behind.                                                         *)
LEMMA ScanWhole ==
  ASSUME partial = None, m_input_buffer \in Seq(Token), Whole(m_input_buffer),
         NEW n \in Nat \ {0}, n <= Len(m_input_buffer), n % 2 = 0
  PROVE  ScanPortion(n).partial = None /\ ScanPortion(n).pdus # << >>
<1> DEFINE b == m_input_buffer
<1>1. PICK f \in [0 .. n -> ScanState] :
        /\ ScanPortion(n) = f[n]
        /\ f[0] = [partial |-> None, pdus |-> << >>, dropped |-> FALSE]
        /\ \A k \in 1 .. n : f[k] = ScanToken(f[k - 1], b[k])
  BY ScanUnfolds
<1> DEFINE Between(k) == k % 2 = 0 => f[k].partial = None /\ (k # 0 => f[k].pdus # << >>)
           Within(k)  == k % 2 = 1 => f[k].partial = b[k].req
           T == {k \in 0 .. n : ~f[k].dropped /\ Between(k) /\ Within(k)}
<1>2. 0 \in T
  <2>1. 0 \in 0 .. n /\ 0 % 2 = 0
    OBVIOUS
  <2> QED
    BY <1>1, <2>1
<1>3. ASSUME NEW k \in 0 .. n, k \in T, k + 1 \in 0 .. n
      PROVE  k + 1 \in T
  <2>1. /\ k + 1 \in 1 .. n /\ (k + 1) - 1 = k /\ k + 1 \in 1 .. Len(b)
        /\ f[k + 1] = ScanToken(f[k], b[k + 1])
    BY <1>1, <1>3
  <2>2. f[k] \in ScanState /\ b[k + 1] \in Token /\ ~f[k].dropped
    BY <1>3, <2>1, ElementOfSeq
  <2>3. CASE k % 2 = 0
    <3>1. (k + 1) % 2 = 1
      BY <2>3
    <3>2. b[k + 1].part = "front" /\ f[k].partial = None
      BY <1>3, <2>1, <2>3, <3>1 DEF Whole
    <3>3. f[k + 1] = [f[k] EXCEPT !.partial = b[k + 1].req]
      BY <2>1, <2>2, <3>2 DEF ScanToken
    <3>4. f[k + 1].partial = b[k + 1].req /\ ~f[k + 1].dropped
      BY <2>2, <3>3 DEF ScanState
    <3> QED
      BY <1>3, <3>1, <3>4
  <2>4. CASE k % 2 = 1
    <3>1. (k + 1) % 2 = 0 /\ k \in 1 .. Len(b)
      BY <2>1, <2>4
    <3>2. b[k + 1] = Back(b[k].req) /\ f[k].partial = b[k].req
      BY <1>3, <2>1, <2>4, <3>1 DEF Whole
    <3>3. b[k].req \in Requests /\ b[k].req # None
      <4>1. b[k] \in Token
        BY <3>1, ElementOfSeq
      <4> QED
        BY <4>1, RequestsAssumption DEF Token
    <3>4. b[k + 1].part # "front" /\ b[k + 1].req = b[k].req
      BY <3>2 DEF Back
    <3>5. f[k + 1] = [f[k] EXCEPT !.partial = None, !.pdus = Append(@, b[k].req)]
      BY <2>1, <2>2, <3>2, <3>3, <3>4 DEF ScanToken
    <3>6. f[k].pdus \in Seq(Requests)
      BY <2>2 DEF ScanState
    <3>7. Append(f[k].pdus, b[k].req) # << >>
      <4>1. Len(Append(f[k].pdus, b[k].req)) = Len(f[k].pdus) + 1 /\ Len(f[k].pdus) \in Nat
        BY <3>3, <3>6, AppendProperties
      <4> QED
        BY <4>1
    <3>8. /\ f[k + 1].partial = None /\ ~f[k + 1].dropped
          /\ f[k + 1].pdus = Append(f[k].pdus, b[k].req)
      BY <2>2, <3>5 DEF ScanState
    <3> QED
      BY <1>3, <3>1, <3>7, <3>8
  <2> QED
    BY <2>3, <2>4
<1>4. n \in T
  <2> HIDE DEF T
  <2>1. n \in 0 .. n
    OBVIOUS
  <2> QED
    BY <1>2, <1>3, <2>1, Numbers!FromZero
<1> QED
  BY <1>1, <1>4

(* A sequence with no elements is the empty one.                           *)
LEMMA LenZero ==
  ASSUME NEW S, NEW s \in Seq(S)
  PROVE  Len(s) = 0 <=> s = << >>
BY EmptySeq

(* The queue of completion handlers.                                       *)
LEMMA Enqueued ==
  ASSUME NEW q \in Seq(Op), NEW e \in Op
  PROVE  /\ Append(q, e) \in Seq(Op)
         /\ \A i \in 1 .. Len(Append(q, e)) :
              \/ i \in 1 .. Len(q) /\ Append(q, e)[i] = q[i]
              \/ i = Len(q) + 1 /\ Append(q, e)[i] = e
         /\ \A i \in 1 .. Len(q) :
              i \in 1 .. Len(Append(q, e)) /\ Append(q, e)[i] = q[i]
         /\ Len(q) + 1 \in 1 .. Len(Append(q, e)) /\ Append(q, e)[Len(q) + 1] = e
<1>1. Len(q) \in Nat
  OBVIOUS
<1> QED
  BY <1>1, AppendProperties

(* What is left of the queue of handlers when the first one runs.          *)
LEMMA Dequeued ==
  ASSUME NEW q \in Seq(Op), q # << >>
  PROVE  /\ Tail(q) \in Seq(Op)
         /\ 1 \in 1 .. Len(q) /\ Head(q) = q[1] /\ Head(q) \in Op
         /\ \A i \in 1 .. Len(Tail(q)) : i + 1 \in 1 .. Len(q) /\ Tail(q)[i] = q[i + 1]
         /\ \A i \in 1 .. Len(q) :
              i # 1 => i - 1 \in 1 .. Len(Tail(q)) /\ Tail(q)[i - 1] = q[i]
<1>1. Len(q) \in Nat /\ Len(q) # 0
  BY EmptySeq
<1>2. Tail(q) \in Seq(Op) /\ Len(Tail(q)) = Len(q) - 1 /\ Head(q) \in Op
      /\ \A i \in 1 .. Len(Tail(q)) : Tail(q)[i] = q[i + 1]
  BY HeadTailProperties
<1>3. Head(q) = q[1]
  OBVIOUS
<1>4. ASSUME NEW i \in 1 .. Len(q), i # 1
      PROVE  i - 1 \in 1 .. Len(Tail(q)) /\ Tail(q)[i - 1] = q[i]
  <2>1. i - 1 \in 1 .. Len(Tail(q)) /\ (i - 1) + 1 = i
    BY <1>1, <1>2, <1>4
  <2> QED
    BY <1>2, <2>1
<1> QED
  BY <1>1, <1>2, <1>3, <1>4

-------------------------------------------------------------------------------
(* Whole requests.                                                         *)

(* They are two tokens each.                                               *)
LEMMA WholeEven ==
  ASSUME NEW s \in Seq(Token), Whole(s)
  PROVE  Len(s) % 2 = 0
<1>1. Len(s) \in Nat
  OBVIOUS
<1>2. Len(s) % 2 = 1 => Len(s) \in 1 .. Len(s)
  BY <1>1
<1> QED
  BY <1>1, <1>2 DEF Whole

(* Counting in twos.                                                       *)
LEMMA Parity ==
  ASSUME NEW m \in Nat, NEW j \in Nat, m % 2 = 0
  PROVE  /\ (m + j) % 2 = j % 2 /\ (j % 2 = 0 \/ j % 2 = 1)
         /\ j % 2 = 0 /\ j # 0 => 1 <= j - 1
OBVIOUS

(* One is whole by itself.                                                 *)
LEMMA WholeEcho ==
  ASSUME NEW r \in Requests
  PROVE  Whole(Echo(r))
<1>1. Len(Echo(r)) = 2 /\ Echo(r)[1] = Front(r) /\ Echo(r)[2] = Back(r)
  BY EchoType
<1>2. Front(r).part = "front" /\ Front(r).req = r
  BY DEF Front
<1>3. ASSUME NEW k \in 1 .. Len(Echo(r))
      PROVE  IF k % 2 = 1 THEN k < Len(Echo(r)) /\ Echo(r)[k].part = "front"
                          ELSE Echo(r)[k] = Back(Echo(r)[k - 1].req)
  <2>1. k = 1 \/ k = 2
    BY <1>1, <1>3
  <2>2. CASE k = 1
    BY <1>1, <1>2, <2>2
  <2>3. CASE k = 2
    <3>1. k % 2 = 0 /\ k - 1 = 1
      BY <2>3
    <3> QED
      BY <1>1, <1>2, <2>3, <3>1
  <2> QED
    BY <2>1, <2>2, <2>3
<1> QED
  BY <1>3 DEF Whole

(* Some and then others are whole too.                                     *)
LEMMA WholeThen ==
  ASSUME NEW s \in Seq(Token), NEW t \in Seq(Token), Whole(s), Whole(t)
  PROVE  Whole(s \o t)
<1> DEFINE m == Len(s)
           n == Len(t)
           st == s \o t
<1>1. m \in Nat /\ n \in Nat /\ m % 2 = 0
  BY WholeEven
<1>2. /\ Len(st) = m + n
      /\ \A k \in 1 .. m : st[k] = s[k]
      /\ \A k \in 1 .. n : st[m + k] = t[k]
  <2>1. /\ Len(st) = m + n
        /\ \A i \in 1 .. m + n : st[i] = IF i <= m THEN s[i] ELSE t[i - m]
    BY ConcatProperties
  <2>2. \A k \in 1 .. m : k \in 1 .. m + n /\ k <= m
    BY <1>1
  <2>3. \A k \in 1 .. n : m + k \in 1 .. m + n /\ ~(m + k <= m) /\ (m + k) - m = k
    BY <1>1
  <2> HIDE DEF m, n, st
  <2> QED
    BY <2>1, <2>2, <2>3
<1> HIDE DEF st
<1>3. ASSUME NEW k \in 1 .. Len(st)
      PROVE  IF k % 2 = 1 THEN k < Len(st) /\ st[k].part = "front"
                          ELSE st[k] = Back(st[k - 1].req)
  <2>1. CASE k \in 1 .. m
    <3>1. st[k] = s[k]
      BY <1>2, <2>1
    <3>2. k % 2 = 0 => k - 1 \in 1 .. m /\ st[k - 1] = s[k - 1]
      <4>1. k % 2 = 0 => 1 <= k - 1
        BY Parity
      <4> HIDE DEF m, n
      <4> QED
        BY <1>1, <1>2, <2>1, <4>1
    <3>3. IF k % 2 = 1 THEN k < m /\ s[k].part = "front" ELSE s[k] = Back(s[k - 1].req)
      BY <2>1 DEF Whole
    <3>4. k % 2 = 0 \/ k % 2 = 1
      OBVIOUS
    <3> HIDE DEF m, n
    <3> QED
      BY <1>1, <1>2, <3>1, <3>2, <3>3, <3>4
  <2>2. CASE k \notin 1 .. m
    <3> DEFINE j == k - m
    <3>1. j \in 1 .. n /\ k = m + j
      <4> HIDE DEF m, n
      <4> QED
        BY <1>1, <1>2, <1>3, <2>2
    <3>2. k % 2 = j % 2 /\ (j % 2 = 0 \/ j % 2 = 1) /\ (j % 2 = 0 => 1 <= j - 1)
      <4> HIDE DEF m, n, j
      <4> QED
        BY <1>1, <3>1, Parity
    <3>3. IF j % 2 = 1 THEN j < n /\ t[j].part = "front" ELSE t[j] = Back(t[j - 1].req)
      BY <3>1 DEF Whole
    <3>4. st[k] = t[j]
      BY <1>2, <3>1
    <3>5. j % 2 = 0 => j - 1 \in 1 .. n /\ k - 1 = m + (j - 1)
      <4> HIDE DEF m, n, j
      <4> QED
        BY <1>1, <3>1, <3>2
    <3>6. j % 2 = 0 => st[k - 1] = t[j - 1]
      BY <1>2, <3>5
    <3> HIDE DEF m, n, j
    <3> QED
      BY <1>1, <1>2, <3>1, <3>2, <3>3, <3>4, <3>6
  <2> QED
    BY <2>1, <2>2
<1> QED
  BY <1>3 DEF Whole, st

(* Taken apart between two of them, both parts are whole.                  *)
LEMMA WholeParts ==
  ASSUME NEW s \in Seq(Token), Whole(s), NEW n \in 0 .. Len(s), n % 2 = 0
  PROVE  /\ SubSeq(s, 1, n) \in Seq(Token) /\ Len(SubSeq(s, 1, n)) = n
         /\ SubSeq(s, n + 1, Len(s)) \in Seq(Token)
         /\ Whole(SubSeq(s, 1, n)) /\ Whole(SubSeq(s, n + 1, Len(s)))
<1> DEFINE front == SubSeq(s, 1, n)
           rest  == SubSeq(s, n + 1, Len(s))
<1>1. Len(s) \in Nat /\ n \in Nat /\ n <= Len(s) /\ \A k \in 1 .. Len(s) : s[k] \in Token
  BY ElementOfSeq
<1>2. front \in Seq(Token) /\ Len(front) = n /\ \A k \in 1 .. n : front[k] = s[k]
  <2>1. \A k \in 1 .. n : s[k] \in Token
    BY <1>1
  <2> QED
    BY <1>1, <2>1, SubSeqProperties
<1>3. /\ rest \in Seq(Token) /\ Len(rest) = Len(s) - n
      /\ \A k \in 1 .. Len(s) - n : rest[k] = s[n + k]
  <2>1. \A k \in n + 1 .. Len(s) : s[k] \in Token
    BY <1>1
  <2>2. /\ rest \in Seq(Token)
        /\ Len(rest) = IF n + 1 <= Len(s) THEN Len(s) - (n + 1) + 1 ELSE 0
        /\ \A k \in 1 .. Len(s) - (n + 1) + 1 : rest[k] = s[(n + 1) + k - 1]
    BY <1>1, <2>1, SubSeqProperties
  <2>3. \A k \in 1 .. Len(s) - n : (n + 1) + k - 1 = n + k
    BY <1>1
  <2>4. Len(s) - (n + 1) + 1 = Len(s) - n
    BY <1>1
  <2> HIDE DEF rest
  <2>5. ASSUME NEW k \in 1 .. Len(s) - n PROVE rest[k] = s[n + k]
    BY <2>2, <2>3, <2>4
  <2>6. Len(rest) = Len(s) - n
    <3>1. ~(n + 1 <= Len(s)) => Len(s) - n = 0
      BY <1>1
    <3> QED
      BY <2>2, <2>4, <3>1
  <2> QED
    BY <2>2, <2>5, <2>6
<1> HIDE DEF front, rest
<1>4. ASSUME NEW k \in 1 .. n
      PROVE  IF k % 2 = 1 THEN k < n /\ front[k].part = "front"
                          ELSE front[k] = Back(front[k - 1].req)
  <2>1. k \in 1 .. Len(s) /\ front[k] = s[k]
    BY <1>1, <1>2
  <2>2. CASE k % 2 = 1
    <3>1. k < n
      BY <1>1, <2>2
    <3> QED
      BY <2>1, <2>2, <3>1 DEF Whole
  <2>3. CASE k % 2 = 0
    <3>1. k - 1 \in 1 .. n /\ front[k - 1] = s[k - 1]
      BY <1>1, <1>2, <2>3
    <3> QED
      BY <2>1, <2>3, <3>1 DEF Whole
  <2> QED
    BY <2>2, <2>3
<1>5. ASSUME NEW k \in 1 .. Len(s) - n
      PROVE  IF k % 2 = 1 THEN k < Len(s) - n /\ rest[k].part = "front"
                          ELSE rest[k] = Back(rest[k - 1].req)
  <2>1. n + k \in 1 .. Len(s) /\ (n + k) % 2 = k % 2 /\ rest[k] = s[n + k]
    <3>1. (n + k) % 2 = k % 2
      BY <1>1, Parity
    <3>2. n + k \in 1 .. Len(s)
      BY <1>1
    <3>3. rest[k] = s[n + k]
      BY <1>3
    <3> QED
      BY <3>1, <3>2, <3>3
  <2>2. CASE k % 2 = 1
    <3>1. n + k < Len(s) /\ s[n + k].part = "front"
      BY <2>1, <2>2 DEF Whole
    <3> QED
      BY <1>1, <2>1, <2>2, <3>1
  <2>3. CASE k % 2 = 0
    <3>1. k - 1 \in 1 .. Len(s) - n /\ n + (k - 1) = (n + k) - 1
      BY <1>1, <2>3
    <3>2. rest[k - 1] = s[(n + k) - 1]
      BY <1>3, <3>1
    <3>3. s[n + k] = Back(s[(n + k) - 1].req)
      BY <2>1, <2>3 DEF Whole
    <3> QED
      BY <2>1, <2>3, <3>2, <3>3
  <2> QED
    BY <2>2, <2>3
<1>6. Whole(front)
  BY <1>2, <1>4 DEF Whole
<1>7. Whole(rest)
  BY <1>3, <1>5 DEF Whole
<1> QED
  BY <1>2, <1>3, <1>6, <1>7 DEF front, rest

(* A read never shortens the buffer, and whole requests in it stay whole.  *)
LEMMA OverlayKeeps ==
  ASSUME NEW new \in Seq(Token), NEW old \in Seq(Token)
  PROVE  /\ Len(Overlay(new, old)) >= Len(old)
         /\ Whole(new) /\ Whole(old) => Whole(Overlay(new, old))
<1> DEFINE rest == SubSeq(old, Len(new) + 1, Len(old))
<1>1. Len(new) \in Nat /\ Len(old) \in Nat
  OBVIOUS
<1>2. CASE Len(new) <= Len(old)
  <2>1. rest \in Seq(Token) /\ Len(rest) = Len(old) - Len(new)
    <3>1. \A i \in Len(new) + 1 .. Len(old) : old[i] \in Token
      BY <1>1, ElementOfSeq
    <3>2. /\ rest \in Seq(Token)
          /\ Len(rest) = IF Len(new) + 1 <= Len(old)
                           THEN Len(old) - (Len(new) + 1) + 1 ELSE 0
      BY <1>1, <3>1, SubSeqProperties
    <3> HIDE DEF rest
    <3> QED
      BY <1>1, <1>2, <3>2
  <2>2. Len(new \o rest) = Len(new) + Len(rest)
    BY <2>1, ConcatProperties
  <2>3. ASSUME Whole(new), Whole(old) PROVE Whole(new \o rest)
    <3>1. Len(new) % 2 = 0 /\ Len(new) \in 0 .. Len(old)
      BY <1>1, <1>2, <2>3, WholeEven
    <3>2. Whole(rest)
      BY <2>3, <3>1, WholeParts
    <3> HIDE DEF rest
    <3> QED
      BY <2>1, <2>3, <3>2, WholeThen
  <2>4. Overlay(new, old) = new \o rest
    BY DEF Overlay
  <2> HIDE DEF rest
  <2> QED
    BY <1>1, <1>2, <2>1, <2>2, <2>3, <2>4
<1>3. CASE ~(Len(new) <= Len(old))
  <2>1. rest = << >>
    BY <1>1, <1>3, SubSeqEmpty
  <2>2. new \o << >> = new
    BY ConcatEmptySeq
  <2>3. Overlay(new, old) = new
    BY <2>1, <2>2 DEF Overlay
  <2> QED
    BY <1>1, <1>3, <2>3
<1> QED
  BY <1>2, <1>3

-------------------------------------------------------------------------------
(* Any master: however many answers it is waiting for, one lemma per       *)
(* action.                                                                 *)

(* At first nothing has been read.                                         *)
LEMMA InitAny == Init => AnyMaster
<1> SUFFICES ASSUME Init PROVE AnyMaster
  OBVIOUS
<1>1. TypeOK /\ NoWork
  BY DEF Init, TypeOK, NoWork
<1>2. InBuffer /\ ReadsBring /\ NeverDeaf
  BY DEF Init, InBuffer, ReadsBring, NeverDeaf
<1>3. Paired
  <2>1. Whole(<< >>)
    BY DEF Whole
  <2> QED
    BY <2>1 DEF Init, Paired
<1> QED
  BY <1>1, <1>2, <1>3 DEF AnyMaster

(* start() is not taken up again once it is through.                       *)
LEMMA StartSteps == Start => at # "running"
BY DEF Start, OpenPort, Opened, OpenFails, IsATty, NotATty, Configures, ConfigFails,
       Refused, Assigned

(* start() begins to work only when it is through, and then with a read.   *)
LEMMA StartAny == AnyMaster /\ Start => AnyMaster'
<1> SUFFICES ASSUME AnyMaster, Start PROVE AnyMaster'
  OBVIOUS
<1>1. TypeOK /\ NoWork /\ InBuffer /\ (~Split => Paired) /\ at # "running"
  BY StartSteps DEF AnyMaster
<1>2. /\ UNCHANGED <<wire, port, m_input_buffer, actual_size, m_output_buffer, partial,
                      todo, writes, ready, asked, applied, sent>>
      /\ at' # "running" => UNCHANGED <<reads, timer>>
      /\ at' = "running" => reads' = 1 /\ timer' = 1
      /\ at' \in {"isatty", "tcgetattr", "tcsetattr", "refused", "assign", "running",
                  "failed"}
      /\ descriptor' \in {"closed", "open", "assigned"}
  BY <1>1 DEF Start, OpenPort, Opened, OpenFails, IsATty, NotATty, Configures, ConfigFails,
              Refused, Assigned, data, hist, NoWork, TypeOK
<1>3. TypeOK'
  BY <1>1, <1>2 DEF TypeOK, NoWork
<1>4. at' # "running" => NoWork'
  BY <1>1, <1>2 DEF NoWork
<1>5. InBuffer' /\ ReadsBring'
  BY <1>1, <1>2 DEF InBuffer, ReadsBring, NoWork
<1>6. ~Split => Paired'
  BY <1>1, <1>2 DEF Paired
<1>7. NeverDeaf'
  BY <1>2 DEF NeverDeaf
<1> QED
  BY <1>3, <1>4, <1>5, <1>6, <1>7 DEF AnyMaster

(* A request arrives whole.                                                *)
LEMMA AskAny ==
  ASSUME NEW r \in Requests
  PROVE  AnyMaster /\ Ask(r) => AnyMaster'
<1> SUFFICES ASSUME AnyMaster, Ask(r) PROVE AnyMaster'
  OBVIOUS
<1>1. TypeOK /\ InBuffer /\ ReadsBring /\ (~Split => Paired /\ NeverDeaf)
  BY DEF AnyMaster
<1>2. /\ at = "running" /\ asked' = Append(asked, r) /\ wire' = wire \o Echo(r)
      /\ UNCHANGED <<at, descriptor, port, m_input_buffer, actual_size, m_output_buffer,
                      partial, todo, reads, writes, timer, ready, applied, sent>>
  BY DEF Ask, setup, io, data
<1>3. wire \in Seq(Token) /\ Echo(r) \in Seq(Token) /\ asked \in Seq(Requests)
  BY <1>1, EchoType DEF TypeOK
<1>4. wire' \in Seq(Token) /\ asked' \in Seq(Requests)
  BY <1>2, <1>3, ConcatProperties, AppendProperties
<1>5. TypeOK'
  BY <1>1, <1>2, <1>4 DEF TypeOK
<1>6. InBuffer' /\ ReadsBring'
  BY <1>1, <1>2 DEF InBuffer, ReadsBring, Usable
<1>7. ASSUME ~Split PROVE Paired' /\ NeverDeaf'
  <2>1. Whole(wire')
    BY <1>1, <1>2, <1>3, <1>7, WholeEcho, WholeThen DEF Paired
  <2>2. Paired'
    BY <1>1, <1>2, <1>7, <2>1 DEF Paired
  <2>3. NeverDeaf'
    BY <1>1, <1>2, <1>7 DEF NeverDeaf, Usable, Queued
  <2> QED
    BY <2>2, <2>3
<1> QED
  BY <1>2, <1>5, <1>6, <1>7 DEF AnyMaster

(* A closed port cannot be used.                                           *)
LEMMA CloseAny == AnyMaster /\ Close => AnyMaster'
<1> SUFFICES ASSUME AnyMaster, Close PROVE AnyMaster'
  OBVIOUS
<1>1. TypeOK /\ (at # "running" => NoWork) /\ InBuffer /\ (~Split => Paired)
  BY DEF AnyMaster
<1>2. /\ ~Usable' /\ port' = "closed"
      /\ UNCHANGED <<at, descriptor, wire, m_input_buffer, actual_size, m_output_buffer,
                      partial, todo, reads, writes, timer, ready, asked, applied, sent>>
  BY DEF Close, Usable, setup, io, data, hist
<1>3. TypeOK' /\ (at' # "running" => NoWork')
  BY <1>1, <1>2 DEF TypeOK, NoWork
<1>4. InBuffer'
  BY <1>1, <1>2 DEF InBuffer
<1>5. ReadsBring' /\ NeverDeaf'
  BY <1>2 DEF ReadsBring, NeverDeaf
<1>6. ~Split => Paired'
  BY <1>1, <1>2 DEF Paired
<1> QED
  BY <1>3, <1>4, <1>5, <1>6 DEF AnyMaster

(* A read overwrites the buffer from its beginning, also while a handler   *)
(* that is queued counts on what it finds there.                           *)
LEMMA ReadIoAny == AnyMaster /\ ReadIo => AnyMaster'
<1> SUFFICES ASSUME AnyMaster, ReadIo PROVE AnyMaster'
  OBVIOUS
<1>1. TypeOK /\ (at # "running" => NoWork) /\ InBuffer /\ ReadsBring /\ (~Split => Paired)
  BY DEF AnyMaster
<1>2. /\ Usable /\ reads > 0 /\ reads' = reads - 1
      /\ UNCHANGED <<at, descriptor, port, actual_size, m_output_buffer, partial, todo,
                      writes, timer, asked, applied, sent>>
  BY DEF ReadIo, setup, hist
<1>3. PICK n \in 1 .. Len(wire) :
        /\ Split \/ wire[n].part = "back"
        /\ m_input_buffer' = Overlay(SubSeq(wire, 1, n), m_input_buffer)
        /\ wire' = SubSeq(wire, n + 1, Len(wire))
        /\ ready' = Append(ready, [op |-> "read", length |-> n])
  BY DEF ReadIo
<1> DEFINE e == [op |-> "read", length |-> n]
           new == SubSeq(wire, 1, n)
           len == Len(m_input_buffer)
           lenx == Len(m_input_buffer')
<1>4. /\ wire \in Seq(Token) /\ m_input_buffer \in Seq(Token) /\ ready \in Seq(Op)
      /\ e \in Op /\ reads \in Nat /\ Len(wire) \in Nat /\ n \in Nat
      /\ writes \in Seq([buf : {"in", "out"}, size : Nat])
      /\ \A k \in 1 .. Len(wire) : wire[k] \in Token
  BY <1>1, ElementOfSeq DEF TypeOK, Op
<1>5. new \in Seq(Token) /\ Len(new) = n
  <2>1. \A k \in 1 .. n : wire[k] \in Token
    BY <1>4
  <2> QED
    BY <1>4, <2>1, SubSeqProperties
<1>6. wire' \in Seq(Token)
  <2>1. \A k \in n + 1 .. Len(wire) : wire[k] \in Token
    BY <1>4
  <2> QED
    BY <1>3, <1>4, <2>1, SubSeqProperties
<1>7. m_input_buffer' = Overlay(new, m_input_buffer)
  BY <1>3
<1> HIDE DEF new
<1>8. m_input_buffer' \in Seq(Token) /\ lenx >= len /\ lenx >= n
  BY <1>4, <1>5, <1>7, OverlayType, OverlayKeeps, ZenonT(30)
<1>9. /\ ready' \in Seq(Op)
      /\ \A i \in 1 .. Len(ready') :
           \/ i \in 1 .. Len(ready) /\ ready'[i] = ready[i]
           \/ i = Len(ready) + 1 /\ ready'[i] = e
      /\ Len(ready) + 1 \in 1 .. Len(ready') /\ ready'[Len(ready) + 1] = e
  BY <1>3, <1>4, Enqueued
<1>10. /\ len \in Nat /\ lenx \in Nat /\ actual_size \in Nat
       /\ \A i \in 1 .. Len(ready) : ready[i].length \in Nat
       /\ \A i \in 1 .. Len(writes) : writes[i].size \in Nat
  <2>1. /\ \A i \in 1 .. Len(ready) : ready[i] \in Op
        /\ \A i \in 1 .. Len(writes) : writes[i] \in [buf : {"in", "out"}, size : Nat]
    BY <1>4, ElementOfSeq
  <2>2. len \in Nat /\ lenx \in Nat /\ actual_size \in Nat
    BY <1>1, <1>4, <1>8 DEF TypeOK
  <2> QED
    BY <2>1, <2>2 DEF Op
<1>11. TypeOK'
  BY <1>1, <1>2, <1>4, <1>6, <1>8, <1>9 DEF TypeOK
<1>12. at' # "running" => NoWork'
  BY <1>1, <1>2, <1>4 DEF NoWork
<1>13. InBuffer'
  <2>1. actual_size' <= lenx
    BY <1>1, <1>2, <1>8, <1>10 DEF InBuffer
  <2>2. ASSUME NEW i \in 1 .. Len(ready') PROVE ready'[i].length <= lenx
    <3>1. CASE i \in 1 .. Len(ready) /\ ready'[i] = ready[i]
      <4>1. ready[i].length <= len /\ ready[i].length \in Nat
        BY <1>1, <1>10, <3>1 DEF InBuffer
      <4> HIDE DEF len, lenx
      <4> QED
        BY <1>8, <1>10, <3>1, <4>1
    <3>2. CASE ready'[i] = e
      BY <1>8, <3>2
    <3> QED
      BY <1>9, <3>1, <3>2
  <2>3. ASSUME NEW i \in 1 .. Len(writes), writes[i].buf = "in"
        PROVE  writes[i].size <= lenx
    BY <1>1, <1>8, <1>10, <2>3 DEF InBuffer
  <2> QED
    BY <1>2, <2>1, <2>2, <2>3 DEF InBuffer
<1>14. ReadsBring'
  BY <1>1, <1>2, <1>9 DEF ReadsBring, Usable
<1>15. ASSUME ~Split PROVE Paired'
  <2>1. Whole(wire) /\ Whole(m_input_buffer) /\ wire[n].part = "back"
    BY <1>1, <1>3, <1>15 DEF Paired
  <2>2. n % 2 = 0
    <3>1. n % 2 = 1 => wire[n].part = "front"
      BY <2>1 DEF Whole
    <3> QED
      BY <1>4, <2>1, <3>1
  <2>3. Whole(new) /\ Whole(wire')
    BY <1>3, <1>4, <2>1, <2>2, WholeParts DEF new
  <2>4. Whole(m_input_buffer')
    BY <1>4, <1>5, <1>7, <2>1, <2>3, OverlayKeeps
  <2>5. ASSUME NEW i \in 1 .. Len(ready') PROVE ready'[i].length % 2 = 0
    BY <1>1, <1>9, <1>15, <2>2 DEF Paired
  <2> QED
    BY <1>1, <1>2, <1>15, <2>3, <2>4, <2>5 DEF Paired
<1>16. NeverDeaf'
  BY <1>9 DEF NeverDeaf, Queued
<1> QED
  BY <1>11, <1>12, <1>13, <1>14, <1>15, <1>16 DEF AnyMaster

(* What else joins the queue says nothing about the input buffer.          *)
LEMMA QueuedAny ==
  ASSUME TypeOK, InBuffer, ReadsBring, NEW op \in {"read", "write", "timer"},
         ready' = Append(ready, [op |-> op, length |-> 0]), op = "read" => ~Usable,
         UNCHANGED <<descriptor, port, m_input_buffer, actual_size>>,
         writes' = writes \/ (writes # << >> /\ writes' = Tail(writes))
  PROVE  /\ ready' \in Seq(Op) /\ InBuffer' /\ ReadsBring'
         /\ \A i \in 1 .. Len(ready) : i \in 1 .. Len(ready') /\ ready'[i] = ready[i]
         /\ Len(ready) + 1 \in 1 .. Len(ready') /\ ready'[Len(ready) + 1].op = op
         /\ (\A i \in 1 .. Len(ready) : ready[i].length % 2 = 0)
              => \A i \in 1 .. Len(ready') : ready'[i].length % 2 = 0
<1> DEFINE e == [op |-> op, length |-> 0]
<1>1. /\ ready \in Seq(Op) /\ e \in Op /\ Len(m_input_buffer) \in Nat
      /\ writes \in Seq([buf : {"in", "out"}, size : Nat])
  BY DEF TypeOK, Op
<1>2. /\ ready' \in Seq(Op)
      /\ \A i \in 1 .. Len(ready') :
           \/ i \in 1 .. Len(ready) /\ ready'[i] = ready[i]
           \/ i = Len(ready) + 1 /\ ready'[i] = e
      /\ \A i \in 1 .. Len(ready) : i \in 1 .. Len(ready') /\ ready'[i] = ready[i]
      /\ Len(ready) + 1 \in 1 .. Len(ready') /\ ready'[Len(ready) + 1] = e
  BY <1>1, Enqueued
<1>3. ASSUME NEW i \in 1 .. Len(writes')
      PROVE  \E j \in 1 .. Len(writes) : writes'[i] = writes[j]
  <2>1. CASE writes' = writes
    BY <1>3, <2>1
  <2>2. CASE writes # << >> /\ writes' = Tail(writes)
    <3>1. /\ Len(writes') = Len(writes) - 1
          /\ \A k \in 1 .. Len(writes') : writes'[k] = writes[k + 1]
      BY <1>1, <2>2, HeadTailProperties
    <3>2. Len(writes) \in Nat
      BY <1>1
    <3>3. i + 1 \in 1 .. Len(writes) /\ writes'[i] = writes[i + 1]
      BY <1>3, <3>1, <3>2
    <3> QED
      BY <3>3
  <2> QED
    BY <2>1, <2>2
<1>4. InBuffer'
  <2>1. ASSUME NEW i \in 1 .. Len(ready') PROVE ready'[i].length <= Len(m_input_buffer)
    BY <1>1, <1>2 DEF InBuffer
  <2>2. ASSUME NEW i \in 1 .. Len(writes'), writes'[i].buf = "in"
        PROVE  writes'[i].size <= Len(m_input_buffer)
    BY <1>3, <2>2 DEF InBuffer
  <2> QED
    BY <2>1, <2>2 DEF InBuffer
<1>5. ReadsBring'
  BY <1>2 DEF ReadsBring, Usable
<1>6. e.length % 2 = 0 /\ e.op = op
  OBVIOUS
<1> QED
  BY <1>2, <1>4, <1>5, <1>6

(* A read fails on a port that cannot be used.                             *)
LEMMA ReadFailsAny == AnyMaster /\ ReadFails => AnyMaster'
<1> SUFFICES ASSUME AnyMaster, ReadFails PROVE AnyMaster'
  OBVIOUS
<1>1. TypeOK /\ (at # "running" => NoWork) /\ InBuffer /\ ReadsBring /\ (~Split => Paired)
  BY DEF AnyMaster
<1>2. /\ ~Usable /\ reads > 0 /\ reads' = reads - 1
      /\ ready' = Append(ready, [op |-> "read", length |-> 0])
      /\ UNCHANGED <<at, descriptor, wire, port, m_input_buffer, actual_size, m_output_buffer,
                      partial, todo, writes, timer, asked, applied, sent>>
  BY DEF ReadFails, setup, data, hist
<1>3. /\ ready' \in Seq(Op) /\ InBuffer' /\ ReadsBring'
      /\ (\A i \in 1 .. Len(ready) : ready[i].length % 2 = 0)
           => \A i \in 1 .. Len(ready') : ready'[i].length % 2 = 0
  BY <1>1, <1>2, QueuedAny
<1>4. reads \in Nat
  BY <1>1 DEF TypeOK
<1>5. TypeOK' /\ (at' # "running" => NoWork')
  BY <1>1, <1>2, <1>3, <1>4 DEF TypeOK, NoWork
<1>6. ~Split => Paired'
  BY <1>1, <1>2, <1>3 DEF Paired
<1>7. NeverDeaf'
  BY <1>2 DEF NeverDeaf, Usable
<1> QED
  BY <1>3, <1>5, <1>6, <1>7 DEF AnyMaster

(* What a write takes from its buffer is there.                            *)
LEMMA ContentsType ==
  ASSUME AnyMaster, writes # << >>
  PROVE  Contents(Head(writes)) \in Seq(Token)
<1>1. TypeOK /\ InBuffer
  BY DEF AnyMaster
<1>2. /\ Head(writes) \in [buf : {"in", "out"}, size : Nat] /\ Head(writes) = writes[1]
      /\ 1 \in 1 .. Len(writes)
  <2>1. writes \in Seq([buf : {"in", "out"}, size : Nat])
    BY <1>1 DEF TypeOK
  <2>2. Len(writes) \in Nat /\ Len(writes) # 0
    BY <2>1, EmptySeq
  <2>3. Head(writes) = writes[1]
    OBVIOUS
  <2>4. Head(writes) \in [buf : {"in", "out"}, size : Nat]
    BY <2>1, HeadTailProperties
  <2> QED
    BY <2>2, <2>3, <2>4
<1>3. CASE Head(writes).buf = "in"
  <2> DEFINE n == Head(writes).size
  <2>1. m_input_buffer \in Seq(Token) /\ n \in Nat /\ n <= Len(m_input_buffer)
    BY <1>1, <1>2, <1>3 DEF TypeOK, InBuffer
  <2>2. \A k \in 1 .. n : m_input_buffer[k] \in Token
    BY <2>1, ElementOfSeq
  <2>3. SubSeq(m_input_buffer, 1, n) \in Seq(Token)
    BY <2>1, <2>2, SubSeqProperties
  <2> QED
    BY <1>3, <2>3 DEF Contents
<1>4. CASE Head(writes).buf # "in"
  BY <1>1, <1>4 DEF Contents, TypeOK
<1> QED
  BY <1>3, <1>4

(* What comes of writing it, in whole or in part.                          *)
LEMMA OutcomeType ==
  ASSUME NEW bytes \in Seq(Token)
  PROVE  /\ Complete(bytes) \in Written
         /\ \A n \in 0 .. Len(bytes) - 1 : CutShort(bytes, n) \in Written
<1>1. ASSUME NEW n \in 0 .. Len(bytes) - 1
      PROVE  SubSeq(bytes, 1, n) \in Seq(Token)
  <2>1. n \in Nat /\ \A k \in 1 .. n : k \in 1 .. Len(bytes)
    OBVIOUS
  <2>2. \A k \in 1 .. n : bytes[k] \in Token
    BY <2>1, ElementOfSeq
  <2> QED
    BY <2>1, <2>2, SubSeqProperties
<1> QED
  BY <1>1 DEF Complete, CutShort, Written

(* The end of a write is queued, whatever was written.                     *)
LEMMA WriteEndsAny ==
  ASSUME AnyMaster, WriteEnds, sent' \in Seq(Written)
  PROVE  AnyMaster'
<1>1. TypeOK /\ (at # "running" => NoWork) /\ InBuffer /\ ReadsBring /\ (~Split => Paired)
  BY DEF AnyMaster
<1>2. /\ writes # << >>
      /\ writes' = Tail(writes) /\ ready' = Append(ready, [op |-> "write", length |-> 0])
      /\ UNCHANGED <<at, descriptor, wire, port, m_input_buffer, actual_size,
                      m_output_buffer, partial, todo, reads, timer, asked, applied>>
  BY DEF WriteEnds, setup, data
<1>3. /\ ready' \in Seq(Op) /\ InBuffer' /\ ReadsBring'
      /\ Len(ready) + 1 \in 1 .. Len(ready') /\ ready'[Len(ready) + 1].op = "write"
      /\ (\A i \in 1 .. Len(ready) : ready[i].length % 2 = 0)
           => \A i \in 1 .. Len(ready') : ready'[i].length % 2 = 0
  BY <1>1, <1>2, QueuedAny
<1>4. writes' \in Seq([buf : {"in", "out"}, size : Nat])
  <2>1. writes \in Seq([buf : {"in", "out"}, size : Nat])
    BY <1>1 DEF TypeOK
  <2> QED
    BY <1>2, <2>1, HeadTailProperties
<1>5. TypeOK'
  BY <1>1, <1>2, <1>3, <1>4 DEF TypeOK
<1>6. at' # "running" => NoWork'
  BY <1>1, <1>2 DEF NoWork
<1>7. ~Split => Paired'
  BY <1>1, <1>2, <1>3 DEF Paired
<1>8. NeverDeaf'
  BY <1>3 DEF NeverDeaf, Queued
<1> QED
  BY <1>3, <1>5, <1>6, <1>7, <1>8 DEF AnyMaster

(* A write may succeed, or fail for want of a port.                        *)
LEMMA WriteIoAny == AnyMaster /\ WriteIo => AnyMaster'
<1> SUFFICES ASSUME AnyMaster, WriteIo PROVE AnyMaster'
  OBVIOUS
<1>1. /\ WriteEnds
      /\ sent' = IF Usable THEN Append(sent, Complete(Contents(Head(writes)))) ELSE sent
  BY DEF WriteIo
<1>2. Complete(Contents(Head(writes))) \in Written
  BY <1>1, ContentsType, OutcomeType DEF WriteEnds
<1>3. sent \in Seq(Written)
  BY DEF AnyMaster, TypeOK
<1>4. sent' \in Seq(Written)
  BY <1>1, <1>2, <1>3, AppendProperties
<1> QED
  BY <1>1, <1>4, WriteEndsAny

(* A write may also fail half way.                                         *)
LEMMA WriteFailsAny == AnyMaster /\ WriteFails => AnyMaster'
<1> SUFFICES ASSUME AnyMaster, WriteFails PROVE AnyMaster'
  OBVIOUS
<1>1. PICK n \in 0 .. Len(Contents(Head(writes))) - 1 :
        sent' = Append(sent, CutShort(Contents(Head(writes)), n))
  BY DEF WriteFails
<1>2. WriteEnds
  BY DEF WriteFails
<1>3. CutShort(Contents(Head(writes)), n) \in Written
  BY <1>2, ContentsType, OutcomeType DEF WriteEnds
<1>4. sent \in Seq(Written)
  BY DEF AnyMaster, TypeOK
<1>5. sent' \in Seq(Written)
  BY <1>1, <1>3, <1>4, AppendProperties
<1> QED
  BY <1>2, <1>5, WriteEndsAny

(* The timer does not touch what the rest is about.                        *)
LEMMA TimerExpiresAny == AnyMaster /\ TimerExpires => AnyMaster'
<1> SUFFICES ASSUME AnyMaster, TimerExpires PROVE AnyMaster'
  OBVIOUS
<1>1. /\ TypeOK /\ (at # "running" => NoWork) /\ InBuffer /\ ReadsBring
      /\ (~Split => Paired /\ NeverDeaf)
  BY DEF AnyMaster
<1>2. /\ timer > 0 /\ timer' = timer - 1
      /\ ready' = Append(ready, [op |-> "timer", length |-> 0])
      /\ UNCHANGED <<at, descriptor, wire, port, m_input_buffer, actual_size,
                      m_output_buffer, partial, todo, reads, writes, asked, applied, sent>>
  BY DEF TimerExpires, setup, data, hist
<1>3. /\ ready' \in Seq(Op) /\ InBuffer' /\ ReadsBring'
      /\ \A i \in 1 .. Len(ready) : i \in 1 .. Len(ready') /\ ready'[i] = ready[i]
      /\ (\A i \in 1 .. Len(ready) : ready[i].length % 2 = 0)
           => \A i \in 1 .. Len(ready') : ready'[i].length % 2 = 0
  BY <1>1, <1>2, QueuedAny
<1>4. timer \in Nat
  BY <1>1 DEF TypeOK
<1>5. TypeOK' /\ (at' # "running" => NoWork')
  BY <1>1, <1>2, <1>3, <1>4 DEF TypeOK, NoWork
<1>6. ~Split => Paired'
  BY <1>1, <1>2, <1>3 DEF Paired
<1>7. ~Split => NeverDeaf'
  BY <1>1, <1>2, <1>3 DEF NeverDeaf, Usable, Queued
<1> QED
  BY <1>3, <1>5, <1>6, <1>7 DEF AnyMaster

(* What the other handlers count on, when the first of them runs.          *)
LEMMA RunsAny ==
  ASSUME AnyMaster, NEW op \in {"read", "write", "timer"}, Runs(op),
         UNCHANGED <<descriptor, port, m_input_buffer>>
  PROVE  /\ at = "running" /\ todo = << >>
         /\ 1 \in 1 .. Len(ready) /\ Head(ready) = ready[1] /\ ready[1].op = op
         /\ ready[1].length \in Nat /\ ready[1].length <= Len(m_input_buffer)
         /\ ready' \in Seq(Op) /\ ReadsBring'
         /\ \A i \in 1 .. Len(ready') : ready'[i].length <= Len(m_input_buffer)
         /\ \A i \in 1 .. Len(ready) :
              i # 1 => i - 1 \in 1 .. Len(ready') /\ ready'[i - 1] = ready[i]
         /\ (\A i \in 1 .. Len(ready) : ready[i].length % 2 = 0)
              => \A i \in 1 .. Len(ready') : ready'[i].length % 2 = 0
<1>1. /\ ready \in Seq(Op) /\ ready # << >> /\ ready' = Tail(ready) /\ Head(ready).op = op
      /\ todo = << >>
  BY DEF AnyMaster, TypeOK, Runs, Idle
<1>2. /\ ready' \in Seq(Op)
      /\ 1 \in 1 .. Len(ready) /\ Head(ready) = ready[1] /\ Head(ready) \in Op
      /\ \A i \in 1 .. Len(ready') : i + 1 \in 1 .. Len(ready) /\ ready'[i] = ready[i + 1]
      /\ \A i \in 1 .. Len(ready) :
           i # 1 => i - 1 \in 1 .. Len(ready') /\ ready'[i - 1] = ready[i]
  BY <1>1, Dequeued
<1>3. at = "running"
  BY <1>1 DEF AnyMaster, NoWork
<1>4. ready[1].length \in Nat
  BY <1>2 DEF Op
<1>5. \A i \in 1 .. Len(ready) : ready[i].length <= Len(m_input_buffer)
  BY DEF AnyMaster, InBuffer
<1>6. ReadsBring'
  BY <1>2 DEF AnyMaster, ReadsBring, Usable
<1> QED
  BY <1>1, <1>2, <1>3, <1>4, <1>5, <1>6

(* Nothing follows a read that brought nothing; the port cannot be used.   *)
LEMMA HandleReadErrorAny == AnyMaster /\ HandleReadError => AnyMaster'
<1> SUFFICES ASSUME AnyMaster, HandleReadError PROVE AnyMaster'
  OBVIOUS
<1>1. TypeOK /\ InBuffer /\ ReadsBring /\ (~Split => Paired)
  BY DEF AnyMaster
<1>2. /\ Runs("read") /\ Head(ready).length = 0
      /\ UNCHANGED <<at, descriptor, wire, port, m_input_buffer, actual_size,
                      m_output_buffer, partial, todo, reads, writes, timer,
                      asked, applied, sent>>
  BY DEF HandleReadError, setup, data, hist
<1>3. /\ at = "running" /\ 1 \in 1 .. Len(ready)
      /\ Head(ready) = ready[1] /\ ready[1].op = "read"
      /\ ready' \in Seq(Op) /\ ReadsBring'
      /\ \A i \in 1 .. Len(ready') : ready'[i].length <= Len(m_input_buffer)
      /\ (\A i \in 1 .. Len(ready) : ready[i].length % 2 = 0)
           => \A i \in 1 .. Len(ready') : ready'[i].length % 2 = 0
  BY <1>2, RunsAny
<1>4. ~Usable'
  BY <1>1, <1>2, <1>3 DEF ReadsBring, Usable
<1>5. TypeOK' /\ InBuffer'
  BY <1>1, <1>2, <1>3 DEF TypeOK, InBuffer
<1>6. ~Split => Paired'
  BY <1>1, <1>2, <1>3 DEF Paired
<1>7. NeverDeaf'
  BY <1>4 DEF NeverDeaf
<1> QED
  BY <1>2, <1>3, <1>5, <1>6, <1>7 DEF AnyMaster

(* When requests arrive whole, a read that brings something brings one at  *)
(* least to on_pdu, which will start a write: also when the buffer has     *)
(* been overwritten by the time the handler runs.                          *)
LEMMA HandleReadAny == AnyMaster /\ HandleRead => AnyMaster'
<1> SUFFICES ASSUME AnyMaster, HandleRead PROVE AnyMaster'
  OBVIOUS
<1> DEFINE n == Head(ready).length
<1>1. TypeOK /\ InBuffer /\ ReadsBring /\ (~Split => Paired)
  BY DEF AnyMaster
<1>2. /\ Runs("read") /\ n > 0 /\ actual_size' = n
      /\ todo' = ScanPortion(n).pdus /\ partial' = ScanPortion(n).partial
      /\ UNCHANGED <<at, descriptor, wire, port, m_input_buffer, m_output_buffer, reads,
                      writes, timer, asked, applied, sent>>
  BY DEF HandleRead, setup, hist
<1>3. /\ at = "running" /\ 1 \in 1 .. Len(ready) /\ n = ready[1].length
      /\ n \in Nat /\ n <= Len(m_input_buffer)
      /\ ready' \in Seq(Op) /\ ReadsBring'
      /\ \A i \in 1 .. Len(ready') : ready'[i].length <= Len(m_input_buffer)
      /\ (\A i \in 1 .. Len(ready) : ready[i].length % 2 = 0)
           => \A i \in 1 .. Len(ready') : ready'[i].length % 2 = 0
  BY <1>2, RunsAny
<1> HIDE DEF n
<1>4. partial \in Requests \cup {None} /\ m_input_buffer \in Seq(Token)
  BY <1>1 DEF TypeOK
<1>5. todo' \in Seq(Requests) /\ partial' \in Requests \cup {None}
  BY <1>2, <1>3, <1>4, ScanType
<1>6. TypeOK'
  BY <1>1, <1>2, <1>3, <1>5 DEF TypeOK
<1>7. InBuffer'
  BY <1>1, <1>2, <1>3 DEF InBuffer
<1>8. ASSUME ~Split PROVE Paired' /\ NeverDeaf'
  <2>1. n % 2 = 0 /\ n \in Nat \ {0} /\ partial = None /\ Whole(m_input_buffer)
    BY <1>1, <1>2, <1>3, <1>8 DEF Paired
  <2>2. partial' = None /\ todo' # << >>
    BY <1>2, <1>3, <1>4, <2>1, ScanWhole
  <2>3. Paired'
    BY <1>1, <1>2, <1>3, <1>8, <2>2 DEF Paired
  <2> QED
    BY <2>2, <2>3 DEF NeverDeaf
<1> QED
  BY <1>2, <1>3, <1>6, <1>7, <1>8 DEF AnyMaster

(* on_pdu starts a write, of no more than the buffer holds.                *)
LEMMA OnPduAny == AnyMaster /\ OnPdu => AnyMaster'
<1> SUFFICES ASSUME AnyMaster, OnPdu PROVE AnyMaster'
  OBVIOUS
<1>1. /\ TypeOK /\ (at # "running" => NoWork) /\ InBuffer /\ ReadsBring
      /\ (~Split => Paired)
  BY DEF AnyMaster
<1>2. /\ todo # << >> /\ todo' = Tail(todo) /\ applied' = Append(applied, Head(todo))
      /\ UNCHANGED <<at, descriptor, wire, port, m_input_buffer, actual_size, partial,
                      reads, timer, ready, asked, sent>>
  BY DEF OnPdu, setup
<1>3. at = "running"
  BY <1>1, <1>2 DEF NoWork
<1>4. /\ todo \in Seq(Requests) /\ applied \in Seq(Requests) /\ actual_size \in Nat
      /\ writes \in Seq([buf : {"in", "out"}, size : Nat])
  BY <1>1 DEF TypeOK
<1>5. Head(todo) \in Requests /\ todo' \in Seq(Requests)
  BY <1>2, <1>4, HeadTailProperties
<1>6. applied' \in Seq(Requests)
  BY <1>2, <1>4, <1>5, AppendProperties
<1>7. PICK w \in [buf : {"in", "out"}, size : Nat] :
        /\ writes' = Append(writes, w)
        /\ w.buf = "in" => w.size = actual_size
        /\ m_output_buffer' = m_output_buffer \/ m_output_buffer' = Composed(Head(todo))
  <2>1. CASE Head(todo) \in Echoed
    <3> DEFINE w == [buf |-> "in", size |-> actual_size]
    <3>1. w \in [buf : {"in", "out"}, size : Nat] /\ w.size = actual_size
      BY <1>4
    <3>2. writes' = Append(writes, w) /\ m_output_buffer' = m_output_buffer
      BY <2>1 DEF OnPdu
    <3> QED
      BY <3>1, <3>2
  <2>2. CASE Head(todo) \notin Echoed
    <3> DEFINE w == [buf |-> "out", size |-> 1]
    <3>1. w \in [buf : {"in", "out"}, size : Nat] /\ w.buf # "in"
      OBVIOUS
    <3>2. writes' = Append(writes, w) /\ m_output_buffer' = Composed(Head(todo))
      BY <2>2 DEF OnPdu
    <3> QED
      BY <3>1, <3>2
  <2> QED
    BY <2>1, <2>2
<1>8. /\ writes' \in Seq([buf : {"in", "out"}, size : Nat])
      /\ Len(writes') = Len(writes) + 1 /\ writes'[Len(writes) + 1] = w
      /\ \A i \in 1 .. Len(writes) : writes'[i] = writes[i]
      /\ Len(writes) \in Nat
  BY <1>4, <1>7, AppendProperties
<1>9. m_output_buffer' \in Seq(Token)
  BY <1>1, <1>5, <1>7, EchoType DEF TypeOK
<1>10. TypeOK'
  BY <1>1, <1>2, <1>5, <1>6, <1>8, <1>9 DEF TypeOK
<1>11. InBuffer'
  <2>1. ASSUME NEW i \in 1 .. Len(writes'), writes'[i].buf = "in"
        PROVE  writes'[i].size <= Len(m_input_buffer)
    <3>1. CASE i \in 1 .. Len(writes)
      BY <1>1, <1>8, <2>1, <3>1 DEF InBuffer
    <3>2. CASE i = Len(writes) + 1
      BY <1>1, <1>7, <1>8, <2>1, <3>2 DEF InBuffer
    <3> QED
      BY <1>8, <3>1, <3>2
  <2> QED
    BY <1>1, <1>2, <2>1 DEF InBuffer
<1>12. ReadsBring'
  BY <1>1, <1>2 DEF ReadsBring, Usable
<1>13. ~Split => Paired'
  BY <1>1, <1>2 DEF Paired
<1>14. NeverDeaf'
  <2>1. writes' # << >>
    BY <1>8, EmptySeq
  <2> QED
    BY <2>1 DEF NeverDeaf
<1> QED
  BY <1>2, <1>3, <1>10, <1>11, <1>12, <1>13, <1>14 DEF AnyMaster

(* The end of a write starts a read.                                       *)
LEMMA HandleWritingAny == AnyMaster /\ HandleWriting => AnyMaster'
<1> SUFFICES ASSUME AnyMaster, HandleWriting PROVE AnyMaster'
  OBVIOUS
<1>1. TypeOK /\ InBuffer /\ (~Split => Paired)
  BY DEF AnyMaster
<1>2. /\ Runs("write") /\ reads' = reads + 1
      /\ UNCHANGED <<at, descriptor, wire, port, m_input_buffer, actual_size,
                      m_output_buffer, partial, todo, writes, timer, asked, applied, sent>>
  BY DEF HandleWriting, setup, data, hist
<1>3. /\ at = "running" /\ ready' \in Seq(Op) /\ ReadsBring'
      /\ \A i \in 1 .. Len(ready') : ready'[i].length <= Len(m_input_buffer)
      /\ (\A i \in 1 .. Len(ready) : ready[i].length % 2 = 0)
           => \A i \in 1 .. Len(ready') : ready'[i].length % 2 = 0
  BY <1>2, RunsAny
<1>4. reads' \in Nat /\ reads' > 0
  BY <1>1, <1>2 DEF TypeOK
<1>5. TypeOK' /\ InBuffer'
  BY <1>1, <1>2, <1>3, <1>4 DEF TypeOK, InBuffer
<1>6. ~Split => Paired'
  BY <1>1, <1>2, <1>3 DEF Paired
<1>7. NeverDeaf'
  BY <1>4 DEF NeverDeaf
<1> QED
  BY <1>2, <1>3, <1>5, <1>6, <1>7 DEF AnyMaster

(* The handler of the timer sets it again.                                 *)
LEMMA HandleTimerAny == AnyMaster /\ HandleTimer => AnyMaster'
<1> SUFFICES ASSUME AnyMaster, HandleTimer PROVE AnyMaster'
  OBVIOUS
<1>1. TypeOK /\ InBuffer /\ (~Split => Paired /\ NeverDeaf)
  BY DEF AnyMaster
<1>2. /\ Runs("timer") /\ timer' = timer + 1
      /\ UNCHANGED <<at, descriptor, wire, port, m_input_buffer, actual_size,
                      m_output_buffer, partial, todo, reads, writes, asked, applied, sent>>
  BY DEF HandleTimer, setup, data, hist
<1>3. /\ at = "running" /\ ready' \in Seq(Op) /\ ReadsBring' /\ ready[1].op = "timer"
      /\ \A i \in 1 .. Len(ready') : ready'[i].length <= Len(m_input_buffer)
      /\ \A i \in 1 .. Len(ready) :
           i # 1 => i - 1 \in 1 .. Len(ready') /\ ready'[i - 1] = ready[i]
      /\ (\A i \in 1 .. Len(ready) : ready[i].length % 2 = 0)
           => \A i \in 1 .. Len(ready') : ready'[i].length % 2 = 0
  BY <1>2, RunsAny
<1>4. timer' \in Nat
  BY <1>1, <1>2 DEF TypeOK
<1>5. TypeOK' /\ InBuffer'
  BY <1>1, <1>2, <1>3, <1>4 DEF TypeOK, InBuffer
<1>6. ~Split => Paired'
  BY <1>1, <1>2, <1>3 DEF Paired
<1>7. ASSUME ~Split PROVE NeverDeaf'
  <2>1. \A i \in 1 .. Len(ready) :
          ready[i].op # "timer" => \E j \in 1 .. Len(ready') : ready'[j] = ready[i]
    BY <1>3
  <2> QED
    BY <1>1, <1>2, <1>7, <2>1 DEF NeverDeaf, Usable, Queued
<1> QED
  BY <1>2, <1>3, <1>5, <1>6, <1>7 DEF AnyMaster

(* ... and so does every step.                                             *)
LEMMA NextAny == AnyMaster /\ [Next]_vars => AnyMaster'
<1> SUFFICES ASSUME AnyMaster, [Next]_vars PROVE AnyMaster'
  OBVIOUS
<1>1. CASE Start \/ Close \/ \E r \in Requests : Ask(r)
  BY <1>1, StartAny, CloseAny, AskAny
<1>2. CASE ReadIo \/ ReadFails \/ WriteIo \/ WriteFails \/ TimerExpires
  BY <1>2, ReadIoAny, ReadFailsAny, WriteIoAny, WriteFailsAny, TimerExpiresAny
<1>3. CASE HandleReadError \/ HandleRead \/ OnPdu \/ HandleWriting \/ HandleTimer
  BY <1>3, HandleReadErrorAny, HandleReadAny, OnPduAny, HandleWritingAny, HandleTimerAny
<1>4. CASE UNCHANGED vars
  <2>1. /\ UNCHANGED <<at, descriptor, wire, port, m_input_buffer, actual_size>>
        /\ UNCHANGED <<m_output_buffer, partial, todo, reads, writes, timer, ready>>
        /\ UNCHANGED <<asked, applied, sent>>
    BY <1>4 DEF vars
  <2>2. TypeOK' /\ (at' # "running" => NoWork')
    BY <2>1 DEF AnyMaster, TypeOK, NoWork
  <2>3. InBuffer' /\ ReadsBring'
    BY <2>1 DEF AnyMaster, InBuffer, ReadsBring, Usable
  <2>4. ~Split => Paired' /\ NeverDeaf'
    BY <2>1 DEF AnyMaster, Paired, NeverDeaf, Usable, Queued
  <2> QED
    BY <2>2, <2>3, <2>4 DEF AnyMaster
<1> QED
  BY <1>1, <1>2, <1>3, <1>4 DEF Next, Server, Master, Io, Handler

(* However many answers the master is waiting for, what a handler or a     *)
(* write takes from the input buffer is there, and a read brings nothing   *)
(* only when the port cannot be used.                                      *)
THEOREM AnyMasterHolds == Spec => []AnyMaster
BY InitAny, NextAny, PTL DEF Spec

(* Every variable has its type, whatever the master does.                  *)
THEOREM TypeCorrect == Spec => []TypeOK
<1>1. AnyMaster => TypeOK
  BY DEF AnyMaster
<1> QED
  BY <1>1, AnyMasterHolds, PTL

(* When requests arrive whole, a usable port always has a read outstanding *)
(* or about to be started, however many requests the master sends at once  *)
(* and whatever becomes of them in the shared buffer.                      *)
THEOREM NeverDeafHolds ==
  ASSUME ~Split
  PROVE  Spec => []NeverDeaf
<1>1. AnyMaster => NeverDeaf
  BY DEF AnyMaster
<1> QED
  BY <1>1, AnyMasterHolds, PTL

-------------------------------------------------------------------------------
(* A master that waits for each answer: Window = 1, used when it asks.     *)
(* One lemma per action.                                                   *)

LEMMA InitWaits == Init => MasterWaits
<1> SUFFICES ASSUME Init PROVE MasterWaits
  OBVIOUS
<1>1. NotStarted
  BY DEF Init, NotStarted, NoWork, hist
<1>2. OneThing /\ OneByOne /\ Listening /\ Received /\ Handling /\ Answering
  BY DEF Init, OneThing, OneByOne, Listening, Received, Handling, Answering
<1> QED
  BY <1>1, <1>2 DEF MasterWaits

(* start(): only its last step starts anything.                            *)
LEMMA StartWaits == IInv /\ Start => MasterWaits'
<1> SUFFICES ASSUME IInv, Start PROVE MasterWaits'
  OBVIOUS
<1>1. /\ TypeOK /\ at # "running"
      /\ NoWork /\ wire = << >> /\ partial = None
      /\ asked = << >> /\ applied = << >> /\ sent = << >>
      /\ descriptor = IF at \in {"open", "failed"} THEN "closed" ELSE "open"
  BY StartSteps DEF IInv, AnyMaster, MasterWaits, NotStarted, hist
<1>2. /\ UNCHANGED <<wire, port, m_input_buffer, actual_size, m_output_buffer, partial,
                      todo, writes, ready, asked, applied, sent>>
      /\ at' # "running" => UNCHANGED <<reads, timer>>
      /\ at' = "running" => reads' = 1 /\ timer' = 1 /\ descriptor' \in {"assigned", "open"}
  BY <1>1 DEF Start, OpenPort, Opened, OpenFails, IsATty, NotATty, Configures, ConfigFails,
              Refused, Assigned, data, hist, NoWork
<1>3. /\ at' \in {"isatty", "tcgetattr", "tcsetattr", "refused", "assign", "running",
                  "failed"}
      /\ at' \in {"isatty", "tcgetattr", "tcsetattr", "refused", "assign"}
           => descriptor' = "open"
      /\ at' = "failed" => descriptor' = "closed"
  BY <1>1 DEF Start, OpenPort, Opened, OpenFails, IsATty, NotATty, Configures, ConfigFails,
              Refused, Assigned
<1>4. NotStarted'
  BY <1>1, <1>2, <1>3 DEF NotStarted, NoWork, hist
<1>5. OneThing' /\ OneByOne' /\ Listening' /\ Received' /\ Handling' /\ Answering'
  <2>1. reads' + Len(writes') + Len(todo') <= 1 /\ Len(ready') = 0
    BY <1>1, <1>2, <1>3 DEF NoWork
  <2> QED
    BY <1>1, <1>2, <2>1
       DEF NoWork, OneThing, OneByOne, Listening, Received, Handling, Answering
<1> QED
  BY <1>4, <1>5 DEF MasterWaits

(* A master that waits asks when nothing else is on the wire.              *)
LEMMA AskWaits ==
  ASSUME Window = 1, NEW r \in Requests
  PROVE  IInv /\ Ask(r) => MasterWaits'
<1> SUFFICES ASSUME IInv, Ask(r) PROVE MasterWaits'
  OBVIOUS
<1>1. /\ TypeOK /\ NotStarted /\ OneThing /\ OneByOne /\ Listening /\ Received
      /\ Handling /\ Answering
  BY DEF IInv, AnyMaster, MasterWaits
<1>2. /\ at = "running" /\ Len(asked) <= Len(sent)
      /\ asked' = Append(asked, r) /\ wire' = wire \o Echo(r)
      /\ UNCHANGED <<at, descriptor, port, m_input_buffer, actual_size, m_output_buffer,
                      partial, todo, reads, writes, timer, ready, applied, sent>>
  BY <1>1 DEF Ask, setup, io, data, TypeOK
<1>3. /\ asked \in Seq(Requests) /\ applied \in Seq(Requests) /\ sent \in Seq(Written)
      /\ Len(asked) \in Nat /\ Len(applied) \in Nat /\ Len(sent) \in Nat
      /\ Echo(r) \in Seq(Token) /\ wire \in Seq(Token)
  BY <1>1, EchoType, SMTT(20) DEF TypeOK
<1>4. /\ asked' \in Seq(Requests) /\ Len(asked') = Len(asked) + 1 /\ asked'[Len(asked')] = r
      /\ \A k \in 1 .. Len(asked) : asked'[k] = asked[k]
  BY <1>2, <1>3, AppendProperties
<1>5. Len(asked) = Len(applied) /\ Len(applied) = Len(sent)
  BY <1>1, <1>2, <1>3 DEF OneByOne
<1>6. todo = << >> /\ writes = << >>
  BY <1>1, <1>3, <1>5 DEF Handling, Unapplied, Answering
<1>7. NotStarted'
  BY <1>2 DEF NotStarted
<1>8. OneThing'
  BY <1>1, <1>2 DEF OneThing
<1>9. OneByOne'
  BY <1>1, <1>2, <1>3, <1>4, <1>5 DEF OneByOne
<1>10. Listening'
  <2>1. << >> \o Echo(r) = Echo(r)
    BY <1>3, ConcatEmptySeq
  <2>2. InHand' = r /\ Len(asked') # Len(sent')
    BY <1>2, <1>3, <1>4, <1>5 DEF InHand
  <2> SUFFICES ASSUME Usable', reads' > 0 \/ \E i \in 1 .. Len(ready') : ready'[i].op = "write"
               PROVE  Len(applied') = Len(sent') /\ partial' = None /\ wire' = Echo(r)
    BY <2>2 DEF Listening
  <2>3. partial = None /\ wire = << >>
    BY <1>1, <1>2, <1>5 DEF Listening, Usable
  <2> QED
    BY <1>2, <1>5, <2>1, <2>3
<1>11. Received'
  BY <1>1, <1>2, <1>3, <1>5 DEF Received, Usable, Unapplied
<1>12. Handling' /\ Answering'
  BY <1>2, <1>6 DEF Handling, Answering
<1> QED
  BY <1>7, <1>8, <1>9, <1>10, <1>11, <1>12 DEF MasterWaits

(* The port goes away: whatever holds for a usable one matters no more.    *)
LEMMA CloseWaits == IInv /\ Close => MasterWaits'
<1> SUFFICES ASSUME IInv, Close PROVE MasterWaits'
  OBVIOUS
<1>1. ~Usable' /\ port' = "closed"
      /\ UNCHANGED <<at, descriptor, wire, m_input_buffer, actual_size, m_output_buffer,
                      partial, todo, reads, writes, timer, ready, asked, applied, sent>>
  BY DEF Close, Usable, setup, io, data, hist
<1>2. /\ TypeOK /\ NotStarted /\ OneThing /\ OneByOne /\ Received /\ Handling /\ Answering
  BY DEF IInv, AnyMaster, MasterWaits
<1>3. NotStarted'
  BY <1>1, <1>2 DEF NotStarted, NoWork, hist
<1>4. OneThing' /\ OneByOne'
  BY <1>1, <1>2 DEF OneThing, OneByOne
<1>5. Listening'
  BY <1>1 DEF Listening
<1>6. Received'
  BY <1>1, <1>2 DEF Received, Unapplied, Holds, InHand
<1>7. Handling' /\ Answering'
  BY <1>1, <1>2 DEF Handling, Answering, NothingElse, Unapplied, Holds, InHand, Contents
<1> QED
  BY <1>3, <1>4, <1>5, <1>6, <1>7 DEF MasterWaits

(* A read takes part of the request on the wire, or all of it.             *)
LEMMA ReadIoWaits == IInv /\ ReadIo => MasterWaits'
<1> SUFFICES ASSUME IInv, ReadIo PROVE MasterWaits'
  OBVIOUS
<1>1. /\ TypeOK /\ NotStarted /\ OneThing /\ OneByOne /\ Listening
  BY DEF IInv, AnyMaster, MasterWaits
<1>2. /\ Usable /\ reads > 0 /\ reads' = reads - 1 /\ todo = << >>
      /\ UNCHANGED <<at, descriptor, port, actual_size, m_output_buffer, partial, todo,
                      writes, timer, asked, applied, sent>>
  BY DEF ReadIo, Idle, setup, hist
<1>3. PICK n \in 1 .. Len(wire) :
        /\ Split \/ wire[n].part = "back"
        /\ m_input_buffer' = Overlay(SubSeq(wire, 1, n), m_input_buffer)
        /\ wire' = SubSeq(wire, n + 1, Len(wire))
        /\ ready' = Append(ready, [op |-> "read", length |-> n])
  BY DEF ReadIo
<1> DEFINE e == [op |-> "read", length |-> n]
<1>4. /\ asked \in Seq(Requests) /\ wire \in Seq(Token) /\ m_input_buffer \in Seq(Token)
      /\ ready \in Seq(Op) /\ Len(ready) \in Nat /\ e \in Op
      /\ Len(asked) \in Nat /\ Len(applied) \in Nat /\ Len(sent) \in Nat
      /\ reads \in Nat /\ Len(writes) \in Nat /\ Len(todo) \in Nat
  BY <1>1 DEF TypeOK, Op
<1>5. reads = 1 /\ Len(writes) = 0 /\ \A i \in 1 .. Len(ready) : ready[i].op = "timer"
  BY <1>1, <1>2, <1>4 DEF OneThing
<1>6. Len(applied) = Len(sent) /\ partial = None /\ wire = Echo(InHand) /\ Unapplied
  <2>1. wire # << >>
    BY <1>3
  <2> QED
    BY <1>1, <1>2, <1>4, <2>1 DEF Listening, OneByOne, Unapplied
<1>7. InHand \in Requests
  <2>1. Len(asked) \in 1 .. Len(asked)
    BY <1>4, <1>6 DEF Unapplied
  <2> QED
    BY <1>4, <2>1, ElementOfSeq DEF InHand
<1>8. Len(wire) = 2 /\ wire[1] = Front(InHand) /\ wire[2] = Back(InHand)
  BY <1>6, <1>7, EchoType
<1>9. n = 2 \/ (n = 1 /\ Split)
  BY <1>3, <1>8 DEF Front
<1> DEFINE new == SubSeq(wire, 1, n)
<1>10. new \in Seq(Token) /\ Len(new) = n /\ \A k \in 1 .. n : new[k] = wire[k]
  <2>1. \A k \in 1 .. n : wire[k] \in Token
    <3>1. \A k \in 1 .. n : k \in 1 .. Len(wire)
      BY <1>8
    <3> QED
      BY <1>4, <3>1, ElementOfSeq
  <2> QED
    BY <2>1, SubSeqProperties
<1> HIDE DEF new
<1>11. wire' \in Seq(Token) /\ (n = 2 => wire' = << >>)
  <2>1. \A k \in n + 1 .. Len(wire) : wire[k] \in Token
    <3>1. \A k \in n + 1 .. Len(wire) : k \in 1 .. Len(wire)
      BY <1>8
    <3> QED
      BY <1>4, <3>1, ElementOfSeq
  <2>2. wire' \in Seq(Token)
    BY <1>3, <1>8, <2>1, SubSeqProperties
  <2>3. n = 2 => wire' = << >>
    BY <1>3, <1>8, SubSeqEmpty
  <2> QED
    BY <2>2, <2>3
<1>12. /\ m_input_buffer' \in Seq(Token) /\ Len(m_input_buffer') >= n
       /\ \A k \in 1 .. n : m_input_buffer'[k] = Echo(InHand)[k]
  <2>1. m_input_buffer' = Overlay(new, m_input_buffer)
    BY <1>3 DEF new
  <2> QED
    BY <1>4, <1>6, <1>10, <2>1, OverlayType, ZenonT(30)
<1>13. /\ ready' \in Seq(Op)
       /\ \A i \in 1 .. Len(ready') :
            \/ i \in 1 .. Len(ready) /\ ready'[i] = ready[i] /\ ready'[i].op = "timer"
            \/ i = Len(ready) + 1 /\ ready'[i] = e
       /\ Len(ready) + 1 \in 1 .. Len(ready') /\ ready'[Len(ready) + 1] = e
  BY <1>3, <1>4, <1>5, Enqueued
<1>14. NotStarted'
  BY <1>1, <1>2 DEF NotStarted, NoWork
<1>15. OneThing'
  <2>1. reads' + Len(writes') + Len(todo') = 0
    BY <1>2, <1>5
  <2> QED
    BY <1>13, <2>1 DEF OneThing
<1>16. OneByOne'
  BY <1>1, <1>2 DEF OneByOne
<1>17. Listening'
  BY <1>2, <1>5, <1>13 DEF Listening
<1>18. Received'
  <2> SUFFICES ASSUME NEW i \in 1 .. Len(ready'), ready'[i].op = "read"
               PROVE  /\ ready'[i].length = n
                      /\ Unapplied' /\ partial' = None /\ Holds(n)'
                      /\ (n = 2 /\ wire' = << >>) \/ (n = 1 /\ Split)
    BY DEF Received
  <2>1. ready'[i].length = n
    BY <1>13
  <2>2. Unapplied' /\ partial' = None
    BY <1>2, <1>6 DEF Unapplied
  <2>3. Holds(n)'
    BY <1>2, <1>12 DEF Holds, InHand
  <2> QED
    BY <1>9, <1>11, <2>1, <2>2, <2>3
<1>19. Handling' /\ Answering'
  BY <1>2, <1>4, <1>5 DEF Handling, Answering
<1> QED
  BY <1>14, <1>15, <1>16, <1>17, <1>18, <1>19 DEF MasterWaits

(* A read that fails does so on a port that cannot be used.                *)
LEMMA ReadFailsWaits == IInv /\ ReadFails => MasterWaits'
<1> SUFFICES ASSUME IInv, ReadFails PROVE MasterWaits'
  OBVIOUS
<1> DEFINE e == [op |-> "read", length |-> 0]
<1>1. /\ TypeOK /\ NotStarted /\ OneThing /\ OneByOne
  BY DEF IInv, AnyMaster, MasterWaits
<1>2. /\ ~Usable /\ reads > 0 /\ reads' = reads - 1 /\ todo = << >>
      /\ ready' = Append(ready, e)
      /\ UNCHANGED <<at, descriptor, wire, port, m_input_buffer, actual_size, m_output_buffer,
                      partial, todo, writes, timer, asked, applied, sent>>
  BY DEF ReadFails, Idle, setup, data, hist
<1>3. /\ ready \in Seq(Op) /\ Len(ready) \in Nat /\ e \in Op
      /\ reads \in Nat /\ Len(writes) \in Nat /\ Len(todo) \in Nat
  BY <1>1 DEF TypeOK, Op
<1>4. reads = 1 /\ Len(writes) = 0 /\ \A i \in 1 .. Len(ready) : ready[i].op = "timer"
  BY <1>1, <1>2, <1>3 DEF OneThing
<1>5. /\ ready' \in Seq(Op)
      /\ \A i \in 1 .. Len(ready') :
           \/ i \in 1 .. Len(ready) /\ ready'[i] = ready[i] /\ ready'[i].op = "timer"
           \/ i = Len(ready) + 1 /\ ready'[i] = e
  BY <1>2, <1>3, <1>4, Enqueued
<1>6. ~Usable'
  BY <1>2 DEF Usable
<1>7. NotStarted'
  BY <1>1, <1>2 DEF NotStarted, NoWork
<1>8. OneThing'
  <2>1. reads' + Len(writes') + Len(todo') = 0
    BY <1>2, <1>4
  <2> QED
    BY <1>5, <2>1 DEF OneThing
<1>9. OneByOne'
  BY <1>1, <1>2 DEF OneByOne
<1>10. Listening'
  BY <1>6 DEF Listening
<1>11. Received'
  BY <1>5, <1>6 DEF Received
<1>12. Handling' /\ Answering'
  BY <1>2, <1>3, <1>4 DEF Handling, Answering
<1> QED
  BY <1>7, <1>8, <1>9, <1>10, <1>11, <1>12 DEF MasterWaits

(* What is written is the answer to the request in hand; afterwards the    *)
(* server is ready for the next one, whatever came of the write.           *)
LEMMA WriteEndsWaits ==
  ASSUME IInv, WriteEnds, NEW w \in Written,
         sent' = IF Usable THEN Append(sent, w) ELSE sent
  PROVE  MasterWaits'
<1> DEFINE e == [op |-> "write", length |-> 0]
<1>1. /\ TypeOK /\ NotStarted /\ OneThing /\ OneByOne /\ Answering
  BY DEF IInv, AnyMaster, MasterWaits
<1>2. /\ writes # << >>
      /\ writes' = Tail(writes) /\ ready' = Append(ready, e)
      /\ UNCHANGED <<at, descriptor, wire, port, m_input_buffer, actual_size,
                      m_output_buffer, partial, todo, reads, timer, asked, applied>>
  BY DEF WriteEnds, setup, data
<1>3. /\ ready \in Seq(Op) /\ Len(ready) \in Nat /\ e \in Op
      /\ writes \in Seq([buf : {"in", "out"}, size : Nat])
      /\ asked \in Seq(Requests) /\ sent \in Seq(Written)
      /\ Len(asked) \in Nat /\ Len(applied) \in Nat /\ Len(sent) \in Nat
      /\ reads \in Nat /\ Len(writes) \in Nat /\ Len(todo) \in Nat
  BY <1>1 DEF TypeOK, Op
<1>4. Len(writes) = 1 /\ reads = 0 /\ Len(todo) = 0
      /\ \A i \in 1 .. Len(ready) : ready[i].op = "timer"
  <2>1. Len(writes) # 0
    BY <1>2, <1>3, LenZero
  <2>2. reads + Len(writes) + Len(todo) = 1
    BY <1>1, <1>3, <2>1 DEF OneThing
  <2>3. \A i \in 1 .. Len(ready) : ready[i].op = "timer"
    BY <1>1, <2>2 DEF OneThing
  <2>4. reads \in Nat /\ Len(writes) \in Nat /\ Len(todo) \in Nat
    BY <1>3
  <2>5. \A k, m, n \in Nat : m # 0 /\ k + m + n = 1 => m = 1 /\ k = 0 /\ n = 0
    OBVIOUS
  <2>6. Len(writes) = 1 /\ reads = 0 /\ Len(todo) = 0
    BY <2>1, <2>2, <2>4, <2>5, Zenon
  <2> QED
    BY <2>3, <2>6
<1>5. writes' \in Seq([buf : {"in", "out"}, size : Nat]) /\ Len(writes') = 0
  BY <1>2, <1>3, <1>4, HeadTailProperties
<1>6. /\ Len(applied) = Len(sent) + 1 /\ Len(asked) = Len(applied)
      /\ wire = << >> /\ partial = None
  BY <1>1, <1>2, <1>3 DEF Answering, OneByOne, NothingElse
<1>7. /\ sent' \in Seq(Written)
      /\ Len(sent') = IF Usable THEN Len(sent) + 1 ELSE Len(sent)
  BY <1>3, AppendProperties
<1>8. /\ ready' \in Seq(Op)
      /\ \A i \in 1 .. Len(ready') :
           \/ i \in 1 .. Len(ready) /\ ready'[i] = ready[i] /\ ready'[i].op = "timer"
           \/ i = Len(ready) + 1 /\ ready'[i] = e
      /\ Len(ready) + 1 \in 1 .. Len(ready') /\ ready'[Len(ready) + 1] = e
  BY <1>2, <1>3, <1>4, Enqueued
<1>9. Usable' = Usable
  BY <1>2 DEF Usable
<1>10. NotStarted'
  BY <1>1, <1>2 DEF NotStarted, NoWork
<1>11. OneThing'
  <2>1. reads' + Len(writes') + Len(todo') = 0
    BY <1>2, <1>4, <1>5
  <2> QED
    BY <1>8, <2>1 DEF OneThing
<1>12. OneByOne'
  BY <1>1, <1>2, <1>3, <1>6, <1>7 DEF OneByOne
<1>13. Listening'
  BY <1>2, <1>3, <1>6, <1>7, <1>9 DEF Listening
<1>14. Received'
  BY <1>8 DEF Received
<1>15. Handling' /\ Answering'
  <2>1. writes' = << >>
    BY <1>5, LenZero
  <2>2. todo' = << >>
    BY <1>1, <1>2, <1>4, LenZero DEF TypeOK
  <2> QED
    BY <2>1, <2>2 DEF Handling, Answering
<1> QED
  BY <1>10, <1>11, <1>12, <1>13, <1>14, <1>15 DEF MasterWaits

(* The two ways in which a write ends.                                     *)
LEMMA WriteIoWaits == IInv /\ (WriteIo \/ WriteFails) => MasterWaits'
<1> SUFFICES ASSUME IInv, WriteIo \/ WriteFails PROVE MasterWaits'
  OBVIOUS
<1>1. WriteEnds /\ writes # << >> /\ AnyMaster
  BY DEF WriteIo, WriteFails, WriteEnds, IInv
<1> DEFINE c == Contents(Head(writes))
<1>2. Complete(c) \in Written /\ \A n \in 0 .. Len(c) - 1 : CutShort(c, n) \in Written
  BY <1>1, ContentsType, OutcomeType
<1>3. PICK w \in Written : sent' = IF Usable THEN Append(sent, w) ELSE sent
  <2>1. CASE WriteIo
    BY <1>2, <2>1 DEF WriteIo
  <2>2. CASE WriteFails
    BY <1>2, <2>2 DEF WriteFails
  <2> QED
    BY <2>1, <2>2
<1> QED
  BY <1>1, <1>3, WriteEndsWaits

(* The timer keeps to itself: it only adds handlers of its own.            *)
LEMMA TimerExpiresWaits == IInv /\ TimerExpires => MasterWaits'
<1> SUFFICES ASSUME IInv, TimerExpires PROVE MasterWaits'
  OBVIOUS
<1> DEFINE e == [op |-> "timer", length |-> 0]
<1>1. /\ TypeOK /\ NotStarted /\ OneThing /\ OneByOne /\ Listening /\ Received
      /\ Handling /\ Answering
  BY DEF IInv, AnyMaster, MasterWaits
<1>2. /\ timer > 0 /\ timer' = timer - 1 /\ ready' = Append(ready, e)
      /\ UNCHANGED <<at, descriptor, wire, port, m_input_buffer, actual_size,
                      m_output_buffer, partial, todo, reads, writes, asked, applied, sent>>
  BY DEF TimerExpires, setup, data, hist
<1>3. ready \in Seq(Op) /\ e \in Op /\ timer \in Nat
  BY <1>1 DEF TypeOK, Op
<1>4. /\ ready' \in Seq(Op)
      /\ \A i \in 1 .. Len(ready') :
           ready'[i].op # "timer" => i \in 1 .. Len(ready) /\ ready'[i] = ready[i]
      /\ \A i \in 1 .. Len(ready) : i \in 1 .. Len(ready') /\ ready'[i] = ready[i]
      /\ \A i \in 1 .. Len(ready') :
           ready'[i].op = "timer" \/ (i \in 1 .. Len(ready) /\ ready'[i] = ready[i])
  BY <1>2, <1>3, Enqueued
<1>5. NotStarted'
  BY <1>1, <1>2 DEF NotStarted, NoWork
<1>6. OneThing'
  BY <1>1, <1>2, <1>4 DEF OneThing
<1>7. OneByOne' /\ Listening'
  BY <1>1, <1>2, <1>4 DEF OneByOne, Listening, Usable, InHand
<1>8. Received'
  BY <1>1, <1>2, <1>4 DEF Received, Usable, Unapplied, Holds, InHand
<1>9. Handling' /\ Answering'
  BY <1>1, <1>2 DEF Handling, Answering, NothingElse, Unapplied, Holds, InHand, Contents
<1> QED
  BY <1>5, <1>6, <1>7, <1>8, <1>9 DEF MasterWaits

(* Before the handler of a read or a write runs, it is the one thing under *)
(* way; after that only timers are queued.                                 *)
LEMMA HandlerRuns ==
  ASSUME IInv, NEW op \in {"read", "write"}, Runs(op)
  PROVE  /\ at = "running"
         /\ reads = 0 /\ writes = << >> /\ Len(writes) = 0 /\ todo = << >> /\ Len(todo) = 0
         /\ 1 \in 1 .. Len(ready) /\ Head(ready) = ready[1] /\ Head(ready) \in Op
         /\ ready[1].op = op /\ ready' \in Seq(Op)
         /\ \A i \in 1 .. Len(ready') : ready'[i].op = "timer"
<1>1. /\ TypeOK /\ OneThing /\ NotStarted
  BY DEF IInv, AnyMaster, MasterWaits
<1>2. ready \in Seq(Op) /\ ready # << >> /\ ready' = Tail(ready) /\ Head(ready).op = op
  BY <1>1 DEF TypeOK, Runs
<1>3. /\ ready' \in Seq(Op)
      /\ 1 \in 1 .. Len(ready) /\ Head(ready) = ready[1] /\ Head(ready) \in Op
      /\ \A i \in 1 .. Len(ready') : i + 1 \in 1 .. Len(ready) /\ ready'[i] = ready[i + 1]
  BY <1>2, Dequeued
<1>4. reads \in Nat /\ Len(writes) \in Nat /\ Len(todo) \in Nat
  BY <1>1 DEF TypeOK
<1>5. reads = 0 /\ Len(writes) = 0 /\ Len(todo) = 0
  BY <1>1, <1>2, <1>3, <1>4 DEF OneThing
<1>6. writes = << >> /\ todo = << >>
  BY <1>1, <1>5, EmptySeq DEF TypeOK
<1>7. ASSUME NEW i \in 1 .. Len(ready') PROVE ready'[i].op = "timer"
  <2>1. i + 1 # 1 /\ i + 1 \in 1 .. Len(ready) /\ ready'[i] = ready[i + 1]
    BY <1>3
  <2> QED
    BY <1>1, <1>2, <1>3, <2>1 DEF OneThing
<1>8. at = "running"
  BY <1>1, <1>2 DEF NotStarted, NoWork
<1> QED
  BY <1>2, <1>3, <1>5, <1>6, <1>7, <1>8

(* After a read that failed, on a port that cannot be used, nothing is     *)
(* started.                                                                *)
LEMMA HandleReadErrorWaits == IInv /\ HandleReadError => MasterWaits'
<1> SUFFICES ASSUME IInv, HandleReadError PROVE MasterWaits'
  OBVIOUS
<1>1. /\ TypeOK /\ NotStarted /\ OneByOne /\ Received
  BY DEF IInv, AnyMaster, MasterWaits
<1>2. /\ Runs("read") /\ Head(ready).length = 0
      /\ UNCHANGED <<at, descriptor, wire, port, m_input_buffer, actual_size,
                      m_output_buffer, partial, todo, reads, writes, timer,
                      asked, applied, sent>>
  BY DEF HandleReadError, setup, data, hist
<1>3. /\ at = "running" /\ reads = 0 /\ writes = << >> /\ Len(writes) = 0
      /\ todo = << >> /\ Len(todo) = 0
      /\ 1 \in 1 .. Len(ready) /\ Head(ready) = ready[1] /\ ready[1].op = "read"
      /\ ready' \in Seq(Op) /\ \A i \in 1 .. Len(ready') : ready'[i].op = "timer"
  BY <1>2, HandlerRuns
<1>4. ~Usable'
  BY <1>1, <1>2, <1>3 DEF Received, Usable
<1>5. NotStarted' /\ OneByOne'
  BY <1>1, <1>2, <1>3 DEF NotStarted, OneByOne
<1>6. OneThing'
  <2>1. reads' + Len(writes') + Len(todo') = 0
    BY <1>2, <1>3
  <2> QED
    BY <1>3, <2>1 DEF OneThing
<1>7. Listening'
  BY <1>4 DEF Listening
<1>8. Received' /\ Handling' /\ Answering'
  BY <1>2, <1>3 DEF Received, Handling, Answering
<1> QED
  BY <1>5, <1>6, <1>7, <1>8 DEF MasterWaits

(* What was read is scanned: the request in hand comes out of a whole one, *)
(* nothing out of a part.                                                  *)
LEMMA HandleReadWaits == IInv /\ HandleRead => MasterWaits'
<1> SUFFICES ASSUME IInv, HandleRead PROVE MasterWaits'
  OBVIOUS
<1> DEFINE n == Head(ready).length
<1>1. /\ TypeOK /\ NotStarted /\ OneByOne /\ Received
  BY DEF IInv, AnyMaster, MasterWaits
<1>2. /\ Runs("read") /\ n > 0 /\ actual_size' = n
      /\ todo' = ScanPortion(n).pdus /\ partial' = ScanPortion(n).partial
      /\ UNCHANGED <<at, descriptor, wire, port, m_input_buffer, m_output_buffer, reads,
                      writes, timer, asked, applied, sent>>
  BY DEF HandleRead, setup, hist
<1>3. /\ at = "running" /\ reads = 0 /\ writes = << >> /\ Len(writes) = 0
      /\ 1 \in 1 .. Len(ready) /\ Head(ready) = ready[1] /\ ready[1].op = "read"
      /\ ready' \in Seq(Op) /\ \A i \in 1 .. Len(ready') : ready'[i].op = "timer"
  BY <1>2, HandlerRuns
<1> HIDE DEF n
<1>4. /\ Unapplied /\ partial = None /\ Holds(n)
      /\ (n = 2 /\ wire = << >>) \/ (n = 1 /\ Split)
  <2>1. n = ready[1].length
    BY <1>3 DEF n
  <2> QED
    BY <1>1, <1>2, <1>3, <2>1 DEF Received
<1>5. InHand \in Requests
  <2>1. /\ asked \in Seq(Requests) /\ Len(asked) \in Nat /\ Len(sent) \in Nat
    BY <1>1 DEF TypeOK
  <2>2. Len(asked) \in 1 .. Len(asked)
    BY <1>4, <2>1 DEF Unapplied
  <2> QED
    BY <2>1, <2>2, ElementOfSeq DEF InHand
<1>6. /\ n \in {1, 2} /\ m_input_buffer[1] = Front(InHand)
      /\ n = 2 => m_input_buffer[2] = Back(InHand)
  <2>1. Echo(InHand)[1] = Front(InHand) /\ Echo(InHand)[2] = Back(InHand)
    BY <1>5, EchoType
  <2>2. n \in {1, 2} /\ 1 \in 1 .. n /\ (n = 2 => 2 \in 1 .. n)
    BY <1>4
  <2>3. \A k \in 1 .. n : m_input_buffer[k] = Echo(InHand)[k]
    BY <1>4 DEF Holds
  <2> QED
    BY <2>1, <2>2, <2>3
<1>7. ScanPortion(n) =
        IF n = 1 THEN [partial |-> InHand, pdus |-> << >>, dropped |-> FALSE]
                 ELSE [partial |-> None, pdus |-> <<InHand>>, dropped |-> FALSE]
  <2>1. m_input_buffer \in Seq(Token) /\ n <= Len(m_input_buffer)
    BY <1>1, <1>4 DEF TypeOK, Holds
  <2> QED
    BY <1>4, <1>5, <1>6, <2>1, PortionScanned
<1>8. \/ n = 1 /\ Split /\ todo' = << >> /\ partial' = InHand
      \/ n = 2 /\ wire = << >> /\ todo' = <<InHand>> /\ partial' = None
  <2>1. CASE n = 1
    BY <1>2, <1>4, <1>7, <2>1
  <2>2. CASE n = 2
    BY <1>2, <1>4, <1>7, <2>2
  <2> QED
    BY <1>4, <2>1, <2>2
<1>9. Len(todo') \in {0, 1}
  BY <1>8
<1>10. n = 2 => actual_size' = 2
  BY <1>2
<1>11. NotStarted' /\ OneByOne'
  BY <1>1, <1>2, <1>3 DEF NotStarted, OneByOne
<1>12. OneThing'
  <2>1. reads' = 0 /\ Len(writes') = 0
    BY <1>2, <1>3
  <2>2. Len(todo') = 0 \/ Len(todo') = 1
    BY <1>9
  <2>3. reads' + Len(writes') + Len(todo') <= 1
    BY <2>1, <2>2
  <2> QED
    BY <1>3, <2>3 DEF OneThing
<1>13. Listening' /\ Received'
  BY <1>2, <1>3 DEF Listening, Received
<1>14. Handling'
  BY <1>2, <1>4, <1>8, <1>10 DEF Handling, NothingElse, Unapplied, Holds, InHand
<1>15. Answering'
  BY <1>2, <1>3 DEF Answering
<1> QED
  BY <1>11, <1>12, <1>13, <1>14, <1>15 DEF MasterWaits

(* on_pdu starts the write of what belongs to the request in hand.         *)
LEMMA OnPduWaits == IInv /\ OnPdu => MasterWaits'
<1> SUFFICES ASSUME IInv, OnPdu PROVE MasterWaits'
  OBVIOUS
<1>1. /\ TypeOK /\ NotStarted /\ OneThing /\ OneByOne /\ Handling
  BY DEF IInv, AnyMaster, MasterWaits
<1>2. /\ todo # << >> /\ todo' = Tail(todo) /\ applied' = Append(applied, Head(todo))
      /\ UNCHANGED <<at, descriptor, wire, port, m_input_buffer, actual_size, partial,
                      reads, timer, ready, asked, sent>>
  BY DEF OnPdu, setup
<1>3. todo = <<InHand>> /\ Unapplied /\ NothingElse /\ actual_size = 2 /\ Holds(2)
  BY <1>1, <1>2 DEF Handling
<1>4. /\ Head(todo) = InHand /\ todo' = << >> /\ Len(todo) = 1
  BY <1>2, <1>3
<1>5. /\ asked \in Seq(Requests) /\ applied \in Seq(Requests)
      /\ Len(asked) \in Nat /\ Len(applied) \in Nat /\ Len(sent) \in Nat
      /\ reads \in Nat /\ Len(writes) \in Nat
      /\ Len(asked) = Len(sent) + 1 /\ Len(applied) = Len(sent)
  BY <1>1, <1>3 DEF TypeOK, Unapplied
<1>6. InHand \in Requests
  BY <1>5, ElementOfSeq DEF InHand
<1>7. /\ applied' \in Seq(Requests) /\ Len(applied') = Len(applied) + 1
      /\ \A k \in 1 .. Len(applied) : applied'[k] = applied[k]
      /\ applied'[Len(applied) + 1] = InHand
  BY <1>2, <1>4, <1>5, <1>6, AppendProperties
<1>8. reads = 0 /\ Len(writes) = 0 /\ \A i \in 1 .. Len(ready) : ready[i].op = "timer"
  <2>1. reads + Len(writes) + Len(todo) = 1
    BY <1>1, <1>4, <1>5 DEF OneThing
  <2>2. \A i \in 1 .. Len(ready) : ready[i].op = "timer"
    BY <1>1, <2>1 DEF OneThing
  <2>3. reads = 0 /\ Len(writes) = 0
    BY <1>4, <1>5, <2>1
  <2> QED
    BY <2>2, <2>3
<1>9. writes = << >>
  BY <1>1, <1>8, LenZero DEF TypeOK
<1>10. PICK w \in [buf : {"in", "out"}, size : Nat] :
         /\ writes' = <<w>>
         /\ w = IF InHand \in Echoed THEN [buf |-> "in", size |-> 2]
                                      ELSE [buf |-> "out", size |-> 1]
         /\ m_output_buffer' = IF InHand \in Echoed THEN m_output_buffer ELSE Composed(InHand)
  BY <1>3, <1>4, <1>9 DEF OnPdu
<1>11. Contents(w)' = Reply(InHand)
  <2>1. CASE InHand \in Echoed
    <3>1. Contents(w)' = SubSeq(m_input_buffer, 1, 2)
      BY <1>2, <1>10, <2>1 DEF Contents
    <3>2. /\ Echo(InHand) \in Seq(Token) /\ Len(Echo(InHand)) = 2
      BY <1>6, EchoType
    <3>3. m_input_buffer[1] = Echo(InHand)[1] /\ m_input_buffer[2] = Echo(InHand)[2]
      BY <1>3 DEF Holds
    <3>4. \A k \in 1 .. 2 : m_input_buffer[k] \in Token
      <4>1. \A k \in 1 .. 2 : Echo(InHand)[k] \in Token
        BY <3>2, ElementOfSeq
      <4>2. \A k \in 1 .. 2 : k = 1 \/ k = 2
        OBVIOUS
      <4>3. \A k \in 1 .. 2 : m_input_buffer[k] = Echo(InHand)[k]
        BY <3>3, <4>2, Zenon
      <4> QED
        BY <4>1, <4>3, Zenon
    <3>5. /\ SubSeq(m_input_buffer, 1, 2) \in Seq(Token)
          /\ Len(SubSeq(m_input_buffer, 1, 2)) = 2
          /\ \A k \in 1 .. 2 : SubSeq(m_input_buffer, 1, 2)[k] = m_input_buffer[k]
      BY <3>4, SubSeqProperties
    <3>6. SubSeq(m_input_buffer, 1, 2) = Echo(InHand)
      BY <3>2, <3>3, <3>5, SeqEqual
    <3> QED
      BY <2>1, <3>1, <3>6 DEF Reply
  <2>2. CASE InHand \notin Echoed
    <3>1. Contents(w)' = m_output_buffer'
      BY <1>2, <1>10, <2>2 DEF Contents
    <3> QED
      BY <1>10, <2>2, <3>1 DEF Reply
  <2> QED
    BY <2>1, <2>2
<1>12. Len(writes') = 1 /\ Head(writes') = w /\ Head(writes)' = Head(writes')
  BY <1>10
<1>13. InHand' = InHand /\ Reply(InHand)' = Reply(InHand)
  BY <1>2 DEF InHand
<1>14. NotStarted'
  BY <1>1, <1>2 DEF NotStarted, NoWork
<1>15. OneThing'
  <2>1. reads' + Len(writes') + Len(todo') = 1
    BY <1>2, <1>4, <1>8, <1>12
  <2> QED
    BY <1>2, <1>8, <2>1 DEF OneThing
<1>16. OneByOne'
  BY <1>1, <1>2, <1>5, <1>7 DEF OneByOne, InHand
<1>17. Listening' /\ Received'
  BY <1>2, <1>8 DEF Listening, Received
<1>18. Handling'
  BY <1>4 DEF Handling
<1>19. Answering'
  <2>1. Contents(Head(writes))' = Reply(InHand)'
    BY <1>11, <1>12, <1>13 DEF Contents
  <2> QED
    BY <1>2, <1>3, <1>5, <1>7, <2>1 DEF Answering, NothingElse
<1> QED
  BY <1>14, <1>15, <1>16, <1>17, <1>18, <1>19 DEF MasterWaits

(* The end of a write, successful or not, starts the next read.            *)
LEMMA HandleWritingWaits == IInv /\ HandleWriting => MasterWaits'
<1> SUFFICES ASSUME IInv, HandleWriting PROVE MasterWaits'
  OBVIOUS
<1>1. /\ TypeOK /\ NotStarted /\ OneByOne /\ Listening
  BY DEF IInv, AnyMaster, MasterWaits
<1>2. /\ Runs("write") /\ reads' = reads + 1
      /\ UNCHANGED <<at, descriptor, wire, port, m_input_buffer, actual_size,
                      m_output_buffer, partial, todo, writes, timer, asked, applied, sent>>
  BY DEF HandleWriting, setup, data, hist
<1>3. /\ at = "running" /\ reads = 0 /\ writes = << >> /\ Len(writes) = 0
      /\ todo = << >> /\ Len(todo) = 0
      /\ 1 \in 1 .. Len(ready) /\ ready[1].op = "write"
      /\ ready' \in Seq(Op) /\ \A i \in 1 .. Len(ready') : ready'[i].op = "timer"
  BY <1>2, HandlerRuns
<1>4. NotStarted' /\ OneByOne'
  BY <1>1, <1>2, <1>3 DEF NotStarted, OneByOne
<1>5. OneThing'
  <2>1. reads' + Len(writes') + Len(todo') = 1
    BY <1>2, <1>3
  <2> QED
    BY <1>3, <2>1 DEF OneThing
<1>6. Listening'
  BY <1>1, <1>2, <1>3 DEF Listening, Usable, InHand
<1>7. Received' /\ Handling' /\ Answering'
  BY <1>2, <1>3 DEF Received, Handling, Answering
<1> QED
  BY <1>4, <1>5, <1>6, <1>7 DEF MasterWaits

(* The handler of the timer sets the timer again and does nothing else.    *)
LEMMA HandleTimerWaits == IInv /\ HandleTimer => MasterWaits'
<1> SUFFICES ASSUME IInv, HandleTimer PROVE MasterWaits'
  OBVIOUS
<1>1. /\ TypeOK /\ NotStarted /\ OneThing /\ OneByOne /\ Listening /\ Received
      /\ Handling /\ Answering
  BY DEF IInv, AnyMaster, MasterWaits
<1>2. /\ ready # << >> /\ Head(ready).op = "timer" /\ ready' = Tail(ready)
      /\ timer' = timer + 1
      /\ UNCHANGED <<at, descriptor, wire, port, m_input_buffer, actual_size,
                      m_output_buffer, partial, todo, reads, writes, asked, applied, sent>>
  BY DEF HandleTimer, Runs, setup, data, hist
<1>3. ready \in Seq(Op)
  BY <1>1 DEF TypeOK
<1>4. /\ ready' \in Seq(Op) /\ ready[1].op = "timer"
      /\ \A i \in 1 .. Len(ready') : i + 1 \in 1 .. Len(ready) /\ ready'[i] = ready[i + 1]
      /\ \A i \in 1 .. Len(ready) :
           i # 1 => i - 1 \in 1 .. Len(ready') /\ ready'[i - 1] = ready[i]
  BY <1>2, <1>3, Dequeued
<1>5. at = "running"
  BY <1>1, <1>2 DEF NotStarted, NoWork
<1>6. NotStarted'
  BY <1>2, <1>5 DEF NotStarted
<1>7. OneThing'
  <2>1. ASSUME NEW i \in 1 .. Len(ready'), NEW j \in 1 .. Len(ready'),
               ready'[i].op # "timer", ready'[j].op # "timer"
        PROVE  i = j
    <3>1. i + 1 \in 1 .. Len(ready) /\ ready[i + 1].op # "timer"
      BY <1>4, <2>1
    <3>2. j + 1 \in 1 .. Len(ready) /\ ready[j + 1].op # "timer"
      BY <1>4, <2>1
    <3>3. i + 1 = j + 1
      BY <1>1, <3>1, <3>2 DEF OneThing
    <3> QED
      BY <3>3
  <2>2. reads + Len(writes) + Len(todo) = 1 =>
          \A i \in 1 .. Len(ready') : ready'[i].op = "timer"
    BY <1>1, <1>4 DEF OneThing
  <2> QED
    BY <1>1, <1>2, <2>1, <2>2 DEF OneThing
<1>8. OneByOne'
  BY <1>1, <1>2 DEF OneByOne
<1>9. Listening'
  BY <1>1, <1>2, <1>4 DEF Listening, Usable, InHand
<1>10. Received'
  BY <1>1, <1>2, <1>4 DEF Received, Usable, Unapplied, Holds, InHand
<1>11. Handling' /\ Answering'
  BY <1>1, <1>2 DEF Handling, Answering, NothingElse, Unapplied, Holds, InHand, Contents
<1> QED
  BY <1>6, <1>7, <1>8, <1>9, <1>10, <1>11 DEF MasterWaits

(* ... and every step of a server whose master waits keeps it.             *)
LEMMA NextWaits ==
  ASSUME Window = 1
  PROVE  IInv /\ [Next]_vars => MasterWaits'
<1> SUFFICES ASSUME IInv, [Next]_vars PROVE MasterWaits'
  OBVIOUS
<1>1. CASE Start
  BY <1>1, StartWaits
<1>2. CASE ReadIo
  BY <1>2, ReadIoWaits
<1>3. CASE ReadFails
  BY <1>3, ReadFailsWaits
<1>4. CASE WriteIo \/ WriteFails
  BY <1>4, WriteIoWaits
<1>5. CASE TimerExpires
  BY <1>5, TimerExpiresWaits
<1>6. CASE HandleReadError
  BY <1>6, HandleReadErrorWaits
<1>7. CASE HandleRead
  BY <1>7, HandleReadWaits
<1>8. CASE OnPdu
  BY <1>8, OnPduWaits
<1>9. CASE HandleWriting
  BY <1>9, HandleWritingWaits
<1>10. CASE HandleTimer
  BY <1>10, HandleTimerWaits
<1>11. CASE Close
  BY <1>11, CloseWaits
<1>12. ASSUME NEW r \in Requests, Ask(r) PROVE MasterWaits'
  BY <1>12, AskWaits
<1>13. CASE UNCHANGED vars
  <2>1. /\ UNCHANGED <<at, descriptor, wire, port, m_input_buffer, actual_size>>
        /\ UNCHANGED <<m_output_buffer, partial, todo, reads, writes, timer, ready>>
        /\ UNCHANGED <<asked, applied, sent>>
    BY <1>13 DEF vars
  <2>2. NotStarted' /\ OneThing' /\ OneByOne'
    BY <2>1 DEF IInv, MasterWaits, NotStarted, NoWork, hist, OneThing, OneByOne
  <2>3. Listening'
    BY <2>1 DEF IInv, MasterWaits, Listening, InHand, Usable
  <2>4. Received'
    BY <2>1 DEF IInv, MasterWaits, Received, Unapplied, Holds, InHand, Usable
  <2>5. Handling' /\ Answering'
    BY <2>1 DEF IInv, MasterWaits, Handling, Answering, NothingElse, Unapplied, Holds,
                InHand, Contents
  <2> QED
    BY <2>2, <2>3, <2>4, <2>5 DEF MasterWaits
<1> QED
  BY <1>1, <1>2, <1>3, <1>4, <1>5, <1>6, <1>7, <1>8, <1>9, <1>10, <1>11, <1>12, <1>13
     DEF Next, Server, Master, Io, Handler

-------------------------------------------------------------------------------
(* What follows for a master that waits for each answer.                   *)

(* One thing at a time is under way, and it is about the request in hand.  *)
THEOREM InvariantHolds ==
  ASSUME Window = 1
  PROVE  Spec => []IInv
<1>1. Init => IInv
  BY InitAny, InitWaits DEF IInv
<1>2. IInv /\ [Next]_vars => IInv'
  BY NextAny, NextWaits DEF IInv
<1> QED
  BY <1>1, <1>2, PTL DEF Spec

(* No two operations use one buffer and no reply is composed in a buffer   *)
(* that is being sent, whatever reads return and whenever the port goes.   *)
THEOREM BuffersExclusiveHolds ==
  ASSUME Window = 1
  PROVE  Spec => []BuffersExclusive
<1>1. Spec => []IInv
  BY InvariantHolds
<1>2. IInv => BuffersExclusive
  <2> SUFFICES ASSUME IInv PROVE BuffersExclusive
    OBVIOUS
  <2>1. reads \in Nat /\ Len(writes) \in Nat /\ Len(todo) \in Nat
    BY DEF IInv, AnyMaster, TypeOK
  <2>2. reads + Len(writes) + Len(todo) <= 1
    BY DEF IInv, MasterWaits, OneThing
  <2>3. todo # << >> => Len(todo) # 0
    BY LenZero DEF IInv, AnyMaster, TypeOK
  <2>4. Len(writes) = 0 => writes = << >>
    BY LenZero DEF IInv, AnyMaster, TypeOK
  <2> QED
    BY <2>1, <2>2, <2>3, <2>4 DEF BuffersExclusive
<1> QED
  BY <1>1, <1>2, PTL

-------------------------------------------------------------------------------
(* The refinement of RequestService.                                       *)

(* on_pdu carries out the next request that was asked.                     *)
LEMMA OnPduServes == IInv /\ OnPdu => Promised!Apply
<1> SUFFICES ASSUME IInv, OnPdu PROVE Promised!Apply
  OBVIOUS
<1>1. todo = <<InHand>> /\ Len(asked) = Len(sent) + 1 /\ Len(applied) = Len(sent)
  BY DEF IInv, MasterWaits, OnPdu, Handling, Unapplied
<1>2. Len(asked) \in Nat /\ Len(applied) \in Nat /\ Len(sent) \in Nat
  BY DEF IInv, AnyMaster, TypeOK
<1>3. Head(todo) = asked[Len(applied) + 1] /\ Len(applied) < Len(asked)
  BY <1>1, <1>2 DEF InHand
<1>4. applied' = Append(applied, Head(todo)) /\ UNCHANGED <<asked, sent>>
  BY DEF OnPdu
<1> QED
  BY <1>3, <1>4 DEF Promised!Apply

(* A write that ends is about the next request that was carried out.       *)
LEMMA WriteEndsServes ==
  ASSUME IInv, WriteEnds
  PROVE  /\ Len(sent) < Len(applied) /\ UNCHANGED <<asked, applied>>
         /\ Contents(Head(writes)) = Reply(applied[Len(sent) + 1])
<1>1. writes # << >> /\ UNCHANGED <<asked, applied>>
  BY DEF WriteEnds
<1>2. /\ Len(applied) = Len(sent) + 1 /\ Contents(Head(writes)) = Reply(InHand)
  BY <1>1 DEF IInv, MasterWaits, Answering
<1>3. /\ Len(asked) \in Nat /\ Len(applied) \in Nat /\ Len(sent) \in Nat
      /\ Len(applied) <= Len(asked) /\ Len(asked) <= Len(sent) + 1
      /\ \A k \in 1 .. Len(applied) : applied[k] = asked[k]
  BY DEF IInv, AnyMaster, TypeOK, MasterWaits, OneByOne
<1>4. Len(applied) = Len(asked) /\ Len(sent) < Len(applied) /\ Len(sent) + 1 \in 1 .. Len(applied)
  BY <1>2, <1>3
<1>5. InHand = applied[Len(sent) + 1]
  BY <1>2, <1>3, <1>4 DEF InHand
<1> QED
  BY <1>1, <1>2, <1>4, <1>5

(* A write that succeeds answers that request, and one that fails half way *)
(* answers it with less.                                                   *)
LEMMA WriteIoServes ==
  IInv /\ (WriteIo \/ WriteFails) =>
    Promised!Answer \/ Promised!AnswerCutShort \/ UNCHANGED <<asked, applied, sent>>
<1> SUFFICES ASSUME IInv, WriteIo \/ WriteFails
             PROVE  \/ Promised!Answer \/ Promised!AnswerCutShort
                    \/ UNCHANGED <<asked, applied, sent>>
  OBVIOUS
<1>1. /\ Len(sent) < Len(applied) /\ UNCHANGED <<asked, applied>>
      /\ Contents(Head(writes)) = Reply(applied[Len(sent) + 1])
  <2>1. WriteEnds
    BY DEF WriteIo, WriteFails
  <2> QED
    BY <2>1, WriteEndsServes
<1>2. CASE WriteIo /\ Usable
  BY <1>1, <1>2 DEF WriteIo, Complete, Promised!Answer
<1>3. CASE WriteIo /\ ~Usable
  BY <1>1, <1>3 DEF WriteIo
<1>4. CASE WriteFails
  BY <1>1, <1>4 DEF WriteFails, CutShort, Promised!AnswerCutShort
<1> QED
  BY <1>2, <1>3, <1>4

(* Every step is a step of RequestService or none.                         *)
LEMMA NextServes == IInv /\ [Next]_vars => [Promised!Next]_Promised!vars
<1> SUFFICES ASSUME IInv, [Next]_vars
             PROVE  Promised!Next \/ UNCHANGED <<asked, applied, sent>>
  BY DEF Promised!vars
<1>1. CASE OnPdu
  BY <1>1, OnPduServes DEF Promised!Next
<1>2. CASE WriteIo \/ WriteFails
  BY <1>2, WriteIoServes DEF Promised!Next
<1>3. ASSUME NEW r \in Requests, Ask(r) PROVE Promised!Next
  BY <1>3 DEF Ask, Promised!Ask, Promised!Next
<1>4. CASE \/ Start \/ ReadIo \/ ReadFails \/ TimerExpires \/ HandleReadError
           \/ HandleRead \/ HandleWriting \/ HandleTimer \/ Close \/ UNCHANGED vars
  BY <1>4 DEF Start, ReadIo, ReadFails, TimerExpires, HandleReadError, HandleRead,
              HandleWriting, HandleTimer, Close, hist, vars
<1> QED
  BY <1>1, <1>2, <1>3, <1>4 DEF Next, Server, Master, Io, Handler

(* However reads cut the requests and whenever the port goes away, each    *)
(* request takes effect once, in order, before its one answer.             *)
THEOREM ServesHolds ==
  ASSUME Window = 1
  PROVE  Spec => Serves
<1>1. Init => Promised!Init
  BY DEF Init, Promised!Init
<1>2. IInv /\ [Next]_vars => [Promised!Next]_Promised!vars
  BY NextServes
<1>3. Spec => []IInv
  BY InvariantHolds
<1> QED
  BY <1>1, <1>2, <1>3, PTL DEF Spec, Serves, Promised!Spec
===============================================================================
