# Formal models of the Modbus scanner library

This directory is a verification project for the code in `src/`: TLA+ modules
that model the scanners and the two sample servers, TLC configurations that
check them on small instances, and TLAPS proofs. `PROJECT.json` lists the runs,
the hazards of the code and the definition-by-definition correspondence with the
source lines.

## 1. Inventory

| component | source | state it keeps | operations |
| --- | --- | --- | --- |
| RTU scanner (coroutine) | `slave_rtu_scanner.*`, `scanner.h` | the suspended coroutine with its locals (`fc`, words, `ix`, `crc_buf`, `crc_hi`), `m_ix`, `m_p_input`, `m_pdu` | `scan(buffer)`; callbacks PDU, nonsense, error |
| RTU scanner (traditional) | `slave_rtu_old.*` | current state object, `m_index`, word halves, `m_crc_buffer`, `m_pdu` | the same |
| TCP scanner | `slave_tcp_scanner.*` | like the RTU coroutine, with transaction id, without CRC | the same |
| shared definitions | `defs.h`, `scanner.cpp` | `pdu_c`, `buffer_c`, `combine`, `get_hi_lo`, `valid_fc` | |
| CRC | `crc_check.*` | two tables | `check_crc_rtu`, `calc_crc_rtu` |
| library facade | `modbus_scanner.*` | none (an opaque pointer) | `create_scanner`, `delete_scanner`, `scan` |
| RTU server, asynchronous part | `rtu_server/` | input and output buffer, serial port, timer, outstanding operations | `start`, `handle_read`, `handle_writing`, `handle_timer`, `send_pdu`, `mirror_pdu` |
| RTU server, data part | `rtu_server_data_handler.cpp` | `m_coils`, `m_regs` | `reply_f1` .. `reply_f23` |
| TCP server | `tcp_server/` | acceptor, one `server_connection_c` per client, each with a socket, a buffer and a scanner | accept handler, `start_read`, `handle_read`, destructor, `on_pdu` (prints) |
| endianness | `endians.h` | a compile-time constant | |
| hex output, stubs, tests, speed test | rest | none | |

How they interact. A caller (a server, a test) creates a scanner with an address and
three callbacks, reads bytes from its line into a `buffer_c` and calls `scan` with
it. The scanner runs on the caller's thread until it has no use for the rest of the
portion; on the way it calls the PDU callback with a reference to its one
`m_pdu` object. The RTU server's PDU callback changes the maps, composes a reply
in `m_output_buffer` (or takes `m_input_buffer` as it is) and starts an
asynchronous write; everything else in the server happens in completion handlers
on one io_service thread. The TCP server is built the same way, without replies: the
accept handler makes a connection object per client, which owns itself through the
`shared_ptr` bound to its outstanding read.

What is hard about this code, and what makes each part correct:

* **Suspension anywhere.** The line cuts the byte stream into portions at any
  place. A scanner must find in its next portion exactly what it left off at, never
  read beyond the portion (the array beyond `actual_size()` holds older bytes),
  and return from every `scan()`.
* **State that survives.** Locals, `crc_buf` and `m_pdu` live as long as the
  scanner. A request handed out must carry the bytes of its own frame only.
* **Loss.** After noise, another slave's traffic, a bad function code or a bad CRC
  the scanner must find the next frame; what it gives up it should report.
* **Buffers under asynchronous operations.** A buffer of an outstanding read or write
  must not be touched; each request must be answered once, with its own reply, and
  a read must be outstanding whenever nothing else is under way.
* **Object lifetimes.** A connection must outlive its reads and the callbacks of its
  scanner, and must end, socket and all, when its client does; connections must not
  mix; the accept loop must survive a failed accept.
* **Starting.** `open_port()` can fail in four places, and must leave nothing behind.
* **Integer widths.** `uint8_t` byte counts and indices and `uint16_t` addresses
  wrap; quantities and byte counts of a request need not agree.

`PROJECT.json`, "hazards", lists these at their lines, with the properties that
would notice each of them going wrong.

## 2. Modules

| module | what it is |
| --- | --- |
| `Modbus` | bytes, function codes, `pdu_c`, and which of its fields a handler of each function reads |
| `RtuFrames` | what a frame for this slave *is* on the wire, its request, and a byte-at-a-time reference reader (`ByteWise`) |
| `PduStream` | **abstract**: a stream goes in, its requests come out, whole, in order, none twice and none passed over |
| `RtuScanner` | the coroutine scanner, one action per byte and state |
| `ModbusProofs` | lemmas about bytes, words, records and readers of a stream that all scanner proofs share; theorems about `Endians` |
| `RtuFramesProofs` | lemmas the two RTU scanners share: when the bytes put aside are a frame and the record its request, and what `ByteWise` does at each position |
| `RtuScannerProofs` | theorems about `RtuScanner`: invariant, order, loss, refinement of `PduStream`, agreement with `ByteWise` |
| `RtuScannerOld` | the traditional scanner, one action per `on_char()` |
| `RtuScannerOldProofs` | theorems about `RtuScannerOld`: types on every stream; frames, refinement and agreement with `ByteWise` while no byte count is 0 |
| `TcpMessages` | what a message for this unit *is* on a connection; a reference reader that trusts the length field (`MessageWise`), and when that field is right (`WellFramed`) |
| `TcpScanner` | the TCP coroutine scanner |
| `TcpScannerProofs` | theorems about `TcpScanner`: invariant, losses, refinement of `PduStream`, agreement with `MessageWise` |
| `RequestService` | **abstract**: each request takes effect once, in order, and is answered once with its own reply |
| `RtuServer` | the start and the asynchronous life of the sample RTU server |
| `RtuServerProofs` | theorems about `RtuServer`: start and never deaf for any master; buffers and refinement of `RequestService` for one that waits |
| `TcpServer` | the accept loop and the life of connections of the sample TCP server, with `create_scanner` and `scan` |
| `TcpServerProofs` | theorems about `TcpServer`: invariant, accept loop, lifetimes, refinement of `PduStream` per client |
| `RegisterBank` | **abstract**: an array of coils and an array of registers |
| `Replies` | the maps and the reply functions, in bytes of a configurable width |
| `RepliesProofs` | theorems about `Replies`: the maps, untouched cells, bytes, refinement of `RegisterBank`; and about `Crc16`: the tables, damage |
| `Crc16` | the table-driven CRC next to its definition a bit at a time, over a line that damages bytes |
| `Endians` | `endian_c`, `combine` and `get_hi_lo` at the level of bytes in memory |
| `MC...` | streams, requests and toy functions for TLC |

### RtuScanner and TcpScanner

`stream` is all the line ever carries; the current portion is the window
`lo + 1 .. lo + actual_size` of it, and `lo + m_ix` is the position of the next byte.
`Scan` is the caller handing over the next portion of 1 to `MaxPortion` bytes; it
is enabled when the coroutine is suspended. Every other action is the code between
one `check_buf_end` and the next: it consumes the byte `Cur`, sets the locals, and
`CheckBufEnd` suspends the coroutine when the portion is used up. `pc` names the
`*_state` comment or label of the source. `GotoInitialState` (in the TCP scanner
`GotoPreTransactState`) is the code's `goto`: it suspends immediately, so
the rest of the portion is never read. `crc_buf` is kept because frames are
judged by it; the eight `i16` states of each scanner are one state with a counter
`wb`. `pdus`, `nonses` (and `foreign`, `start`) are history: what the callbacks were given and
which stretch of the stream it was.

`Crc` is an operator constant: nothing about the scanners depends on which
function it is. `m_error_cb` is never called by the code and does not occur.

The abstract position `pos` of `PduStream` is `Settled`: the end of the portion
while the scanner is suspended between frames, otherwise the start of the
unfinished frame. `PduStream` forbids skipping a place where a frame starts, so the
refinement (`Promise`) says that the scanner never passes over a frame that begins where
everything before was settled, however it is cut. The TCP scanner breaks this promise
in one step, the delivery of a request with byte count 0, which skips one byte more;
its `Promise` is about every other step, those after such a delivery included.

### RtuScannerOld

`scan()` of this scanner is a plain loop over `on_char()`, so portions cannot matter and do not
occur. Its diagnostic states are unreachable: `fc_state` would enter
them for function 8, which `valid_fc` has refused one line earlier.

### RtuServer

Requests are two tokens (front and back), so that a read may end inside one; the
scanner is abstracted to what `RtuScanner` shows about it (`ScanToken`). `reads`,
`writes` and `timer` are the outstanding asio operations, `ready` the queue of completion
handlers. asio is external and modelled by its contract: an operation reads or
writes the caller's buffer at some moment between its start and its completion, and
handlers run one at a time in the order of completion. `todo` holds the
requests of the current portion whose `on_pdu` has not run: `handle_read` is
`HandleRead` followed by one `OnPdu` per request, between which only an outstanding write
can make progress, as `async_write` tries to write at once. `port` can be closed
at any moment (`Close`). A write ends in one of three ways: all of it goes out (`WriteIo`), the
port is gone and nothing does, or it fails half way on a port that can be used
afterwards (`WriteFails`), which `handle_writing` does not notice. `sent` has for each answer
the bytes and whether it was cut short. An error of a read is always the loss of the port.

`at` is the next call of `start()`, `open_port()` and `set_port_config()`, `descriptor` the file
descriptor. `Opened`, `IsATty`, `Configures` (twice: `tcgetattr`, `tcsetattr`) and `Assigned` are the
ways on. Each early return is an action of its own, and does with the descriptor what its lines do:
`OpenFails` has none, `NotATty` closes it, `ConfigFails` is `set_port_config()` returning false,
which leaves it open, and `Refused` is `open_port()` closing it then. A failed `m_serial_port.assign()` is
not noticed by the code: `descriptor` stays `"open"`, the server runs, and its first read
fails. What the master sends before the port is configured is left out.

Constants choose the environment: `Window` is how many answers the master may be waiting
for, `Split` whether a read may return part of a request, `MayClose` whether the
port may go away.

### TcpServer

`refs[i]` counts the `shared_ptr`s to connection `i`; connections are numbered in the
order of their creation and never reused. `reads`, `accepts` and `ready` are as in
`RtuServer`. `HandleAccept` is the accept lambda: it creates the connection and its
scanner, starts the first read (which takes a `shared_ptr`), starts the next accept, and
lets its own `shared_ptr` go (`Release`). `handle_read` is `HandleReadError`, or `HandleRead`
followed by one `ScanFront` or `ScanBack` per token of the portion and `HandleReadDone`.
When the last `shared_ptr` goes, the destructor closes the socket; the scanner, which
nobody deletes, stays in `scanners` with its plain pointer `m_user` to the connection.
`m_buffer` holds what the connection's last read took, so it is not a variable of its own:
`Cur` is a token of the last `length` tokens `taken`.

Clients connect, send and close, in order (`"fin"`) or not (`"rst"`), at any moment.
`MaxOpen` is the number of descriptors: at the limit accept fails and the client stays in
the backlog, so that the next accept fails at once; `MaxFails` bounds that loop.
(A client that resets while it waits does not make accept fail: asio takes the next one.)
What clients send is whole requests, the last one perhaps cut off (`IsTraffic`); what a scanner
makes of anything else is the subject of `TcpScanner`.
What a client does before it is accepted looks to the server as if it came right after, and
what it does during a handler as if it came after the handler; the model has only the latter.

### Replies

`m_coils` and `m_regs` are functions whose domain is the set of keys present; reading
inserts missing keys, as `operator[]` does. All arithmetic is modulo `2^Bits`
and `2^(2*Bits)`. With `Bits = 8` these are the code's types; with `Bits = 3`
every wrap and carry happens within 64 addresses, so that TLC can try every
history of the requests it is given. The bits of a byte are numbers too: `Mask` is `1 << i`, `Packing` the loop that
collects coils with `byte |= aux_byte`. What an odd byte count makes the write loop read beyond `data` is any byte.
The requests are those whose reply fits the output buffer (`FitsAssumption`: `ReplyLength(r) <= BUF_SIZE`);
with the code's 1024 bytes, above 509 registers or 8152 coils `buffer_c::add` writes beyond its
array, which has no defined effect. That a reply is really no longer than `ReplyLength` says, and so stays within
the buffer, is part of `TypeOK`.

`RegisterBank` sees coils and registers as total arrays and the reply as the values a
master decodes from it. `IsBank` says that every request whose quantity agrees with
its byte count and whose reply can state its length in one byte (`Proper`) is a
step of the bank, from every state that any requests lead to. `Maps`, a part of `TypeOK`,
says that keys and registers stay 16-bit words whatever the requests are.

### Endians

`endian_c` means to find out the byte order of the target, but its cast
`(const std::uint8_t&)uint32_` is a conversion (a constant expression could not look at
memory): `little` is true everywhere. `combine` stores two bytes in a union in little-endian
order and reads a `uint16_t`; `get_hi_lo` shifts. There is no state and no run; the theorems are
in `ModbusProofs`.

### Crc16

`crc` is what `calc_crc_rtu` computes over the bytes sent, `checked` what `check_crc_rtu`
computes over the bytes received, and `reference` CRC-16 with polynomial A001 a bit
at a time. The tables are transcribed from the source. `Xor` is the exclusive or of the last
`n` bits of two numbers, a recursive function, so that the provers can reason about it. What may stand in
a message (`Alphabet`) and what the line does to a byte (`Masks`) are constants: the run uses a few
values, the theorems hold for all 256 of each and every length. A message may end after any byte; its CRC
then arrives with masks of its own (`Accepts` is the comparison at the end of `check_crc_rtu`), where
`Neighbours` keeps all damage within two bytes next to each other, of the message, of the CRC, or one of each. Definitions that every module has are
called `CrcSpec`, `CrcTypeOK` and so on here, as `RepliesProofs` extends `Replies` too.

## 3. Runs

| run | expected | question |
| --- | --- | --- |
| `rtu_scan` | pass | Are the requests handed out exactly frames of the stream (`PdusAreFrames`), in order without overlap (`PdusInOrder`), with no loss that no callback told of (`NoSilentLoss`)? Up to the first nonsense, are they at every return of `scan()` what a byte-at-a-time reader finds (`ReadsByteWise`)? Is no byte read beyond the portion? Is `PduStream` implemented, and does every frame at a settled position come out (`FrameDelivered`)? Does the proofs' invariant hold? |
| `rtu_portions` | violation | With nonsense on the line, is the result still independent of where portions end? No: see the findings. |
| `old_scan` | pass | Without byte counts of 0, is the traditional scanner exactly the byte-at-a-time reader, after nonsense too, and does it implement `PduStream`? Does the proofs' invariant hold? |
| `old_empty` | violation | With a byte count of 0? No. |
| `tcp_scan` | pass | Are the requests handed out messages of the connection, each with its own transaction id, and losses only for one of the three known reasons (`LossExplained`)? Until the first of these, is every request handed out as soon as its last byte has come (`DeliveredInStep`)? Is every step but one a step of `PduStream`? Does every message that starts where a header is expected come out (`MessageDelivered`)? Does the proofs' invariant hold? |
| `tcp_empty` | violation | Is a request with byte count 0 handed out with its last byte? No. |
| `server_calm` | pass | With a master that waits for answers and whole requests: exclusive buffers, never deaf, `RequestService` implemented (`Serves`), every request answered unless that very write fails - earlier writes that failed and the port going away at any moment included. Does a start that fails, by whichever early return, leave no descriptor open and nothing outstanding (`FailedStartIsClean`)? Does the proofs' invariant hold? |
| `server_split` | violation | Is a request that arrives in two reads answered? No. |
| `server_close` | violation | Does the server finish after the port is gone? No. |
| `tcp_server` | pass | Does the accept loop go on, failed accepts included (`OneAccept`, `NextServed`)? Is a connection there as long as a read or its scanner uses it (`HeldWhileUsed`), and is its socket freed after its client has closed (`SocketFreed`), with everything read that was sent before an orderly close (`AllRead`)? Does each client get what `PduStream` promises, whatever the others do (`Promise`), and every request that arrives handed out (`Handled`)? Does the proofs' invariant hold? |
| `replies` | pass | For every history of requests, do the maps, loops and packed bytes implement `RegisterBank` (`IsBank`) where the request is proper, and change nothing outside the addressed run (`OthersKept`) where it is not? Does every reply stay within the buffer? |
| `crc` | pass | Do the tables compute the CRC; do sealing and checking agree; is damage within two neighbouring bytes, those of the CRC included, noticed? |

Bounds, and why they are enough:

* Scanners: streams are every pair of segments (each kind of request, byte count 0, bad CRC,
  bad function code, another slave's frame, one with this slave's address in it,
  noise, a lone address) and selected triples (in `tcp_scan` one, and pairs whose second message is
  one of each shape). What a frame can inherit is what
  the frame before it left behind, so pairs show every inheritance, and triples show
  recovery and a frame after it. Portions have every length (`MaxPortion = 64` exceeds every
  stream), hence every cut of each stream into portions is explored.
  The toy CRC depends on every byte and its place.
* Server: four requests, two of each kind of answer. Buffers are shared by at
  most the requests in flight, and violations need two. With `Window = 1` nothing
  accumulates.
* TCP server: three clients - one with a whole request, one whose request breaks off, one that
  only connects - for two descriptors and one failed accept: two connections interleave,
  one has to wait, one ends inside a message, and a dead connection stands between live ones.
  Messages after messages are `TcpScanner`'s subject, and that several requests of one client keep their order here
  too is left to `PromiseHolds`, which is about any streams: a second whole request takes the run beyond its time.
* Replies: 64 addresses with three-bit bytes. The byte counts of a reply then wrap at 22 coils
  and 4 registers, the index of the write loop at 7 bytes, addresses at 63; the requests include both
  sides of these edges, and runs of two and three registers and of up to 21 coils across the last
  address. `BUF_SIZE = 13` is the length of the longest of their replies.
* CRC: every byte at the first place, so that every table entry is used and
  compared, and three later values; messages of three bytes. A round is linear
  in register and byte, so later places add nothing new about the tables; that this is so is proved
  (`TablesTrueHolds`), for every alphabet, mask and length.

`CHECK_DEADLOCK FALSE` stands where a stream or a message ends (the scanner is suspended
and nobody has another byte), where `start()` may fail and the program ends, and where all
clients have gone. The replies never stop and are checked for deadlock.

Fairness. `rtu_scan` assumes that a resumed coroutine goes on (`WF(ScanCo)`:
it is straight code on the caller's thread) and that the line carries what is in the
stream (`WF(Scan)`: the caller reads whatever arrives); `tcp_scan` likewise. The server runs assume that
`main()` goes on with `start()` and that
the io_service does possible I/O, lets timers expire and runs queued
handlers (`WF` of each); nothing is assumed of the master or the clients, which may stop
at any time. `NextServed` therefore has a condition: sockets become free again and again.

## 4. What the violations show

* `rtu_portions`: after nonsense the coroutine suspends at once, so a valid frame
  behind it is lost in the same portion and found in the next one. The README
  promises a function of the stream. The traditional scanner reads on.
* `old_empty`: `data_state` consumes a byte before comparing `m_index` with a byte
  count of 0, so the first CRC byte is swallowed and the frame boundary is lost.
* `tcp_empty`: a byte count of 0 delivers the request one byte late and skips the
  first byte of the next message.
* `server_split`: a read that completes no request is not followed by another read.
* `server_close`: the timer re-arms itself for ever and keeps the object alive.

Without a run of its own: with `Window = 2` (a master that does not wait for each
answer) `Serves` and `BuffersExclusive` fail in `RtuServer`: two requests of a portion share one
output buffer, or echo the whole input buffer. In `TcpServer` `scanners` only grows: the
destructor does not call `delete_scanner`, so each connection, and each failed accept
while descriptors are short, leaves a scanner and its coroutine stack behind.

Two limits are part of passing properties rather than runs of their own. In the TCP
scanner a message for another unit takes the rest of the portion with it, without
any callback, as the length field is computed and not used: `LossExplained` names
this reason, and `DeliveredInStep` ends with it. A reply of more than 2040 coils or
127 registers does not state its true length: `Proper` excludes it.

## 5. Proofs

Every module that keeps state has an inductive invariant, proved for every value of the constants. The
assumptions on constants are those named in the modules: an address is a byte,
streams are sequences of bytes (of tokens in the servers), portions and limits are numbers,
clients are finitely many, requests have fields of the right size. What a theorem
assumes beyond that is part of its statement and named below. The invariants are checked on the
instances too (`IInv` in `rtu_scan`, `old_scan`, `tcp_scan`, `server_calm` and `tcp_server`; each
contains `TypeOK`).

| module | theorems |
| --- | --- |
| `RtuScannerProofs` | `InvariantHolds`, `TypeCorrect`, `NoReadPastEndHolds`, `PdusAreFramesHolds`, `PromiseHolds`, `PdusInOrderHolds`, `NoSilentLossHolds`, `ReadsByteWiseHolds` |
| `TcpScannerProofs` | `InvariantHolds`, `TypeCorrect`, `NoReadPastEndHolds`, `PdusAreMessagesHolds`, `PromiseHolds`, `LossExplainedHolds`; with right length fields `DeliveredInStepHolds` |
| `RtuScannerOldProofs` | `InvariantHolds`, `TypeCorrect`, `KeptUntilEmpty`, `ByteWiseUntilEmpty`; without byte counts of 0 `PdusAreFramesHolds`, `PromiseHolds`, `ReadsByteWiseHolds` |
| `RtuServerProofs` | for any master `FailedStartHolds`, `AnyMasterHolds`, `TypeCorrect`, and with whole requests (`~Split`) `NeverDeafHolds`; for `Window = 1` `InvariantHolds`, `BuffersExclusiveHolds`, `ServesHolds` |
| `TcpServerProofs` | `InvariantHolds`, `TypeCorrect`, `OneAcceptHolds`, `HeldWhileUsedHolds`, `AllReadHolds`, `PromiseHolds` |
| `RepliesProofs` | `MapsCorrect`, `TypeCorrect`, `OthersKeptHolds`, `BankHolds`; about `Crc16` `AcceptedIffIntactHolds`, `HalvesAreBytes`, `TablesTrueHolds` |
| `ModbusProofs` | `CombineIsArithmetic`, `CombineSwapsOnBig`, `RoundTrip`, `RepliesSwapOnBig` |

### The scanners

`PdusAreFrames` is not inductive: that a delivered request is a frame rests on
what the scanner has remembered since the frame began, over any number of
suspensions. The invariants say what that is.

* `RtuScanner`. `Located`: the portion is a window of the stream, `m_ix` points into it, and the
  coroutine is only suspended at the end of a portion or between frames. `Buffered`: `crc_buf`
  is the part of the stream since `FrameStart`, as long as the state implies. `Stored`: the words,
  `m_pdu.m_i16_3/4`, the byte count and `m_data` repeat `crc_buf` at their places.
* `TcpScanner` keeps no copy of the bytes. `Placed` says instead that the reading position is
  `start` plus a `Progress` that follows from the state, and `Stored` that the
  locals repeat the stream at `start`. A byte count of 0 fits in: `whole_pdu` is then the state at
  the end of the message, and the delivery moves `start` one byte too far, as the code does.
* `RtuScannerOld` has no such invariant after a byte count of 0: `data_state` has consumed a byte
  and put it nowhere, so that `m_crc_buffer` is no longer a part of the stream. `IInv` is therefore
  `TypeOK`, `Positioned` (what is needed for types) and `MetEmpty \/ Sound`, where `Sound` is
  `Buffered`, `Stored` and `PdusAreFrames`, and `MetEmpty` that such bytes have been read.
  `KeptUntilEmpty` says for every stream that up to that point requests are frames and steps are
  steps of `PduStream`; `PdusAreFramesHolds` and `PromiseHolds` are about streams that have no such
  bytes anywhere (`EmptyIn`); those of `old_scan` are of this kind, and `old_empty` shows that the
  assumption is needed.

There is one lemma per action. Where a request is complete, `BodyIsFrame` (the bytes
put aside are a frame exactly if the CRC agrees, and no shorter one starts there) and
`FrameSays` (the record given to the callback is the frame's request) of `RtuFramesProofs` serve both
RTU scanners, `RecordSays` of `ModbusProofs` all three.

The refinement of `PduStream` and the accounting of losses rest on a case analysis of
steps: from a state of the invariant every step does one of four things to the settled
position - nothing, one byte where no frame can start, giving up bytes where none
starts, or delivering the frame that starts there. The first is a stutter of
`PduStream`, the next two are `Discard`, the last is `Deliver`. In `RtuScannerProofs` this is the lemma
`Outcomes`, from which order (`PdusInOrder`) and losses (`NoSilentLoss`) are inductive too; in
`TcpScannerProofs` the same cases are about `start`, and `LossExplained` is inductive over
them.

### The reference readers

`ReadsByteWise` and `DeliveredInStep` compare what a scanner has handed out with what a recursive
reader makes of the same bytes (`ByteWise`, `MessageWise`). Three ideas bring them within reach.

* The reader of every position (`Reader(s)`) exists as a function: `ReaderExists` in `ModbusProofs` builds it
  from the end of the stream, on the principle that a set of numbers has a least element.
  From its equation alone the lemmas of `RtuFramesProofs` say what it does at one position: it waits, it
  skips a byte, or it takes a frame (`ReaderWaits` and its neighbours).
* The invariant, `InReaderStep`, needs no induction over the stream: what the reader hands out from 0 on is
  what the scanner has handed out, followed by what the reader hands out from the settled position on.
  Each outcome of a step (`Outcomes`) is one step of the reader at that position, so it stays true; and when the
  scanner is suspended, the rest is empty (`NothingLeft`).
* The coroutine is compared at every return of `scan()`, with the bytes it has been given so far. So its
  `InReaderStep` speaks of every beginning of the stream that holds what is settled; that a longer
  beginning is read in the same way is part of the step (`PrefixBytes`).

The coroutine scanner stays in step until nonsense is met. The traditional one stays in step, nonsense or not,
until a byte count of 0 is met (`ByteWiseUntilEmpty`), and hence for ever on streams without one. The TCP scanner
never looks at the length field `MessageWise` goes by, so they can agree only where that field is
right: `DeliveredInStepHolds` assumes that of every connection (`WellFramed`: from the first message on, each length
field leads to the next message and, for requests of this unit, to the end of the request). `MCTcpScanner` states it for
the streams of `tcp_scan` and `tcp_empty`, and TLC evaluates it. That `DeliveredInStep` ends at a
foreign unit id, an invalid function code or a byte count of 0 is in the property itself.

### The servers

The invariant of `RtuServer` has two halves. `AnyMaster` holds whatever the master does, also where
`Serves` and `BuffersExclusive` do not: what a handler or a write takes from the input buffer is there
(`InBuffer`: a read overwrites the buffer and never shortens it), and a read brings nothing only when the
port cannot be used (`ReadsBring`). Where reads do not cut requests (`~Split`) the wire and the buffer are always made of
whole requests, stale ones included (`Paired`), so that each portion, even one that has been overwritten
before its handler runs, brings `on_pdu` a request and with it a write, whose end starts the next read: `NeverDeaf`.
That `ScanPortion`, a recursive function, yields one is `ScanWhole`, by the same unfolding as in the other
modules. `~Split` is needed here, as `server_split` shows.

`MasterWaits` is the half for a master that waits (`Window = 1`): `OneThing` says that of reads, writes,
`todo` and completed reads and writes there is at most one at any time, and the other parts say what that
one thing means for the request in hand: `OneByOne` (sent, applied and asked
differ by at most one), `Listening` (while a read is outstanding the wire holds nothing but
that request), `Received`, `Handling` and `Answering` (its tokens are at the front of the buffer until
the answer is out; a mirrored answer is sent from there). `BuffersExclusive` is then immediate, and
`ServesHolds` maps `OnPdu` to `Apply`, a write that succeeds to `Answer`, one that fails half way to `AnswerCutShort`,
a request of the master to `Ask`, and the other steps to stutters. `Window = 1` cannot be dropped for these two (section 4).
`FailedStartHolds` has a small invariant of its own: until the server runs there is no work, and before `open` and
after a failure no descriptor.

`TcpServer`: `OneUse` says that a connection has one shared_ptr exactly if one read is
outstanding, completed, or being handled; `OnceQueued` that no handler is queued twice and an accept is
outstanding or completed; `Numbered` and `Apart` that every accepted client has one connection with
a scanner of its own and that there are numbers enough for all (a counting argument,
`NumberLeft`: each connection uses up a client or a failed accept); `Position`,
`EndsTold` and `Inside` how far each scanner is in its client's stream. The refinement goes client by
client: `ScanBack` is `Deliver`, the end of a client in the middle of a request
moves nothing, everything else stutters for all clients but one.

### The replies

All of these theorems are about requests whose reply fits `BUF_SIZE`, whatever that is.

`MapsCorrect`: whatever the quantities and byte counts are, keys and registers are 16-bit words,
also when the index of the write loop wraps and when an odd byte count brings in a
byte from beyond the data. `TypeCorrect` adds that every reply is bytes, packed coils and the byte count
that wraps among them, and as long as `ReplyLength` says. `OthersKept` follows from `Nth`, the place of an address in a run that may
wrap, being its inverse (`InRun`). `BankHolds` says that every proper request is the step of `RegisterBank` it
stands for, answer included: the write loop stores exactly the values of the data (`ValuesStored`,
`BoolsStored`: for proper requests no index wraps and the data suffice), a reply's bytes decode to the registers, 23 writes
before it reads, and the bits a master takes from a packed reply are the coils. The last rests on bits of a byte: after
`i` rounds the packing loop holds a number below `Mask[i]`, whose bit `k < i` is the one put there. It all holds for
every `Bits`, so for bytes of eight bits, of which the run can only check a miniature.

### The checksum

An exclusive or is followed bit by bit, for numbers of `n` bits and `n` from 0 to 16: it commutes, associates, is undone by
itself (`Widths`, `XorAssociates`, `XorSelf`), and acts on the two bytes of a word apart (`ApartWidths`).

* `AcceptedIffIntactHolds`. Each byte occurs once in `CRCLO` (`TablesOfBytes`), so a round forgets nothing: from what
  comes out and the byte that went in the register can be told (`RoundForgetsNothing`). Registers that differ
  therefore stay different over equal bytes. `Compared` is inductive: after one damaged byte the halves looked up in `CRCLO`
  differ, which the next byte, damaged or not, cannot make up for, so that the registers differ ever after. Where that next byte is
  the first of the CRC, the second, which is compared with the other half, still tells.
* `TablesTrueHolds`. The entries are not computed one by one. `TableSteps` compares each with that of twice its index and
  with that of 128 more; `EntrySteps` says what this means in words: the one is a shift, the other the polynomial.
  A shift is linear (`ShiftOfSum`), so an entry is right if that of twice its index is (`HalfTrue`), or that
  without the highest bit (`HighTrue`): from entry 0 on, all are (`FilledBetween`). `DefinitionByTable` then says that eight
  shifts of a register are a table lookup, and `Calculated`, that register and halves are the same number, is inductive.

Both hold for every length of message, every alphabet and every set of masks; the assumptions are those named in `Crc16` (`Settings` collects them).

### Byte order

On a little-endian target `combine` and `get_hi_lo` compute what the other modules take them
for (`CombineIsArithmetic`, `RoundTrip`); on a big-endian one `combine` exchanges the bytes
(`CombineSwapsOnBig`), `get_hi_lo` does not exchange them back (`RepliesSwapOnBig`), and every
other module here is about little-endian targets only.

### Only model-checked

* Liveness: `FrameDelivered`, `MessageDelivered`, `Answered`, `Handled`, `SocketFreed`,
  `NextServed`. Fairness and `ENABLED` are beyond the prover. Of what becomes of a frame, a message
  or a request the safety half is proved: `PduStream` and `RequestService` say how it may be settled.
* The properties of the violation runs, which are false.
* Sets of streams, requests and messages as large as a run needs are TLC's part: that the
  assumptions of the theorems hold for them is evaluated there (`StreamsAreFramed`, and the `ASSUME`s of each module).

Every other property of a passing run is stated by a theorem. Induction over data in general, by the library's
theorems with operator parameters, is out of the provers' reach; where a recursive function had to be followed, the
proof goes by its defining equation and a least counterexample (`LeastNumber`), and recursion is
written as functions throughout.

## 6. Plan

All components of section 1 that keep state are modelled, and every safety property that a passing run checks has a
theorem. Nothing modelled is left to prove but liveness.

Not modelled, and not planned: `delete_scanner` (called by neither server, and undefined for want
of a virtual destructor), writes beyond `BUF_SIZE`, `scan()` with an empty buffer (no caller does
it), which termios flags are set, hex formatting and logging, the empty stubs `ascii_scanner.h`
and `master_tcp_scanner.h`, and the test and speed drivers.
