# Sponge in TLA+

Sponge (`libsponge/`) is a user-space TCP/IP stack in C++. These modules model
its protocol core, TLC checks them on small instances, and TLAPS proves most of
the safety results of single components for every value of the constants.

## 1. The system

| Part | State | Operations that change it | Used by |
|---|---|---|---|
| `ByteStream` | buffer, end flag, error flag, two counters | `write`, `pop_output`, `read`, `end_input`, `set_error` | both halves of a connection |
| `StreamReassembler` | map of stored substrings, assembled bytes, next index, end index, output stream | `push_substring` | receiver |
| `WrappingInt32` | none (pure) | `wrap`, `unwrap` | receiver, sender, connection |
| `TCPReceiver` | reassembler, initial number, acknowledgment, FIN position | `segment_received` | connection |
| `TCPSender`, `Timer` | outgoing stream, outstanding segments, window, timer | `fill_window`, `ack_received`, `tick`, `send_empty_segment` | connection |
| `TCPConnection` | a receiver, a sender, closing flags | `segment_received`, `write`, `tick`, `connect`, `end_input_stream`, destructor | socket |
| `TCPSpongeSocket`, `EventLoop` | a connection, an adapter, a socket pair, two threads | four event-loop rules, the tick, abort | applications |
| Adapters (UDP, TUN, TAP, lossy) | configuration, listening flag | `read`, `write`, `tick` | socket |
| `NetworkInterface` | address cache, waiting datagrams, log of requests, clock | `send_datagram`, `recv_frame`, `tick` | Ethernet adapter, router |
| `Router` | interfaces, routing table | `add_route`, `route`, `recv_frame` of its interfaces | network simulator, `lab7` |
| Parsers, serializers, `InternetChecksum`, buffers | none that lasts | `parse`, `serialize` | adapters, interface |
| `FileDescriptor` | end-of-file and closed flags | `read`, `write`, `close` | event loops, applications |
| `bidirectional_stream_copy` | two byte streams, two shutdown flags | four event-loop rules | the `tcp_*` programs |
| other `apps/` | command lines, the network simulator, `lab7` | | |

How they interact: an application's bytes go through the socket pair to rule 2
of the event loop and into `TCPConnection::write`; the sender cuts segments from
its `ByteStream`; rule 4 hands them to an adapter, which over Ethernet hands
datagrams to a `NetworkInterface`. In the other direction rule 1 gives segments
to `segment_received`, the receiver decodes their numbers with `unwrap`, the
reassembler orders the bytes, and rule 3 moves them to the application. Time
enters through `tick` alone. The programs of `apps/` move bytes between a terminal
and the socket with `bidirectional_stream_copy`, which runs an event loop of its
own at the other end of the socket pair.

The behaviours that are hard to test: segments that are lost, repeated and
overtake each other; acknowledgments older than the latest one; windows that
close; the two FINs crossing; timers against late answers; buffers at exactly
their capacity; numbers that wrap; ARP answers that cross with requests and
expiring caches; routes that match together; two threads that shut each other's
descriptors down; descriptors that take part of what is offered, end or hang up
while a rule of an event loop looks elsewhere; packets damaged on the way.
`PROJECT.json` lists each as a hazard at the line where it bites.

## 2. Modules

A class is a module of pure operators on a record of its members, under the
source's names (without leading underscores; a prefix such as `conn_` where two
classes share a method name). A `Spec` or composition module adds the variables,
the callers and the history that the properties speak of.

| Module | Models |
|---|---|
| `ByteStream`, `ByteStreamSpec` | `byte_stream.{hh,cc}`, called in any order |
| `BytePipe` | abstract: what is delivered is a prefix of what was accepted, and the end comes after all of it |
| `StreamReassembler`, `StreamReassemblerSpec` | `stream_reassembler.{hh,cc}`, fed any substrings of one stream |
| `WrappingIntegers` | `wrapping_integers.{hh,cc}` |
| `TCPSegment` | the header fields and payload that the classes below read |
| `TCPReceiver`, `TCPReceiverSpec` | `tcp_receiver.{hh,cc}` with a peer that keeps to the window |
| `TCPSender`, `TCPSenderSpec` | `tcp_sender.{hh,cc}` with a peer that acknowledges in any way |
| `TCPSenderLoops` | the loops of `fill_window` and `ack_received` iteration by iteration, the reference for the closed forms of `TCPSender` |
| `TCPConnection`, `TCPPair` | `tcp_connection.{hh,cc}`; two of them, driven by the rules of `tcp_sponge_socket.cc`, over a network |
| `TCPState` | `tcp_state.{hh,cc}`: the official names of a connection's states |
| `ConnectionContract` | abstract: what the owner of a connection may rely on; `TCPPair` shows that a connection keeps it, `SpongeSocket` uses nothing else |
| `EventLoop` | `eventloop.{hh,cc}`: one call of `wait_next_event` |
| `FdAdapter` | `fd_adapter.{hh,cc}`, `tcp_over_ip.cc`, `lossy_fd_adapter.hh`: which datagrams reach a connection |
| `SpongeSocket` | `tcp_sponge_socket.{hh,cc}`: the owner's thread, the TCP thread, the socket pair |
| `FileDescriptor` | `file_descriptor.{hh,cc}`: the flags, and what one `read` or `write` moves |
| `StreamPump` | one direction of `apps/bidirectional_stream_copy.cc` |
| `StreamCopy` | the whole of it: two pumps and the event loop that calls them |
| `Buffers`, `NetParser`, `InternetChecksum`, `WireFormats` | `buffer.{hh,cc}`, `parser.{hh,cc}`, the checksum of `util.{hh,cc}`, and `parse` and `serialize` of TCP, IPv4, Ethernet and ARP |
| `WireSpec` | one host that sends bytes to another over a network that damages them, through the adapters |
| `NetworkInterface`, `EthernetLan` | `network_interface.{hh,cc}`; several of them on one Ethernet, driven as `tuntap_adapter.cc` does |
| `Router`, `Internet` | `router.{hh,cc}`; hosts and routers on several Ethernet segments, as `apps/lab7.cc` and `apps/network_simulator.cc` connect them |
| `OperatorProofs` | theorems about the pure operators: `unwrap`, the checksum, each method of the reassembler; and about `StreamReassemblerSpec` |
| `TCPReceiverProofs`, `TCPSenderProofs`, `StreamPumpProofs`, `StreamCopyProofs` | theorems about the specifications of these names; `StreamPumpProofs` also holds those about `ByteStreamSpec` |
| `HostProofs` | theorems about what one host runs: its interface (`EthernetLan`) and its socket (`SpongeSocket`) |
| `InternetLemmas`, `InternetProofs` | theorems about `Internet`: the invariant with the steps that receive and send, then `route()` and the results |
| `MC*` | values of the constants |

Points where the state or an action differs in form from the code:

* `StreamReassemblerSpec` allows an empty substring strictly inside a stored one
  only if `EmptyInside` is true: the code goes wrong there (see Findings), and the
  constant separates what holds with such substrings from what holds without.
* A segment, or an acknowledgment, that reaches a receiver or a sender again has
  not outlived half a turn of the sequence numbers (`MayArrive`,
  `StaleAckReceived`): beyond that no TCP can tell it from a new one.
* Loops over a `std::map` or a queue are written as conditions on the keys or as
  the sequence they leave behind. For the sender, whose loops have several exits,
  `LoopsAgree` compares the two forms in every reachable state.
* `fixCap` can walk past the first entry of the map and assign the string of a
  freed node. Either this has no effect or the process dies; `died`, or
  `aborted` with a receiver around it, records the choice.
* `add_route` with a length of zero shifts by the full width, which is undefined:
  the mask is all zeroes or all ones.
* `header.win` is stored modulo `WinModulus` (a `uint16_t`), the greatest match
  in `Router::route_one_datagram` modulo `LengthModulus` (a `uint8_t`), raw
  sequence numbers modulo `N`. Counters of type `uint64_t` do not wrap.
* In `TCPPair` a connection's queued segments go on the network in the step that
  queues them; rule 4 may be late, and the network may be late too. The RST that
  the destructor queues is never sent, because the queue goes with the object
  (`tcp_sponge_socket.cc:272`), although `tcp_connection.hh:121` says that the
  "destructor sends a RST if the connection is still open".
* `SpongeSocket` counts bytes instead of naming them: each buffer between owner
  and connection is a queue that only its two ends touch. Its connection is any
  sequence of views that `ConnectionContract` allows. One step is one callback,
  or the part of `wait_next_event` before the callbacks, or the rest of the loop
  body; the owner acts between any two of them.
* What poll(2), read(2), writev(2) and shutdown(2) do to a pair of stream sockets
  is external (`Ready`, `HungUp`, `BrokenPipe`): a socket whose both directions
  were shut down hangs up, a write to one that was shut down raises SIGPIPE or
  throws, and either ends the process; writing nothing never fails. A signal that
  interrupts poll(2) is an action of `StreamCopy` (`Interrupt`); `SpongeSocket`,
  whose thread handles no signal, has none.
* A lossy adapter drops a segment after the adapter under it has read it: in
  `SpongeSocket` the peer is taken, and the connection sees nothing. A loss rate
  is a free choice (`should_drop`).
* In `StreamCopy` the bytes at each source are numbered, and the kernel holds up to
  `Room` bytes for the reader of each sink. The socket is one descriptor with two
  directions: its hangup (`HangUp`) breaks the sink of the outbound pump and ends
  the source of the inbound one. Standard input may be a file or a terminal, which
  is readable at its end, or a pipe, which hangs up; the choice is made in
  `PumpInit`. A rule that is not interested is polled for errors and hangups all
  the same, so that `Poll` may find nothing to do.
* In `Internet` a host is a node with one interface and an empty table. The frames
  of an interface go to all other ports of its segment in the step that queues
  them, and arrive in any order; no time passes, so that no ARP entry expires
  (`EthernetLan` has the clock). `route` is called at any time, as the simulator
  does, and not only after each frame, as `lab7` does.
* In `WireFormats` a 16-bit number is an integer, and a 32-bit number or an
  Ethernet address is the tuple of its bytes; calls of `u8()`, `u16()` and `u32()`
  in a row are one reading of fields of given widths (`Fields`, `Advanced`).
  A payload is a `Buffer`, or a `BufferList` that stays in pieces until it is
  written in one call; turning a list of several pieces into a `Buffer` throws in
  the code and has no value here, so that TLC would report it.
  `serialize` throws for headers that no caller here builds; the constants of
  `WireSpec` exclude them.

## 3. Runs

| Run | Instance | Checks |
|---|---|---|
| `copy` | streams of capacity 2, 3 bytes out and 2 in, readers that hold 1 byte, hangup, broken output, signals | see below |
| `reassembler` | 7 distinct bytes, capacity 3, every substring | a prefix of the stream is assembled; no premature end; nothing left stored that continues it; capacity; each index counted once |
| `receiver` | 16 bytes, capacity 6, numbers modulo 14 that wrap within the stream | decoding and acknowledgments exact; storage bounded; no promise of the window broken; the end arrives |
| `sender` | 4 bytes, payload 2, windows 0 to 3, timeout 2 | see below |
| `pair` | a client and a listening server, streams of 1 and 0 bytes, reordering, one duplicate or one abort, free clocks | acknowledgments never ahead of the peer; a clean end is a complete one; not both ends passive; the contract with the owner is kept |
| `pair_live` | streams of 2 and 1 bytes, one end or both open, one loss, a window that is advertised as 0 when it is 3 | both directions are byte pipes; the TCP state only advances; the contract with the owner is kept; both ends finish cleanly |
| `lan` | 3 hosts, 2 datagrams, caches that expire | cache entries true, and held exactly until they are old; delivered once, to the right host; requests spaced; the latest datagram arrives |
| `internet` | 2 hosts behind 2 routers, 5-bit addresses, 6 pairs of tables with default, longer and circular routes, 2 datagrams | see below |
| `socket` | client and server, UDP and IP, lossy or not, streams of 2 and 1 bytes, a pipe of 1, three senders of datagrams | see below |
| `wire` | 36 segments over UDP, TUN and TAP, an ARP request and a reply, every byte changed in 5 ways, every cut, 3 paddings | what arrives is what was sent, or nothing |
| `pair_end_honest` | 5 bytes, capacity 3, one duplicate | violated: see Findings |
| `internet_longest` | as `internet` | violated: see Findings |

`copy` checks that each direction is a byte pipe from one descriptor to the other,
whose end is the shutdown or the closing of the sink; that a byte that was read is never
dropped, and the function returns only with both ends passed on; that it throws
only if the socket hung up with bytes left for it, or if the output broke; and
that it ends once both inputs have, or a signal came.

`internet` checks that a route that matches is taken; that routers send a datagram
out less often than its time to live allows, also in a circle; that there is one
copy of it at most, with the right time to live, and no wrong host receives it;
and that it reaches the host to which the tables lead it, unless another datagram
took its place while it waited for an address.

`sender` checks that the outstanding segments lie end to end between the
acknowledgment and the next number, hold the right bytes, SYN and FIN, and are
forgotten only when acknowledged; that nothing goes beyond the window unless an
acknowledgment was overtaken; that the timer runs exactly while something is
outstanding; that a timeout resends the oldest segment and doubles the timeout
unless the window is closed; and that everything is acknowledged in the end.

`pair` and `pair_live` share the contract (`ConnectionContract`) with `socket`,
which trusts it: each call and each segment does to what the owner sees only what
the contract's action of that call may do, and a listening end sends nothing before
it heard or was asked to open. `pair` meets it with a listening end, with a reset,
with duplicates and with segments that overtake each other, `pair_live` with losses
and with both ends opening at the same time. Which ends open is chosen at the start
(`Openings`). That both directions are byte pipes is checked under losses only
(`pair_live`): when an old acknowledgment overtakes a newer one they need not be, as
`pair_end_honest` shows.

`lan` keeps the times of all requests (`asked`) and of the last message that told
an address (`heard`) as history, so that two requests at one time, a mapping kept
too long and one dropped too early are all seen.

`socket` checks that only the peer that opened the connection, or that was
connected to, reaches it; that the owner sees the end of the stream only after all
of it, and the connection the end of the owner's bytes only after all of them;
that the loop throws only after a reset with bytes left to hand over, or when the
owner waits in `wait_until_closed` before the end came; and that the TCP thread
ends once the connection is over or the socket is destroyed.

`wire` excludes from its claim a change in an ARP message, which has no checksum,
and in the byte with the header length of IPv4: the IPv4 checksum is computed and
its verdict dropped (`ipv4_datagram.cc:13`), and a TCP checksum taken from the
wrong offset may agree by chance.

**Bounds.** Streams are longer than the capacity where storage matters and longer
than a segment where segmentation matters, and their bytes are distinct, so a
byte out of place is seen. `N` is small enough that numbers wrap within a run and
large enough that half a turn exceeds the widest window (`receiver`) or two of them
(`sender`), as 2^31 exceeds 2^16 by far; in `pair` it is twice the sequence space. `MaxFail`, `MaxNet`, `MaxLoss`, `MaxDup`, `MaxAbort`,
`MaxFaults`, `MaxTime`, `MaxDgrams`, `MaxTotal`, `InTotal` and `MaxPad` are guards,
not properties. In `copy` a write is partial as soon as two bytes are buffered. In
`internet` two datagrams are enough to compete for one place, and a time to live
of 3 is the least that crosses two routers. Runs with `CHECK_DEADLOCK FALSE` model
objects that their callers may simply stop using.

**Fairness.** `receiver`: the peer repeats what is not acknowledged (a sender's
timer runs while anything is outstanding, `TimerRuns`) and the application reads.
`sender`: the application writes and closes, each write is followed by
`fill_window` (`TCPConnection::write`), and the peer acknowledges what it was sent
and opens its window in the end. `pair_live`: the event loop serves each of its
rules, segments that are not lost arrive, and time passes. A unit of time is a
whole retransmission timeout (`Rto = 1`; the default is one second, in ticks of
10 ms), and what is on the way arrives within it (`Prompt`); losses are fewer than
`MAX_RETX_ATTEMPTS`. `lan`: every frame arrives. `internet`: every frame arrives,
and `route` is called while datagrams are queued. `copy`: the program runs, and the
readers of socket and output read while they are there. `socket`: the TCP thread
runs, since its loop polls with a timeout of 10 ms, and an owner that has not left
reads what is there. Conditions on changing sets are
written out as `[]<>(not enabled) \/ []<><<A>>_vars`, which is
weak fairness of `A`. `lan` needs `MAPPING_EXPIRE_TIME_MS >=
DST_IP_EXPIRE_TIME_MS` (30000 and 5000 in the code): with a cache that expires
before the log of requests, a datagram may wait without a request.

## 4. Findings

* **A stream can end early** (`tcp_receiver.cc:44`). A segment cut at the window's
  edge is pushed with its FIN, so the reassembler takes the cut for the end of the
  stream. An honest sender gets there after an old acknowledgment is delivered
  again, since `ack_received` takes its window for a new one.

* **A router does not always take the longest route** (`router.cc:85`). The loop
  compares the prefixes of matching routes, of the best one its low eight bits,
  where `router.hh:81` promises "the route with the longest prefix_length that
  matches". Prefixes of up to 24 bits have zeroes there, so the last match wins. In
  `internet_longest` a default route was added last; a datagram for the network
  that is directly attached then waits at the router for the next hop of the default
  route. `TakesAMatch` (in `internet`) states what holds: the route taken matches,
  and it is the longest if the table is sorted by length and the low byte of every
  prefix is zero.

Met on the way, and not the subject of a run of their own:

* An empty substring can stop the reassembler (`stream_reassembler.cc:50`). If it
  falls strictly inside a stored string, it is stored as an entry of its own, which
  the merge leaves there. Once the bytes around it are assembled its index is
  behind `expectIdx`, `assem` finds it at the front of the map and stops, and
  whatever arrives later stays stored: "bcd" at 1, "" at 2, "a" at 0, "e" at 4
  leave "e" unwritten, where `stream_reassembler.hh:38` promises to "write any newly
  contiguous bytes". With `EmptyInside = TRUE` and 5 for `StreamLength` and `Capacity`,
  TLC finds `CountedOnce` and `WritesContiguous` violated. `TCPReceiver` pushes no such substring, so a
  connection is not affected.
* `fixCap` can run off its map (`stream_reassembler.cc:122`): when the assembled
  bytes that wait for room fill the capacity alone, every stored entry is erased
  and the loop goes on. `StoresAtMostCapacity` shows that a receiver whose peer
  keeps to the window never gets there.
* A datagram that no route matches leaves on interface 0 (`router.cc:73`).
* `IPv4Datagram::parse`, `TCPSegment::parse` and `EthernetFrame::parse` ignore
  what the parsers of their headers return, so a wrong IPv4 checksum or version
  and a TCP data offset below 5 pass. A frame padded to the minimum of Ethernet is
  dropped if it carries IPv4, because the lengths differ.
* After a reset with bytes left in the inbound stream, rule 3 writes to a socket
  that it shut down itself (`tcp_sponge_socket.cc:148`): the exception that
  `ThrowsOnlyIf` allows.
* The event loop polls a rule without interest for errors and hangups only
  (`eventloop.cc:86`). A descriptor that has hung up is reported at once each time,
  nothing is called or cancelled, and the loop spins until the rule is interested
  again: for example when the user's pipe ends while the outbound stream is full.
  `CopyEnds` shows that it gets out.
* When the socket hangs up, the copy cancels its rules and ends the outbound
  stream, while rule 1 may still read: these bytes are dropped, the exception that
  `NoByteDropped` makes.
* `connect` can return before the peer's SYN, when an acknowledgment of its own
  SYN overtakes it: the state is then no longer SYN_SENT.
* The capacity of the reassembler does not include its output
  (`stream_reassembler.hh:34`). The timer restarts when an acknowledgment repeats
  part of a segment (`tcp_sender.cc:170`). The remembered window changes before an
  impossible acknowledgment is ignored (`tcp_sender.cc:127`). A reply teaches both
  of its mappings (`network_interface.cc:79`, where `network_interface.hh:78` names
  only the sender's and `router.hh:60` only the target's).

## 5. Proofs

A theorem is listed in `PROJECT.json` with the property of a run that it states,
if there is one.
The run shows it on a small instance, with mutants that break it; the theorem holds
for all constants that satisfy the named assumptions of the module.

`StreamPumpProofs`, for every alphabet, capacity and bound: `StreamCorrect`, that
`IInv == TypeOK /\ Fifo /\ Accounting` is an invariant of `ByteStreamSpec` (it is
inductive: the order of the bytes needs the buffer's type, the counters need the
order), its three parts as `TypeCorrect`, `FifoCorrect`, `AccountingCorrect`, and
`PipeRefinement`, that a `ByteStream` implements `BytePipe`. The steps rest on what
`Prefix` and `Suffix` return (`PrefixProperties`, `SuffixProperties`,
`PrefixSuffix`) and on the fact that the delivered bytes are the front of the
accepted ones (`DeliveredPrefix`). Assumed: the capacity is a natural number.

`OperatorProofs` is about operators, and about the one specification that needs
little else.

* For every even modulus: `UnwrapInverts`, that `unwrap` undoes `wrap` within half
  a turn of the checkpoint, by cases on the turn, and `UnwrapClosest`, that the
  result wraps to the given number and neither neighbour is closer to the
  checkpoint, which is what `wrapping_integers.cc` says of it.
* For every 32-bit sum: `ChecksumAccepts`, that storing the checksum in a packet
  makes the receiver's sum zero. One round of carries takes a multiple of 65535 off
  the sum and leaves something of a positive one (`FoldCarryShrinks`), two rounds
  leave 16 bits (`TwoRoundsFold`); sum and complement add up to a positive multiple
  of 65535, of which 65535 is left. That `add` computes this sum for every packet
  is an induction over its bytes, which `wire` checks on its instances only.
* For every length and capacity, one lemma per method of the reassembler. A string
  is `SpeltAt` an index if it is the stream there; a map covers a set of indices.
  `MergeSpelt`: a merge covers the old indices and the new ones, with the right
  bytes and no filler. `TrimmedFits`: `fixCap` keeps the lowest indices, as many as
  fit. `ContiguousCovers`, `ContiguousRest`: `assem` takes an unbroken stretch and,
  if the map is tidy, leaves a gap. `PushSound` puts them together in the order of
  `push_substring`.

* Of `StreamReassemblerSpec`, for every length and capacity: `IntegrityCorrect`
  whatever is pushed, `CountedOnceCorrect` and `WritesContiguousCorrect` if
  `EmptyInside` is false; without that hypothesis both are false (see
  Findings for an example). The inductive invariant, `Assembling`, is
  `Sound` (every stored string is the stream at its index, the output and the
  assembled bytes are the stream up to `expectIdx`, the end index is unknown or the
  length, stored and assembled bytes fit) and, without such empty substrings, `Tidy`
  (the stored strings do not overlap and lie beyond a gap).

`TCPReceiverProofs`, for every stream, every even modulus, every capacity below
half of it and every initial number: `AckExactCorrect`, `DecodesCorrect`,
`StoresAtMostCapacityCorrect` and `NeverRenegesCorrect`. The invariant `RInv` says
that the receiver is new or `Running`: its reassembler is sound and tidy, nothing
that is assembled waits for room, no stored byte lies beyond the window, and
acknowledgment, state and FIN position are functions of what was written. That
nothing waits for room, and so that `fixCap` never runs off its map, comes from the cut
at the window's edge, which in turn needs the decoded position to be right, hence
`UnwrapInverts` and `MayArrive`.

`HostProofs`, for any set of hosts with distinct addresses, any traffic and
any two expiry times: `MappingsExactCorrect`,
`DeliveredOnceCorrect`, `NoneWaitsForKnownCorrect` and `RequestsSpacedCorrect`. The
inductive invariant `LanInv` has six parts, one of them `RequestsSpaced` itself. `Truthful`: caches and frames on the way say nothing false
(a cache is filled from frames, and frames from caches, so neither is inductive
alone). `Logged`: a request too recent to be repeated is in the log, so that every
earlier one is old when the next is noted. `Renewed`: a mapping expires
`MAPPING_EXPIRE_TIME_MS` after it was last told, and the clock is not there yet; if
there is none, that time is over or it was never told. `Origin`:
wherever a datagram is, its addresses are those it was sent with, so that two
frames with one datagram are equal. `OnePlace`: a datagram waits, or is on the way,
or was handed up. `Answers`, `Told` and `Sends` say what `recv_frame` and `send_datagram`
do to one interface; `BecomeEffect` carries that over to the LAN.

`InternetLemmas` and `InternetProofs`, for any hosts, routers, segments, tables and
traffic, and any number of datagrams: `CrossingsBoundedCorrect`, `OneCopyCorrect`
and `TakesAMatchCorrect`. Assumed (`InternetAssumption`): the ports of a node are
numbered from 1, no two share an address, a port is on one segment, and a table
names interfaces that the router has.

* The first two follow from the inductive invariant `NInv` (`InternetInvariant`),
  in four parts over the set `Copies` of all datagrams that are queued, that wait
  for an address, or that are on the way to the port they are meant for.
  `UniqueInv`: no two copies have one identity. `FitsInv`: what a copy has left to
  live, the crossings counted and the unit that a router took off a datagram that
  waits make up the first time to live; and wherever the tables lead it from here
  is where they led it from the start. The second half is what "no other host
  receives it" needs: `Fate` unfolds by one router at a time (`FateUnfolds`).
  `BoundInv`: the bound on the crossings, and that frames nobody will take have no
  more time left than the rest. `TypesInv`: the types; its `SoundNode` says of each
  interface that its cache is true, so that a frame goes to the one port that has
  the address, and that it queues and waits for typed datagrams only.
* `RecvEffect`, `SendEffect` and `RouteEffect` say which copies a step of a node
  takes away and which it makes; `RecvKeeps`, `SendKeeps` and `RouteKeeps` carry
  that over to the invariant. `route()` empties all queues and sends what was in
  them one after the other, so that a datagram that comes later can take the place
  of one that waits; `Routed` is the invariant of this loop.
* `TakesAMatchCorrect` first shows, under `Powers` (see `TCPSenderProofs`), that
  `matched_prefix_length` and the comparison of all leading bits, by which `Matching`
  says what a match is, are the same (`BitByBit`), then what the scan of the table leaves
  (`ChoiceMatches`).
* A loop of the code is a recursive function here. What it returns is shown
  without an induction theorem: were it wrong somewhere, there would be a first
  place, by the well-foundedness of the naturals (`LeastOfSet`).

`StreamPumpProofs`, for every capacity, bound of one write and room in the kernel,
and for any order in which the callbacks are called: `PumpIsPipe`, that one
direction of the copy is a byte pipe from descriptor to descriptor. The invariant
adds to `IInv` that no more is read than came, that the sink holds no more than
its room (so that a write moves a natural number of bytes), and that the end is
passed on only when the stream is at its end. Assumed: the bounds are positive and
the numbered bytes belong to the alphabet.

`StreamCopyProofs`, from the same assumptions and for any numbers of bytes:
`CopyIsTwoPipes`, `CopyStreamCorrect`, `NoByteDroppedCorrect` and
`CopyThrowsCorrect`. Each step of the event loop is a step of each pump or leaves
it alone (`OutboundStep`, `InboundStep`), whichever rules poll(2) reports; the
theorems about one pump then apply to both. The last two need to know of every
rule when it can be gone and what its callback finds (`CInv`): rules 1 and 3 go
only at the end of their source, rule 2 only when the socket has hung up, rule 4
only when the output is closed; a stream ends only when its source did or, the
outbound one, at a hangup, after which rule 1 reads no more; and a rule that is to
be called still has something to read or an end to notice.

`TCPSenderProofs`, for every stream, capacity, modulus, payload size, timeout and
sequence of acknowledgments, writes and ticks:

* `TimerCorrect`: the timer runs exactly while a segment is outstanding. The
  invariant is `TimerRuns` with the types of the sender; the work is that
  `ack_received` stops the timer in just the case in which the queue comes out
  empty. The first segment that an acknowledgment leaves there is a least number,
  from the well-foundedness of the naturals.
* `KeepsUnackedCorrect`, `WithinWindowCorrect`: the invariant `SInv` adds that the
  outstanding segments are a `Chain` (each carries its stretch of the stream and
  begins where the one before ends) from `acked_next` to `next_seqno`, that
  `next_seqno` follows from what was taken off the stream and which of SYN and FIN
  were sent, and that what is in flight and what may still be sent fit in one
  window together. The last part bounds the distance of a segment from
  `acked_next`, so that `unwrap` decodes it; this is why the widest window has to
  be below a quarter of the modulus, as 2^16 is below 2^30.
* `ResendsOldestCorrect`: a step that sends a position again is a timeout, and
  sends the oldest segment alone. `RetransmitsOldestCorrect` adds that the timeout
  doubles. It has the hypothesis `Powers`, the recurrence `2^0 = 1`, `2^(n+1) =
  2 * 2^n` by which `Naturals` defines the powers, because no prover here has a
  theory of `^`.

`HostProofs`, for any addresses, adapters, losses, lengths and any
connection that keeps `ConnectionContract`: `OnePeerCorrect`, `HandsOverCorrect`
and `ThrowsOnlyIfCorrect`. The first needs that a socket that still listens has
heard of nobody and sent nothing (`PeerInv`), and that an address is its host and
its port, since the adapters over IP compare these apart. The others need to know
which rules can be gone (`RulesInv`: rule 1 is never cancelled, rule 3 only if
nobody reads or the thread shut the socket down itself), that rule 2 is called only if there is
something to pass on, and that the contract lets no byte be taken back, together
in `HandInv`.

Only model-checked: liveness under fairness, which is beyond the provers at hand;
`LoopsAgree`, whose reference is recursive; the properties of two connections
(`pair`, `pair_live`), whose invariant has to speak of both ends and of all
segments on the network, and whose receivers also meet segments beyond their
window, for which the lemmas of `TCPReceiverProofs` do not hold (see Findings); and
`ArrivesIntact`, which is arithmetic over every byte of a packet.

## 6. Plan

1. Done: the modules, runs and proofs above. What `copy` and `internet` check
   includes what earlier runs of a single `ByteStream` and a single `Router` did;
   that a `ByteStream` keeps its order, counters and capacity, that it implements
   `BytePipe` with `set_error`, and that `unwrap` returns the closest number, are
   proved (`StreamCorrect`, `PipeRefinement`, `UnwrapClosest`) and no longer run.
2. Extend the model: a datagram that is parsed and serialized again by each router
   on its way; `Internet` with the clock of `EthernetLan`.
3. Prove more: `AcksAgree` of `TCPPair`, from the lemmas about receiver and sender (invariant:
   every segment on the network is a stretch of its sender's stream, and no
   acknowledgment on it is ahead of the receiver).

Not modelled, and why: sockets, addresses and TUN/TAP devices wrap system calls,
whose effect is in the modules of their users. Of `FileDescriptor`, duplicates,
blocking flags and read and write counters: nothing that is modelled asks for them.
Of `buffer.hh`, `BufferViewList`, which carries the rest of a partial `writev`
(`WriteCount` covers it), and `BufferList::remove_prefix`, which only a benchmark
calls. Logging and `to_string`
change no state. The command-line applications parse arguments and call the parts.
