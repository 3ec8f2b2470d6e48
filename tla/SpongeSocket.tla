---------------------------- MODULE SpongeSocket ----------------------------
(***************************************************************************)
(* libsponge/tcp_helpers/tcp_sponge_socket.{hh,cc}: the owner's thread and *)
(* the TCP thread, which share a pair of stream sockets and _abort.  The   *)
(* TCP thread runs an EventLoop of four rules; before it exists, connect() *)
(* or listen_and_accept() runs the same loop in the owner's thread.        *)
(* Owner and thread may act between any two callbacks.  Bytes are counted, *)
(* not told apart: every buffer on the way is a queue.                     *)
(***************************************************************************)
EXTENDS ConnectionContract, FdAdapter, EventLoop, FiniteSets

CONSTANTS
  InCap, OutCap,   \* capacities of the connection's streams
  PipeCap,         \* how much the socket pair holds in each direction
  Datagrams,       \* what may arrive: [from, to, parses, syn, rst]
  Adapters         \* the adapters as connect() or listen_and_accept() leave them

ASSUME CapacitiesAssumption == {InCap, OutCap, PipeCap} \subseteq Nat \ {0}

Address == STRING \X Nat

ASSUME AddressesAssumption ==
  /\ Adapters \subseteq [kind : {"udp", "ip"}, source : Address,
                         destination : Address, listen : BOOLEAN]
  /\ Datagrams \subseteq [from : Address, to : Address, parses : BOOLEAN,
                          syn : BOOLEAN, rst : BOOLEAN]

VARIABLES
  view,      \* the connection, as ConnectionContract describes it
  queued,    \* segments_out() is not empty
  adapter,   \* _datagram_adapter
  pair,      \* the socket pair: bytes under way and what was shut down
  loop,      \* the event loop's rules and place, and two flags of the socket
  owner,     \* "opening", "running", "waiting" or "destroying"
  peers      \* history: where the segments given to the connection came from

socketVars == <<view, queued, adapter, pair, loop, owner, peers>>

SocketInit ==
  /\ adapter \in Adapters
  /\ view = NewView(~adapter.listen)
  /\ queued = ~adapter.listen
  /\ pair = [to_tcp |-> 0, to_owner |-> 0, owner_shut_wr |-> FALSE,
             owner_shut_rd |-> FALSE, tcp_shut_wr |-> FALSE, eof |-> FALSE]
  /\ loop = [pc |-> "wait", rules |-> 1 .. 4, todo |-> {},
             inbound_shutdown |-> FALSE, outbound_shutdown |-> FALSE]
  /\ owner = "opening"
  /\ peers = {}

-----------------------------------------------------------------------------
SomeView == Views(InCap, OutCap)

Lesser(a, b) == IF a <= b THEN a ELSE b

inbound_eof(v) == v.in = 0 /\ v.in_ended

\* Mutant: the stream is over as soon as its end is known.
InboundOver_early(v) == v.in_ended \/ v.error

\* Nothing more will be read from the inbound stream.
InboundOver(v) == inbound_eof(v) \/ v.error

\* Mutant: the end of the stream is passed on again and again.
WantsInbound_again(v, flags) == v.in > 0 \/ InboundOver(v)

\* The interest of rule 3.
WantsInbound(v, flags) ==
  v.in > 0 \/ (InboundOver(v) /\ ~flags.inbound_shutdown)

\* The interest of rule 2.
WantsOutbound(v, flags) ==
  v.active /\ ~flags.outbound_shutdown /\ v.out < OutCap

\* The rules interested in a connection v with or without segments to send.
Interested(v, has_segments, flags) ==
  {r \in 1 .. 4 :
     \/ r = 1 /\ v.active
     \/ r = 2 /\ WantsOutbound(v, flags)
     \/ r = 3 /\ WantsInbound(v, flags)
     \/ r = 4 /\ has_segments}

\* The connection becomes v, and a call may have queued segments.
Becomes(v, sends) ==
  /\ sends => MaySend(v)
  /\ view' = v
  /\ queued' = (queued \/ sends)

\* poll(2) on the adapter (rules 1 and 4), which can always be written, and on
\* _thread_data (rules 2 and 3).
Ready(arrived) ==
  {r \in 1 .. 4 :
     \/ r = 1 /\ arrived
     \/ r = 2 /\ (pair.to_tcp > 0 \/ pair.owner_shut_wr)
     \/ r = 3 /\ pair.to_owner < PipeCap
     \/ r = 4}

HungUp ==
  IF pair.owner_shut_wr /\ (pair.owner_shut_rd \/ pair.tcp_shut_wr)
  THEN {2, 3} ELSE {}

\* Writing to a socket that was shut down fails.
BrokenPipe == pair.tcp_shut_wr \/ pair.owner_shut_rd

\* The end of _tcp_loop: connect() starts the thread, and the thread ends.
Leave(flags) ==
  IF owner = "opening"
  THEN /\ owner' = "running"
       /\ loop' = [flags EXCEPT !.pc = "wait"]
       /\ UNCHANGED pair
  ELSE /\ loop' = [flags EXCEPT !.pc = "done"]
       /\ pair' = [pair EXCEPT !.owner_shut_wr = TRUE, !.owner_shut_rd = TRUE]
       /\ UNCHANGED owner

\* The callbacks to call after poll(2); a rule that hung up is cancelled.
Trigger(flags, polled, ready) ==
  LET todo == Triggered(polled, ready) IN
  loop' = [flags EXCEPT !.rules = @ \ Defunct(polled, ready, HungUp),
                        !.todo = todo,
                        !.pc = IF todo = {} THEN "tick" ELSE "serve"]

Serves(rule) == loop.pc = "serve" /\ First(loop.todo) = rule

\* A callback is done; an exception, like the signal of a broken pipe, ends the
\* process.
Finished(flags, threw) ==
  LET todo == loop.todo \ {First(loop.todo)} IN
  loop' = [flags EXCEPT !.todo = todo,
                        !.pc = IF threw THEN "threw"
                               ELSE IF todo = {} THEN "tick" ELSE "serve"]

-----------------------------------------------------------------------------
\* wait_next_event() up to the callbacks.  At the end of its input rule 2 is
\* cancelled, which ends the outbound stream once more.
Wait ==
  LET at_eof  == IF pair.eof THEN {2} ELSE {}
      cancels == 2 \in loop.rules \cap at_eof
      flags   == [loop EXCEPT !.rules = NotAtEof(@, at_eof),
                              !.outbound_shutdown = @ \/ cancels]
  IN  /\ loop.pc = "wait"
      /\ \E v \in SomeView, sends \in BOOLEAN :
           LET polled == Polled(flags.rules, Interested(v, queued \/ sends, flags))
           IN  /\ IF cancels THEN AfterEndInput(view, v) ELSE v = view /\ ~sends
               /\ Becomes(v, sends)
               /\ \/ polled = {} /\ Leave(flags)
                  \/ /\ polled # {}
                     /\ \E arrived \in BOOLEAN : Trigger(flags, polled, Ready(arrived))
                     /\ UNCHANGED <<pair, owner>>
      /\ UNCHANGED <<adapter, peers>>

\* Rule 1: a segment that the adapter lets through goes to the connection.  A
\* lossy adapter may drop it, but the peer has been taken by then.
ReceiveSegment ==
  /\ Serves(1)
  /\ \E d \in Datagrams, dropped \in should_drop :
       LET accepted == adapter_accepts(adapter, d) IN
       /\ adapter' = IF accepted THEN TakePeer(adapter, d) ELSE adapter
       /\ IF accepted /\ ~dropped
          THEN /\ peers' = peers \cup {d.from}
               /\ \E v \in SomeView, sends \in BOOLEAN :
                    /\ IF d.rst THEN v = ResetView(view) /\ ~sends
                       ELSE AfterSegment(view, v)
                    /\ Becomes(v, sends)
          ELSE UNCHANGED <<peers, view, queued>>
  /\ Finished(loop, FALSE)
  /\ UNCHANGED <<pair, owner>>

\* Rule 2: the connection takes what the owner wrote, or learns of its end.
SendOutbound ==
  LET n     == Lesser(pair.to_tcp, OutCap - view.out)
      ended == pair.to_tcp = 0
      flags == [loop EXCEPT !.outbound_shutdown = ended]
      short == n > 0 /\ view.out_ended
  IN  /\ Serves(2)
      /\ \E v \in SomeView, sends \in BOOLEAN :
           /\ IF ended THEN AfterEndInput(view, v)
              ELSE IF short THEN v = view /\ ~sends
              ELSE AfterWrite(view, n, v)
           /\ Becomes(v, sends)
      /\ pair' = [pair EXCEPT !.to_tcp = @ - n, !.eof = ended]
      /\ Finished(flags, short)
      /\ UNCHANGED <<adapter, owner, peers>>

\* Rule 3: bytes go to the owner as far as the socket pair takes them, and the
\* end or the failure of the stream is passed on.
DeliverInbound ==
  LET n     == Lesser(view.in, PipeCap - pair.to_owner)
      after == [view EXCEPT !.in = @ - n]
      over  == InboundOver(after)
      threw == view.in > 0 /\ BrokenPipe
  IN  /\ Serves(3)
      /\ IF threw THEN /\ Finished(loop, TRUE)
                       /\ UNCHANGED <<view, pair>>
         ELSE /\ view' = after
              /\ pair' = [pair EXCEPT !.to_owner = @ + n,
                                      !.tcp_shut_wr = @ \/ over]
              /\ Finished([loop EXCEPT !.inbound_shutdown = @ \/ over], FALSE)
      /\ UNCHANGED <<queued, adapter, owner, peers>>

\* Rule 4: all segments leave.  Those that a lossy adapter drops, or that wait for
\* an Ethernet address, do not use the descriptor, but nothing is left to be
\* interested in.
SendSegments ==
  /\ Serves(4)
  /\ queued' = FALSE
  /\ \E used \in BOOLEAN :
       Finished(loop, BusyWait(used, 4 \in Interested(view, queued', loop)))
  /\ UNCHANGED <<view, adapter, pair, owner, peers>>

-----------------------------------------------------------------------------
\* The rest of the loop's body, and its condition: an abort ends it, else time
\* passes for an active connection.
LoopTick ==
  /\ loop.pc = "tick"
  /\ IF owner = "destroying"
     THEN Leave(loop) /\ UNCHANGED <<view, queued>>
     ELSE /\ \E v \in SomeView, sends \in BOOLEAN :
               /\ IF view.active THEN AfterTick(view, v) ELSE v = view /\ ~sends
               /\ Becomes(v, sends)
               /\ owner' = IF owner = "opening" /\ ~v.opening THEN "running" ELSE owner
          /\ loop' = [loop EXCEPT !.pc = "wait"]
          /\ UNCHANGED pair
  /\ UNCHANGED <<adapter, peers>>

\* The owner uses the socket, as it may until it waits for the end or destroys it.
OwnerWrite ==
  /\ owner = "running"
  /\ ~pair.owner_shut_wr
  /\ pair.to_tcp < PipeCap
  /\ pair' = [pair EXCEPT !.to_tcp = @ + 1]
  /\ UNCHANGED <<view, queued, adapter, loop, owner, peers>>

OwnerRead ==
  /\ owner = "running"
  /\ pair.to_owner > 0
  /\ pair' = [pair EXCEPT !.to_owner = @ - 1]
  /\ UNCHANGED <<view, queued, adapter, loop, owner, peers>>

OwnerShutdown ==
  /\ owner = "running"
  /\ ~pair.owner_shut_wr
  /\ pair' = [pair EXCEPT !.owner_shut_wr = TRUE]
  /\ UNCHANGED <<view, queued, adapter, loop, owner, peers>>

\* wait_until_closed(): shut down both directions and join the thread.
WaitUntilClosed ==
  /\ owner = "running"
  /\ owner' = "waiting"
  /\ pair' = [pair EXCEPT !.owner_shut_wr = TRUE, !.owner_shut_rd = TRUE]
  /\ UNCHANGED <<view, queued, adapter, loop, peers>>

\* The destructor: set _abort and join the thread.
Destroy ==
  /\ owner = "running"
  /\ owner' = "destroying"
  /\ UNCHANGED <<view, queued, adapter, pair, loop, peers>>

LoopStep ==
  \/ Wait \/ ReceiveSegment \/ SendOutbound \/ DeliverInbound \/ SendSegments
  \/ LoopTick

SocketNext ==
  \/ LoopStep
  \/ OwnerWrite \/ OwnerRead \/ OwnerShutdown \/ WaitUntilClosed \/ Destroy

SocketSpec == SocketInit /\ [][SocketNext]_socketVars

\* The thread runs, and an owner that has neither left nor lost interest reads.
FairSocketSpec ==
  /\ SocketSpec
  /\ []<>(loop.pc \in {"done", "threw"}) \/ []<><<LoopStep>>_socketVars
  /\ []<>(owner # "running" \/ pair.to_owner = 0) \/ []<><<OwnerRead>>_socketVars

-----------------------------------------------------------------------------
\* The segments of one peer only reach the connection, the one its own segments
\* are addressed to, whoever else sends datagrams to the adapter before and after.
OnePeer == peers \subseteq {adapter.destination} /\ (adapter.listen => ~queued)

\* Without an error, the owner sees the end of the stream only after all of it
\* was handed over, and the connection ends its own stream only after all the
\* owner wrote, through partial reads and writes and cancelled rules.
HandsOver ==
  /\ pair.tcp_shut_wr => view.error \/ inbound_eof(view)
  /\ view.out_ended => pair.owner_shut_wr /\ pair.to_tcp = 0
  /\ loop.pc = "done" /\ owner = "running" => view.error \/ inbound_eof(view)

\* The process dies of an exception in the loop only if the connection was reset
\* with bytes left to hand over, or if the owner waits before the end came.
ThrowsOnlyIf ==
  loop.pc = "threw" =>
    view.in > 0 /\ (view.error \/ owner = "waiting")

\* When the connection is over, or the owner destroys the socket, the thread ends.
ThreadEnds ==
  (~view.active \/ owner = "destroying") ~> (loop.pc \in {"done", "threw"})
=============================================================================
