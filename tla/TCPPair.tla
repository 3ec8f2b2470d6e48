------------------------------- MODULE TCPPair -------------------------------
(***************************************************************************)
(* Two TCPConnections and the network between them.  Each application      *)
(* writes its stream, closes, and reads what the other one wrote.  The     *)
(* owner of a connection (TCPSpongeSocket) stops serving it when active()  *)
(* is false; what still arrives then is lost.                              *)
(***************************************************************************)
EXTENDS TCPState, ConnectionContract

CONSTANTS
  Byte, A, B,
  StreamOf,      \* [{A, B} -> Seq(Byte)]: what each application writes
  IsnOf,         \* [{A, B} -> Raw]
  Openings,      \* the sets of ends that may call connect(); the others listen
  Cap,           \* the capacity of the outbound streams
  RecvCap,       \* [{A, B} -> Nat]: that of the inbound ones
  Rto,           \* the initial retransmission timeout, in ticks
  Reorder,       \* segments may overtake each other
  Prompt,        \* the clocks advance together, and only when nothing is on the way
  MaxNet,        \* bound: segments on the way in one direction
  MaxLoss,       \* bound: segments lost by the network
  MaxDup,        \* bound: segments duplicated by the network
  MaxAbort,      \* bound: connections destroyed while they are active
  MaxFaults      \* bound: these three together

End == {A, B}

Peer(e) == IF e = A THEN B ELSE A

ASSUME EndsAssumption == A # B /\ Openings \subseteq SUBSET End
ASSUME StreamsAssumption == StreamOf \in [End -> Seq(Byte)]
ASSUME IsnsAssumption == IsnOf \in [End -> Raw]
ASSUME SizesAssumption ==
  /\ Cap \in Nat \ {0} /\ Rto \in Nat \ {0}
  /\ RecvCap \in [End -> Nat \ {0}]
ASSUME NetworkAssumption ==
  /\ Reorder \in BOOLEAN /\ Prompt \in BOOLEAN
  /\ {MaxNet, MaxLoss, MaxDup, MaxAbort, MaxFaults} \subseteq Nat

VARIABLES
  openers,     \* the ends that call connect()
  conn,        \* the two TCPConnection objects, their queues drained
  net,         \* net[e]: the segments on the way to e, oldest first
  written,     \* written[e]: how many bytes of its stream e's connection took
  delivered,   \* delivered[e]: the bytes e's application has read
  faults       \* how many segments were lost and duplicated, and aborts

vars == <<openers, conn, net, written, delivered, faults>>

Init ==
  /\ openers \in Openings
  /\ conn = [e \in End |-> NewTCPConnection(RecvCap[e], Cap, Rto, IsnOf[e])]
  /\ net = [e \in End |-> << >>]
  /\ written = [e \in End |-> 0]
  /\ delivered = [e \in End |-> << >>]
  /\ faults = [loss |-> 0, dup |-> 0, abort |-> 0]

-----------------------------------------------------------------------------
Sender(e) == conn[e].sender

Receiver(e) == conn[e].receiver

Outbound(e) == conn[e].sender.stream

Inbound(e) == conn[e].receiver.reassembler.output

\* c with the segments it has queued taken away, and its idle time cut off at
\* the linger time, the only value it is compared with.
Drained(c) ==
  [c EXCEPT !.segments_out = << >>,
            !.newest_seg_time = Lesser(@, LingerFactor * Rto)]

\* Connection e becomes c, and what c has queued joins the other segments on
\* the way, on the network n.
Become(e, c, n) ==
  /\ conn' = [conn EXCEPT ![e] = Drained(c)]
  /\ net' = [n EXCEPT ![Peer(e)] = @ \o c.segments_out]
  /\ Len(net'[Peer(e)]) <= MaxNet

FaultsLeft == faults.loss + faults.dup + faults.abort < MaxFaults

Without(s, i) == SubSeq(s, 1, i - 1) \o SubSeq(s, i + 1, Len(s))

-----------------------------------------------------------------------------
Open(e) ==
  /\ e \in openers
  /\ active(conn[e])
  /\ ~conn[e].sender.syn_sent
  /\ Become(e, connect(conn[e]), net)
  /\ UNCHANGED <<openers, written, delivered, faults>>

\* The connection exists, and its owner serves it.
Served(e) == active(conn[e]) /\ (e \in openers => conn[e].sender.syn_sent)

\* connect() loops while the state is SYN_SENT, and listen_and_accept() until
\* the handshake is over: only then can the application write.
Opening(e) ==
  InState(conn[e], IF e \in openers THEN {"SYN_SENT"}
                   ELSE {"LISTEN", "SYN_RCVD", "SYN_SENT"})

Established(e) == Served(e) /\ ~Opening(e)

Write(e, n) ==
  LET data == SubSeq(StreamOf[e], written[e] + 1, written[e] + n) IN
  /\ Established(e)
  /\ written[e] + n <= Len(StreamOf[e])
  /\ n <= remaining_capacity(Outbound(e))
  /\ Become(e, conn_write(conn[e], data), net)
  /\ written' = [written EXCEPT ![e] = @ + n]
  /\ UNCHANGED <<openers, delivered, faults>>

Close(e) ==
  /\ Established(e)
  /\ written[e] = Len(StreamOf[e])
  /\ remaining_capacity(Outbound(e)) > 0
  /\ ~input_ended(Outbound(e))
  /\ Become(e, end_input_stream(conn[e]), net)
  /\ UNCHANGED <<openers, written, delivered, faults>>

\* The application reads, also after the connection is over.
Read(e, n) ==
  /\ n <= buffer_size(Inbound(e))
  /\ conn' = [conn EXCEPT ![e].receiver.reassembler.output = pop_output(@, n)]
  /\ delivered' = [delivered EXCEPT ![e] = @ \o peek_output(Inbound(e), n)]
  /\ UNCHANGED <<openers, net, written, faults>>

\* The i-th segment on the way to e arrives, and may arrive again.
Deliver(e, i, again) ==
  /\ Served(e)
  /\ i \in 1 .. Len(net[e])
  /\ Reorder \/ i = 1
  /\ again => faults.dup < MaxDup /\ FaultsLeft
  /\ Become(e, conn_segment_received(conn[e], net[e][i]),
            IF again THEN net ELSE [net EXCEPT ![e] = Without(@, i)])
  /\ faults' = IF again THEN [faults EXCEPT !.dup = @ + 1] ELSE faults
  /\ UNCHANGED <<openers, written, delivered>>

\* A segment is lost by the network, or finds nobody at its destination.
Lose(e, i) ==
  /\ i \in 1 .. Len(net[e])
  /\ active(conn[e]) => faults.loss < MaxLoss /\ FaultsLeft
  /\ net' = [net EXCEPT ![e] = Without(@, i)]
  /\ faults' = IF active(conn[e]) THEN [faults EXCEPT !.loss = @ + 1] ELSE faults
  /\ UNCHANGED <<openers, conn, written, delivered>>

\* Time passes at one end: nothing relates the two clocks and the network.
Tick(e) ==
  /\ ~Prompt
  /\ Served(e)
  /\ Become(e, conn_tick(conn[e], 1), net)
  /\ UNCHANGED <<openers, written, delivered, faults>>

\* Time passes at both ends; opening, and a segment's way, take less than a tick.
TickBoth ==
  LET ticked == [e \in End |-> IF Served(e) THEN conn_tick(conn[e], 1)
                               ELSE conn[e]]
  IN  /\ Prompt
      /\ \A e \in End : active(conn[e]) => Served(e) /\ net[e] = << >>
      /\ \E e \in End : Served(e)
      /\ conn' = [e \in End |-> Drained(ticked[e])]
      /\ net' = [e \in End |-> net[e] \o ticked[Peer(e)].segments_out]
      /\ UNCHANGED <<openers, written, delivered, faults>>

\* The owner destroys a connection that is still active.  The segment that the
\* destructor queues goes with the queue.
Abort(e) ==
  /\ active(conn[e])
  /\ faults.abort < MaxAbort /\ FaultsLeft
  /\ conn' = [conn EXCEPT ![e] = Drained(conn_destroy(@))]
  /\ faults' = [faults EXCEPT !.abort = @ + 1]
  /\ UNCHANGED <<openers, net, written, delivered>>

Next ==
  \/ \E e \in End : Open(e) \/ Close(e) \/ Tick(e) \/ Abort(e)
  \/ \E e \in End, n \in 1 .. Cap : Write(e, n)
  \/ \E e \in End : \E n \in 1 .. RecvCap[e] : Read(e, n)
  \/ \E e \in End, i \in 1 .. MaxNet, again \in BOOLEAN : Deliver(e, i, again)
  \/ \E e \in End, i \in 1 .. MaxNet : Lose(e, i)
  \/ TickBoth

Spec == Init /\ [][Next]_vars

\* The applications write, close and read, the network delivers what it does
\* not lose, and time passes: weak fairness of each, with the enabling
\* conditions written out.
Fairness(e) ==
  /\ []<>(e \notin openers \/ Sender(e).syn_sent) \/ []<><<Open(e)>>_vars
  /\ \/ []<>(\/ ~Established(e)
             \/ written[e] = Len(StreamOf[e])
             \/ remaining_capacity(Outbound(e)) = 0)
     \/ []<><<\E n \in 1 .. Cap : Write(e, n)>>_vars
  /\ \/ []<>(\/ ~Established(e)
             \/ written[e] < Len(StreamOf[e])
             \/ remaining_capacity(Outbound(e)) = 0
             \/ input_ended(Outbound(e)))
     \/ []<><<Close(e)>>_vars
  /\ \/ []<>(Inbound(e).buf = << >>)
     \/ []<><<\E n \in 1 .. RecvCap[e] : Read(e, n)>>_vars
  /\ \/ []<>(net[e] = << >> \/ ~Served(e))
     \/ []<><<\E i \in 1 .. MaxNet : Deliver(e, i, FALSE)>>_vars

FairSpec ==
  /\ Spec
  /\ Fairness(A) /\ Fairness(B)
  /\ \/ []<>(\/ \E e \in End : active(conn[e]) /\ (Served(e) => net[e] # << >>)
             \/ \A e \in End : ~active(conn[e]))
     \/ []<><<TickBoth>>_vars
-----------------------------------------------------------------------------
\* e ended without an error.
Clean(e) == ~active(conn[e]) /\ ~conn[e].rst

Received(e) == delivered[e] \o Inbound(e).buf

\* An inbound stream that has ended holds the whole stream of the peer: "the
\* last byte of `data` will be the last byte in the entire stream".
EndIsHonest ==
  \A e \in End : input_ended(Inbound(e)) =>
    Received(e) = StreamOf[Peer(e)] /\ input_ended(Outbound(Peer(e)))

\* Each direction is a BytePipe between the two applications.
PipeAB ==
  INSTANCE BytePipe WITH
    accepted  <- SubSeq(StreamOf[A], 1, written[A]),
    delivered <- delivered[B],
    closed    <- input_ended(Outbound(A)),
    ended     <- stream_eof(Inbound(B))

PipeBA ==
  INSTANCE BytePipe WITH
    accepted  <- SubSeq(StreamOf[B], 1, written[B]),
    delivered <- delivered[A],
    closed    <- input_ended(Outbound(B)),
    ended     <- stream_eof(Inbound(A))

\* The two connections and the network between them implement both pipes: each
\* application reads what the other one wrote, in order and once, and the end of
\* file comes after all of it, and stands.
ImplementsPipes == PipeAB!Spec /\ PipeBA!Spec

\* A sender takes for acknowledged only what the other end has received, and a
\* receiver acknowledges only what the other end has sent.
AcksAgree ==
  \A e \in End :
    /\ Sender(e).acked_next <= Receiver(Peer(e)).ack_no_64
    /\ Receiver(Peer(e)).ack_no_64 <= Sender(e).next_seqno

\* A connection that ends cleanly has done its work: the other end holds its
\* whole stream and knows its end, and it holds the whole stream of the other.
CleanMeansDelivered ==
  \A e \in End : Clean(e) =>
    /\ Receiver(Peer(e)).ack_no_64 = Len(StreamOf[e]) + 2
    /\ Receiver(e).ack_no_64 = Len(StreamOf[Peer(e)]) + 2

\* The ends never both take themselves for the passive closer, so one of them
\* stays to repeat the last acknowledgment.
OneLingers ==
  ~(conn[A].first_receive_fin /\ conn[B].first_receive_fin)

\* How far a stream has come, in the order of the TCP state diagram.
SenderRank ==
  [CLOSED |-> 0, SYN_SENT |-> 1, SYN_ACKED |-> 2, FIN_SENT |-> 3,
   FIN_ACKED |-> 4, ERROR |-> 5]

ReceiverRank == [LISTEN |-> 0, SYN_RECV |-> 1, FIN_RECV |-> 2, ERROR |-> 3]

\* The state of a connection only advances.
StateAdvances ==
  [][\A e \in End :
       LET old == state(conn[e])
           new == state(conn[e])'
       IN  /\ SenderRank[old.sender] <= SenderRank[new.sender]
           /\ ReceiverRank[old.receiver] <= ReceiverRank[new.receiver]
           /\ new.active => old.active
           /\ new.linger => old.linger]_vars

\* What the owner of connection e sees of it.
View(e) ==
  [in |-> buffer_size(Inbound(e)), in_ended |-> input_ended(Inbound(e)),
   out |-> buffer_size(Outbound(e)), out_ended |-> input_ended(Outbound(e)),
   error |-> Inbound(e).error /\ Outbound(e).error,
   active |-> active(conn[e]), opening |-> Opening(e),
   started |-> Sender(e).next_seqno > 0]

\* Each call does to what the owner of a connection sees only what
\* ConnectionContract says of that call, whatever the other end and the network do:
\* a connection that listens sends nothing until it is called, and one that is
\* reset sends nothing more.
KeepsContract ==
  [][\A e \in End : Served(e) =>
       LET silent == Len(net'[Peer(e)]) <= Len(net[Peer(e)])
       IN  /\ silent \/ MaySend(View(e)')
           /\ conn'[e] # conn[e] =>
                \E a \in {View(e)}, b \in {View(e)'} :
                  \/ (\E n \in 1 .. a.in : Read(e, n)) /\ AfterRead(a, b)
                  \/ \E n \in 1 .. Cap : Write(e, n) /\ AfterWrite(a, n, b)
                  \/ Close(e) /\ AfterEndInput(a, b)
                  \/ Abort(e) /\ b = ResetView(a) /\ silent
                  \/ (Tick(e) \/ TickBoth) /\ AfterTick(a, b)
                  \/ \E i \in 1 .. MaxNet, again \in BOOLEAN :
                       /\ Deliver(e, i, again)
                       /\ IF net[e][i].rst THEN b = ResetView(a) /\ silent
                          ELSE AfterSegment(a, b)]_vars

=============================================================================
