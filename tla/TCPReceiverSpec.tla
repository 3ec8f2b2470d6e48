--------------------------- MODULE TCPReceiverSpec ---------------------------
(***************************************************************************)
(* A TCPReceiver whose peer sends one stream and keeps to the window it is *)
(* offered.  The network may lose, repeat and reorder the segments, so a   *)
(* segment that may arrive now is any piece of the stream that the peer    *)
(* could ever have sent and that the network may still hold: TCP relies on *)
(* a segment not outliving half a turn of the sequence numbers.            *)
(*                                                                         *)
(* Position 0 of the peer's sequence space is the SYN, positions 1 to      *)
(* Len(Stream) are the bytes, and the position after them is the FIN.      *)
(***************************************************************************)
EXTENDS TCPReceiver

CONSTANTS
  Length,           \* the number of bytes the peer sends
  Cap,              \* the capacity given to the constructor
  Isn               \* the peer's initial sequence number

ASSUME LengthAssumption == Length \in Nat
\* The widest window, 2^16 - 1, is far below N / 2 = 2^31.
ASSUME CapAssumption == Cap \in Nat \ {0} /\ Cap < N \div 2
ASSUME IsnAssumption == Isn \in Raw

\* Bytes are named by their place, so that one out of place is seen.
Byte == 1 .. Length

Stream == [i \in Byte |-> i]

VARIABLES
  rcv,         \* the TCPReceiver object
  delivered,   \* history: the bytes read from its output stream
  aborted      \* the process died in the reassembler's fixCap

vars == <<rcv, delivered, aborted>>

FinPosition == Len(Stream) + 1

\* The peer's segment for positions first .. last - 1.
PeerSegment(first, last) ==
  [EmptySegment EXCEPT
     !.seqno = wrap(first, Isn),
     !.syn = first = 0 /\ last > 0,
     !.fin = first <= FinPosition /\ last = FinPosition + 1,
     !.payload = SubSeq(Stream, IF first = 0 THEN 1 ELSE first,
                        Lesser(last - 1, Len(Stream)))]

\* The first position the peer may not use yet.  A window of zero is probed
\* with one position.
RightEdge ==
  rcv.ack_no_64 + (IF window_size(rcv) = 0 THEN 1 ELSE window_size(rcv))

\* The peer sends its SYN before it knows the window, with at most the bytes
\* that fit an empty receiver.
SynEdge == 1 + Cap

Init ==
  /\ rcv = NewTCPReceiver(Cap)
  /\ delivered = << >>
  /\ aborted = FALSE

\* Positions first .. last - 1 may arrive: no more than a window of them, none
\* beyond the right edge, the first less than half a turn behind.
MayArrive(first, last) ==
  /\ ~rcv.received_syn => first = 0
  /\ last <= IF first = 0 THEN SynEdge ELSE Lesser(RightEdge, first + Cap)
  /\ rcv.ack_no_64 - first < N \div 2

Receive(first, last) ==
  LET seg == PeerSegment(first, last) IN
  /\ ~aborted
  /\ MayArrive(first, last)
  /\ rcv' = receiver_segment_received(rcv, seg)
  /\ aborted' \in {FALSE, ReceiverRunsOff(rcv, seg)}
  /\ UNCHANGED delivered

Read(len) ==
  /\ ~aborted
  /\ len <= buffer_size(rcv.reassembler.output)
  /\ rcv' = [rcv EXCEPT !.reassembler.output = pop_output(@, len)]
  /\ delivered' = delivered \o peek_output(rcv.reassembler.output, len)
  /\ UNCHANGED aborted

Next ==
  \/ \E first \in 0 .. FinPosition, last \in 1 .. FinPosition + 1 :
       first < last /\ Receive(first, last)
  \/ \E len \in 1 .. Cap : Read(len)

Spec == Init /\ [][Next]_vars

RepeatEnd ==
  Lesser(IF rcv.received_syn THEN RightEdge ELSE SynEdge, FinPosition + 1)

\* The peer repeats the first positions that are not acknowledged, as far as
\* the window allows, and the application keeps reading.
Repeat ==
  /\ rcv.ack_no_64 <= FinPosition
  /\ Receive(rcv.ack_no_64, RepeatEnd)

RepeatHasEffect ==
  /\ ~aborted
  /\ rcv.ack_no_64 <= FinPosition
  /\ rcv # receiver_segment_received(rcv,
             PeerSegment(rcv.ack_no_64, RepeatEnd))

FairSpec ==
  /\ Spec
  /\ []<>(~RepeatHasEffect) \/ []<><<Repeat>>_vars
  /\ WF_vars(\E len \in 1 .. Cap : Read(len))

-----------------------------------------------------------------------------
reasm == rcv.reassembler

Written == delivered \o reasm.output.buf

\* The indices of the bytes stored out of order.
Covered ==
  {x \in 0 .. Len(Stream) - 1 :
     \E k \in DOMAIN reasm.unassemBuf :
       k <= x /\ x < EndOf(reasm.unassemBuf, k)}

\* The members have the types of tcp_receiver.hh, and no position is recorded
\* that the peer does not have.
TypeOK ==
  /\ reasm.output \in ByteStreams(Byte, Cap)
  /\ \A k \in DOMAIN reasm.unassemBuf : reasm.unassemBuf[k] \in Seq(Byte)
  /\ rcv.state \in {0, 1, 2}
  /\ rcv.isn \in Raw
  /\ rcv.ack_no_64 \in 0 .. FinPosition + 1
  /\ rcv.last_no \in 0 .. FinPosition + 1
  /\ rcv.received_syn \in BOOLEAN
  /\ rcv.received_fin \in BOOLEAN
  /\ delivered \in Seq(Byte)
  /\ aborted \in BOOLEAN

\* ackno() acknowledges exactly what the application will see: the SYN, the
\* bytes written to the output and, when the output is ended, the FIN.
AckExact ==
  rcv.received_syn =>
    rcv.ack_no_64 = 1 + Len(Written) + (IF reasm.output.is_end THEN 1 ELSE 0)

\* Every segment that may arrive, new or late, is decoded to the position the
\* peer gave its first number, however often the numbers have wrapped.
Decodes ==
  rcv.received_syn =>
    \A first \in 0 .. FinPosition, last \in 1 .. FinPosition + 1 :
      first < last /\ MayArrive(first, last) =>
        unwrap(wrap(first, Isn), rcv.isn, rcv.ack_no_64) = first

\* tcp_receiver.hh: "the maximum number of bytes that the receiver will store in
\* its buffers at any give time", the bytes the application has not read
\* included.  So a peer that keeps to the window never makes fixCap, in the
\* reassembler, run off its map.
StoresAtMostCapacity ==
  /\ buffer_size(reasm.output) + Len(reasm.assemBuf) + reasm.unassemSize <= Cap
  /\ ~aborted

\* The window keeps its promises: its right edge, once advertised, never moves
\* back, and a byte that was received in it is never thrown away again by
\* fixCap, so the peer need not send it twice.
NeverReneges ==
  [][/\ rcv.received_syn =>
          rcv'.ack_no_64 + window_size(rcv') >= rcv.ack_no_64 + window_size(rcv)
     /\ (Covered \cup 0 .. reasm.expectIdx - 1)
          \subseteq (Covered \cup 0 .. reasm.expectIdx - 1)']_vars

\* If the peer repeats what is not acknowledged and the application reads,
\* the whole stream and its end arrive.
EventuallyEof == <>(delivered = Stream /\ stream_eof(reasm.output))
=============================================================================
