----------------------------- MODULE TCPReceiver -----------------------------
(***************************************************************************)
(* libsponge/tcp_receiver.{hh,cc}.  The object is a record of its members; *)
(* _window_size is never used after construction and is left out.          *)
(* segment_received is the composition of its four blocks, in the order in *)
(* which the code runs them.                                               *)
(***************************************************************************)
EXTENDS StreamReassembler, WrappingIntegers, TCPSegment

NewTCPReceiver(capacity) ==
  [reassembler |-> NewStreamReassembler(capacity), capacity |-> capacity,
   state |-> 0, isn |-> 0, ack_no_64 |-> 0, last_no |-> 0,
   received_syn |-> FALSE, received_fin |-> FALSE]

window_size(r) == r.capacity - bytes_not_read(r.reassembler.output)

\* ackno(): empty, here modelled by NoAckno, until a SYN has been received.
NoAckno == -1

ackno(r) == IF r.received_syn THEN wrap(r.ack_no_64, r.isn) ELSE NoAckno

-----------------------------------------------------------------------------
\* The first SYN sets the initial sequence number.
ReceiveSyn(r, seg) ==
  IF ~r.received_syn /\ seg.syn
  THEN [r EXCEPT !.isn = seg.seqno,
                 !.ack_no_64 = unwrap(seg.seqno, seg.seqno, 0) + 1,
                 !.state = 1,
                 !.received_syn = TRUE]
  ELSE r

\* Mutant: the payload is not cut.
CutData_never(r, seg) == seg.payload

\* The payload, cut at the right edge of the window.  The length that is kept
\* counts the SYN and the FIN; when the segment starts beyond the edge the
\* subtraction wraps around and substr() keeps everything.
CutData(r, seg) ==
  LET abs_seq     == unwrap(seg.seqno, r.isn, r.ack_no_64)
      len         == length_in_sequence_space(seg)
      right_bound == r.ack_no_64 + window_size(r)
      room        == right_bound - abs_seq
  IN  IF abs_seq + len > right_bound /\ room >= 0
      THEN Prefix(seg.payload, Lesser(room, Len(seg.payload)))
      ELSE seg.payload

\* Mutant: the payload is taken for the next bytes of the stream.
DataIndex_next(r, seg) == r.ack_no_64 - 1

\* The stream index at which the payload is pushed.
DataIndex(r, seg) ==
  IF seg.syn THEN 0 ELSE unwrap(seg.seqno, r.isn, r.ack_no_64) - 1

HasDataToPush(r, seg) == r.state \in {1, 2} /\ seg.payload # << >>

\* Mutant: the acknowledgment counts the bytes received and not those that the
\* reassembler could write.
ReceiveData_acks_all(r, seg) ==
  LET pushed == push_substring(r.reassembler, CutData(r, seg),
                               DataIndex(r, seg), seg.fin)
  IN  IF HasDataToPush(r, seg)
      THEN [r EXCEPT !.reassembler = pushed,
                     !.ack_no_64 = @ + Len(CutData(r, seg))]
      ELSE r

\* Data goes to the reassembler; the acknowledgment advances by what the
\* reassembler could write to its output.
ReceiveData(r, seg) ==
  LET pushed == push_substring(r.reassembler, CutData(r, seg),
                               DataIndex(r, seg), seg.fin)
  IN  IF HasDataToPush(r, seg)
      THEN [r EXCEPT !.reassembler = pushed,
                     !.ack_no_64 = @ + pushed.output.total_bytes_written
                                     - r.reassembler.output.total_bytes_written]
      ELSE r

\* A FIN is recorded whenever it arrives, even before the SYN.
ReceiveFin(r, seg) ==
  IF seg.fin
  THEN [r EXCEPT !.state = 2,
                 !.last_no = unwrap(seg.seqno, r.isn, r.ack_no_64)
                               + length_in_sequence_space(seg),
                 !.received_fin = TRUE]
  ELSE r

\* Mutant: the FIN's own position is not counted when it is compared.
AcknowledgeFin_off_by_one(r) ==
  IF r.received_fin /\ r.ack_no_64 = r.last_no
  THEN [r EXCEPT !.reassembler.output = end_input(@)]
  ELSE r

\* The FIN is acknowledged, and the output ended, once everything before it is.
AcknowledgeFin(r) ==
  LET reached == r.received_fin /\ r.ack_no_64 + 1 = r.last_no
      ack     == IF reached THEN r.last_no ELSE r.ack_no_64
      ended   == r.received_fin /\ ack = r.last_no
  IN  [r EXCEPT !.ack_no_64 = ack,
                !.reassembler.output = IF ended THEN end_input(@) ELSE @]

receiver_segment_received(r, seg) ==
  AcknowledgeFin(ReceiveFin(ReceiveData(ReceiveSyn(r, seg), seg), seg))

\* fixCap runs off the front of the reassembler's map while seg is handled.
ReceiverRunsOff(r, seg) ==
  LET s == ReceiveSyn(r, seg)
  IN  /\ HasDataToPush(s, seg)
      /\ FixCapRunsOff(BeforeFixCap(s.reassembler, CutData(s, seg),
                                    DataIndex(s, seg), seg.fin))
=============================================================================
