---------------------------- MODULE TCPConnection ----------------------------
(***************************************************************************)
(* libsponge/tcp_connection.{hh,cc}: one endpoint, a TCPReceiver and a     *)
(* TCPSender with the rules for closing.  _fin_acked is never used and is  *)
(* left out.  Methods whose names the parts use too are prefixed conn_.    *)
(***************************************************************************)
EXTENDS TCPReceiver, TCPSender

CONSTANTS
  MAX_RETX_ATTEMPTS,   \* TCPConfig::MAX_RETX_ATTEMPTS, 8 in the code
  LingerFactor,        \* the connection lingers LingerFactor * rt_timeout: 10
  WinModulus           \* header.win is a uint16_t: 2^16

ASSUME ConnectionAssumption ==
  /\ MAX_RETX_ATTEMPTS \in Nat \ {0}
  /\ LingerFactor \in Nat \ {0}
  /\ WinModulus \in Nat \ {0}

NewTCPConnection(recv_capacity, send_capacity, rt_timeout, isn) ==
  [receiver |-> NewTCPReceiver(recv_capacity),
   sender |-> NewTCPSender(send_capacity, rt_timeout, isn),
   segments_out |-> << >>, rt_timeout |-> rt_timeout,
   linger_after_streams_finish |-> TRUE, lingering |-> FALSE,
   newest_seg_time |-> 0, first_send_fin |-> FALSE,
   first_receive_fin |-> FALSE, self_fin_seqno |-> 0, self_fin_acked |-> FALSE,
   peer_fin_seqno |-> 0, peer_fin_acking |-> FALSE, rst |-> FALSE]

\* Mutant: the peer's stream is taken for finished when ours is.
active_own_fin_only(c) == ~(c.self_fin_acked /\ ~c.lingering) /\ ~c.rst

active(c) ==
  /\ ~(c.self_fin_acked /\ c.peer_fin_acking /\ ~c.lingering)
  /\ ~c.rst

unwrap_in_connection_sender(c, number) ==
  unwrap(number, c.sender.isn, c.sender.next_seqno)

unwrap_in_connection_receiver(c, number) ==
  unwrap(number, c.receiver.isn, c.receiver.ack_no_64)

-----------------------------------------------------------------------------
\* _check_linger: both streams are over; linger, or end them at once.
check_linger(c) ==
  IF ~(c.self_fin_acked /\ c.peer_fin_acking) THEN c
  ELSE IF c.linger_after_streams_finish THEN [c EXCEPT !.lingering = TRUE]
  ELSE [c EXCEPT !.sender.stream = end_input(@),
                 !.receiver.reassembler.output = end_input(@)]

fill_seg_fields(c, seg) ==
  [seg EXCEPT !.win = window_size(c.receiver) % WinModulus,
              !.ack = c.receiver.received_syn,
              !.ackno = IF c.receiver.received_syn THEN ackno(c.receiver) ELSE @]

\* Mutant: the side that closes first does not remember it.
NoteOwnFin_forgets(c, seg) ==
  IF ~seg.fin THEN c
  ELSE [c EXCEPT !.self_fin_seqno = unwrap_in_connection_sender(c, seg.seqno)
                                      + length_in_sequence_space(seg)]

\* check_send_fin, its first part: our own FIN leaves.
NoteOwnFin(c, seg) ==
  IF ~seg.fin THEN c
  ELSE [c EXCEPT !.first_send_fin = @ \/ ~c.first_receive_fin,
                 !.self_fin_seqno = unwrap_in_connection_sender(c, seg.seqno)
                                      + length_in_sequence_space(seg)]

\* check_send_fin, its second part: a segment that acknowledges the peer's FIN
\* leaves.
NotePeerFinAcked(c, seg) ==
  IF /\ c.peer_fin_seqno > 0
     /\ seg.ack
     /\ unwrap_in_connection_receiver(c, seg.ackno) >= c.peer_fin_seqno
  THEN check_linger([c EXCEPT !.peer_fin_acking = TRUE])
  ELSE c

\* Only the last segment in the queue can carry a FIN, and all carry the same
\* acknowledgment, so the loop of send_segs does what it does for the last one.
send_segs(c) ==
  LET queue == c.sender.segments_out
      segs  == [i \in 1 .. Len(queue) |-> fill_seg_fields(c, queue[i])]
      moved == [c EXCEPT !.sender.segments_out = << >>,
                         !.segments_out = @ \o segs]
      last  == segs[Len(segs)]
  IN  IF queue = << >> THEN c
      ELSE NotePeerFinAcked(NoteOwnFin(moved, last), last)

\* Mutant: any acknowledgment after our FIN was sent is taken for one of it.
check_rcv_fin_any_ack(c, seg) ==
  LET noted == IF ~seg.fin THEN c
               ELSE [c EXCEPT
                       !.first_receive_fin = @ \/ ~c.first_send_fin,
                       !.linger_after_streams_finish = @ /\ c.first_send_fin,
                       !.peer_fin_seqno =
                          unwrap_in_connection_receiver(c, seg.seqno)
                            + length_in_sequence_space(seg)]
  IN  IF c.self_fin_seqno > 0 /\ seg.ack
      THEN check_linger([noted EXCEPT !.self_fin_acked = TRUE])
      ELSE noted

check_rcv_fin(c, seg) ==
  LET noted == IF ~seg.fin THEN c
               ELSE [c EXCEPT
                       !.first_receive_fin = @ \/ ~c.first_send_fin,
                       !.linger_after_streams_finish = @ /\ c.first_send_fin,
                       !.peer_fin_seqno =
                          unwrap_in_connection_receiver(c, seg.seqno)
                            + length_in_sequence_space(seg)]
  IN  IF /\ c.self_fin_seqno > 0
         /\ seg.ack
         /\ unwrap_in_connection_sender(c, seg.ackno) >= c.self_fin_seqno
      THEN check_linger([noted EXCEPT !.self_fin_acked = TRUE])
      ELSE noted

\* _reset: both streams fail; the active side tells the peer.
conn_reset(c, is_active) ==
  [c EXCEPT !.sender.stream = set_error(@),
            !.receiver.reassembler.output = set_error(@),
            !.linger_after_streams_finish = FALSE,
            !.rst = TRUE,
            !.segments_out = IF is_active
                             THEN Append(@, [EmptySegment EXCEPT !.rst = TRUE])
                             ELSE @]

-----------------------------------------------------------------------------
\* The sender hears the acknowledgment, or answers a SYN with its own.
HearAck(c, seg) ==
  IF seg.ack THEN [c EXCEPT !.sender = ack_received(@, seg.ackno, seg.win)]
  ELSE IF seg.syn THEN [c EXCEPT !.sender = fill_window(@)]
  ELSE c


\* Anything that takes up sequence space is answered, and so is a keep-alive.
AnswerIfSilent(c, seg) ==
  IF /\ c.sender.next_seqno > 0
     /\ c.sender.segments_out = << >>
     /\ \/ length_in_sequence_space(seg) > 0
        \/ /\ c.receiver.received_syn
           /\ seg.seqno = (ackno(c.receiver) + N - 1) % N
  THEN [c EXCEPT !.sender = send_empty_segment(@)]
  ELSE c

\* Mutant: a reset is answered with a reset.
conn_segment_received_answers_reset(c, seg) ==
  LET noted    == check_rcv_fin(c, seg)
      received == [noted EXCEPT !.receiver = receiver_segment_received(@, seg)]
      answered == AnswerIfSilent(HearAck(received, seg), seg)
  IN  IF seg.rst THEN conn_reset(c, TRUE)
      ELSE send_segs([answered EXCEPT !.newest_seg_time = 0])

conn_segment_received(c, seg) ==
  LET noted    == check_rcv_fin(c, seg)
      received == [noted EXCEPT !.receiver = receiver_segment_received(@, seg)]
      answered == AnswerIfSilent(HearAck(received, seg), seg)
  IN  IF seg.rst THEN conn_reset(c, FALSE)
      ELSE send_segs([answered EXCEPT !.newest_seg_time = 0])

conn_write(c, data) ==
  IF data = << >> THEN c
  ELSE send_segs([c EXCEPT !.sender = fill_window([@ EXCEPT
                                         !.stream = write(@, data)])])

conn_tick(c, ms) ==
  LET aged == [c EXCEPT !.newest_seg_time = @ + ms]
  IN  IF consecutive_retransmissions(c.sender) >= MAX_RETX_ATTEMPTS
      THEN conn_reset(aged, TRUE)
      ELSE send_segs(
             IF ~c.lingering
             THEN [aged EXCEPT !.sender = sender_tick(@, ms)]
             ELSE IF aged.newest_seg_time >= LingerFactor * c.rt_timeout
             THEN [aged EXCEPT !.receiver.reassembler.output = end_input(@),
                               !.lingering = FALSE]
             ELSE aged)

end_input_stream(c) ==
  send_segs([c EXCEPT !.sender = fill_window([@ EXCEPT !.stream = end_input(@)])])

connect(c) == send_segs([c EXCEPT !.sender = fill_window(@)])

\* The destructor resets a connection that is still open.
conn_destroy(c) == IF active(c) THEN conn_reset(c, TRUE) ELSE c
=============================================================================
