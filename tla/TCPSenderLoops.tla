--------------------------- MODULE TCPSenderLoops ---------------------------
(***************************************************************************)
(* The two loops of libsponge/tcp_sender.cc, one pass at a time, as the    *)
(* reference for the closed forms of TCPSender.                            *)
(***************************************************************************)
EXTENDS TCPSender

\* One pass of the loop of fill_window for a segment with this payload.
FillSegment(s, data) ==
  LET fin == stream_eof(s.stream)
      seg == [EmptySegment EXCEPT !.seqno = wrap(s.next_seqno, s.isn),
                                  !.syn = ~s.syn_sent,
                                  !.fin = fin,
                                  !.payload = data]
  IN  IF length_in_sequence_space(seg) > s.peer_window_size
      THEN [seg EXCEPT !.fin = FALSE] ELSE seg

RECURSIVE FillLoop(_)
FillLoop(s) ==
  LET limit == Lesser(MAX_PAYLOAD_SIZE, s.peer_window_size)
      first == (~s.fin_sent /\ stream_eof(s.stream)) \/ ~s.syn_sent
      data  == IF first THEN << >> ELSE peek_output(s.stream, limit)
      taken == IF first THEN s
               ELSE [s EXCEPT !.stream = pop_output(@, Len(data))]
      seg   == FillSegment(taken, data)
      len   == length_in_sequence_space(seg)
      cut   == len + (IF stream_eof(taken.stream) /\ ~seg.fin THEN 1 ELSE 0)
                 > s.peer_window_size
      sent  == [taken EXCEPT
                  !.syn_sent = TRUE,
                  !.fin_sent = IF cut THEN FALSE
                               ELSE IF stream_eof(taken.stream) THEN TRUE ELSE @,
                  !.segments_out = Append(@, seg),
                  !.next_seqno = @ + len,
                  !.bytes_in_flight = @ + len,
                  !.peer_window_size = IF @ >= len THEN @ - len ELSE 0,
                  !.timer = IF @.running THEN @ ELSE start(@),
                  !.outstanding_buffer = Append(@, seg)]
  IN  IF ~first /\ data = << >> THEN s
      ELSE IF len = 0 THEN s
      ELSE IF cut THEN sent
      ELSE FillLoop(sent)

\* The loop of ack_received: the sender afterwards, and whether data was new.
RECURSIVE PopLoop(_, _, _)
PopLoop(s, abs_ackno, new_data) ==
  IF s.outstanding_buffer = << >> THEN [sender |-> s, new_data |-> new_data]
  ELSE
    LET head == s.outstanding_buffer[1]
        len  == length_in_sequence_space(head)
        pos  == unwrap(head.seqno, s.isn, s.acked_next)
    IN  IF abs_ackno <= pos THEN [sender |-> s, new_data |-> new_data]
        ELSE IF abs_ackno - pos < len THEN [sender |-> s, new_data |-> TRUE]
        ELSE PopLoop([s EXCEPT !.bytes_in_flight = @ - len,
                               !.acked_next = @ + len,
                               !.outstanding_buffer = Tail(@)],
                     abs_ackno, TRUE)

AckLoop(s, ackno, window) ==
  LET heard     == [s EXCEPT !.received_window_size = window]
      abs_ackno == unwrap(ackno, s.isn, s.acked_next)
      popped    == PopLoop(heard, abs_ackno, FALSE)
      opened    == OpenWindow(popped.sender, window)
  IN  IF abs_ackno > s.next_seqno THEN heard
      ELSE FillLoop(AdjustTimer(opened, popped.new_data))
=============================================================================
