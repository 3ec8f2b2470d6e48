------------------------------ MODULE TCPSender ------------------------------
(***************************************************************************)
(* libsponge/tcp_sender.{hh,cc}: the Timer and the TCPSender, each a       *)
(* record of its members.  The loops of fill_window and ack_received are   *)
(* given by what they compute; TCPSenderLoops states them step by step,    *)
(* and the model checker compares the two.                                 *)
(***************************************************************************)
EXTENDS ByteStream, WrappingIntegers, TCPSegment

CONSTANT MAX_PAYLOAD_SIZE

ASSUME PayloadAssumption == MAX_PAYLOAD_SIZE \in Nat \ {0}

-----------------------------------------------------------------------------
(* class Timer.                                                            *)

NewTimer(init_rto) ==
  [rto |-> init_rto, initial_rto |-> init_rto, time_pass |-> 0,
   fail_count |-> 0, running |-> FALSE, shift |-> 0]

pass(t, ms) == IF t.running THEN [t EXCEPT !.time_pass = @ + ms] ELSE t

start(t) == [t EXCEPT !.running = TRUE]

reset(t) ==
  [t EXCEPT !.time_pass = 0, !.fail_count = 0, !.shift = 0,
            !.rto = t.initial_rto]

\* Mutant: the timer is reset but goes on running.
stop_keeps_running(t) == reset(t)

stop(t) == [reset(t) EXCEPT !.running = FALSE]

is_expire(t) == t.time_pass >= t.rto

double_rto(t) ==
  [t EXCEPT !.fail_count = @ + 1, !.time_pass = 0, !.shift = @ + 1,
            !.rto = t.initial_rto * 2 ^ (t.shift + 1)]

reset_rto(t) ==
  [t EXCEPT !.shift = 0, !.rto = t.initial_rto, !.time_pass = 0]

-----------------------------------------------------------------------------
(* class TCPSender.                                                        *)

NewTCPSender(capacity, retx_timeout, isn) ==
  [isn |-> isn, segments_out |-> << >>, stream |-> NewByteStream(capacity),
   next_seqno |-> 0, acked_next |-> 0, timer |-> NewTimer(retx_timeout),
   outstanding_buffer |-> << >>, peer_window_size |-> 1,
   received_window_size |-> 1, syn_sent |-> FALSE, fin_sent |-> FALSE,
   bytes_in_flight |-> 0]

\* The bookkeeping of fill_window for segments of len positions in all.
Send(s, segs, len) ==
  IF segs = << >> THEN s
  ELSE [s EXCEPT !.segments_out = @ \o segs,
                 !.outstanding_buffer = @ \o segs,
                 !.next_seqno = @ + len,
                 !.bytes_in_flight = @ + len,
                 !.peer_window_size = @ - Lesser(@, len),
                 !.timer = start(@)]

\* The first pass of the loop sends the SYN, whatever the window, with the FIN
\* if the stream is already over and the window has room for both.
SynSegment(s) ==
  [EmptySegment EXCEPT !.seqno = wrap(s.next_seqno, s.isn),
                       !.syn = TRUE,
                       !.fin = stream_eof(s.stream) /\ s.peer_window_size >= 2]

SendSyn(s) ==
  IF s.syn_sent THEN s
  ELSE LET seg == SynSegment(s)
       IN  [Send(s, <<seg>>, length_in_sequence_space(seg)) EXCEPT
              !.syn_sent = TRUE,
              !.fin_sent = seg.fin]

\* Mutant: the FIN goes out with the last byte even if the window has no room.
FinFits_always(s, n) ==
  /\ s.stream.is_end
  /\ n = Len(s.stream.buf)
  /\ ~s.fin_sent

\* Mutant: the FIN is sent only along with data.
FinFits_with_data(s, n) ==
  /\ s.stream.is_end
  /\ n = Len(s.stream.buf)
  /\ n > 0
  /\ ~s.fin_sent
  /\ n < s.peer_window_size

\* The FIN follows the n bytes sent now: the stream is over and it still fits.
FinFits(s, n) ==
  /\ s.stream.is_end
  /\ n = Len(s.stream.buf)
  /\ ~s.fin_sent
  /\ n < s.peer_window_size

\* The n bytes are sent in pieces of MAX_PAYLOAD_SIZE, the last one shorter,
\* and the FIN goes with the last piece, or alone when there is none.
DataSegments(s, n, fin) ==
  LET pieces == (n + MAX_PAYLOAD_SIZE - 1) \div MAX_PAYLOAD_SIZE
      count  == IF pieces = 0 /\ fin THEN 1 ELSE pieces
      from(i) == (i - 1) * MAX_PAYLOAD_SIZE
  IN  [i \in 1 .. count |->
         [EmptySegment EXCEPT
            !.seqno = wrap(s.next_seqno + from(i), s.isn),
            !.fin = fin /\ i = count,
            !.payload = SubSeq(s.stream.buf, from(i) + 1,
                               Lesser(from(i) + MAX_PAYLOAD_SIZE, n))]]

SendData(s) ==
  LET n   == Lesser(Len(s.stream.buf), s.peer_window_size)
      fin == FinFits(s, n)
  IN  [Send(s, DataSegments(s, n, fin), n + (IF fin THEN 1 ELSE 0)) EXCEPT
         !.stream = pop_output(@, n),
         !.fin_sent = @ \/ fin]

fill_window(s) == SendData(SendSyn(s))

-----------------------------------------------------------------------------
\* The absolute number of the first position of an outstanding segment.
Position(s, seg) == unwrap(seg.seqno, s.isn, s.acked_next)

\* Mutant: a segment is removed when any of its positions is acknowledged.
FullyAcked_partly(s, seg, abs_ackno) == abs_ackno > Position(s, seg)

FullyAcked(s, seg, abs_ackno) ==
  /\ abs_ackno > Position(s, seg)
  /\ abs_ackno - Position(s, seg) >= length_in_sequence_space(seg)

\* The outstanding segments that the loop of ack_received pops: those before
\* the first that is not acknowledged in full.
AckedCount(s, abs_ackno) ==
  LET out == s.outstanding_buffer
      open == {i \in 1 .. Len(out) : ~FullyAcked(s, out[i], abs_ackno)}
  IN  IF open = {} THEN Len(out)
      ELSE (CHOOSE i \in open : \A j \in open : i <= j) - 1

\* Some position that was still outstanding is acknowledged, be it a part of
\* the first segment only.
NewData(s, abs_ackno) ==
  /\ s.outstanding_buffer # << >>
  /\ abs_ackno > Position(s, s.outstanding_buffer[1])

\* The lengths of adjacent segments add up to the distance from the first
\* position to the end of the last.
RemoveAcked(s, abs_ackno) ==
  LET out   == s.outstanding_buffer
      k     == AckedCount(s, abs_ackno)
      freed == IF k = 0 THEN 0
               ELSE Position(s, out[k]) + length_in_sequence_space(out[k])
                      - s.acked_next
  IN  [s EXCEPT !.outstanding_buffer = Suffix(@, k),
                !.bytes_in_flight = @ - freed,
                !.acked_next = @ + freed]

\* A window of zero counts as one.
Usable(window) == IF window = 0 THEN 1 ELSE window

\* Mutant: the bytes in flight are not taken off the window.
OpenWindow_full(s, window) == [s EXCEPT !.peer_window_size = Usable(window)]

OpenWindow(s, window) ==
  [s EXCEPT !.peer_window_size =
     IF Usable(window) > s.bytes_in_flight
     THEN Usable(window) - s.bytes_in_flight ELSE 0]

AdjustTimer(s, new_data) ==
  LET stopped == IF s.outstanding_buffer = << >> THEN stop(s.timer) ELSE s.timer
  IN  [s EXCEPT !.timer = IF new_data THEN reset(stopped) ELSE stopped]

ack_received(s, ackno, window) ==
  LET heard     == [s EXCEPT !.received_window_size = window]
      abs_ackno == unwrap(ackno, s.isn, s.acked_next)
      opened    == OpenWindow(RemoveAcked(heard, abs_ackno), window)
  IN  IF abs_ackno > s.next_seqno THEN heard
      ELSE fill_window(AdjustTimer(opened, NewData(s, abs_ackno)))

-----------------------------------------------------------------------------
\* Mutant: a timeout sends everything outstanding again.
sender_tick_resends_all(s, ms) ==
  LET t == pass(s.timer, ms)
  IN  IF is_expire(t)
      THEN [s EXCEPT
              !.timer = IF s.received_window_size # 0 THEN double_rto(t)
                        ELSE reset_rto(t),
              !.segments_out = @ \o s.outstanding_buffer]
      ELSE [s EXCEPT !.timer = t]

sender_tick(s, ms) ==
  LET t == pass(s.timer, ms)
  IN  IF is_expire(t)
      THEN [s EXCEPT
              !.timer = IF s.received_window_size # 0 THEN double_rto(t)
                        ELSE reset_rto(t),
              !.segments_out = @ \o Prefix(s.outstanding_buffer,
                                           Lesser(1, Len(s.outstanding_buffer)))]
      ELSE [s EXCEPT !.timer = t]

consecutive_retransmissions(s) == s.timer.fail_count

send_empty_segment(s) ==
  [s EXCEPT !.segments_out =
     Append(@, [EmptySegment EXCEPT !.seqno = wrap(s.next_seqno, s.isn)])]
=============================================================================
