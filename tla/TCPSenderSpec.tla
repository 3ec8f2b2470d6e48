---------------------------- MODULE TCPSenderSpec ----------------------------
(***************************************************************************)
(* A TCPSender between an application that writes one stream and a peer    *)
(* that acknowledges what was sent, in any amount, and advertises windows  *)
(* whose right edge never moves back.  Acknowledgments may be lost,        *)
(* repeated and overtaken by later ones.                                   *)
(*                                                                         *)
(* Position 0 of the sequence space is the SYN, positions 1 to Len(Stream) *)
(* are the bytes, and the position after them is the FIN.                  *)
(***************************************************************************)
EXTENDS TCPSender

CONSTANTS
  Byte,
  Stream,      \* the bytes the application writes before it closes
  Cap,         \* the capacity of the outgoing stream
  Rto,         \* the initial retransmission timeout, in ticks
  Isn,         \* the initial sequence number
  MaxWin,      \* bound: the widest window advertised
  MaxFail      \* bound: the retransmissions without an answer

ASSUME StreamAssumption == Stream \in Seq(Byte)
ASSUME CapAssumption == Cap \in Nat \ {0}
ASSUME RtoAssumption == Rto \in Nat \ {0}
ASSUME IsnAssumption == Isn \in Raw
\* The widest window, 2^16 - 1, is far below a quarter of the 2^32 numbers.
ASSUME BoundsAssumption ==
  /\ MaxWin \in Nat /\ MaxFail \in Nat
  /\ 2 * MaxWin + 1 < N \div 2

VARIABLES
  snd,        \* the TCPSender object, its queue of segments drained
  sent,       \* the segments it queued in the last step
  written,    \* history: how many bytes of the stream it accepted
  ackedTo,    \* the peer's latest acknowledgment
  edge,       \* the right edge of the latest window
  overtaken   \* history: an acknowledgment came after a later one

vars == <<snd, sent, written, ackedTo, edge, overtaken>>

peerVars == <<ackedTo, edge, overtaken>>

\* The connection takes the queued segments after every call.
Queue(s) ==
  /\ snd' = [s EXCEPT !.segments_out = << >>]
  /\ sent' = s.segments_out

Init ==
  /\ snd = NewTCPSender(Cap, Rto, Isn)
  /\ sent = << >>
  /\ written = 0
  /\ ackedTo = 0
  /\ edge = 1
  /\ overtaken = FALSE

\* The application writes the next n bytes; what does not fit it keeps.
Write(n) ==
  LET data == SubSeq(Stream, written + 1, written + n) IN
  /\ written + n <= Len(Stream)
  /\ Queue([snd EXCEPT !.stream = write(@, data)])
  /\ written' = written + write_count(snd.stream, data)
  /\ UNCHANGED peerVars

Close ==
  /\ written = Len(Stream)
  /\ Queue([snd EXCEPT !.stream = end_input(@)])
  /\ UNCHANGED <<written, peerVars>>

FillWindow ==
  /\ Queue(fill_window(snd))
  /\ UNCHANGED <<written, peerVars>>

\* The peer acknowledges the positions before a and offers a window of win.
AckReceived(a, win) ==
  /\ a \in 1 .. snd.next_seqno /\ a >= ackedTo
  /\ a + win >= edge
  /\ Queue(ack_received(snd, wrap(a, Isn), win))
  /\ ackedTo' = a
  /\ edge' = a + win
  /\ UNCHANGED <<written, overtaken>>

\* An acknowledgment that the peer sent before its latest arrives, for the first
\* time or again.  TCP relies on none outliving half a turn of the numbers.
StaleAckReceived(a, win) ==
  /\ a <= ackedTo
  /\ snd.acked_next - a < N \div 2
  /\ a + win <= edge
  /\ a < ackedTo \/ a + win < edge
  /\ Queue(ack_received(snd, wrap(a, Isn), win))
  /\ overtaken' = TRUE
  /\ UNCHANGED <<written, ackedTo, edge>>

Tick(ms) ==
  /\ snd.timer.fail_count < MaxFail
  /\ Queue(sender_tick(snd, ms))
  /\ UNCHANGED <<written, peerVars>>

Next ==
  \/ \E n \in 1 .. Len(Stream) : Write(n)
  \/ Close
  \/ FillWindow
  \/ \E a \in 1 .. Len(Stream) + 2, win \in 0 .. MaxWin : AckReceived(a, win)
  \/ \E a \in 1 .. Len(Stream) + 2, win \in 0 .. MaxWin : StaleAckReceived(a, win)
  \/ Tick(1)

Spec == Init /\ [][Next]_vars

\* The application writes everything and closes, filling is tried after each
\* write, and the peer acknowledges what was sent and opens its window; the
\* enabling conditions are written out.
FairSpec ==
  /\ Spec
  /\ []<>(written = Len(Stream) \/ remaining_capacity(snd.stream) = 0)
       \/ []<><<\E n \in 1 .. Len(Stream) : Write(n)>>_vars
  /\ []<>(written < Len(Stream) \/ snd.stream.is_end) \/ []<><<Close>>_vars
  /\ []<>(snd = [fill_window(snd) EXCEPT !.segments_out = << >>])
       \/ []<><<FillWindow>>_vars
  /\ []<>(ackedTo = snd.next_seqno /\ edge > ackedTo)
       \/ []<><<AckReceived(snd.next_seqno, MaxWin)>>_vars

-----------------------------------------------------------------------------
out == snd.outstanding_buffer

\* The first position of the i-th outstanding segment.
PositionOf(i) == Position(snd, out[i])

EndOfSegment(i) == PositionOf(i) + length_in_sequence_space(out[i])

FinPosition == Len(Stream) + 1

\* The members have the types of tcp_sender.hh; the sender numbers no position
\* beyond the FIN, which it sends once.
TypeOK ==
  /\ snd.stream \in ByteStreams(Byte, Cap)
  /\ snd.next_seqno \in 0 .. FinPosition + 1
  /\ snd.acked_next \in 0 .. FinPosition + 1
  /\ snd.peer_window_size \in 0 .. MaxWin + 1
  /\ snd.received_window_size \in 0 .. MaxWin + 1
  /\ snd.bytes_in_flight \in 0 .. FinPosition + 1
  /\ snd.syn_sent \in BOOLEAN /\ snd.fin_sent \in BOOLEAN
  /\ snd.timer.rto \in Nat /\ snd.timer.time_pass \in Nat
  /\ snd.timer.running \in BOOLEAN
  /\ written \in 0 .. Len(Stream)

\* What is kept for retransmission is exactly what the peer has not acknowledged:
\* the outstanding segments lie end to end from acked_next to next_seqno, which
\* are bytes_in_flight() apart; a segment is dropped only when all of it was
\* acknowledged; and each holds what the application wrote at its positions, with
\* the SYN and the FIN at the ends.
KeepsUnacked ==
  /\ snd.acked_next <= ackedTo
  /\ snd.bytes_in_flight = snd.next_seqno - snd.acked_next
  /\ snd.next_seqno = IF out = << >> THEN snd.acked_next
                      ELSE EndOfSegment(Len(out))
  /\ \A i \in 1 .. Len(out) :
       LET pos == PositionOf(i)
           end == EndOfSegment(i)
       IN  /\ pos = IF i = 1 THEN snd.acked_next ELSE EndOfSegment(i - 1)
           /\ end > pos
           /\ out[i].syn <=> pos = 0
           /\ out[i].fin <=> end = FinPosition + 1
           /\ out[i].payload = SubSeq(Stream, IF pos = 0 THEN 1 ELSE pos,
                                      Lesser(end - 1, Len(Stream)))

\* Nothing is sent beyond the right edge of the window, but for the one
\* position that probes a closed window, as long as no acknowledgment came after
\* a later one: ack_received takes the window of an old one for a new window.
WithinWindow ==
  overtaken \/ snd.next_seqno <= edge \/ snd.next_seqno <= ackedTo + 1

\* The timer runs exactly while something is outstanding.
TimerRuns == snd.timer.running <=> out # << >>

\* Segments are sent again only by a timeout, the oldest alone; the timeout then
\* doubles, but for a window of zero: "when window_size is ZERO, the RTO of timer
\* should not be increased" (tcp_sender.cc).
RetransmitsOldest ==
  [][\A i \in 1 .. Len(sent') :
       Position(snd, sent'[i]) < snd.next_seqno =>
         /\ sent' = <<out[1]>> /\ Tick(1)
         /\ IF snd.received_window_size = 0
            THEN snd'.timer.rto <= snd.timer.rto
            ELSE snd'.timer.rto = 2 * snd.timer.rto]_vars

\* Everything written is acknowledged in the end, the FIN included.
EventuallyAllAcked == <>(snd.fin_sent /\ out = << >>)
=============================================================================
