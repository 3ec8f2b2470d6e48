------------------------- MODULE ConnectionContract -------------------------
(***************************************************************************)
(* What TCPSpongeSocket sees of its TCPConnection and may rely on: the     *)
(* number of bytes in the inbound and outbound streams, whether they ended *)
(* or failed, active(), whether the handshake that connect() and           *)
(* listen_and_accept() wait for is still going on, and whether a segment   *)
(* was ever sent.  Each operator relates what is seen before and after a   *)
(* call.                                                                   *)
(***************************************************************************)
EXTENDS Integers

Views(InCap, OutCap) ==
  [in : 0 .. InCap, in_ended : BOOLEAN, out : 0 .. OutCap, out_ended : BOOLEAN,
   error : BOOLEAN, active : BOOLEAN, opening : BOOLEAN, started : BOOLEAN]

\* A new connection; the one that connect() opens has sent its SYN.
NewView(started) ==
  [in |-> 0, in_ended |-> FALSE, out |-> 0, out_ended |-> FALSE, error |-> FALSE,
   active |-> TRUE, opening |-> TRUE, started |-> started]

\* Both streams fail together, and the connection is over.
ResetView(a) ==
  [a EXCEPT !.error = TRUE, !.active = FALSE, !.opening = FALSE]

\* A connection that is over without an error has ended both streams, and all of
\* the outbound one was sent.
Settled(a) == a.active \/ a.error \/ (a.in_ended /\ a.out_ended /\ a.out = 0)

\* A call may queue segments, but a connection that listens stays silent.
MaySend(b) == b.started

\* segment_received() with a segment that is not a reset: the inbound stream may
\* grow until it ends, and the outbound one be emptied.
AfterSegment(a, b) ==
  /\ b.in >= a.in
  /\ a.in_ended => b.in_ended /\ b.in = a.in
  /\ b.out <= a.out
  /\ b.out_ended = a.out_ended
  /\ b.error = a.error
  /\ b.active => a.active
  /\ b.opening => a.opening /\ b.active
  /\ a.started => b.started
  /\ Settled(b)

\* tick(): nothing that is seen changes, until the connection gives up or has
\* lingered for long enough.
AfterTick(a, b) ==
  \/ b = a
  \/ a.started /\ b = ResetView(a)
  \/ b = [a EXCEPT !.active = FALSE] /\ Settled(b)

\* write() of n bytes, some of which may leave at once.
AfterWrite(a, n, b) ==
  \E m \in 0 .. a.out + n : ~a.out_ended /\ b = [a EXCEPT !.out = m]

AfterEndInput(a, b) ==
  \E m \in 0 .. a.out : b = [a EXCEPT !.out = m, !.out_ended = TRUE]

AfterRead(a, b) == \E m \in 0 .. a.in : b = [a EXCEPT !.in = m]
=============================================================================
