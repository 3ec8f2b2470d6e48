------------------------------ MODULE TCPState ------------------------------
(***************************************************************************)
(* libsponge/tcp_helpers/tcp_state.{hh,cc}: the names that the TCP         *)
(* specification gives to the states of a connection.  A TCPState is the   *)
(* summaries of the sender and the receiver with two bits of the           *)
(* connection.                                                             *)
(***************************************************************************)
EXTENDS TCPConnection

receiver_summary(r) ==
  IF r.reassembler.output.error THEN "ERROR"
  ELSE IF ~r.received_syn THEN "LISTEN"
  ELSE IF input_ended(r.reassembler.output) THEN "FIN_RECV"
  ELSE "SYN_RECV"

\* Mutant: the stream is taken for finished when nothing is left to send.
sender_summary_buffer_empty(s) ==
  IF s.stream.error THEN "ERROR"
  ELSE IF s.next_seqno = 0 THEN "CLOSED"
  ELSE IF s.next_seqno = s.bytes_in_flight THEN "SYN_SENT"
  ELSE IF buffer_size(s.stream) > 0 THEN "SYN_ACKED"
  ELSE IF s.bytes_in_flight > 0 THEN "FIN_SENT"
  ELSE "FIN_ACKED"

sender_summary(s) ==
  IF s.stream.error THEN "ERROR"
  ELSE IF s.next_seqno = 0 THEN "CLOSED"
  ELSE IF s.next_seqno = s.bytes_in_flight THEN "SYN_SENT"
  ELSE IF \/ ~stream_eof(s.stream)
          \/ s.next_seqno < s.stream.total_bytes_written + 2
  THEN "SYN_ACKED"
  ELSE IF s.bytes_in_flight > 0 THEN "FIN_SENT"
  ELSE "FIN_ACKED"

\* TCPConnection::state().
state(c) ==
  [sender |-> sender_summary(c.sender), receiver |-> receiver_summary(c.receiver),
   active |-> active(c), linger |-> active(c) /\ c.linger_after_streams_finish]

Summary(sender, receiver, is_active, linger) ==
  [sender |-> sender, receiver |-> receiver, active |-> is_active, linger |-> linger]

\* The TCPState of each official name.
Official ==
  [LISTEN      |-> Summary("CLOSED", "LISTEN", TRUE, TRUE),
   SYN_RCVD    |-> Summary("SYN_SENT", "SYN_RECV", TRUE, TRUE),
   SYN_SENT    |-> Summary("SYN_SENT", "LISTEN", TRUE, TRUE),
   ESTABLISHED |-> Summary("SYN_ACKED", "SYN_RECV", TRUE, TRUE),
   CLOSE_WAIT  |-> Summary("SYN_ACKED", "FIN_RECV", TRUE, FALSE),
   LAST_ACK    |-> Summary("FIN_SENT", "FIN_RECV", TRUE, FALSE),
   CLOSING     |-> Summary("FIN_SENT", "FIN_RECV", TRUE, TRUE),
   FIN_WAIT_1  |-> Summary("FIN_SENT", "SYN_RECV", TRUE, TRUE),
   FIN_WAIT_2  |-> Summary("FIN_ACKED", "SYN_RECV", TRUE, TRUE),
   TIME_WAIT   |-> Summary("FIN_ACKED", "FIN_RECV", TRUE, TRUE),
   RESET       |-> Summary("ERROR", "ERROR", FALSE, FALSE),
   CLOSED      |-> Summary("FIN_ACKED", "FIN_RECV", FALSE, FALSE)]

InState(c, names) == \E name \in names : state(c) = Official[name]
=============================================================================
