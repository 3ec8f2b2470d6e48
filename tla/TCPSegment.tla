----------------------------- MODULE TCPSegment -----------------------------
(***************************************************************************)
(* libsponge/tcp_helpers/tcp_segment.{hh,cc} and tcp_header.hh: the parts  *)
(* of a segment that TCP acts on.  Ports, checksum, offset and urgent      *)
(* pointer play no role above the datagram layer.                          *)
(***************************************************************************)
EXTENDS Integers, Sequences

\* TCPHeader with its default member values, and an empty payload.
EmptySegment ==
  [seqno |-> 0, ackno |-> 0, ack |-> FALSE, rst |-> FALSE, syn |-> FALSE,
   fin |-> FALSE, win |-> 0, payload |-> << >>]

length_in_sequence_space(seg) ==
  Len(seg.payload) + (IF seg.syn THEN 1 ELSE 0) + (IF seg.fin THEN 1 ELSE 0)
=============================================================================
