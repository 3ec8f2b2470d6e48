------------------------------ MODULE FdAdapter ------------------------------
(***************************************************************************)
(* libsponge/tcp_helpers/fd_adapter.{hh,cc} and tcp_over_ip.cc: which      *)
(* datagrams reach the connection.  An address is <<host, port>>; a        *)
(* datagram has the addresses it comes from and goes to, whether it holds  *)
(* a TCP segment that parses, and two flags of that segment.  kind is the  *)
(* class of the adapter: over UDP, or over IPv4 (TUN and Ethernet).        *)
(***************************************************************************)

NewAdapter(kind, source, destination, listen) ==
  [kind |-> kind, source |-> source, destination |-> destination,
   listen |-> listen]

\* What a listening adapter waits for.
OpensConnection(d) == d.syn /\ ~d.rst

\* Mutant: the adapter goes on listening after the first SYN.
TakePeer_keeps_listening(a, d) ==
  IF a.listen THEN [a EXCEPT !.destination = d.from] ELSE a

\* The sender of the SYN becomes the peer, for good.
TakePeer(a, d) ==
  IF ~a.listen THEN a
  ELSE [a EXCEPT !.listen = FALSE,
                 !.destination = d.from,
                 !.source = IF a.kind = "ip" THEN <<d.to[1], @[2]>> ELSE @]

\* TCPOverUDPSocketAdapter::read() returns a segment.
udp_accepts(a, d) ==
  /\ a.listen \/ d.from = a.destination
  /\ d.parses
  /\ a.listen => OpensConnection(d)

\* TCPOverIPv4Adapter::unwrap_tcp_in_ip() returns a segment: hosts and ports are
\* compared one by one, and the port of the peer last.
ip_accepts(a, d) ==
  /\ a.listen \/ (d.to[1] = a.source[1] /\ d.from[1] = a.destination[1])
  /\ d.parses
  /\ d.to[2] = a.source[2]
  /\ a.listen => OpensConnection(d)
  /\ a.listen \/ d.from[2] = a.destination[2]

adapter_accepts(a, d) ==
  IF a.kind = "udp" THEN udp_accepts(a, d) ELSE ip_accepts(a, d)

\* LossyFdAdapter::_should_drop(): with a loss rate that is not zero, either.
should_drop == BOOLEAN

\* The addresses that write() and wrap_tcp_in_ip() put on a segment.
Addressed(a) == [from |-> a.source, to |-> a.destination]
=============================================================================
