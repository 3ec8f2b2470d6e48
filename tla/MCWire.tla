------------------------------- MODULE MCWire -------------------------------
(* Two hosts; segments with the flags a connection sends, at both ends of   *)
(* the sequence space, with payloads of odd and even length; an ARP request *)
(* and a reply.  The bytes 0 and 255 are the two zeroes of the checksum.    *)
EXTENDS WireSpec

HostA == [ethernet |-> <<2, 0, 0, 0, 0, 10>>, ip |-> <<10, 0, 0, 1>>, port |-> 4660]
HostB == [ethernet |-> <<2, 0, 0, 0, 0, 11>>, ip |-> <<10, 0, 0, 2>>, port |-> 80]

SomeSegments ==
  {[header |-> [TCPHeader EXCEPT !.seqno = seqno, !.ackno = <<0, 0, 255, 1>>,
                  !.syn = flags[1], !.ack = flags[2], !.fin = flags[3],
                  !.rst = flags[4], !.win = win],
    payload |-> payload] :
     seqno \in {<<0, 0, 0, 0>>, <<255, 255, 255, 255>>},
     flags \in {<<TRUE, FALSE, FALSE, FALSE>>, <<FALSE, TRUE, TRUE, FALSE>>,
               <<FALSE, FALSE, FALSE, TRUE>>},
     win \in {0, 65535},
     payload \in {<< >>, <<0>>, <<255, 7, 0>>}}

SomeMessages ==
  {[ARPMessage EXCEPT !.opcode = 1, !.sender_ethernet_address = HostA.ethernet,
      !.sender_ip_address = HostA.ip, !.target_ip_address = HostB.ip],
   [ARPMessage EXCEPT !.opcode = 2, !.sender_ethernet_address = HostA.ethernet,
      !.sender_ip_address = HostA.ip, !.target_ethernet_address = HostB.ethernet,
      !.target_ip_address = HostB.ip]}
=============================================================================
