------------------------------ MODULE WireSpec ------------------------------
(***************************************************************************)
(* A host A sends to a host B whose connection is established.  The        *)
(* adapter of A turns a segment into the bytes of a UDP payload, of an     *)
(* IPv4 datagram for a TUN device or of an Ethernet frame for a TAP        *)
(* device, and the interface of A sends ARP messages; one packet travels   *)
(* at a time.  On the way one byte may change, or the tail of the packet   *)
(* may be cut off, or zeroes may be added to it; the kernel's UDP delivers *)
(* whole payloads, so that only the first can happen there.  The adapter   *)
(* of B turns the bytes into what it hands on, if anything.                *)
(***************************************************************************)
EXTENDS WireFormats

CONSTANTS
  Segments,   \* the segments sent, as [header, payload]
  Messages,   \* the ARP messages sent
  Values,     \* the values that a damaged byte may take
  A, B,       \* the hosts: [ethernet, ip, port]
  MaxPad      \* bound: the zeroes added to a packet

ASSUME WireAssumption ==
  /\ \A s \in Segments : s.header.doff = 5 /\ s.header.cksum = 0
  /\ \A m \in Messages : supported(m)
  /\ Values \subseteq Byte
  /\ A.ethernet # EthernetHeader.dst /\ B.ethernet # EthernetHeader.dst
  /\ MaxPad \in Nat

VARIABLES
  sent,      \* the packet last sent: [via, carries]
  wire,      \* its bytes while they travel, else the empty sequence
  harm,      \* what happened to them, and where
  arrived    \* what B handed on of the last packet: a set of none or one

vars == <<sent, wire, harm, arrived>>

Nothing == [via |-> "none", carries |-> << >>]

ETHERNET_BROADCAST == [i \in 1 .. 6 |-> 255]

Unharmed == [kind |-> "none", at |-> 0]

Packets ==
  [via : {"udp", "tun", "tap"}, carries : Segments]
    \cup [via : {"arp"}, carries : Messages]

-----------------------------------------------------------------------------
(* What the adapter and the interface of A write.                          *)

Addressed(seg) == [seg.header EXCEPT !.sport = A.port, !.dport = B.port]

wrap_tcp_in_ip(seg) ==
  LET header == [IPv4Header EXCEPT !.src = A.ip, !.dst = B.ip,
                   !.len = 4 * IPv4Header.hlen + 4 * seg.header.doff + Len(seg.payload)]
  IN  [header  |-> header,
       payload |-> TCPSegment_serialize(Addressed(seg), Buffer(seg.payload),
                                        pseudo_cksum(header))]

send_payload(eaddr, payload, type) ==
  EthernetFrame_serialize([dst |-> eaddr, src |-> A.ethernet, type |-> type], payload)

\* A request is broadcast, a reply goes to the host that asked.
Serialized(packet) ==
  LET seg   == packet.carries
      dgram == wrap_tcp_in_ip(seg)
      list  == IPv4Datagram_serialize(dgram.header, dgram.payload)
  IN  CASE packet.via = "udp" ->
             TCPSegment_serialize(Addressed(seg), Buffer(seg.payload), 0)
        [] packet.via = "tun" -> list
        [] packet.via = "tap" -> send_payload(B.ethernet, list, TYPE_IPv4)
        [] packet.via = "arp" ->
             send_payload(IF packet.carries.opcode = 1 THEN ETHERNET_BROADCAST
                          ELSE packet.carries.target_ethernet_address,
                          <<Buffer(ARPMessage_serialize(packet.carries))>>, TYPE_ARP)

\* The pieces leave in one call of writev(2) or sendmsg(2).
Written(packet) == concatenate(Serialized(packet))

-----------------------------------------------------------------------------
(* What the adapter and the interface of B hand on of the bytes they read: *)
(* a set of none or one.                                                   *)

Returned(valid, result) == IF valid THEN {result} ELSE {}

Segment(parsed) == [header |-> parsed.header, payload |-> str(parsed.payload)]

udp_read(bytes) ==
  LET seg == TCPSegment_parse(Buffer(bytes), 0)
  IN  Returned(seg.result = "NoError", Segment(seg))

unwrap_tcp_in_ip(ip_dgram) ==
  LET h       == ip_dgram.header
      tcp_seg == TCPSegment_parse(AsBuffer(ip_dgram.payload), pseudo_cksum(h))
  IN  Returned(/\ h.dst = B.ip /\ h.src = A.ip /\ h.proto = 6
               /\ tcp_seg.result = "NoError"
               /\ tcp_seg.header.dport = B.port /\ tcp_seg.header.sport = A.port,
               Segment(tcp_seg))

datagram_read(buffer) ==
  LET ip_dgram == IPv4Datagram_parse(buffer)
  IN  IF ip_dgram.result = "NoError" THEN unwrap_tcp_in_ip(ip_dgram) ELSE {}

tun_read(bytes) == datagram_read(Buffer(bytes))

\* EthernetFrame::parse, recv_frame and, of a datagram, unwrap_tcp_in_ip.
tap_read(bytes) ==
  LET frame == EthernetFrame_parse(Buffer(bytes))
      msg   == ARPMessage_parse(AsBuffer(frame.payload))
      forMe == /\ frame.result = "NoError"
               /\ frame.header.dst \in {B.ethernet, ETHERNET_BROADCAST}
  IN  IF forMe /\ frame.header.type = TYPE_IPv4
      THEN datagram_read(AsBuffer(frame.payload))
      ELSE Returned(forMe /\ frame.header.type = TYPE_ARP /\ msg.result = "NoError",
                    msg.message)

Read(via, bytes) ==
  CASE via = "udp" -> udp_read(bytes)
    [] via = "tun" -> tun_read(bytes)
    [] OTHER -> tap_read(bytes)

-----------------------------------------------------------------------------
Init == sent = Nothing /\ wire = << >> /\ harm = Unharmed /\ arrived = {}

Send(packet) ==
  /\ wire = << >>
  /\ sent' = packet
  /\ wire' = Written(packet)
  /\ harm' = Unharmed
  /\ arrived' = {}

Receive ==
  /\ wire # << >>
  /\ arrived' = Read(sent.via, wire)
  /\ wire' = << >>
  /\ UNCHANGED <<sent, harm>>

Damage(i, b) ==
  /\ harm = Unharmed
  /\ b # wire[i]
  /\ wire' = [wire EXCEPT ![i] = b]
  /\ harm' = [kind |-> "byte", at |-> i]
  /\ UNCHANGED <<sent, arrived>>

Truncate(n) ==
  /\ harm = Unharmed /\ sent.via # "udp"
  /\ wire' = SubSeq(wire, 1, n)
  /\ harm' = [kind |-> "cut", at |-> n]
  /\ UNCHANGED <<sent, arrived>>

Pad(n) ==
  /\ harm = Unharmed /\ sent.via # "udp"
  /\ wire' = Resize(wire, Len(wire) + n)
  /\ harm' = [kind |-> "pad", at |-> n]
  /\ UNCHANGED <<sent, arrived>>

Next ==
  \/ \E packet \in Packets : Send(packet)
  \/ Receive
  \/ \E i \in DOMAIN wire, b \in Values : Damage(i, b)
  \/ \E n \in 1 .. Len(wire) - 1 : Truncate(n)
  \/ wire # << >> /\ \E n \in 1 .. MaxPad : Pad(n)

Spec == Init /\ [][Next]_vars

-----------------------------------------------------------------------------
\* What arrives if all goes well; the checksum is filled in on the way.
SentOff == IF sent.via = "arp" THEN sent.carries
           ELSE [sent.carries EXCEPT !.header = Addressed(sent.carries)]

Compared(x) == IF sent.via = "arp" THEN x ELSE [x EXCEPT !.header.cksum = 0]

\* A byte whose change goes unnoticed: any of an ARP message, which has no
\* checksum, and the header length of IPv4, because the IPv4 checksum is ignored
\* and the TCP checksum of the shifted payload may happen to agree.
Unprotected ==
  /\ harm.kind = "byte"
  /\ \/ sent.via = "arp"
     \/ sent.via = "tun" /\ harm.at = 1
     \/ sent.via = "tap" /\ harm.at = 15

\* Through serialize() and parse() of every layer, exactly the segment or the ARP
\* message that was sent arrives.  Of a packet that was damaged, cut or filled up
\* the same arrives or nothing: although IPv4Datagram::parse and
\* TCPSegment::parse ignore what the parsers of their headers return, the
\* lengths, the pseudo-header and the TCP checksum between them notice.
ArrivesIntact ==
  [][Receive => LET parsed == {Compared(x) : x \in arrived'}
                IN  /\ Unprotected \/ parsed \subseteq {SentOff}
                    /\ harm = Unharmed => parsed = {SentOff}]_vars
=============================================================================
