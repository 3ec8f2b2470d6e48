---------------------------- MODULE WireFormats ----------------------------
(***************************************************************************)
(* libsponge/tcp_helpers: the headers and packets of TCP, IPv4, Ethernet   *)
(* and ARP, and their parse() and serialize().  A header's parse() gives   *)
(* the header, the parser it leaves and a ParseResult; a packet's gives    *)
(* the header, the payload and a ParseResult.  A segment's payload is a    *)
(* Buffer, that of a datagram or a frame a BufferList, to which            *)
(* serialize() prepends the header without a copy.                         *)
(***************************************************************************)
EXTENDS NetParser, InternetChecksum

Bit(flag, weight) == IF flag THEN weight ELSE 0

HasBit(n, weight) == (n \div weight) % 2 = 1

-----------------------------------------------------------------------------
(* tcp_header.{hh,cc}, tcp_segment.{hh,cc}                                 *)

TCPHeader ==
  [sport |-> 0, dport |-> 0, seqno |-> Zeros(4), ackno |-> Zeros(4), doff |-> 5,
   urg |-> FALSE, ack |-> FALSE, psh |-> FALSE, rst |-> FALSE, syn |-> FALSE,
   fin |-> FALSE, win |-> 0, cksum |-> 0, uptr |-> 0]

TCPHeader_parse(p) ==
  LET widths == <<2, 2, 4, 4, 1, 1, 2, 2, 2>>
      f      == Fields(p, widths)
      q      == Advanced(p, widths)
      fl_b   == f[6][1]
      header ==
        [sport |-> Value16(f[1]), dport |-> Value16(f[2]), seqno |-> f[3],
         ackno |-> f[4], doff |-> f[5][1] \div 16,
         urg |-> HasBit(fl_b, 32), ack |-> HasBit(fl_b, 16),
         psh |-> HasBit(fl_b, 8), rst |-> HasBit(fl_b, 4),
         syn |-> HasBit(fl_b, 2), fin |-> HasBit(fl_b, 1),
         win |-> Value16(f[7]), cksum |-> Value16(f[8]), uptr |-> Value16(f[9])]
      r      == remove_prefix(q, 4 * header.doff - 20)
  IN  IF header.doff < 5
      THEN [header |-> header, parser |-> q, result |-> "HeaderTooShort"]
      ELSE [header |-> header, parser |-> r, result |-> r.error]

TCPFlags(h) ==
  Bit(h.urg, 32) + Bit(h.ack, 16) + Bit(h.psh, 8) + Bit(h.rst, 4) + Bit(h.syn, 2)
    + Bit(h.fin, 1)

\* serialize() throws for a data offset below 5; the others fill up with zeroes.
TCPHeader_serialize(h) ==
  Resize(Bytes16(h.sport) \o Bytes16(h.dport) \o h.seqno \o h.ackno
           \o <<(16 * h.doff) % 256, TCPFlags(h)>>
           \o Bytes16(h.win) \o Bytes16(h.cksum) \o Bytes16(h.uptr),
         4 * h.doff)

\* What the header's parse() returns is ignored.
TCPSegment_parse(buffer, datagram_layer_checksum) ==
  LET check  == add(NewInternetChecksum(datagram_layer_checksum), str(buffer))
      parsed == TCPHeader_parse(NewNetParser(buffer))
  IN  IF value(check) # 0
      THEN [header |-> TCPHeader, payload |-> Buffer(<< >>), result |-> "BadChecksum"]
      ELSE [header |-> parsed.header, payload |-> parsed.parser.buffer,
            result |-> parsed.parser.error]

TCPSegment_serialize(header, payload, datagram_layer_checksum) ==
  LET blank  == [header EXCEPT !.cksum = 0]
      check  == NewInternetChecksum(datagram_layer_checksum)
      summed == add(add(check, TCPHeader_serialize(blank)), str(payload))
  IN  <<Buffer(TCPHeader_serialize([blank EXCEPT !.cksum = value(summed)])), payload>>

-----------------------------------------------------------------------------
(* ipv4_header.{hh,cc}, ipv4_datagram.{hh,cc}                              *)

IPv4Header ==
  [ver |-> 4, hlen |-> 5, tos |-> 0, len |-> 0, id |-> 0, df |-> TRUE,
   mf |-> FALSE, offset |-> 0, ttl |-> 128, proto |-> 6, cksum |-> 0,
   src |-> Zeros(4), dst |-> Zeros(4)]

IPv4Header_parse(p) ==
  LET widths    == <<1, 1, 2, 2, 2, 1, 1, 2, 4, 4>>
      f         == Fields(p, widths)
      q         == Advanced(p, widths)
      data_size == size(p.buffer)
      fo_val    == Value16(f[5])
      header    ==
        [ver |-> f[1][1] \div 16, hlen |-> f[1][1] % 16, tos |-> f[2][1],
         len |-> Value16(f[3]), id |-> Value16(f[4]),
         df |-> HasBit(fo_val, 16384), mf |-> HasBit(fo_val, 8192),
         offset |-> fo_val % 8192, ttl |-> f[6][1], proto |-> f[7][1],
         cksum |-> Value16(f[8]), src |-> f[9], dst |-> f[10]]
      r         == remove_prefix(q, 4 * header.hlen - 20)
      check     == add(NewInternetChecksum(0), SubSeq(str(p.buffer), 1, 4 * header.hlen))
      returns(h, parser, result) ==
        [header |-> h, parser |-> parser, result |-> result]
  IN  IF data_size < 20 THEN returns(IPv4Header, p, "PacketTooShort")
      ELSE IF data_size < 4 * header.hlen THEN returns(header, q, "PacketTooShort")
      ELSE IF header.ver # 4 THEN returns(header, q, "WrongIPVersion")
      ELSE IF header.hlen < 5 THEN returns(header, q, "HeaderTooShort")
      ELSE IF data_size # header.len THEN returns(header, q, "TruncatedPacket")
      ELSE IF r.error # "NoError" THEN returns(header, r, r.error)
      ELSE returns(header, r, IF value(check) # 0 THEN "BadChecksum" ELSE "NoError")

\* serialize() throws for another version and for a header length below 5.
IPv4Header_serialize(h) ==
  Resize(<<(16 * h.ver) + (h.hlen % 16), h.tos>> \o Bytes16(h.len) \o Bytes16(h.id)
           \o Bytes16(Bit(h.df, 16384) + Bit(h.mf, 8192) + (h.offset % 8192))
           \o <<h.ttl, h.proto>> \o Bytes16(h.cksum) \o h.src \o h.dst,
         4 * h.hlen)

payload_length(h) == (h.len - 4 * h.hlen) % 65536

pseudo_cksum(h) ==
  Value16(SubSeq(h.src, 1, 2)) + Value16(SubSeq(h.src, 3, 4))
    + Value16(SubSeq(h.dst, 1, 2)) + Value16(SubSeq(h.dst, 3, 4))
    + h.proto + payload_length(h)

\* Mutant: the length of the payload is not compared with the header's.
IPv4Datagram_parse_any_length(buffer) ==
  LET parsed == IPv4Header_parse(NewNetParser(buffer))
  IN  [header |-> parsed.header, payload |-> <<parsed.parser.buffer>>,
       result |-> parsed.parser.error]

\* What the header's parse() returns is ignored, its checksum included.
IPv4Datagram_parse(buffer) ==
  LET parsed  == IPv4Header_parse(NewNetParser(buffer))
      payload == <<parsed.parser.buffer>>
  IN  [header |-> parsed.header, payload |-> payload,
       result |-> IF Len(concatenate(payload)) # payload_length(parsed.header)
                  THEN "PacketTooShort" ELSE parsed.parser.error]

\* serialize() throws if the payload does not have the length in the header.
IPv4Datagram_serialize(header, payload) ==
  LET blank == [header EXCEPT !.cksum = 0]
      check == add(NewInternetChecksum(0), IPv4Header_serialize(blank))
  IN  append(<<Buffer(IPv4Header_serialize([blank EXCEPT !.cksum = value(check)]))>>,
             payload)

-----------------------------------------------------------------------------
(* ethernet_header.{hh,cc}, ethernet_frame.{hh,cc}, arp_message.{hh,cc}    *)

TYPE_IPv4 == 2048

TYPE_ARP == 2054

EthernetHeader == [dst |-> Zeros(6), src |-> Zeros(6), type |-> 0]

\* A short header is left as it was.
EthernetHeader_parse(p) ==
  LET widths == <<6, 6, 2>>
      f      == Fields(p, widths)
      q      == Advanced(p, widths)
  IN  IF size(p.buffer) < 14
      THEN [header |-> EthernetHeader, parser |-> p, result |-> "PacketTooShort"]
      ELSE [header |-> [dst |-> f[1], src |-> f[2], type |-> Value16(f[3])],
            parser |-> q, result |-> q.error]

EthernetHeader_serialize(h) == h.dst \o h.src \o Bytes16(h.type)

\* What the header's parse() returns is ignored.
EthernetFrame_parse(buffer) ==
  LET parsed == EthernetHeader_parse(NewNetParser(buffer))
  IN  [header |-> parsed.header, payload |-> <<parsed.parser.buffer>>,
       result |-> parsed.parser.error]

EthernetFrame_serialize(header, payload) ==
  append(<<Buffer(EthernetHeader_serialize(header))>>, payload)

ARPMessage ==
  [hardware_type |-> 1, protocol_type |-> TYPE_IPv4, hardware_address_size |-> 6,
   protocol_address_size |-> 4, opcode |-> 0,
   sender_ethernet_address |-> Zeros(6), sender_ip_address |-> Zeros(4),
   target_ethernet_address |-> Zeros(6), target_ip_address |-> Zeros(4)]

supported(m) ==
  /\ m.hardware_type = 1 /\ m.protocol_type = TYPE_IPv4
  /\ m.hardware_address_size = 6 /\ m.protocol_address_size = 4
  /\ m.opcode \in {1, 2}

ARPMessage_parse(buffer) ==
  LET p      == NewNetParser(buffer)
      widths == <<2, 2, 1, 1, 2, 6, 4, 6, 4>>
      f      == Fields(p, widths)
      kind   == [ARPMessage EXCEPT
                   !.hardware_type = Value16(f[1]), !.protocol_type = Value16(f[2]),
                   !.hardware_address_size = f[3][1],
                   !.protocol_address_size = f[4][1], !.opcode = Value16(f[5])]
  IN  IF size(buffer) < 28
      THEN [message |-> ARPMessage, result |-> "PacketTooShort"]
      ELSE IF ~supported(kind) THEN [message |-> kind, result |-> "Unsupported"]
      ELSE [message |-> [kind EXCEPT !.sender_ethernet_address = f[6],
                                     !.sender_ip_address = f[7],
                                     !.target_ethernet_address = f[8],
                                     !.target_ip_address = f[9]],
            result |-> Advanced(p, widths).error]

\* serialize() throws for a message that is not supported.
ARPMessage_serialize(m) ==
  Bytes16(m.hardware_type) \o Bytes16(m.protocol_type)
    \o <<m.hardware_address_size, m.protocol_address_size>> \o Bytes16(m.opcode)
    \o m.sender_ethernet_address \o m.sender_ip_address
    \o m.target_ethernet_address \o m.target_ip_address
=============================================================================
