------------------------------- MODULE Router -------------------------------
(***************************************************************************)
(* libsponge/router.{hh,cc}.  A router is a record of its interfaces, each *)
(* a NetworkInterface with the queue that AsyncNetworkInterface adds, and  *)
(* of its routing table.  An IPv4 address is a number of AddressBits bits  *)
(* (32 in the code), and a prefix length a number below LengthModulus (the *)
(* 256 of a uint8_t).  A datagram has a destination and a time to live.    *)
(***************************************************************************)
EXTENDS NetworkInterface

CONSTANTS AddressBits, LengthModulus

ASSUME WidthAssumption ==
  /\ AddressBits \in Nat \ {0}
  /\ LengthModulus \in Nat
  /\ LengthModulus > AddressBits

Addresses == 0 .. 2 ^ AddressBits - 1

\* optional<Address> without a value: the network is directly attached.
Direct == -1

NewRouter == [interfaces |-> << >>, map_vec |-> << >>]

add_interface(r, nic) ==
  [r EXCEPT !.interfaces = Append(@, [nic |-> nic, datagrams_out |-> << >>])]

MapItem(route_prefix, prefix_length, next_hop, interface_num) ==
  [route_prefix |-> route_prefix, prefix_length |-> prefix_length,
   next_hop |-> next_hop, interface_num |-> interface_num]

-----------------------------------------------------------------------------
\* The size of the block of addresses that share a prefix of this length.
BlockSize(prefix_length) == 2 ^ (AddressBits - prefix_length)

\* route_prefix & mask.  For a length of zero the shift by the full width is
\* undefined: the mask may come out as all zeroes or as all ones.
MaskedPrefixes(route_prefix, prefix_length) ==
  {(route_prefix \div BlockSize(prefix_length)) * BlockSize(prefix_length)}
    \cup (IF prefix_length = 0 THEN {route_prefix} ELSE {})

\* add_route, with the prefix that the mask has left.
add_route(r, masked, prefix_length, next_hop, interface_num) ==
  [r EXCEPT !.map_vec =
     Append(@, MapItem(masked, prefix_length, next_hop, interface_num))]

\* The leading bits that ip and pattern share number at least prefix_length.
matched_prefix_length(ip, pattern, prefix_length) ==
  ip \div BlockSize(prefix_length) = pattern \div BlockSize(prefix_length)

-----------------------------------------------------------------------------
\* What the loop of route_one_datagram holds before it looks at any route.
NoChoice == [max_match_length |-> 0, interface_num |-> 0, next_hop |-> Direct]

\* Mutant: only a strictly greater value replaces the choice.
Choice_strict(map_vec, dest_ip) ==
  LET scan[i \in 0 .. Len(map_vec)] ==
        IF i = 0 THEN NoChoice
        ELSE LET item == map_vec[i]
             IN  IF /\ matched_prefix_length(dest_ip, item.route_prefix,
                                             item.prefix_length)
                    /\ item.route_prefix > scan[i - 1].max_match_length
                 THEN [max_match_length |-> item.route_prefix % LengthModulus,
                       interface_num |-> item.interface_num,
                       next_hop |-> item.next_hop]
                 ELSE scan[i - 1]
  IN  scan[Len(map_vec)]

\* The loop after the first i routes.  It compares, and keeps as a uint8_t, the
\* prefix itself.
Choice(map_vec, dest_ip) ==
  LET scan[i \in 0 .. Len(map_vec)] ==
        IF i = 0 THEN NoChoice
        ELSE LET item == map_vec[i]
             IN  IF /\ matched_prefix_length(dest_ip, item.route_prefix,
                                             item.prefix_length)
                    /\ item.route_prefix >= scan[i - 1].max_match_length
                 THEN [max_match_length |-> item.route_prefix % LengthModulus,
                       interface_num |-> item.interface_num,
                       next_hop |-> item.next_hop]
                 ELSE scan[i - 1]
  IN  scan[Len(map_vec)]

\* Mutant: the time to live stays as it is.
route_one_datagram_same_ttl(r, dgram) ==
  LET chosen == Choice(r.map_vec, dgram.dst)
      hop    == IF chosen.next_hop = Direct THEN dgram.dst ELSE chosen.next_hop
  IN  IF dgram.ttl \in {0, 1} THEN r
      ELSE [r EXCEPT !.interfaces[chosen.interface_num + 1].nic =
              send_datagram(@, dgram, hop)]

\* interface_num counts from zero.
route_one_datagram(r, dgram) ==
  LET chosen == Choice(r.map_vec, dgram.dst)
      hop    == IF chosen.next_hop = Direct THEN dgram.dst ELSE chosen.next_hop
  IN  IF dgram.ttl \in {0, 1} THEN r
      ELSE [r EXCEPT !.interfaces[chosen.interface_num + 1].nic =
              send_datagram(@, [dgram EXCEPT !.ttl = @ - 1], hop)]

\* Mutant: the last interface is passed over.
Arrived_skips_last(r) ==
  LET upTo[i \in 0 .. Len(r.interfaces)] ==
        IF i = 0 THEN << >> ELSE upTo[i - 1] \o r.interfaces[i].datagrams_out
  IN  upTo[Len(r.interfaces) - 1]

\* Routing adds nothing to the queues of arrived datagrams, so all that route()
\* meets are there when it starts; it takes them interface by interface.
Arrived(r) ==
  LET upTo[i \in 0 .. Len(r.interfaces)] ==
        IF i = 0 THEN << >> ELSE upTo[i - 1] \o r.interfaces[i].datagrams_out
  IN  upTo[Len(r.interfaces)]

\* Mutant: the queues are not emptied.
route_keeps_queues(r) ==
  LET queue == Arrived(r)
      after[i \in 0 .. Len(queue)] ==
        IF i = 0 THEN r ELSE route_one_datagram(after[i - 1], queue[i])
  IN  after[Len(queue)]

route(r) ==
  LET queue == Arrived(r)
      empty == [r EXCEPT !.interfaces =
                  [i \in DOMAIN @ |-> [@[i] EXCEPT !.datagrams_out = << >>]]]
      after[i \in 0 .. Len(queue)] ==
        IF i = 0 THEN empty ELSE route_one_datagram(after[i - 1], queue[i])
  IN  after[Len(queue)]

\* AsyncNetworkInterface::recv_frame on interface i.
async_recv_frame(r, i, frame) ==
  LET nic == r.interfaces[i].nic
  IN  [r EXCEPT !.interfaces[i] =
         [nic |-> recv_frame(nic, frame),
          datagrams_out |-> @.datagrams_out \o ReturnedDatagram(nic, frame)]]
=============================================================================
