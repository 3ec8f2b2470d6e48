-------------------------- MODULE NetworkInterface --------------------------
(***************************************************************************)
(* libsponge/network_interface.{hh,cc}: IP datagrams in Ethernet frames,   *)
(* with ARP.  The object is a record of its members; the three std::maps   *)
(* are functions on finite sets of IP addresses.  A frame's payload is the *)
(* datagram or the ARP message it carries; one that does not parse is left *)
(* out, because recv_frame does nothing with it.                           *)
(***************************************************************************)
EXTENDS Integers, Sequences

CONSTANTS
  MAPPING_EXPIRE_TIME_MS,   \* 30000 in the code
  DST_IP_EXPIRE_TIME_MS     \* 5000 in the code

ASSUME ExpiryAssumption ==
  /\ MAPPING_EXPIRE_TIME_MS \in Nat \ {0}
  /\ DST_IP_EXPIRE_TIME_MS \in Nat \ {0}

ETHERNET_BROADCAST == <<"broadcast">>

NoMap == [ip \in {} |-> 0]

NewNetworkInterface(ethernet_address, ip_address) ==
  [ethernet_address |-> ethernet_address, ip_address |-> ip_address,
   frames_out |-> << >>, crt_time |-> 0, ip_map |-> NoMap,
   unknown_datagram_map |-> NoMap, ip_arp_time |-> NoMap]

\* map[key] = value, and map.erase(key).
Put(m, key, value) ==
  [k \in DOMAIN m \cup {key} |-> IF k = key THEN value ELSE m[k]]

Erase(m, key) == [k \in DOMAIN m \ {key} |-> m[k]]

-----------------------------------------------------------------------------
Frame(src, dst, payload) == [src |-> src, dst |-> dst, payload |-> payload]

Datagram(dgram) == [kind |-> "IPv4", dgram |-> dgram]

ARPMessage(opcode, sender_eth, sender_ip, target_eth, target_ip) ==
  [kind |-> "ARP", opcode |-> opcode,
   sender_ethernet_address |-> sender_eth, sender_ip_address |-> sender_ip,
   target_ethernet_address |-> target_eth, target_ip_address |-> target_ip]

\* The target's Ethernet address in a request: all zeroes.
NoEthernetAddress == <<"zero">>

send_payload(n, eaddr, payload) ==
  [n EXCEPT !.frames_out = Append(@, Frame(n.ethernet_address, eaddr, payload))]

\* Mutant: the address is asked for again each time.
broad_cast_always(n, ip) ==
  [send_payload(n, ETHERNET_BROADCAST,
                ARPMessage(1, n.ethernet_address, n.ip_address,
                           NoEthernetAddress, ip)) EXCEPT
     !.ip_arp_time = Put(@, ip, n.crt_time + DST_IP_EXPIRE_TIME_MS)]

\* Ask for the Ethernet address of ip, unless that was done recently.
broad_cast(n, ip) ==
  IF ip \in DOMAIN n.ip_arp_time THEN n
  ELSE [send_payload(n, ETHERNET_BROADCAST,
                     ARPMessage(1, n.ethernet_address, n.ip_address,
                                NoEthernetAddress, ip)) EXCEPT
          !.ip_arp_time = Put(@, ip, n.crt_time + DST_IP_EXPIRE_TIME_MS)]

\* One datagram waits for each unknown address: a later one takes its place.
send_datagram(n, dgram, next_hop) ==
  IF next_hop \in DOMAIN n.ip_map
  THEN send_payload(n, n.ip_map[next_hop].eaddr, Datagram(dgram))
  ELSE broad_cast([n EXCEPT !.unknown_datagram_map = Put(@, next_hop, dgram)],
                  next_hop)

\* Mutant: the datagram that waited is sent and goes on waiting.
Learn_keeps_waiting(n, ip, eaddr) ==
  LET known == [n EXCEPT !.ip_map =
                  Put(@, ip, [eaddr |-> eaddr,
                              expires |-> n.crt_time + MAPPING_EXPIRE_TIME_MS])]
  IN  IF ip \notin DOMAIN n.unknown_datagram_map THEN known
      ELSE send_payload(known, eaddr, Datagram(n.unknown_datagram_map[ip]))

\* A mapping is learnt, and the datagram that waited for it leaves.
Learn(n, ip, eaddr) ==
  LET known == [n EXCEPT !.ip_map =
                  Put(@, ip, [eaddr |-> eaddr,
                              expires |-> n.crt_time + MAPPING_EXPIRE_TIME_MS])]
  IN  IF ip \notin DOMAIN n.unknown_datagram_map THEN known
      ELSE [send_payload(known, eaddr, Datagram(n.unknown_datagram_map[ip]))
              EXCEPT !.unknown_datagram_map = Erase(@, ip)]

\* Both kinds of ARP message teach the sender's mapping; a reply teaches the
\* target's as well, and a request for our own address is answered.
ReceiveARP(n, msg) ==
  LET learnt == Learn(n, msg.sender_ip_address, msg.sender_ethernet_address)
  IN  IF msg.opcode = 2
      THEN Learn(learnt, msg.target_ip_address, msg.target_ethernet_address)
      ELSE IF msg.opcode = 1 /\ msg.target_ip_address = n.ip_address
      THEN send_payload(learnt, msg.sender_ethernet_address,
             ARPMessage(2, n.ethernet_address, n.ip_address,
                        msg.sender_ethernet_address, msg.sender_ip_address))
      ELSE learnt

ForMe(n, frame) == frame.dst \in {n.ethernet_address, ETHERNET_BROADCAST}

recv_frame(n, frame) ==
  IF ForMe(n, frame) /\ frame.payload.kind = "ARP"
  THEN ReceiveARP(n, frame.payload) ELSE n

\* The datagram that recv_frame returns, as a sequence of none or one.
ReturnedDatagram(n, frame) ==
  IF ForMe(n, frame) /\ frame.payload.kind = "IPv4"
  THEN <<frame.payload.dgram>> ELSE << >>

-----------------------------------------------------------------------------
\* Mutant: a mapping is used for a moment longer.
flush_expire_mapping_late(n) ==
  LET live == {ip \in DOMAIN n.ip_map : n.ip_map[ip].expires >= n.crt_time}
  IN  [n EXCEPT !.ip_map = [ip \in live |-> n.ip_map[ip]]]

flush_expire_mapping(n) ==
  LET live == {ip \in DOMAIN n.ip_map : n.ip_map[ip].expires > n.crt_time}
  IN  [n EXCEPT !.ip_map = [ip \in live |-> n.ip_map[ip]]]

\* Mutant: the log of requests is never cleared.
flush_expire_arp_log_never(n) == n

flush_expire_arp_log(n) ==
  LET live == {ip \in DOMAIN n.ip_arp_time : n.ip_arp_time[ip] > n.crt_time}
  IN  [n EXCEPT !.ip_arp_time = [ip \in live |-> n.ip_arp_time[ip]]]

interface_tick(n, ms) ==
  flush_expire_arp_log(flush_expire_mapping([n EXCEPT !.crt_time = @ + ms]))
=============================================================================
