----------------------------- MODULE HostProofs -----------------------------
(***************************************************************************)
(* The two ends of the stack of a host, its interface on a LAN and the     *)
(* socket above its connection, whatever comes from outside.               *)
(*                                                                         *)
(* For any number of interfaces and datagrams, and any two expiry times:   *)
(* caches hold true mappings, no datagram waits for a known address, each  *)
(* is handed up once and at its next hop, and requests are spaced.         *)
(*                                                                         *)
(* Whatever datagrams arrive, and whichever of them a lossy adapter drops, *)
(* the connection of a socket hears of one peer only; and whatever the     *)
(* connection does within its contract, the loop hands over all bytes      *)
(* before the end and throws only in two cases.                            *)
(***************************************************************************)
EXTENDS EthernetLan, SpongeSocket, TLAPS

Ips == {IpOf[h] : h \in Host}

Eths == {EthOf[h] : h \in Host}

\* The std::maps from IP addresses to V.
Maps(V) == UNION {[S -> V] : S \in SUBSET Ips}

\* The ARP messages that tell the truth, and the datagrams.
Requests ==
  {ARPMessage(1, EthOf[h], IpOf[h], NoEthernetAddress, IpOf[g]) : h, g \in Host}

Replies ==
  {ARPMessage(2, EthOf[h], IpOf[h], EthOf[g], IpOf[g]) : h, g \in Host}

DatagramPayloads == [kind : {"IPv4"}, dgram : Nat]

Frames == [src : Eths, dst : Eths \cup {ETHERNET_BROADCAST},
           payload : Requests \cup Replies \cup DatagramPayloads]

Mappings == [eaddr : Eths, expires : Nat]

Interfaces ==
  [ethernet_address : Eths, ip_address : Ips, frames_out : Seq(Frames),
   crt_time : Nat, ip_map : Maps(Mappings),
   unknown_datagram_map : Maps(Nat), ip_arp_time : Maps(Nat)]

\* The frames that wait in an interface's queue.
Queued(n) == {n.frames_out[i] : i \in 1 .. Len(n.frames_out)}

\* The interface of host h, between two calls or within one.
Sound(n, h) ==
  /\ n \in Interfaces
  /\ n.ethernet_address = EthOf[h]
  /\ n.ip_address = IpOf[h]
  /\ \A ip \in DOMAIN n.ip_map :
       \E g \in Host : ip = IpOf[g] /\ n.ip_map[ip].eaddr = EthOf[g]
  /\ \A ip \in DOMAIN n.ip_map : ip \notin DOMAIN n.unknown_datagram_map

-----------------------------------------------------------------------------
(* The maps.                                                               *)

\* A map stays one when an entry is put into it: map[key] = value.
LEMMA PutProperties ==
  ASSUME NEW V, NEW m \in Maps(V), NEW key \in Ips, NEW value \in V
  PROVE  Put(m, key, value) \in Maps(V)
<1>1. PICK S \in SUBSET Ips : m \in [S -> V]
  BY Zenon DEF Maps
<1>2. Put(m, key, value) \in [S \cup {key} -> V]
  BY <1>1, Zenon DEF Put
<1> QED
  BY <1>2, Zenon DEF Maps

\* A map that has lost some of its entries is a map: erase(), and the two loops
\* that flush what has expired.
LEMMA RestrictProperties ==
  ASSUME NEW V, NEW m \in Maps(V), NEW K \in SUBSET DOMAIN m
  PROVE  [k \in K |-> m[k]] \in Maps(V)
<1>1. PICK S \in SUBSET Ips : m \in [S -> V]
  BY Zenon DEF Maps
<1>2. [k \in K |-> m[k]] \in [K -> V] /\ K \in SUBSET Ips
  BY <1>1, Zenon
<1> QED
  BY <1>2, Zenon DEF Maps

\* The values of a map.
LEMMA MapValues ==
  ASSUME NEW V, NEW m \in Maps(V)
  PROVE  DOMAIN m \subseteq Ips /\ \A k \in DOMAIN m : m[k] \in V
BY Zenon DEF Maps

\* A new map is empty.
LEMMA NoMapProperties ==
  ASSUME NEW V
  PROVE  NoMap \in Maps(V) /\ DOMAIN NoMap = {}
<1>1. NoMap \in [{} -> V] /\ DOMAIN NoMap = {}
  BY Zenon DEF NoMap
<1> QED
  BY <1>1, Zenon DEF Maps

-----------------------------------------------------------------------------
(* One interface.                                                          *)

\* send_payload queues one frame and changes nothing else.
LEMMA SendPayload ==
  ASSUME NEW n \in Interfaces, NEW e \in Eths \cup {ETHERNET_BROADCAST},
         NEW p \in Requests \cup Replies \cup DatagramPayloads
  PROVE  LET s == send_payload(n, e, p) IN
         /\ s \in Interfaces
         /\ Queued(s) = Queued(n) \cup {Frame(n.ethernet_address, e, p)}
         /\ s = [n EXCEPT !.frames_out = s.frames_out]
<1> DEFINE f == Frame(n.ethernet_address, e, p)
           s == send_payload(n, e, p)
<1>1. f \in Frames
  BY Zenon DEF Interfaces, Frames, Frame
<1>2. n.frames_out \in Seq(Frames)
  BY Zenon DEF Interfaces
<1>3. s = [n EXCEPT !.frames_out = Append(n.frames_out, f)]
  BY Zenon DEF send_payload
<1>4. s.frames_out = Append(n.frames_out, f)
  BY <1>3, Zenon DEF Interfaces
<1>5. s \in Interfaces
  <2>1. Append(n.frames_out, f) \in Seq(Frames)
    BY <1>1, <1>2
  <2> HIDE DEF f, s
  <2> QED
    BY <1>3, <2>1, Zenon DEF Interfaces
<1>6. Queued(s) = Queued(n) \cup {f}
  <2> HIDE DEF f
  <2>1. Len(Append(n.frames_out, f)) = Len(n.frames_out) + 1
    BY <1>1, <1>2
  <2>2. \A i \in 1 .. Len(n.frames_out) : Append(n.frames_out, f)[i] = n.frames_out[i]
    BY <1>1, <1>2
  <2>3. Append(n.frames_out, f)[Len(n.frames_out) + 1] = f
    BY <1>1, <1>2
  <2>4. Len(n.frames_out) \in Nat
    BY <1>2
  <2> QED
    BY <1>4, <2>1, <2>2, <2>3, <2>4 DEF Queued
<1> QED
  BY <1>3, <1>4, <1>5, <1>6, Zenon

\* The interface n of h comes from m by a call that received a frame: some waiting
\* datagrams have left for their next hops, replies may have left too, and no
\* request has.
Answers(m, n, h) ==
  /\ Sound(n, h)
  /\ n.crt_time = m.crt_time
  /\ n.ip_arp_time = m.ip_arp_time
  /\ \A ip \in DOMAIN n.unknown_datagram_map :
       /\ ip \in DOMAIN m.unknown_datagram_map
       /\ n.unknown_datagram_map[ip] = m.unknown_datagram_map[ip]
  /\ \A f \in Queued(n) :
       \/ f.payload \in Replies
       \/ \E g \in Host :
            /\ IpOf[g] \in DOMAIN m.unknown_datagram_map
            /\ IpOf[g] \notin DOMAIN n.unknown_datagram_map
            /\ f = Frame(EthOf[h], EthOf[g], Datagram(m.unknown_datagram_map[IpOf[g]]))

\* The mappings of n are the ones of m, those of the hosts S learnt or renewed.
Told(m, n, S) ==
  \A g \in Host :
    IF g \in S
    THEN /\ IpOf[g] \in DOMAIN n.ip_map
         /\ n.ip_map[IpOf[g]].expires = m.crt_time + MAPPING_EXPIRE_TIME_MS
    ELSE /\ IpOf[g] \in DOMAIN n.ip_map <=> IpOf[g] \in DOMAIN m.ip_map
         /\ IpOf[g] \in DOMAIN m.ip_map => n.ip_map[IpOf[g]] = m.ip_map[IpOf[g]]

\* One mapping more is learnt.
LEMMA PutTold ==
  ASSUME NEW m, NEW n, NEW l, NEW S, Told(m, n, S), NEW g \in Host, NEW entry,
         entry.expires = m.crt_time + MAPPING_EXPIRE_TIME_MS,
         l.ip_map = Put(n.ip_map, IpOf[g], entry)
  PROVE  Told(m, l, S \cup {g})
<1>1. /\ DOMAIN l.ip_map = DOMAIN n.ip_map \cup {IpOf[g]}
      /\ l.ip_map[IpOf[g]] = entry
      /\ \A k \in DOMAIN n.ip_map : k # IpOf[g] => l.ip_map[k] = n.ip_map[k]
  BY Zenon DEF Put
<1> SUFFICES ASSUME NEW x \in Host
             PROVE  IF x \in S \cup {g}
                    THEN /\ IpOf[x] \in DOMAIN l.ip_map
                         /\ l.ip_map[IpOf[x]].expires
                              = m.crt_time + MAPPING_EXPIRE_TIME_MS
                    ELSE /\ IpOf[x] \in DOMAIN l.ip_map <=> IpOf[x] \in DOMAIN m.ip_map
                         /\ IpOf[x] \in DOMAIN m.ip_map =>
                              l.ip_map[IpOf[x]] = m.ip_map[IpOf[x]]
  BY Zenon DEF Told
<1>2. CASE x = g
  BY <1>1, <1>2, Zenon
<1>3. CASE x # g
  <2>1. IpOf[x] # IpOf[g]
    BY <1>3, LanAssumption, Zenon
  <2> QED
    BY <1>1, <1>3, <2>1, Zenon DEF Told
<1> QED
  BY <1>2, <1>3, Zenon

\* Learning a true mapping keeps an interface sound, and lets exactly the datagram
\* that waited for it leave.
LEMMA LearnAnswers ==
  ASSUME NEW h \in Host, NEW g \in Host, NEW m, NEW n, Answers(m, n, h),
         NEW S, Told(m, n, S)
  PROVE  /\ Answers(m, Learn(n, IpOf[g], EthOf[g]), h)
         /\ Told(m, Learn(n, IpOf[g], EthOf[g]), S \cup {g})
<1> DEFINE entry == [eaddr |-> EthOf[g], expires |-> n.crt_time + MAPPING_EXPIRE_TIME_MS]
           ipmap == Put(n.ip_map, IpOf[g], entry)
           known == [n EXCEPT !.ip_map = ipmap]
           left  == [k \in DOMAIN n.unknown_datagram_map \ {IpOf[g]} |->
                       n.unknown_datagram_map[k]]
           carry == Datagram(n.unknown_datagram_map[IpOf[g]])
           out   == send_payload(known, EthOf[g], carry)
<1>1. n \in Interfaces
  BY Zenon DEF Answers, Sound
<1>2. /\ n.ip_map \in Maps(Mappings)
      /\ n.unknown_datagram_map \in Maps(Nat)
      /\ n.crt_time \in Nat
  BY <1>1, Zenon DEF Interfaces
<1>3. IpOf[g] \in Ips /\ EthOf[g] \in Eths
  BY Zenon DEF Ips, Eths
<1>4. entry \in Mappings
  BY <1>2, <1>3, ExpiryAssumption DEF Mappings
<1>5. /\ ipmap \in Maps(Mappings)
      /\ DOMAIN ipmap = DOMAIN n.ip_map \cup {IpOf[g]}
      /\ \A k \in DOMAIN n.ip_map \cup {IpOf[g]} :
            ipmap[k] = IF k = IpOf[g] THEN entry ELSE n.ip_map[k]
  <2> HIDE DEF entry
  <2> QED
    BY <1>2, <1>3, <1>4, PutProperties, Zenon DEF Put
<1>6. /\ \A ip \in DOMAIN ipmap :
            \E x \in Host : ip = IpOf[x] /\ ipmap[ip].eaddr = EthOf[x]
      /\ \A ip \in DOMAIN ipmap :
            ip = IpOf[g] \/ ip \notin DOMAIN n.unknown_datagram_map
  <2>1. entry.eaddr = EthOf[g]
    BY Zenon
  <2> HIDE DEF entry, ipmap
  <2> QED
    BY <1>5, <2>1 DEF Answers, Sound
<1>7. /\ known \in Interfaces
      /\ known.ip_map = ipmap
      /\ known.ethernet_address = EthOf[h]
      /\ known.ip_address = IpOf[h]
      /\ known.crt_time = n.crt_time
      /\ known.ip_arp_time = n.ip_arp_time
      /\ known.unknown_datagram_map = n.unknown_datagram_map
      /\ known.frames_out = n.frames_out
  <2> HIDE DEF entry, ipmap
  <2> QED
    BY <1>1, <1>5, Zenon DEF Interfaces, Answers, Sound
\* Whatever becomes of the datagrams, the mapping is put into the map.
<1>told. ASSUME NEW l, l.ip_map = ipmap
      PROVE  Told(m, l, S \cup {g})
  <2>1. entry.expires = m.crt_time + MAPPING_EXPIRE_TIME_MS
    BY Zenon DEF Answers
  <2>2. l.ip_map = Put(n.ip_map, IpOf[g], entry)
    BY <1>told, Zenon
  <2> HIDE DEF entry, ipmap
  <2> QED
    BY <2>1, <2>2, PutTold, Zenon
<1>8. CASE IpOf[g] \notin DOMAIN n.unknown_datagram_map
  <2>1. Learn(n, IpOf[g], EthOf[g]) = known
    BY <1>8, Zenon DEF Learn
  <2> HIDE DEF entry, ipmap, known
  <2>2. Sound(known, h)
    BY <1>6, <1>7, <1>8, Zenon DEF Sound
  <2>3. Queued(known) = Queued(n)
    BY <1>7, Zenon DEF Queued
  <2>4. Answers(m, known, h)
    BY <1>7, <2>2, <2>3, Zenon DEF Answers
  <2> QED
    BY <1>7, <1>told, <2>1, <2>4, Zenon
<1>9. CASE IpOf[g] \in DOMAIN n.unknown_datagram_map
  <2> DEFINE l == [out EXCEPT !.unknown_datagram_map = left]
  <2>1. carry \in DatagramPayloads
    BY <1>2, <1>9, MapValues, Zenon DEF DatagramPayloads, Datagram
  <2>2. left \in Maps(Nat)
    BY <1>2, RestrictProperties, Zenon
  <2>3. /\ out \in Interfaces
        /\ Queued(out) = Queued(known) \cup {Frame(known.ethernet_address, EthOf[g], carry)}
        /\ out = [known EXCEPT !.frames_out = out.frames_out]
    <3> HIDE DEF entry, ipmap, known, carry
    <3> QED
      BY <1>3, <1>7, <2>1, SendPayload
  <2>4. Learn(n, IpOf[g], EthOf[g]) = l
    <3>1. out.unknown_datagram_map = n.unknown_datagram_map
      <4> HIDE DEF known, out
      <4> QED
        BY <1>7, <2>3, Zenon DEF Interfaces
    <3>2. Erase(out.unknown_datagram_map, IpOf[g]) = left
      BY <3>1, Zenon DEF Erase
    <3>3. Learn(n, IpOf[g], EthOf[g])
            = [out EXCEPT !.unknown_datagram_map = Erase(out.unknown_datagram_map, IpOf[g])]
      BY <1>9, Zenon DEF Learn
    <3> HIDE DEF out, left
    <3> QED
      BY <3>2, <3>3, Zenon
  <2>5. /\ l \in Interfaces
        /\ l.ip_map = ipmap
        /\ l.ethernet_address = EthOf[h]
        /\ l.ip_address = IpOf[h]
        /\ l.crt_time = n.crt_time
        /\ l.ip_arp_time = n.ip_arp_time
        /\ l.unknown_datagram_map = left
        /\ l.frames_out = out.frames_out
    <3> HIDE DEF entry, ipmap, known, out, left
    <3> QED
      BY <1>7, <2>2, <2>3, Zenon DEF Interfaces
  <2>6. /\ DOMAIN left = DOMAIN n.unknown_datagram_map \ {IpOf[g]}
        /\ \A k \in DOMAIN left : left[k] = n.unknown_datagram_map[k]
    BY Zenon
  <2>7. Queued(l) = Queued(n) \cup {Frame(EthOf[h], EthOf[g], carry)}
    <3> HIDE DEF entry, ipmap, known, out, left, carry, l
    <3>1. Queued(l) = Queued(out) /\ Queued(known) = Queued(n)
      BY <1>7, <2>5, Zenon DEF Queued
    <3> QED
      BY <1>7, <2>3, <3>1, Zenon
  <2> HIDE DEF entry, ipmap, known, out, left, l
  <2>8. Sound(l, h)
    BY <1>6, <2>5, <2>6, Zenon DEF Sound
  <2>9. n.unknown_datagram_map[IpOf[g]] = m.unknown_datagram_map[IpOf[g]]
    BY <1>9, Zenon DEF Answers
  <2>10. Answers(m, l, h)
    BY <1>9, <2>5, <2>6, <2>7, <2>8, <2>9 DEF Answers
  <2> QED
    BY <1>told, <2>4, <2>5, <2>10, Zenon
<1> QED
  BY <1>8, <1>9, Zenon

\* recv_frame, for any frame that tells the truth.
LEMMA RecvAnswers ==
  ASSUME NEW h \in Host, NEW m, Sound(m, h), m.frames_out = << >>, NEW f \in Frames
  PROVE  /\ Answers(m, recv_frame(m, f), h)
         /\ Told(m, recv_frame(m, f), {g \in Host : ForMe(m, f) /\ Tells(f, g)})
<1> DEFINE msg == f.payload
           who == {g \in Host : ForMe(m, f) /\ Tells(f, g)}
<1>1. Answers(m, m, h) /\ Told(m, m, {})
  BY DEF Answers, Queued, Told
<1>2. CASE ~(ForMe(m, f) /\ msg.kind = "ARP")
  <2>1. who = {}
    BY <1>2, Zenon DEF Tells
  <2>2. recv_frame(m, f) = m
    BY <1>2, Zenon DEF recv_frame
  <2> QED
    BY <1>1, <2>1, <2>2, Zenon
<1>3. CASE ForMe(m, f) /\ msg.kind = "ARP"
  <2>1. recv_frame(m, f) = ReceiveARP(m, msg)
    BY <1>3, Zenon DEF recv_frame
  <2>2. msg \in Requests \cup Replies
    BY <1>3, Zenon DEF Frames, DatagramPayloads, Datagram
  <2>who. /\ who \subseteq Host
          /\ \A g \in Host : g \in who <=>
               \/ msg.sender_ip_address = IpOf[g]
               \/ msg.opcode = 2 /\ msg.target_ip_address = IpOf[g]
    BY <1>3, Zenon DEF Tells
  <2>one. \A g, x \in Host : IpOf[g] = IpOf[x] <=> g = x
    BY LanAssumption, Zenon
  <2> HIDE DEF msg, who
  <2>3. CASE msg \in Replies
    <3>1. PICK x, y \in Host : msg = ARPMessage(2, EthOf[x], IpOf[x], EthOf[y], IpOf[y])
      BY <2>3 DEF Replies
    <3> DEFINE learnt == Learn(m, IpOf[x], EthOf[x])
    <3>2. ReceiveARP(m, msg) = Learn(learnt, IpOf[y], EthOf[y])
      BY <3>1, Zenon DEF ReceiveARP, ARPMessage
    <3>3. Answers(m, learnt, h) /\ Told(m, learnt, {} \cup {x})
      BY <1>1, LearnAnswers, Zenon
    <3> HIDE DEF learnt
    <3>4. /\ Answers(m, Learn(learnt, IpOf[y], EthOf[y]), h)
          /\ Told(m, Learn(learnt, IpOf[y], EthOf[y]), ({} \cup {x}) \cup {y})
      BY <3>3, LearnAnswers, Zenon
    <3>5. who = ({} \cup {x}) \cup {y}
      <4>1. msg.sender_ip_address = IpOf[x] /\ msg.opcode = 2 /\ msg.target_ip_address = IpOf[y]
        BY <3>1, Zenon DEF ARPMessage
      <4>2. \A g \in Host : g \in who <=> g = x \/ g = y
        BY <2>who, <2>one, <4>1
      <4> QED
        BY <2>who, <4>2, Zenon
    <3> QED
      BY <2>1, <3>2, <3>4, <3>5, Zenon DEF who
  <2>4. CASE msg \in Requests
    <3>1. PICK x, y \in Host :
            msg = ARPMessage(1, EthOf[x], IpOf[x], NoEthernetAddress, IpOf[y])
      BY <2>4 DEF Requests
    <3> DEFINE learnt == Learn(m, IpOf[x], EthOf[x])
               reply  == ARPMessage(2, EthOf[h], IpOf[h], EthOf[x], IpOf[x])
               out    == send_payload(learnt, EthOf[x], reply)
    <3>2. ReceiveARP(m, msg) = IF IpOf[y] = IpOf[h] THEN out ELSE learnt
      BY <3>1 DEF ReceiveARP, ARPMessage, Sound
    <3>3. Answers(m, learnt, h) /\ Told(m, learnt, {} \cup {x})
      BY <1>1, LearnAnswers, Zenon
    <3>who. who = {} \cup {x}
      <4>1. msg.sender_ip_address = IpOf[x] /\ msg.opcode # 2
        BY <3>1 DEF ARPMessage
      <4>2. \A g \in Host : g \in who <=> g = x
        BY <2>who, <2>one, <4>1
      <4> QED
        BY <2>who, <4>2, Zenon
    <3>4. reply \in Replies /\ EthOf[x] \in Eths
      BY DEF Replies, Eths
    <3> HIDE DEF learnt, reply
    <3>5. learnt \in Interfaces
      BY <3>3, Zenon DEF Answers, Sound
    <3>6. /\ out \in Interfaces
          /\ Queued(out) = Queued(learnt) \cup {Frame(learnt.ethernet_address, EthOf[x], reply)}
          /\ out = [learnt EXCEPT !.frames_out = out.frames_out]
      BY <3>4, <3>5, SendPayload, Zenon
    <3>7. Frame(learnt.ethernet_address, EthOf[x], reply).payload = reply
      BY Zenon DEF Frame
    <3> HIDE DEF out
    <3>8. /\ out.ethernet_address = learnt.ethernet_address
          /\ out.ip_address = learnt.ip_address
          /\ out.crt_time = learnt.crt_time
          /\ out.ip_map = learnt.ip_map
          /\ out.ip_arp_time = learnt.ip_arp_time
          /\ out.unknown_datagram_map = learnt.unknown_datagram_map
      BY <3>5, <3>6, Zenon DEF Interfaces
    <3>9. Sound(out, h)
      BY <3>3, <3>6, <3>8 DEF Answers, Sound
    <3>10. Answers(m, out, h)
      BY <3>3, <3>4, <3>6, <3>7, <3>8, <3>9, Zenon DEF Answers
    <3>11. Told(m, out, {} \cup {x})
      BY <3>3, <3>8 DEF Told
    <3> QED
      BY <2>1, <3>2, <3>3, <3>who, <3>10, <3>11, Zenon DEF who
  <2> QED
    BY <2>2, <2>3, <2>4, Zenon
<1> QED
  BY <1>2, <1>3, Zenon

\* The interface n of h comes from m by sending d to g: d has left, or it waits and
\* the address of g was asked for, now or recently.
Sends(m, n, h, g, d) ==
  LET request == ARPMessage(1, EthOf[h], IpOf[h], NoEthernetAddress, IpOf[g]) IN
  /\ Sound(n, h)
  /\ n.crt_time = m.crt_time
  /\ n.ip_map = m.ip_map
  /\ \/ /\ n.unknown_datagram_map = m.unknown_datagram_map
        /\ n.ip_arp_time = m.ip_arp_time
        /\ Queued(n) = {Frame(EthOf[h], EthOf[g], Datagram(d))}
     \/ /\ n.unknown_datagram_map = Put(m.unknown_datagram_map, IpOf[g], d)
        /\ n.ip_arp_time = m.ip_arp_time
        /\ Queued(n) = {}
     \/ /\ n.unknown_datagram_map = Put(m.unknown_datagram_map, IpOf[g], d)
        /\ IpOf[g] \notin DOMAIN m.ip_arp_time
        /\ n.ip_arp_time = Put(m.ip_arp_time, IpOf[g],
                              m.crt_time + DST_IP_EXPIRE_TIME_MS)
        /\ Queued(n) = {Frame(EthOf[h], ETHERNET_BROADCAST, request)}

\* send_datagram does one of these three things.
LEMMA SendDatagramSends ==
  ASSUME NEW h \in Host, NEW g \in Host, NEW d \in Nat,
         NEW m, Sound(m, h), m.frames_out = << >>
  PROVE  Sends(m, send_datagram(m, d, IpOf[g]), h, g, d)
<1> DEFINE n == send_datagram(m, d, IpOf[g])
           request == ARPMessage(1, EthOf[h], IpOf[h], NoEthernetAddress, IpOf[g])
           waiting == Put(m.unknown_datagram_map, IpOf[g], d)
           asking  == [m EXCEPT !.unknown_datagram_map = waiting]
           sent1   == send_payload(asking, ETHERNET_BROADCAST, request)
           log     == Put(m.ip_arp_time, IpOf[g], m.crt_time + DST_IP_EXPIRE_TIME_MS)
<1> SUFFICES Sends(m, n, h, g, d)
  BY Zenon
<1>1. m \in Interfaces /\ Queued(m) = {}
  BY DEF Sound, Queued
<1>2. IpOf[g] \in Ips /\ EthOf[g] \in Eths /\ Datagram(d) \in DatagramPayloads
  BY Zenon DEF Ips, Eths, DatagramPayloads, Datagram
<1>3. CASE IpOf[g] \in DOMAIN m.ip_map
  <2>1. PICK x \in Host : IpOf[g] = IpOf[x] /\ m.ip_map[IpOf[g]].eaddr = EthOf[x]
    BY <1>3, Zenon DEF Sound
  <2>2. x = g
    BY <2>1, LanAssumption, Zenon
  <2>3. n = send_payload(m, EthOf[g], Datagram(d))
    BY <1>3, <2>1, <2>2, Zenon DEF send_datagram
  <2> HIDE DEF n
  <2>4. /\ n \in Interfaces
        /\ Queued(n) = Queued(m) \cup {Frame(m.ethernet_address, EthOf[g], Datagram(d))}
        /\ n = [m EXCEPT !.frames_out = n.frames_out]
    BY <1>1, <1>2, <2>3, SendPayload, Zenon
  <2>5. /\ n.ethernet_address = m.ethernet_address
        /\ n.ip_address = m.ip_address
        /\ n.crt_time = m.crt_time
        /\ n.ip_map = m.ip_map
        /\ n.ip_arp_time = m.ip_arp_time
        /\ n.unknown_datagram_map = m.unknown_datagram_map
    BY <1>1, <2>4, Zenon DEF Interfaces
  <2> QED
    BY <1>1, <2>4, <2>5 DEF Sends, Sound
<1>4. CASE IpOf[g] \notin DOMAIN m.ip_map
  <2>1. /\ waiting \in Maps(Nat)
        /\ DOMAIN waiting = DOMAIN m.unknown_datagram_map \cup {IpOf[g]}
    BY <1>1, <1>2, PutProperties, Zenon DEF Interfaces, Put
  <2>2. m.crt_time + DST_IP_EXPIRE_TIME_MS \in Nat /\ m.ip_arp_time \in Maps(Nat)
    BY <1>1, ExpiryAssumption DEF Interfaces
  <2>3. log \in Maps(Nat)
    BY <1>2, <2>2, PutProperties, Zenon
  <2>4. n = broad_cast(asking, IpOf[g])
    BY <1>4, Zenon DEF send_datagram
  <2> HIDE DEF waiting, log
  <2>5. /\ asking \in Interfaces
        /\ asking.ethernet_address = EthOf[h]
        /\ asking.ip_address = IpOf[h]
        /\ asking.crt_time = m.crt_time
        /\ asking.ip_map = m.ip_map
        /\ asking.ip_arp_time = m.ip_arp_time
        /\ asking.unknown_datagram_map = waiting
        /\ asking.frames_out = << >>
    BY <1>1, <2>1, Zenon DEF Interfaces, Sound
  <2> HIDE DEF asking
  <2>6. Sound(asking, h) /\ Queued(asking) = {}
    BY <1>4, <2>1, <2>5 DEF Sound, Queued
  <2>7. CASE IpOf[g] \in DOMAIN m.ip_arp_time
    <3>1. n = asking
      BY <2>4, <2>5, <2>7, Zenon DEF broad_cast
    <3> QED
      BY <2>5, <2>6, <3>1, Zenon DEF Sends, waiting
  <2>8. CASE IpOf[g] \notin DOMAIN m.ip_arp_time
    <3>1. /\ request \in Requests \cup Replies \cup DatagramPayloads
          /\ ETHERNET_BROADCAST \in Eths \cup {ETHERNET_BROADCAST}
      BY DEF Requests
    <3>2. n = [sent1 EXCEPT !.ip_arp_time =
                 Put(sent1.ip_arp_time, IpOf[g], m.crt_time + DST_IP_EXPIRE_TIME_MS)]
      BY <2>4, <2>5, <2>8, Zenon DEF broad_cast
    <3> HIDE DEF request, n
    <3>3. /\ sent1 \in Interfaces
          /\ Queued(sent1) = Queued(asking)
               \cup {Frame(asking.ethernet_address, ETHERNET_BROADCAST, request)}
          /\ sent1 = [asking EXCEPT !.frames_out = sent1.frames_out]
      BY <2>5, <3>1, SendPayload, Zenon
    <3> HIDE DEF sent1
    <3>4. /\ sent1.ethernet_address = EthOf[h]
          /\ sent1.ip_address = IpOf[h]
          /\ sent1.crt_time = m.crt_time
          /\ sent1.ip_map = m.ip_map
          /\ sent1.ip_arp_time = m.ip_arp_time
          /\ sent1.unknown_datagram_map = waiting
      BY <2>5, <3>3, Zenon DEF Interfaces
    <3>5. n = [sent1 EXCEPT !.ip_arp_time = log]
      BY <3>2, <3>4, Zenon DEF log
    <3>6. /\ n \in Interfaces
          /\ n.ethernet_address = EthOf[h]
          /\ n.ip_address = IpOf[h]
          /\ n.crt_time = m.crt_time
          /\ n.ip_map = m.ip_map
          /\ n.ip_arp_time = log
          /\ n.unknown_datagram_map = waiting
          /\ n.frames_out = sent1.frames_out
      BY <2>3, <3>3, <3>4, <3>5, Zenon DEF Interfaces
    <3>7. Queued(n) = {Frame(EthOf[h], ETHERNET_BROADCAST, request)}
      <4>1. Queued(n) = Queued(sent1)
        BY <3>6, Zenon DEF Queued
      <4> QED
        BY <2>5, <2>6, <3>3, <4>1, Zenon
    <3>8. Sound(n, h)
      BY <1>4, <2>1, <3>6 DEF Sound
    <3> QED
      BY <2>8, <3>6, <3>7, <3>8, Zenon DEF Sends, waiting, log, request
  <2> QED
    BY <2>7, <2>8, Zenon
<1> QED
  BY <1>3, <1>4, Zenon

\* tick forgets mappings and requests that have expired, and nothing else.
LEMMA TickEffect ==
  ASSUME NEW h \in Host, NEW m, Sound(m, h)
  PROVE  LET n == interface_tick(m, 1) IN
         /\ Sound(n, h)
         /\ n.crt_time = m.crt_time + 1
         /\ n.frames_out = m.frames_out
         /\ n.unknown_datagram_map = m.unknown_datagram_map
         /\ DOMAIN n.ip_arp_time = {ip \in DOMAIN m.ip_arp_time :
                                      m.ip_arp_time[ip] > m.crt_time + 1}
         /\ \A ip \in DOMAIN n.ip_arp_time : n.ip_arp_time[ip] = m.ip_arp_time[ip]
         /\ DOMAIN n.ip_map = {ip \in DOMAIN m.ip_map :
                                 m.ip_map[ip].expires > m.crt_time + 1}
         /\ \A ip \in DOMAIN n.ip_map : n.ip_map[ip] = m.ip_map[ip]
<1> DEFINE n == interface_tick(m, 1)
           later == [m EXCEPT !.crt_time = m.crt_time + 1]
           live1 == {ip \in DOMAIN m.ip_map : m.ip_map[ip].expires > m.crt_time + 1}
           map1  == [ip \in live1 |-> m.ip_map[ip]]
           live2 == {ip \in DOMAIN m.ip_arp_time : m.ip_arp_time[ip] > m.crt_time + 1}
           map2  == [ip \in live2 |-> m.ip_arp_time[ip]]
           flushed == [later EXCEPT !.ip_map = map1]
<1>1. m \in Interfaces
  BY Zenon DEF Sound
<1>2. /\ m.ip_map \in Maps(Mappings)
      /\ m.ip_arp_time \in Maps(Nat)
      /\ m.crt_time + 1 \in Nat
  BY <1>1 DEF Interfaces
<1>3. map1 \in Maps(Mappings) /\ map2 \in Maps(Nat)
  BY <1>2, RestrictProperties, Zenon
<1>4. /\ later \in Interfaces
      /\ later = [later EXCEPT !.frames_out = m.frames_out]
      /\ later.ethernet_address = m.ethernet_address
      /\ later.ip_address = m.ip_address
      /\ later.crt_time = m.crt_time + 1
      /\ later.ip_map = m.ip_map
      /\ later.ip_arp_time = m.ip_arp_time
      /\ later.unknown_datagram_map = m.unknown_datagram_map
      /\ later.frames_out = m.frames_out
  BY <1>1, <1>2, Zenon DEF Interfaces
<1>5. n = flush_expire_arp_log(flush_expire_mapping(later))
  BY Zenon DEF interface_tick
<1>6. flush_expire_mapping(later) = flushed
  <2> HIDE DEF later
  <2> QED
    BY <1>4 DEF flush_expire_mapping
<1>7. /\ flushed \in Interfaces
      /\ flushed.ethernet_address = m.ethernet_address
      /\ flushed.ip_address = m.ip_address
      /\ flushed.crt_time = m.crt_time + 1
      /\ flushed.ip_map = map1
      /\ flushed.ip_arp_time = m.ip_arp_time
      /\ flushed.unknown_datagram_map = m.unknown_datagram_map
      /\ flushed.frames_out = m.frames_out
  <2> HIDE DEF later, map1
  <2> QED
    BY <1>3, <1>4, Zenon DEF Interfaces
<1>8. flush_expire_arp_log(flushed) = [flushed EXCEPT !.ip_arp_time = map2]
  <2> HIDE DEF flushed
  <2> QED
    BY <1>7, Zenon DEF flush_expire_arp_log
<1>9. /\ n \in Interfaces
      /\ n.ethernet_address = m.ethernet_address
      /\ n.ip_address = m.ip_address
      /\ n.crt_time = m.crt_time + 1
      /\ n.ip_map = map1
      /\ n.ip_arp_time = map2
      /\ n.unknown_datagram_map = m.unknown_datagram_map
      /\ n.frames_out = m.frames_out
  <2> HIDE DEF n, flushed, map1, map2
  <2> QED
    BY <1>3, <1>5, <1>6, <1>7, <1>8, Zenon DEF Interfaces
<1>10. /\ DOMAIN map1 = live1 /\ DOMAIN map1 \subseteq DOMAIN m.ip_map
       /\ \A ip \in DOMAIN map1 : map1[ip] = m.ip_map[ip]
       /\ DOMAIN map2 = live2
       /\ \A ip \in DOMAIN map2 : map2[ip] = m.ip_arp_time[ip]
  BY Zenon
<1>11. Sound(n, h)
  <2> HIDE DEF n, map1, map2
  <2> QED
    BY <1>9, <1>10 DEF Sound
<1> HIDE DEF n, map1, map2
<1> QED
  BY <1>9, <1>10, <1>11, Zenon DEF n

-----------------------------------------------------------------------------
(* The invariant.                                                          *)

\* Every interface is sound, its queue is empty between two calls, and every frame
\* on the way tells the truth.
Truthful ==
  /\ nic \in [Host -> Interfaces]
  /\ \A h \in Host : Sound(nic[h], h) /\ nic[h].frames_out = << >>
  /\ wire \subseteq [to : Host, frame : Frames]
  /\ sent \in Seq([from : Host, to : Host])
  /\ got \in [Host -> Seq(Nat)]
  /\ asked \in [Host -> [Host -> Seq(Nat)]]

\* A request that is not old enough to be repeated is in the log.
Logged ==
  \A h, g \in Host : \A i \in 1 .. Len(asked[h][g]) :
    LET until == asked[h][g][i] + DST_IP_EXPIRE_TIME_MS IN
    \/ until <= nic[h].crt_time
    \/ IpOf[g] \in DOMAIN nic[h].ip_arp_time /\ nic[h].ip_arp_time[IpOf[g]] = until

\* A mapping expires MAPPING_EXPIRE_TIME_MS after it was last told, and is gone then.
Renewed ==
  /\ heard \in [Host -> [Host -> Int]]
  /\ \A h, g \in Host :
       LET until == heard[h][g] + MAPPING_EXPIRE_TIME_MS IN
       IF IpOf[g] \in DOMAIN nic[h].ip_map
       THEN /\ heard[h][g] # Never
            /\ nic[h].ip_map[IpOf[g]].expires = until
            /\ nic[h].crt_time < until
       ELSE heard[h][g] = Never \/ until <= nic[h].crt_time

\* Wherever a datagram is, it was sent, and is on its way between the two hosts it
\* was sent from and to: while it waits, in a frame, and when it is handed up.
WaitsAsSent ==
  \A h \in Host : \A ip \in DOMAIN nic[h].unknown_datagram_map :
    LET d == nic[h].unknown_datagram_map[ip] IN
    d \in 1 .. Len(sent) /\ sent[d].from = h /\ ip = IpOf[sent[d].to]

FramedAsSent ==
  \A f \in wire : f.frame.payload.kind = "IPv4" =>
    LET d == f.frame.payload.dgram IN
    /\ d \in 1 .. Len(sent)
    /\ f.frame = Frame(EthOf[sent[d].from], EthOf[sent[d].to], Datagram(d))

HandedAsSent ==
  \A h \in Host : \A i \in 1 .. Len(got[h]) :
    got[h][i] \in 1 .. Len(sent) /\ sent[got[h][i]].to = h

Origin == WaitsAsSent /\ FramedAsSent /\ HandedAsSent

\* A datagram is in one place: it waits, or it is on the way to the hosts that
\* have not heard it, or it was handed up.
OnlyWaits ==
  \A h \in Host : \A ip \in DOMAIN nic[h].unknown_datagram_map :
    LET d == nic[h].unknown_datagram_map[ip] IN
    /\ \A f \in wire : f.frame.payload # Datagram(d)
    /\ \A g \in Host : \A i \in 1 .. Len(got[g]) : got[g][i] # d

OnlyFramed ==
  \A f \in wire : \A i \in 1 .. Len(got[f.to]) :
    f.frame.payload # Datagram(got[f.to][i])

HandedOnce ==
  \A h \in Host : \A i, j \in 1 .. Len(got[h]) : got[h][i] = got[h][j] => i = j

OnePlace == OnlyWaits /\ OnlyFramed /\ HandedOnce

LanInv == Truthful /\ Logged /\ RequestsSpaced /\ Renewed /\ Origin /\ OnePlace

\* A datagram was sent from a host to a host.
LEMMA SentBetweenHosts ==
  ASSUME Truthful, NEW d \in 1 .. Len(sent)
  PROVE  d \in Nat /\ sent[d].from \in Host /\ sent[d].to \in Host
<1> DEFINE S == [from : Host, to : Host]
<1>1. sent \in Seq(S)
  BY Zenon DEF Truthful
<1>2. d \in Nat
  OBVIOUS
<1>3. sent[d] \in S
  <2> HIDE DEF S
  <2> QED
    BY <1>1
<1> QED
  BY <1>2, <1>3, Zenon

\* It holds before anything is sent.
LEMMA InitLan == Init => LanInv
<1> SUFFICES ASSUME Init PROVE LanInv
  BY Zenon
<1>1. \A h \in Host :
        /\ NewNetworkInterface(EthOf[h], IpOf[h]) \in Interfaces
        /\ Sound(NewNetworkInterface(EthOf[h], IpOf[h]), h)
  <2> TAKE h \in Host
  <2>1. NoMap \in Maps(Mappings) /\ NoMap \in Maps(Nat) /\ DOMAIN NoMap = {}
    BY NoMapProperties, Zenon
  <2>2. EthOf[h] \in Eths /\ IpOf[h] \in Ips /\ << >> \in Seq(Frames)
    BY DEF Eths, Ips
  <2> QED
    BY <2>1, <2>2, Zenon DEF NewNetworkInterface, Interfaces, Sound
<1>2. \A h \in Host :
        /\ nic[h] \in Interfaces
        /\ Sound(nic[h], h)
        /\ nic[h].frames_out = << >>
        /\ DOMAIN nic[h].unknown_datagram_map = {}
        /\ DOMAIN nic[h].ip_map = {}
  BY <1>1, NoMapProperties, Zenon DEF Init, NewNetworkInterface
<1>3. /\ asked \in [Host -> [Host -> Seq(Nat)]]
      /\ \A h, g \in Host : 1 .. Len(asked[h][g]) = {}
  BY DEF Init
<1>4. Truthful
  BY <1>2, <1>3 DEF Init, Truthful
<1>5. Logged /\ RequestsSpaced
  BY <1>3, Zenon DEF Logged, RequestsSpaced
<1>6. Renewed
  <2>1. \A h, g \in Host : heard[h][g] = Never
    BY Zenon DEF Init
  <2>2. heard \in [Host -> [Host -> Int]]
    BY DEF Init, Never
  <2> QED
    BY <1>2, <2>1, <2>2, Zenon DEF Renewed
<1>7. Origin /\ OnePlace
  <2>1. wire = {} /\ \A h \in Host : got[h] = << >>
    BY Zenon DEF Init
  <2>2. \A h \in Host : 1 .. Len(got[h]) = {}
    BY <2>1
  <2>3. \A f \in wire : FALSE
    BY <2>1, Zenon
  <2>4. WaitsAsSent /\ OnlyWaits
    BY <1>2, Zenon DEF WaitsAsSent, OnlyWaits
  <2>5. FramedAsSent /\ OnlyFramed
    BY <2>3, Zenon DEF FramedAsSent, OnlyFramed
  <2>6. HandedAsSent /\ HandedOnce
    BY <2>2, Zenon DEF HandedAsSent, HandedOnce
  <2> QED
    BY <2>4, <2>5, <2>6, Zenon DEF Origin, OnePlace
<1> QED
  BY <1>4, <1>5, <1>6, <1>7, Zenon DEF LanInv

\* What a call does to the LAN besides changing its interface: its queue becomes
\* frames on the way, and its requests are noted.
LEMMA BecomeEffect ==
  ASSUME Truthful, NEW h \in Host, NEW n, Sound(n, h), NEW w \in SUBSET wire,
         Become(h, n, w)
  PROVE  /\ nic' \in [Host -> Interfaces]
         /\ \A k \in Host : Sound(nic'[k], k) /\ nic'[k].frames_out = << >>
         /\ wire' \subseteq [to : Host, frame : Frames]
         /\ asked' \in [Host -> [Host -> Seq(Nat)]]
         /\ \A k \in Host \ {h} : nic'[k] = nic[k] /\ asked'[k] = asked[k]
         /\ nic'[h].crt_time = n.crt_time
         /\ nic'[h].ip_map = n.ip_map
         /\ nic'[h].ip_arp_time = n.ip_arp_time
         /\ nic'[h].unknown_datagram_map = n.unknown_datagram_map
         /\ \A f \in wire' : f \in w \/ f.frame \in Queued(n)
         /\ \A g \in Host :
              asked'[h][g] = IF \E f \in Queued(n) : IsRequestFor(f, g)
                             THEN Append(asked[h][g], n.crt_time) ELSE asked[h][g]
<1> DEFINE idle == [n EXCEPT !.frames_out = << >>]
<1>1. n \in Interfaces /\ n.frames_out \in Seq(Frames) /\ n.crt_time \in Nat
  BY Zenon DEF Sound, Interfaces
<1>2. /\ idle \in Interfaces
      /\ idle.frames_out = << >>
      /\ idle.ethernet_address = n.ethernet_address
      /\ idle.ip_address = n.ip_address
      /\ idle.crt_time = n.crt_time
      /\ idle.ip_map = n.ip_map
      /\ idle.ip_arp_time = n.ip_arp_time
      /\ idle.unknown_datagram_map = n.unknown_datagram_map
  <2> << >> \in Seq(Frames)
    OBVIOUS
  <2> QED
    BY <1>1, Zenon DEF Interfaces
<1>3. nic' = [nic EXCEPT ![h] = idle]
  BY Zenon DEF Become
<1> HIDE DEF idle
<1>4. Sound(idle, h)
  BY <1>2 DEF Sound
<1>5. /\ nic' \in [Host -> Interfaces]
      /\ nic'[h] = idle
      /\ \A k \in Host \ {h} : nic'[k] = nic[k]
  BY <1>2, <1>3, Zenon DEF Truthful
<1>6. \A k \in Host : Sound(nic'[k], k) /\ nic'[k].frames_out = << >>
  BY <1>2, <1>4, <1>5, Zenon DEF Truthful
<1>7. \A f \in wire' : f \in w \/ f \in Heard(h, n.frames_out)
  BY Zenon DEF Become
<1>8. \A f \in Heard(h, n.frames_out) :
        f \in [to : Host, frame : Frames] /\ f.frame \in Queued(n)
  <2>1. \A i \in 1 .. Len(n.frames_out) : n.frames_out[i] \in Frames
    BY <1>1
  <2> QED
    BY <2>1 DEF Heard, Queued
<1>9. wire' \subseteq [to : Host, frame : Frames]
  BY <1>7, <1>8, Zenon DEF Truthful
<1>10. \A g \in Host :
         (\E i \in 1 .. Len(n.frames_out) : IsRequestFor(n.frames_out[i], g))
           <=> \E f \in Queued(n) : IsRequestFor(f, g)
  BY Zenon DEF Queued
<1>11. asked' = [asked EXCEPT ![h] = [g \in Host |->
                  IF \E i \in 1 .. Len(n.frames_out) : IsRequestFor(n.frames_out[i], g)
                  THEN Append(asked[h][g], n.crt_time) ELSE asked[h][g]]]
  BY Zenon DEF Become
<1>12. /\ asked' \in [Host -> [Host -> Seq(Nat)]]
       /\ \A k \in Host \ {h} : asked'[k] = asked[k]
       /\ \A g \in Host :
            asked'[h][g] = IF \E f \in Queued(n) : IsRequestFor(f, g)
                           THEN Append(asked[h][g], n.crt_time) ELSE asked[h][g]
  <2>1. \A g \in Host : Append(asked[h][g], n.crt_time) \in Seq(Nat)
    <3> TAKE g \in Host
    <3>1. asked[h][g] \in Seq(Nat)
      BY Zenon DEF Truthful
    <3> QED
      BY <1>1, <3>1
  <2>2. asked \in [Host -> [Host -> Seq(Nat)]]
    BY Zenon DEF Truthful
  <2> QED
    BY <1>10, <1>11, <2>1, <2>2, Zenon
<1> QED
  BY <1>2, <1>5, <1>6, <1>7, <1>8, <1>9, <1>12, Zenon

\* Requests noted earlier stay noted, and so stay spaced; only the log and the
\* clock decide whether they stay logged.
LEMMA NotedStays ==
  ASSUME Logged, RequestsSpaced,
         \A h, g \in Host : asked'[h][g] = asked[h][g],
         \A h \in Host : /\ nic'[h].crt_time = nic[h].crt_time
                         /\ nic'[h].ip_arp_time = nic[h].ip_arp_time
  PROVE  Logged' /\ RequestsSpaced'
<1>1. Logged'
  BY DEF Logged
<1>2. RequestsSpaced'
  BY DEF RequestsSpaced
<1> QED
  BY <1>1, <1>2, Zenon

\* A request that is noted last, when those before it are old, is spaced from them.
LEMMA NotedLast ==
  ASSUME NEW s \in Seq(Nat), NEW now \in Nat, NEW gap \in Nat,
         \A i \in 1 .. Len(s) : s[i] + gap <= now,
         \A i, j \in 1 .. Len(s) : i < j => s[j] - s[i] >= gap
  PROVE  LET t == Append(s, now) IN
         /\ \A i \in 1 .. Len(t) : t[i] + gap <= now \/ t[i] = now
         /\ \A i, j \in 1 .. Len(t) : i < j => t[j] - t[i] >= gap
<1> DEFINE t == Append(s, now)
<1>1. /\ Len(s) \in Nat
      /\ Len(t) = Len(s) + 1
      /\ \A i \in 1 .. Len(s) : t[i] = s[i] /\ s[i] \in Nat
      /\ t[Len(s) + 1] = now
  OBVIOUS
<1> HIDE DEF t
<1>2. \A i \in 1 .. Len(t) : i \in 1 .. Len(s) \/ i = Len(s) + 1
  BY <1>1
<1>3. \A i \in 1 .. Len(t) : t[i] + gap <= now \/ t[i] = now
  BY <1>1, <1>2, Zenon
<1>4. \A i, j \in 1 .. Len(t) : i < j => t[j] - t[i] >= gap
  <2> SUFFICES ASSUME NEW i \in 1 .. Len(t), NEW j \in 1 .. Len(t), i < j
               PROVE  t[j] - t[i] >= gap
    BY Zenon
  <2>1. i \in 1 .. Len(s)
    BY <1>1
  <2>2. CASE j \in 1 .. Len(s)
    BY <1>1, <2>1, <2>2
  <2>3. CASE j = Len(s) + 1
    BY <1>1, <2>1, <2>3
  <2> QED
    BY <1>2, <2>2, <2>3, Zenon
<1> QED
  BY <1>3, <1>4, Zenon DEF t

\* A datagram is sent.
LEMMA SendStep ==
  ASSUME LanInv, NEW h \in Host, NEW g \in Host, SendDatagram(h, g)
  PROVE  LanInv'
<1> DEFINE d == Len(sent) + 1
           n == send_datagram(nic[h], d, IpOf[g])
           request == Frame(EthOf[h], ETHERNET_BROADCAST,
                            ARPMessage(1, EthOf[h], IpOf[h], NoEthernetAddress, IpOf[g]))
           packet == Frame(EthOf[h], EthOf[g], Datagram(d))
<1>1. /\ Truthful /\ Logged /\ RequestsSpaced /\ Renewed
      /\ WaitsAsSent /\ FramedAsSent /\ HandedAsSent
      /\ OnlyWaits /\ OnlyFramed /\ HandedOnce
  BY Zenon DEF LanInv, Origin, OnePlace
<1>2. d \in Nat /\ Len(sent) \in Nat
  BY <1>1 DEF Truthful
<1>3. Sends(nic[h], n, h, g, d)
  <2> HIDE DEF d
  <2> QED
    BY <1>1, <1>2, SendDatagramSends, Zenon DEF Truthful
<1>4. Become(h, n, wire) /\ got' = got /\ heard' = heard
  BY Zenon DEF SendDatagram
<1>5. /\ sent' \in Seq([from : Host, to : Host])
      /\ Len(sent') = d
      /\ \A i \in 1 .. Len(sent) : sent'[i] = sent[i]
      /\ sent'[d].from = h /\ sent'[d].to = g
  <2>1. sent' = Append(sent, [from |-> h, to |-> g])
    BY Zenon DEF SendDatagram
  <2> QED
    BY <1>1, <2>1 DEF Truthful
<1> HIDE DEF n, d
<1>6. Sound(n, h) /\ n.crt_time = nic[h].crt_time /\ n.ip_map = nic[h].ip_map
  BY <1>3, Zenon DEF Sends
<1>7. /\ nic' \in [Host -> Interfaces]
      /\ \A k \in Host : Sound(nic'[k], k) /\ nic'[k].frames_out = << >>
      /\ wire' \subseteq [to : Host, frame : Frames]
      /\ asked' \in [Host -> [Host -> Seq(Nat)]]
      /\ \A k \in Host \ {h} : nic'[k] = nic[k] /\ asked'[k] = asked[k]
      /\ nic'[h].crt_time = n.crt_time
      /\ nic'[h].ip_map = n.ip_map
      /\ nic'[h].ip_arp_time = n.ip_arp_time
      /\ nic'[h].unknown_datagram_map = n.unknown_datagram_map
      /\ \A f \in wire' : f \in wire \/ f.frame \in Queued(n)
      /\ \A x \in Host :
           asked'[h][x] = IF \E f \in Queued(n) : IsRequestFor(f, x)
                          THEN Append(asked[h][x], n.crt_time) ELSE asked[h][x]
  BY <1>1, <1>4, <1>6, BecomeEffect, Zenon
<1>8. Truthful'
  BY <1>1, <1>4, <1>5, <1>7, Zenon DEF Truthful
<1>9. /\ ~ \E x \in Host : IsRequestFor(packet, x)
      /\ \A x \in Host : IsRequestFor(request, x) <=> x = g
  BY LanAssumption, Zenon DEF IsRequestFor, Frame, Datagram, ARPMessage
<1>10. /\ packet.payload.kind = "IPv4" /\ packet.payload.dgram = d
       /\ packet.payload = Datagram(d)
       /\ request.payload.kind = "ARP"
  BY Zenon DEF Frame, Datagram, ARPMessage
<1>11. \A x, y : Datagram(x) = Datagram(y) => x = y
  BY Zenon DEF Datagram
<1>12. packet = Frame(EthOf[sent'[d].from], EthOf[sent'[d].to], Datagram(d))
  BY <1>5, Zenon
<1>13. \A f \in Queued(n) : f = packet \/ f = request
  BY <1>3, Zenon DEF Sends
<1>14. \A f \in Queued(n) : f = packet => n.unknown_datagram_map = nic[h].unknown_datagram_map
  <2>1. packet # request
    BY <1>10, Zenon
  <2> QED
    BY <1>3, <2>1, Zenon DEF Sends
<1> HIDE DEF packet
<1>15. Logged' /\ RequestsSpaced'
  <2>1. \A x, y \in Host : asked[x][y] \in Seq(Nat)
    BY <1>1, Zenon DEF Truthful
  <2>2. \A x \in Host : nic[x].crt_time \in Nat
    BY <1>1, Zenon DEF Truthful, Interfaces
  <2>3. CASE \A f \in Queued(n) : f # request
    <3>1. n.ip_arp_time = nic[h].ip_arp_time
      BY <1>3, <2>3, Zenon DEF Sends
    <3>2. \A x, y \in Host : asked'[x][y] = asked[x][y]
      BY <1>7, <1>9, <1>13, <2>3, Zenon
    <3>3. \A x \in Host : /\ nic'[x].crt_time = nic[x].crt_time
                          /\ nic'[x].ip_arp_time = nic[x].ip_arp_time
      BY <1>6, <1>7, <3>1, Zenon
    <3> QED
      BY <1>1, <3>2, <3>3, NotedStays, Zenon
  <2>4. CASE request \in Queued(n)
    <3>1. /\ IpOf[g] \notin DOMAIN nic[h].ip_arp_time
          /\ n.ip_arp_time = Put(nic[h].ip_arp_time, IpOf[g],
                                 nic[h].crt_time + DST_IP_EXPIRE_TIME_MS)
          /\ Queued(n) = {request}
      <4>1. packet # request
        BY <1>10, Zenon
      <4> QED
        BY <1>3, <2>4, <4>1, Zenon DEF Sends, packet
    <3>2. /\ \A x, y \in Host : x # h \/ y # g => asked'[x][y] = asked[x][y]
          /\ asked'[h][g] = Append(asked[h][g], nic[h].crt_time)
      BY <1>6, <1>7, <1>9, <3>1, Zenon
    <3>3. /\ \A x \in Host : nic'[x].crt_time = nic[x].crt_time
          /\ \A x \in Host \ {h} : nic'[x].ip_arp_time = nic[x].ip_arp_time
      BY <1>6, <1>7, Zenon
    <3>4. /\ IpOf[g] \in DOMAIN nic'[h].ip_arp_time
          /\ nic'[h].ip_arp_time[IpOf[g]] = nic[h].crt_time + DST_IP_EXPIRE_TIME_MS
          /\ \A ip \in DOMAIN nic[h].ip_arp_time :
               /\ ip \in DOMAIN nic'[h].ip_arp_time
               /\ nic'[h].ip_arp_time[ip] = nic[h].ip_arp_time[ip]
      <4>1. LET log == Put(nic[h].ip_arp_time, IpOf[g],
                           nic[h].crt_time + DST_IP_EXPIRE_TIME_MS) IN
            /\ DOMAIN log = DOMAIN nic[h].ip_arp_time \cup {IpOf[g]}
            /\ log[IpOf[g]] = nic[h].crt_time + DST_IP_EXPIRE_TIME_MS
            /\ \A ip \in DOMAIN nic[h].ip_arp_time \ {IpOf[g]} :
                 log[ip] = nic[h].ip_arp_time[ip]
        BY Zenon DEF Put
      <4>2. nic'[h].ip_arp_time = Put(nic[h].ip_arp_time, IpOf[g],
                                      nic[h].crt_time + DST_IP_EXPIRE_TIME_MS)
        BY <1>7, <3>1, Zenon
      <4> QED
        BY <3>1, <4>1, <4>2, Zenon
    <3>5. \A i \in 1 .. Len(asked[h][g]) :
            asked[h][g][i] + DST_IP_EXPIRE_TIME_MS <= nic[h].crt_time
      BY <1>1, <3>1, Zenon DEF Logged
    <3>6. /\ \A i \in 1 .. Len(asked'[h][g]) :
               \/ asked'[h][g][i] + DST_IP_EXPIRE_TIME_MS <= nic[h].crt_time
               \/ asked'[h][g][i] = nic[h].crt_time
          /\ \A i, j \in 1 .. Len(asked'[h][g]) :
               i < j => asked'[h][g][j] - asked'[h][g][i] >= DST_IP_EXPIRE_TIME_MS
      <4>1. /\ DST_IP_EXPIRE_TIME_MS \in Nat
            /\ nic[h].crt_time \in Nat
            /\ asked[h][g] \in Seq(Nat)
        BY <2>1, <2>2, ExpiryAssumption, Zenon
      <4>2. \A i, j \in 1 .. Len(asked[h][g]) :
              i < j => asked[h][g][j] - asked[h][g][i] >= DST_IP_EXPIRE_TIME_MS
        BY <1>1, Zenon DEF RequestsSpaced
      <4>3. LET t == Append(asked[h][g], nic[h].crt_time) IN
            /\ \A i \in 1 .. Len(t) :
                 t[i] + DST_IP_EXPIRE_TIME_MS <= nic[h].crt_time \/ t[i] = nic[h].crt_time
            /\ \A i, j \in 1 .. Len(t) : i < j => t[j] - t[i] >= DST_IP_EXPIRE_TIME_MS
        BY <3>5, <4>1, <4>2, NotedLast, Zenon
      <4> QED
        BY <3>2, <4>3, Zenon
    <3>7. RequestsSpaced'
      <4> SUFFICES ASSUME NEW x \in Host, NEW y \in Host,
                          NEW i \in 1 .. Len(asked'[x][y]), NEW j \in 1 .. Len(asked'[x][y]),
                          i < j
                   PROVE  asked'[x][y][j] - asked'[x][y][i] >= DST_IP_EXPIRE_TIME_MS
        BY Zenon DEF RequestsSpaced
      <4>1. CASE x = h /\ y = g
        BY <3>6, <4>1, Zenon
      <4>2. CASE x # h \/ y # g
        <5>1. asked'[x][y] = asked[x][y]
          BY <3>2, <4>2, Zenon
        <5> QED
          BY <1>1, <5>1, Zenon DEF RequestsSpaced
      <4> QED
        BY <4>1, <4>2, Zenon
    <3>8. Logged'
      <4> SUFFICES ASSUME NEW x \in Host, NEW y \in Host, NEW i \in 1 .. Len(asked'[x][y])
                   PROVE  LET until == asked'[x][y][i] + DST_IP_EXPIRE_TIME_MS IN
                          \/ until <= nic'[x].crt_time
                          \/ /\ IpOf[y] \in DOMAIN nic'[x].ip_arp_time
                             /\ nic'[x].ip_arp_time[IpOf[y]] = until
        BY Zenon DEF Logged
      <4>1. CASE x = h /\ y = g
        BY <3>3, <3>4, <3>6, <4>1, Zenon
      <4>2. CASE x # h \/ y # g
        <5>1. asked'[x][y] = asked[x][y]
          BY <3>2, <4>2, Zenon
        <5>2. LET until == asked[x][y][i] + DST_IP_EXPIRE_TIME_MS IN
              \/ until <= nic[x].crt_time
              \/ /\ IpOf[y] \in DOMAIN nic[x].ip_arp_time
                 /\ nic[x].ip_arp_time[IpOf[y]] = until
          <6>1. Logged /\ i \in 1 .. Len(asked[x][y])
            BY <1>1, <5>1, Zenon
          <6> QED
            BY <6>1, Zenon DEF Logged
        <5>3. nic'[x].crt_time = nic[x].crt_time
          BY <3>3, Zenon
        <5>4. IpOf[y] \in DOMAIN nic[x].ip_arp_time =>
                /\ IpOf[y] \in DOMAIN nic'[x].ip_arp_time
                /\ nic'[x].ip_arp_time[IpOf[y]] = nic[x].ip_arp_time[IpOf[y]]
          <6>1. CASE x = h
            BY <3>4, <6>1, Zenon
          <6>2. CASE x # h
            BY <3>3, <6>2, Zenon
          <6> QED
            BY <6>1, <6>2, Zenon
        <5> QED
          BY <5>1, <5>2, <5>3, <5>4, Zenon
      <4> QED
        BY <4>1, <4>2, Zenon
    <3> QED
      BY <3>7, <3>8, Zenon
  <2> QED
    BY <2>3, <2>4, Zenon
<1>16. \A ip \in DOMAIN n.unknown_datagram_map :
         \/ /\ ip \in DOMAIN nic[h].unknown_datagram_map
            /\ n.unknown_datagram_map[ip] = nic[h].unknown_datagram_map[ip]
         \/ /\ ip = IpOf[g] /\ n.unknown_datagram_map[ip] = d
            /\ packet \notin Queued(n)
  <2>1. CASE n.unknown_datagram_map = nic[h].unknown_datagram_map
    BY <2>1, Zenon
  <2>2. CASE n.unknown_datagram_map # nic[h].unknown_datagram_map
    <3>1. /\ n.unknown_datagram_map = Put(nic[h].unknown_datagram_map, IpOf[g], d)
      BY <1>3, <2>2, Zenon DEF Sends
    <3> QED
      BY <1>14, <2>2, <3>1, Zenon DEF Put
  <2> QED
    BY <2>1, <2>2, Zenon
<1>17. \A i \in 1 .. Len(sent) : i \in 1 .. Len(sent') /\ i # d
  BY <1>2, <1>5 DEF d
<1>18. d \in 1 .. Len(sent')
  BY <1>2, <1>5 DEF d
<1>19. Origin'
  <2>1. \A k \in Host : \A ip \in DOMAIN nic'[k].unknown_datagram_map :
          LET e == nic'[k].unknown_datagram_map[ip] IN
          e \in 1 .. Len(sent') /\ sent'[e].from = k /\ ip = IpOf[sent'[e].to]
    <3> SUFFICES ASSUME NEW k \in Host, NEW ip \in DOMAIN nic'[k].unknown_datagram_map
                 PROVE LET e == nic'[k].unknown_datagram_map[ip] IN
                       /\ e \in 1 .. Len(sent')
                       /\ sent'[e].from = k
                       /\ ip = IpOf[sent'[e].to]
      BY Zenon
    <3>1. CASE /\ ip \in DOMAIN nic[k].unknown_datagram_map
               /\ nic'[k].unknown_datagram_map[ip] = nic[k].unknown_datagram_map[ip]
      <4> DEFINE e == nic[k].unknown_datagram_map[ip]
      <4>1. e \in 1 .. Len(sent) /\ sent[e].from = k /\ ip = IpOf[sent[e].to]
        BY <1>1, <3>1, Zenon DEF WaitsAsSent
      <4>2. nic'[k].unknown_datagram_map[ip] = e
        BY <3>1, Zenon
      <4> HIDE DEF e
      <4>3. e \in 1 .. Len(sent') /\ sent'[e] = sent[e]
        BY <1>5, <1>17, <4>1, Zenon
      <4> QED
        BY <4>1, <4>2, <4>3, Zenon
    <3>2. CASE k = h /\ ip = IpOf[g] /\ nic'[k].unknown_datagram_map[ip] = d
      BY <1>5, <1>18, <3>2, Zenon
    <3> QED
      BY <1>7, <1>16, <3>1, <3>2
  <2>2. \A f \in wire' : f.frame.payload.kind = "IPv4" =>
          LET e == f.frame.payload.dgram IN
          /\ e \in 1 .. Len(sent')
          /\ f.frame = Frame(EthOf[sent'[e].from], EthOf[sent'[e].to], Datagram(e))
    <3> SUFFICES ASSUME NEW f \in wire', f.frame.payload.kind = "IPv4"
                 PROVE LET e == f.frame.payload.dgram IN
                       /\ e \in 1 .. Len(sent')
                       /\ f.frame = Frame(EthOf[sent'[e].from], EthOf[sent'[e].to],
                                          Datagram(e))
      BY Zenon
    <3>1. CASE f \in wire
      <4> DEFINE e == f.frame.payload.dgram
      <4>1. /\ e \in 1 .. Len(sent)
            /\ f.frame = Frame(EthOf[sent[e].from], EthOf[sent[e].to], Datagram(e))
        BY <1>1, <3>1, Zenon DEF FramedAsSent
      <4> HIDE DEF e
      <4>2. e \in 1 .. Len(sent') /\ sent'[e] = sent[e]
        BY <1>5, <1>17, <4>1, Zenon
      <4> QED
        BY <4>1, <4>2, Zenon DEF e
    <3>2. CASE f.frame = packet
      BY <1>10, <1>12, <1>18, <3>2, Zenon
    <3> QED
      BY <1>7, <1>10, <1>13, <3>1, <3>2, Zenon
  <2>3. \A k \in Host : \A i \in 1 .. Len(got'[k]) :
          got'[k][i] \in 1 .. Len(sent') /\ sent'[got'[k][i]].to = k
    <3> SUFFICES ASSUME NEW k \in Host, NEW i \in 1 .. Len(got[k])
                 PROVE  got[k][i] \in 1 .. Len(sent') /\ sent'[got[k][i]].to = k
      BY <1>4, Zenon
    <3>1. got[k][i] \in 1 .. Len(sent) /\ sent[got[k][i]].to = k
      BY <1>1, Zenon DEF HandedAsSent
    <3> QED
      BY <1>5, <1>17, <3>1, Zenon
  <2> QED
    BY <2>1, <2>2, <2>3, Zenon DEF Origin, WaitsAsSent, FramedAsSent, HandedAsSent
<1>20. OnePlace'
  <2>1. \A f \in wire : f.frame.payload # Datagram(d)
    <3> SUFFICES ASSUME NEW f \in wire, f.frame.payload = Datagram(d) PROVE FALSE
      BY Zenon
    <3>1. f.frame.payload.kind = "IPv4" /\ f.frame.payload.dgram = d
      BY DEF Datagram
    <3> QED
      BY <1>1, <1>17, <3>1, Zenon DEF FramedAsSent
  <2>2. \A k \in Host : \A i \in 1 .. Len(got[k]) : got[k][i] # d
    BY <1>1, <1>17, Zenon DEF HandedAsSent
  <2>3. \A k \in Host : \A ip \in DOMAIN nic[k].unknown_datagram_map :
          nic[k].unknown_datagram_map[ip] # d
    BY <1>1, <1>17, Zenon DEF WaitsAsSent
  <2>4. \A x : request.payload # Datagram(x)
    BY <1>10 DEF Datagram
  <2> HIDE DEF request
  <2>5. \A k \in Host : \A ip \in DOMAIN nic'[k].unknown_datagram_map :
          LET e == nic'[k].unknown_datagram_map[ip] IN
          /\ \A f \in wire' : f.frame.payload # Datagram(e)
          /\ \A x \in Host : \A i \in 1 .. Len(got'[x]) : got'[x][i] # e
    <3> SUFFICES ASSUME NEW k \in Host, NEW ip \in DOMAIN nic'[k].unknown_datagram_map
                 PROVE LET e == nic'[k].unknown_datagram_map[ip] IN
                       /\ \A f \in wire' : f.frame.payload # Datagram(e)
                       /\ \A x \in Host : \A i \in 1 .. Len(got'[x]) : got'[x][i] # e
      BY Zenon
    <3>1. CASE /\ ip \in DOMAIN nic[k].unknown_datagram_map
               /\ nic'[k].unknown_datagram_map[ip] = nic[k].unknown_datagram_map[ip]
      <4> DEFINE e == nic[k].unknown_datagram_map[ip]
      <4>1. /\ \A f \in wire : f.frame.payload # Datagram(e)
            /\ \A x \in Host : \A i \in 1 .. Len(got[x]) : got[x][i] # e
            /\ e # d
        BY <1>1, <2>3, <3>1, Zenon DEF OnlyWaits
      <4>2. nic'[k].unknown_datagram_map[ip] = e
        BY <3>1, Zenon
      <4> HIDE DEF e
      <4>3. packet.payload # Datagram(e)
        BY <1>10, <1>11, <4>1, Zenon
      <4>4. \A f \in wire' : f.frame.payload # Datagram(e)
        BY <1>7, <1>13, <2>4, <4>1, <4>3, Zenon
      <4> QED
        BY <1>4, <4>1, <4>2, <4>4, Zenon
    <3>2. CASE nic'[k].unknown_datagram_map[ip] = d /\ packet \notin Queued(n)
      BY <1>4, <1>7, <1>13, <2>1, <2>2, <2>4, <3>2, Zenon
    <3> QED
      BY <1>7, <1>16, <3>1, <3>2, Zenon
  <2>6. \A f \in wire' : \A i \in 1 .. Len(got'[f.to]) :
          f.frame.payload # Datagram(got'[f.to][i])
    <3> SUFFICES ASSUME NEW f \in wire', NEW i \in 1 .. Len(got[f.to])
                 PROVE  f.frame.payload # Datagram(got[f.to][i])
      BY <1>4, Zenon
    <3>1. f.to \in Host
      BY <1>7, Zenon
    <3>2. CASE f \in wire
      BY <1>1, <3>2, Zenon DEF OnlyFramed
    <3>3. CASE f.frame = packet
      BY <1>10, <1>11, <2>2, <3>1, <3>3, Zenon
    <3>4. CASE f.frame = request
      BY <2>4, <3>4, Zenon
    <3> QED
      BY <1>7, <1>13, <3>2, <3>3, <3>4, Zenon
  <2>7. \A k \in Host : \A i, j \in 1 .. Len(got'[k]) : got'[k][i] = got'[k][j] => i = j
    BY <1>1, <1>4, Zenon DEF HandedOnce
  <2> QED
    BY <2>5, <2>6, <2>7, Zenon DEF OnePlace, OnlyWaits, OnlyFramed, HandedOnce
<1>21. Renewed'
  <2>1. \A k \in Host : /\ nic'[k].ip_map = nic[k].ip_map
                        /\ nic'[k].crt_time = nic[k].crt_time
    BY <1>6, <1>7, Zenon
  <2> QED
    BY <1>1, <1>4, <2>1 DEF Renewed
<1> QED
  BY <1>8, <1>15, <1>19, <1>20, <1>21, Zenon DEF LanInv

\* A frame arrives.
LEMMA RecvStep ==
  ASSUME LanInv, NEW f \in wire, RecvFrame(f)
  PROVE  LanInv'
<1> DEFINE h == f.to
           m == nic[h]
           n == recv_frame(m, f.frame)
           d == f.frame.payload.dgram
           up == ForMe(m, f.frame) /\ f.frame.payload.kind = "IPv4"
<1>1. /\ Truthful /\ Logged /\ RequestsSpaced /\ Renewed
      /\ WaitsAsSent /\ FramedAsSent /\ HandedAsSent
      /\ OnlyWaits /\ OnlyFramed /\ HandedOnce
  BY Zenon DEF LanInv, Origin, OnePlace
<1>2. f \in [to : Host, frame : Frames] /\ h \in Host /\ f.frame \in Frames
  BY <1>1, Zenon DEF Truthful
<1>3. /\ Answers(m, n, h)
      /\ Told(m, n, {g \in Host : ForMe(m, f.frame) /\ Tells(f.frame, g)})
  <2>1. Sound(m, h) /\ m.frames_out = << >>
    BY <1>1, <1>2, Zenon DEF Truthful
  <2> HIDE DEF h, m
  <2> QED
    BY <1>2, <2>1, RecvAnswers, Zenon
<1>4. /\ Become(h, n, wire \ {f})
      /\ got' = [got EXCEPT ![h] = got[h] \o ReturnedDatagram(m, f.frame)]
      /\ sent' = sent
      /\ heard' = [heard EXCEPT ![h] = [g \in Host |->
                     IF ForMe(m, f.frame) /\ Tells(f.frame, g)
                     THEN m.crt_time ELSE heard[h][g]]]
  BY Zenon DEF RecvFrame
<1> HIDE DEF h, n
<1>5. Sound(n, h) /\ n.crt_time = m.crt_time /\ n.ip_arp_time = m.ip_arp_time
  BY <1>3, Zenon DEF Answers
<1>6. /\ nic' \in [Host -> Interfaces]
      /\ \A k \in Host : Sound(nic'[k], k) /\ nic'[k].frames_out = << >>
      /\ wire' \subseteq [to : Host, frame : Frames]
      /\ asked' \in [Host -> [Host -> Seq(Nat)]]
      /\ \A k \in Host \ {h} : nic'[k] = nic[k] /\ asked'[k] = asked[k]
      /\ nic'[h].crt_time = n.crt_time
      /\ nic'[h].ip_map = n.ip_map
      /\ nic'[h].ip_arp_time = n.ip_arp_time
      /\ nic'[h].unknown_datagram_map = n.unknown_datagram_map
      /\ \A x \in wire' : x \in wire \ {f} \/ x.frame \in Queued(n)
      /\ \A x \in Host :
           asked'[h][x] = IF \E q \in Queued(n) : IsRequestFor(q, x)
                          THEN Append(asked[h][x], n.crt_time) ELSE asked[h][x]
  <2>1. wire \ {f} \in SUBSET wire
    BY Zenon
  <2> QED
    BY <1>1, <1>2, <1>4, <1>5, <2>1, BecomeEffect, Zenon
<1>7. up => /\ d \in Nat
            /\ f.frame.payload = Datagram(d)
            /\ d \in 1 .. Len(sent)
            /\ f.frame = Frame(EthOf[sent[d].from], EthOf[sent[d].to], Datagram(d))
            /\ sent[d].to = h
  <2> SUFFICES ASSUME up
               PROVE  /\ d \in Nat
                      /\ f.frame.payload = Datagram(d)
                      /\ d \in 1 .. Len(sent)
                      /\ f.frame = Frame(EthOf[sent[d].from], EthOf[sent[d].to], Datagram(d))
                      /\ sent[d].to = h
    BY Zenon
  <2>1. /\ d \in 1 .. Len(sent)
        /\ f.frame = Frame(EthOf[sent[d].from], EthOf[sent[d].to], Datagram(d))
    BY <1>1, Zenon DEF FramedAsSent
  <2> HIDE DEF d
  <2>2. d \in Nat /\ sent[d].to \in Host
    BY <1>1, <2>1, SentBetweenHosts, Zenon
  <2>3. f.frame.payload = Datagram(d) /\ f.frame.dst = EthOf[sent[d].to]
    BY <2>1 DEF Frame
  <2>4. f.frame.dst \in {EthOf[h], ETHERNET_BROADCAST}
    BY <1>1, <1>2, Zenon DEF ForMe, Truthful, Sound
  <2> QED
    BY <1>2, <2>1, <2>2, <2>3, <2>4, LanAssumption, Zenon
<1>8. /\ got' \in [Host -> Seq(Nat)]
      /\ \A k \in Host : \A i \in 1 .. Len(got'[k]) :
           \/ i \in 1 .. Len(got[k]) /\ got'[k][i] = got[k][i]
           \/ k = h /\ i = Len(got[h]) + 1 /\ got'[k][i] = d /\ up
  <2>1. got \in [Host -> Seq(Nat)] /\ got[h] \in Seq(Nat)
    BY <1>1, <1>2, Zenon DEF Truthful
  <2>2. CASE up
    <3>1. ReturnedDatagram(m, f.frame) = <<d>>
      BY <2>2, Zenon DEF ReturnedDatagram
    <3> HIDE DEF d, m, up
    <3>2. d \in Nat
      BY <1>7, <2>2, Zenon
    <3>3. /\ got[h] \o <<d>> \in Seq(Nat)
          /\ Len(got[h] \o <<d>>) = Len(got[h]) + 1
          /\ \A i \in 1 .. Len(got[h]) : (got[h] \o <<d>>)[i] = got[h][i]
          /\ (got[h] \o <<d>>)[Len(got[h]) + 1] = d
      BY <2>1, <3>2
    <3>4. /\ got' \in [Host -> Seq(Nat)]
          /\ got'[h] = got[h] \o <<d>>
          /\ \A k \in Host \ {h} : got'[k] = got[k]
      BY <1>2, <1>4, <2>1, <3>1, <3>3, Zenon
    <3>5. Len(got[h]) \in Nat
      BY <2>1
    <3>6. ASSUME NEW k \in Host, NEW i \in 1 .. Len(got'[k])
          PROVE  \/ i \in 1 .. Len(got[k]) /\ got'[k][i] = got[k][i]
                 \/ k = h /\ i = Len(got[h]) + 1 /\ got'[k][i] = d /\ up
      <4>1. CASE k # h
        BY <3>4, <4>1, Zenon
      <4>2. CASE k = h
        <5>1. i \in 1 .. Len(got[h]) + 1
          BY <3>3, <3>4, <3>6, <4>2, Zenon
        <5>2. CASE i \in 1 .. Len(got[h])
          BY <3>3, <3>4, <4>2, <5>2, Zenon
        <5>3. CASE i = Len(got[h]) + 1
          BY <2>2, <3>3, <3>4, <4>2, <5>3, Zenon
        <5> QED
          BY <3>5, <5>1, <5>2, <5>3
      <4> QED
        BY <4>1, <4>2, Zenon
    <3> QED
      BY <3>4, <3>6, Zenon
  <2>3. CASE ~up
    <3>1. ReturnedDatagram(m, f.frame) = << >>
      BY <2>3, Zenon DEF ReturnedDatagram
    <3> HIDE DEF d, m, up
    <3>2. got[h] \o << >> = got[h]
      BY <2>1
    <3>3. got' = got
      BY <1>2, <1>4, <2>1, <3>1, <3>2, Zenon
    <3> QED
      BY <2>1, <3>3, Zenon
  <2> QED
    BY <2>2, <2>3, Zenon
<1>9. Truthful'
  BY <1>1, <1>4, <1>6, <1>8, Zenon DEF Truthful
<1>10. \A q \in Queued(n) : \A x \in Host : ~IsRequestFor(q, x)
  <2>1. \A p \in Replies : p.kind # "ARP" \/ p.opcode # 1
    BY DEF Replies, ARPMessage
  <2>2. \A a, b, c : Frame(a, b, Datagram(c)).payload.kind # "ARP"
    BY Zenon DEF Frame, Datagram
  <2>3. \A q \in Queued(n) : q.payload \in Replies \/ q.payload.kind # "ARP"
    BY <1>3, <2>2 DEF Answers
  <2> QED
    BY <2>1, <2>3, Zenon DEF IsRequestFor
<1>11. Logged' /\ RequestsSpaced'
  <2>1. \A x, y \in Host : asked'[x][y] = asked[x][y]
    BY <1>6, <1>10, Zenon
  <2>2. \A x \in Host : /\ nic'[x].crt_time = nic[x].crt_time
                        /\ nic'[x].ip_arp_time = nic[x].ip_arp_time
    BY <1>5, <1>6, Zenon
  <2> QED
    BY <1>1, <2>1, <2>2, NotedStays, Zenon
<1> HIDE DEF d, up
<1>12. \A k \in Host : \A ip \in DOMAIN nic'[k].unknown_datagram_map :
         /\ ip \in DOMAIN nic[k].unknown_datagram_map
         /\ nic'[k].unknown_datagram_map[ip] = nic[k].unknown_datagram_map[ip]
  <2>1. \A ip \in DOMAIN n.unknown_datagram_map :
          /\ ip \in DOMAIN m.unknown_datagram_map
          /\ n.unknown_datagram_map[ip] = m.unknown_datagram_map[ip]
    BY <1>3, Zenon DEF Answers
  <2>2. /\ nic'[h].unknown_datagram_map = n.unknown_datagram_map
        /\ \A k \in Host \ {h} : nic'[k] = nic[k]
    BY <1>6, Zenon
  <2> QED
    BY <2>1, <2>2, Zenon
\* A frame that joins the wire carries no datagram, or one that waited at h.
<1>13. \A x \in wire' :
         \/ x \in wire \ {f}
         \/ x.frame.payload \in Replies
         \/ \E g \in Host :
              /\ IpOf[g] \in DOMAIN m.unknown_datagram_map
              /\ IpOf[g] \notin DOMAIN nic'[h].unknown_datagram_map
              /\ x.frame = Frame(EthOf[h], EthOf[g],
                                 Datagram(m.unknown_datagram_map[IpOf[g]]))
  BY <1>3, <1>6 DEF Answers
<1>14. \A p \in Replies : p.kind = "ARP" /\ \A x : p # Datagram(x)
  BY DEF Replies, ARPMessage, Datagram
<1>15. \A x, y : Datagram(x) = Datagram(y) => x = y
  BY Zenon DEF Datagram
<1>16. \A a, b, c : /\ Frame(a, b, Datagram(c)).payload = Datagram(c)
                    /\ Frame(a, b, Datagram(c)).payload.dgram = c
                    /\ Frame(a, b, Datagram(c)).payload.kind = "IPv4"
  BY Zenon DEF Frame, Datagram
\* Where a waiting datagram goes is where it was sent.
<1>17. \A k, g \in Host : IpOf[g] \in DOMAIN nic[k].unknown_datagram_map =>
         LET e == nic[k].unknown_datagram_map[IpOf[g]] IN
         e \in 1 .. Len(sent) /\ sent[e].from = k /\ sent[e].to = g
  <2> SUFFICES ASSUME NEW k \in Host, NEW g \in Host,
                      IpOf[g] \in DOMAIN nic[k].unknown_datagram_map
               PROVE  LET e == nic[k].unknown_datagram_map[IpOf[g]] IN
                      e \in 1 .. Len(sent) /\ sent[e].from = k /\ sent[e].to = g
    BY Zenon
  <2> DEFINE e == nic[k].unknown_datagram_map[IpOf[g]]
  <2>1. e \in 1 .. Len(sent) /\ sent[e].from = k /\ IpOf[g] = IpOf[sent[e].to]
    BY <1>1, Zenon DEF WaitsAsSent
  <2> HIDE DEF e
  <2>2. sent[e].to \in Host
    BY <1>1, <2>1, SentBetweenHosts, Zenon
  <2>3. sent[e].to = g
    BY <2>1, <2>2, LanAssumption, Zenon
  <2> QED
    BY <2>1, <2>3, Zenon DEF e
<1>18. Origin'
  <2>1. \A k \in Host : \A ip \in DOMAIN nic'[k].unknown_datagram_map :
          LET e == nic'[k].unknown_datagram_map[ip] IN
          e \in 1 .. Len(sent') /\ sent'[e].from = k /\ ip = IpOf[sent'[e].to]
    <3> SUFFICES ASSUME NEW k \in Host, NEW ip \in DOMAIN nic'[k].unknown_datagram_map
                 PROVE LET e == nic[k].unknown_datagram_map[ip] IN
                       e \in 1 .. Len(sent) /\ sent[e].from = k /\ ip = IpOf[sent[e].to]
      BY <1>4, <1>12
    <3>1. ip \in DOMAIN nic[k].unknown_datagram_map
      BY <1>12, Zenon
    <3> QED
      BY <1>1, <3>1, Zenon DEF WaitsAsSent
  <2>2. \A x \in wire' : x.frame.payload.kind = "IPv4" =>
          LET e == x.frame.payload.dgram IN
          /\ e \in 1 .. Len(sent')
          /\ x.frame = Frame(EthOf[sent'[e].from], EthOf[sent'[e].to], Datagram(e))
    <3> SUFFICES ASSUME NEW x \in wire', x.frame.payload.kind = "IPv4"
                 PROVE LET e == x.frame.payload.dgram IN
                       /\ e \in 1 .. Len(sent)
                       /\ x.frame = Frame(EthOf[sent[e].from], EthOf[sent[e].to],
                                          Datagram(e))
      BY <1>4, Zenon
    <3>1. CASE x \in wire \ {f}
      BY <1>1, <3>1, Zenon DEF FramedAsSent
    <3>2. CASE x.frame.payload \in Replies
      BY <1>14, <3>2, Zenon
    <3>3. ASSUME NEW g \in Host,
                 IpOf[g] \in DOMAIN m.unknown_datagram_map,
                 x.frame = Frame(EthOf[h], EthOf[g],
                                 Datagram(m.unknown_datagram_map[IpOf[g]]))
          PROVE LET e == x.frame.payload.dgram IN
                /\ e \in 1 .. Len(sent)
                /\ x.frame = Frame(EthOf[sent[e].from], EthOf[sent[e].to], Datagram(e))
      <4> DEFINE e == m.unknown_datagram_map[IpOf[g]]
      <4>1. e \in 1 .. Len(sent) /\ sent[e].from = h /\ sent[e].to = g
        BY <1>2, <1>17, <3>3, Zenon
      <4>2. x.frame.payload.dgram = e /\ x.frame = Frame(EthOf[h], EthOf[g], Datagram(e))
        BY <1>16, <3>3
      <4> HIDE DEF e
      <4> QED
        BY <4>1, <4>2, Zenon
    <3> QED
      BY <1>13, <3>1, <3>2, <3>3, Zenon
  <2>3. \A k \in Host : \A i \in 1 .. Len(got'[k]) :
          got'[k][i] \in 1 .. Len(sent') /\ sent'[got'[k][i]].to = k
    <3> SUFFICES ASSUME NEW k \in Host, NEW i \in 1 .. Len(got'[k])
                 PROVE  got'[k][i] \in 1 .. Len(sent) /\ sent[got'[k][i]].to = k
      BY <1>4, Zenon
    <3>1. CASE i \in 1 .. Len(got[k]) /\ got'[k][i] = got[k][i]
      BY <1>1, <3>1, Zenon DEF HandedAsSent
    <3>2. CASE k = h /\ got'[k][i] = d /\ up
      BY <1>7, <3>2, Zenon
    <3> QED
      BY <1>8, <3>1, <3>2, Zenon
  <2> QED
    BY <2>1, <2>2, <2>3, Zenon DEF Origin, WaitsAsSent, FramedAsSent, HandedAsSent
<1>19. OnePlace'
  <2>1. ASSUME NEW k \in Host, NEW ip \in DOMAIN nic'[k].unknown_datagram_map
        PROVE  LET e == nic'[k].unknown_datagram_map[ip] IN
               /\ \A x \in wire' : x.frame.payload # Datagram(e)
               /\ \A g \in Host : \A i \in 1 .. Len(got'[g]) : got'[g][i] # e
    <3> DEFINE e == nic[k].unknown_datagram_map[ip]
    <3>1. /\ ip \in DOMAIN nic[k].unknown_datagram_map
          /\ nic'[k].unknown_datagram_map[ip] = e
      BY <1>12, <2>1, Zenon
    <3>2. /\ \A x \in wire : x.frame.payload # Datagram(e)
          /\ \A g \in Host : \A i \in 1 .. Len(got[g]) : got[g][i] # e
      BY <1>1, <3>1, Zenon DEF OnlyWaits
    <3>3. sent[e].from = k /\ ip = IpOf[sent[e].to]
      BY <1>1, <3>1, Zenon DEF WaitsAsSent
    <3> HIDE DEF e
    <3>4. \A g \in Host : \A i \in 1 .. Len(got'[g]) : got'[g][i] # e
      BY <1>7, <1>8, <3>2, Zenon
    <3>5. ASSUME NEW x \in wire', x.frame.payload = Datagram(e)
          PROVE  FALSE
      <4>1. CASE x \in wire \ {f}
        BY <3>2, <3>5, <4>1, Zenon
      <4>2. CASE x.frame.payload \in Replies
        BY <1>14, <3>5, <4>2, Zenon
      <4>3. ASSUME NEW g \in Host,
                   IpOf[g] \in DOMAIN m.unknown_datagram_map,
                   IpOf[g] \notin DOMAIN nic'[h].unknown_datagram_map,
                   x.frame = Frame(EthOf[h], EthOf[g],
                                   Datagram(m.unknown_datagram_map[IpOf[g]]))
            PROVE FALSE
        <5>1. e = m.unknown_datagram_map[IpOf[g]]
          <6>1. x.frame.payload = Datagram(m.unknown_datagram_map[IpOf[g]])
            BY <1>16, <4>3
          <6> QED
            BY <1>15, <3>5, <6>1, Zenon
        <5>2. sent[e].from = h /\ sent[e].to = g
          BY <1>2, <1>17, <4>3, <5>1, Zenon
        <5> QED
          BY <2>1, <3>3, <4>3, <5>2, Zenon
      <4> QED
        BY <1>13, <4>1, <4>2, <4>3, Zenon
    <3> QED
      BY <3>1, <3>4, <3>5, Zenon
  <2>2. ASSUME NEW x \in wire', NEW i \in 1 .. Len(got'[x.to])
        PROVE  x.frame.payload # Datagram(got'[x.to][i])
    <3>1. x \in [to : Host, frame : Frames] /\ x.to \in Host
      BY <1>6, Zenon
    <3>2. CASE x \in wire \ {f}
      <4>1. CASE i \in 1 .. Len(got[x.to]) /\ got'[x.to][i] = got[x.to][i]
        BY <1>1, <3>2, <4>1, Zenon DEF OnlyFramed
      <4>2. CASE x.to = h /\ got'[x.to][i] = d /\ up
        <5> SUFFICES ASSUME x.frame.payload = Datagram(d) PROVE FALSE
          BY <4>2, Zenon
        <5>1. x.frame.payload.kind = "IPv4" /\ x.frame.payload.dgram = d
          BY DEF Datagram
        <5>2. x.frame = f.frame
          <6>1. x.frame = Frame(EthOf[sent[d].from], EthOf[sent[d].to], Datagram(d))
            BY <1>1, <3>2, <5>1, Zenon DEF FramedAsSent
          <6> QED
            BY <1>7, <4>2, <6>1, Zenon
        <5>3. x = f
          BY <1>2, <3>1, <4>2, <5>2 DEF h
        <5> QED
          BY <3>2, <5>3, Zenon
      <4> QED
        BY <1>8, <2>2, <3>1, <4>1, <4>2, Zenon
    <3>3. CASE x.frame.payload \in Replies
      BY <1>14, <3>3, Zenon
    <3>4. ASSUME NEW g \in Host,
                 IpOf[g] \in DOMAIN m.unknown_datagram_map,
                 x.frame = Frame(EthOf[h], EthOf[g],
                                 Datagram(m.unknown_datagram_map[IpOf[g]]))
          PROVE  x.frame.payload # Datagram(got'[x.to][i])
      <4> DEFINE e == m.unknown_datagram_map[IpOf[g]]
      <4>1. /\ f.frame.payload # Datagram(e)
            /\ \A y \in Host : \A j \in 1 .. Len(got[y]) : got[y][j] # e
        BY <1>1, <1>2, <3>4, Zenon DEF OnlyWaits
      <4>2. x.frame.payload = Datagram(e)
        BY <1>16, <3>4
      <4> HIDE DEF e
      <4>3. got'[x.to][i] # e
        BY <1>7, <1>8, <2>2, <3>1, <4>1, Zenon
      <4> QED
        BY <1>15, <4>2, <4>3, Zenon
    <3> QED
      BY <1>13, <3>2, <3>3, <3>4, Zenon
  <2>3. ASSUME NEW k \in Host, NEW i \in 1 .. Len(got'[k]), NEW j \in 1 .. Len(got'[k]),
               got'[k][i] = got'[k][j]
        PROVE  i = j
    <3>1. up => \A l \in 1 .. Len(got[h]) : got[h][l] # d
      BY <1>1, <1>7, Zenon DEF OnlyFramed, h
    <3>2. \A a, b \in 1 .. Len(got[k]) : got[k][a] = got[k][b] => a = b
      BY <1>1, Zenon DEF HandedOnce
    <3>3. CASE /\ i \in 1 .. Len(got[k]) /\ got'[k][i] = got[k][i]
               /\ j \in 1 .. Len(got[k]) /\ got'[k][j] = got[k][j]
      BY <2>3, <3>2, <3>3, Zenon
    <3>4. CASE i \notin 1 .. Len(got[k]) \/ got'[k][i] # got[k][i]
      <4>1. k = h /\ i = Len(got[h]) + 1 /\ got'[k][i] = d /\ up
        BY <1>8, <3>4, Zenon
      <4> QED
        BY <1>8, <2>3, <3>1, <4>1, Zenon
    <3>5. CASE j \notin 1 .. Len(got[k]) \/ got'[k][j] # got[k][j]
      <4>1. k = h /\ j = Len(got[h]) + 1 /\ got'[k][j] = d /\ up
        BY <1>8, <3>5, Zenon
      <4> QED
        BY <1>8, <2>3, <3>1, <4>1, Zenon
    <3> QED
      BY <3>3, <3>4, <3>5, Zenon
  <2> QED
    BY <2>1, <2>2, <2>3, Zenon DEF OnePlace, OnlyWaits, OnlyFramed, HandedOnce
<1>20. Renewed'
  <2> DEFINE who == {g \in Host : ForMe(m, f.frame) /\ Tells(f.frame, g)}
  <2>1. /\ heard \in [Host -> [Host -> Int]]
        /\ m.crt_time \in Nat
    BY <1>1, <1>2, Zenon DEF Renewed, Truthful, Interfaces
  <2>2. \A x \in Nat : x \in Int /\ x # Never /\ x < x + MAPPING_EXPIRE_TIME_MS
    BY ExpiryAssumption DEF Never
  <2>3. /\ heard' \in [Host -> [Host -> Int]]
        /\ \A k \in Host \ {h} : heard'[k] = heard[k]
        /\ \A g \in Host : heard'[h][g] = IF g \in who THEN m.crt_time ELSE heard[h][g]
    BY <1>2, <1>4, <2>1, <2>2, Zenon
  <2>4. Told(m, n, who)
    BY <1>3, Zenon
  <2> HIDE DEF who, m
  <2>5. ASSUME NEW k \in Host, NEW g \in Host
        PROVE  LET until == heard'[k][g] + MAPPING_EXPIRE_TIME_MS IN
               IF IpOf[g] \in DOMAIN nic'[k].ip_map
               THEN /\ heard'[k][g] # Never
                    /\ nic'[k].ip_map[IpOf[g]].expires = until
                    /\ nic'[k].crt_time < until
               ELSE heard'[k][g] = Never \/ until <= nic'[k].crt_time
    <3>1. CASE k # h
      BY <1>1, <1>6, <2>3, <3>1, Zenon DEF Renewed
    <3>2. CASE k = h /\ g \in who
      BY <1>5, <1>6, <2>1, <2>2, <2>3, <2>4, <3>2, Zenon DEF Told
    <3>3. CASE k = h /\ g \notin who
      <4>1. LET until == heard[h][g] + MAPPING_EXPIRE_TIME_MS IN
            IF IpOf[g] \in DOMAIN m.ip_map
            THEN /\ heard[h][g] # Never
                 /\ m.ip_map[IpOf[g]].expires = until
                 /\ m.crt_time < until
            ELSE heard[h][g] = Never \/ until <= m.crt_time
        BY <1>1, <1>2, Zenon DEF Renewed, m
      <4>2. /\ IpOf[g] \in DOMAIN n.ip_map <=> IpOf[g] \in DOMAIN m.ip_map
            /\ IpOf[g] \in DOMAIN m.ip_map => n.ip_map[IpOf[g]] = m.ip_map[IpOf[g]]
        BY <2>4, <3>3, Zenon DEF Told
      <4>3. heard'[h][g] = heard[h][g]
        BY <2>3, <3>3, Zenon
      <4>4. nic'[h].crt_time = m.crt_time /\ nic'[h].ip_map = n.ip_map
        BY <1>5, <1>6, Zenon
      <4> QED
        BY <3>3, <4>1, <4>2, <4>3, <4>4, Zenon
    <3> QED
      BY <3>1, <3>2, <3>3, Zenon
  <2> QED
    BY <2>3, <2>5, Zenon DEF Renewed
<1> QED
  BY <1>9, <1>11, <1>18, <1>19, <1>20, Zenon DEF LanInv

\* Time passes.
LEMMA TickStep ==
  ASSUME LanInv, Tick
  PROVE  LanInv'
<1>1. /\ Truthful /\ Logged /\ RequestsSpaced /\ Renewed
      /\ WaitsAsSent /\ FramedAsSent /\ HandedAsSent
      /\ OnlyWaits /\ OnlyFramed /\ HandedOnce
  BY Zenon DEF LanInv, Origin, OnePlace
<1>2. /\ nic' = [h \in Host |-> interface_tick(nic[h], 1)]
      /\ wire' = wire /\ sent' = sent /\ got' = got /\ asked' = asked /\ heard' = heard
  BY Zenon DEF Tick
<1>3. \A h \in Host :
        /\ Sound(nic'[h], h)
        /\ nic'[h].crt_time = nic[h].crt_time + 1
        /\ nic'[h].frames_out = nic[h].frames_out
        /\ nic'[h].unknown_datagram_map = nic[h].unknown_datagram_map
        /\ DOMAIN nic'[h].ip_arp_time = {ip \in DOMAIN nic[h].ip_arp_time :
                                          nic[h].ip_arp_time[ip] > nic[h].crt_time + 1}
        /\ \A ip \in DOMAIN nic'[h].ip_arp_time :
             nic'[h].ip_arp_time[ip] = nic[h].ip_arp_time[ip]
        /\ DOMAIN nic'[h].ip_map = {ip \in DOMAIN nic[h].ip_map :
                                     nic[h].ip_map[ip].expires > nic[h].crt_time + 1}
        /\ \A ip \in DOMAIN nic'[h].ip_map : nic'[h].ip_map[ip] = nic[h].ip_map[ip]
  <2> TAKE h \in Host
  <2>1. nic'[h] = interface_tick(nic[h], 1) /\ Sound(nic[h], h)
    BY <1>1, <1>2, Zenon DEF Truthful
  <2> QED
    BY <2>1, TickEffect
<1>4. Truthful'
  <2>1. nic' \in [Host -> Interfaces]
    BY <1>2, <1>3, Zenon DEF Sound
  <2> QED
    BY <1>1, <1>2, <1>3, <2>1, Zenon DEF Truthful
<1>5. Logged'
  <2> SUFFICES ASSUME NEW h \in Host, NEW g \in Host, NEW i \in 1 .. Len(asked[h][g])
               PROVE  LET until == asked[h][g][i] + DST_IP_EXPIRE_TIME_MS IN
                      \/ until <= nic'[h].crt_time
                      \/ /\ IpOf[g] \in DOMAIN nic'[h].ip_arp_time
                         /\ nic'[h].ip_arp_time[IpOf[g]] = until
    BY <1>2, Zenon DEF Logged
  <2> DEFINE until == asked[h][g][i] + DST_IP_EXPIRE_TIME_MS
  <2>1. until \in Int /\ nic[h].crt_time \in Nat
    <3>1. asked[h][g] \in Seq(Nat) /\ nic[h].crt_time \in Nat
      BY <1>1, Zenon DEF Truthful, Interfaces
    <3>2. asked[h][g][i] \in Nat
      BY <3>1
    <3>3. DST_IP_EXPIRE_TIME_MS \in Nat
      BY ExpiryAssumption, Zenon
    <3> QED
      BY <3>1, <3>2, <3>3
  <2>2. \/ until <= nic[h].crt_time
        \/ IpOf[g] \in DOMAIN nic[h].ip_arp_time /\ nic[h].ip_arp_time[IpOf[g]] = until
    BY <1>1, Zenon DEF Logged
  <2> HIDE DEF until
  <2>3. \/ until <= nic'[h].crt_time
        \/ /\ IpOf[g] \in DOMAIN nic'[h].ip_arp_time
           /\ nic'[h].ip_arp_time[IpOf[g]] = until
    BY <1>3, <2>1, <2>2
  <2> QED
    BY <2>3, Zenon DEF until
<1>6. Origin'
  <2>1. WaitsAsSent'
    <3>1. \A h \in Host : nic'[h].unknown_datagram_map = nic[h].unknown_datagram_map
      BY <1>3, Zenon
    <3>2. WaitsAsSent /\ sent' = sent
      BY <1>1, <1>2, Zenon
    <3> QED
      BY <3>1, <3>2 DEF WaitsAsSent
  <2>2. FramedAsSent' /\ HandedAsSent'
    BY <1>1, <1>2, Zenon DEF FramedAsSent, HandedAsSent
  <2> QED
    BY <2>1, <2>2, Zenon DEF Origin
<1>7. OnePlace'
  <2>1. OnlyWaits'
    <3>1. \A h \in Host : nic'[h].unknown_datagram_map = nic[h].unknown_datagram_map
      BY <1>3, Zenon
    <3>2. OnlyWaits /\ wire' = wire /\ got' = got
      BY <1>1, <1>2, Zenon
    <3> QED
      BY <3>1, <3>2 DEF OnlyWaits
  <2>2. OnlyFramed' /\ HandedOnce'
    BY <1>1, <1>2, Zenon DEF OnlyFramed, HandedOnce
  <2> QED
    BY <2>1, <2>2, Zenon DEF OnePlace
<1>8. RequestsSpaced'
  BY <1>1, <1>2, Zenon DEF RequestsSpaced
<1>9. Renewed'
  <2> SUFFICES ASSUME NEW h \in Host, NEW g \in Host
               PROVE  LET until == heard[h][g] + MAPPING_EXPIRE_TIME_MS IN
                      IF IpOf[g] \in DOMAIN nic'[h].ip_map
                      THEN /\ heard[h][g] # Never
                           /\ nic'[h].ip_map[IpOf[g]].expires = until
                           /\ nic'[h].crt_time < until
                      ELSE heard[h][g] = Never \/ until <= nic'[h].crt_time
    BY <1>1, <1>2, Zenon DEF Renewed
  <2> DEFINE until == heard[h][g] + MAPPING_EXPIRE_TIME_MS
  <2>1. until \in Int /\ nic[h].crt_time \in Nat
    <3>1. heard[h][g] \in Int /\ nic[h].crt_time \in Nat
      BY <1>1, Zenon DEF Renewed, Truthful, Interfaces
    <3>2. MAPPING_EXPIRE_TIME_MS \in Nat
      BY ExpiryAssumption, Zenon
    <3> QED
      BY <3>1, <3>2
  <2>2. IF IpOf[g] \in DOMAIN nic[h].ip_map
        THEN /\ heard[h][g] # Never
             /\ nic[h].ip_map[IpOf[g]].expires = until
             /\ nic[h].crt_time < until
        ELSE heard[h][g] = Never \/ until <= nic[h].crt_time
    BY <1>1, Zenon DEF Renewed
  <2> HIDE DEF until
  <2>3. IF IpOf[g] \in DOMAIN nic'[h].ip_map
        THEN /\ heard[h][g] # Never
             /\ nic'[h].ip_map[IpOf[g]].expires = until
             /\ nic'[h].crt_time < until
        ELSE heard[h][g] = Never \/ until <= nic'[h].crt_time
    BY <1>3, <2>1, <2>2
  <2> QED
    BY <2>3, Zenon DEF until
<1> QED
  BY <1>4, <1>5, <1>6, <1>7, <1>8, <1>9, Zenon DEF LanInv

\* Every step of the LAN.
LEMMA LanStep ==
  ASSUME LanInv, [Next]_vars
  PROVE  LanInv'
<1>1. CASE \E t \in Traffic : SendDatagram(t[1], t[2])
  <2>1. PICK t \in Traffic : SendDatagram(t[1], t[2])
    BY <1>1, Zenon
  <2>2. t[1] \in Host /\ t[2] \in Host
    BY LanAssumption, Zenon
  <2> QED
    BY <2>1, <2>2, SendStep, Zenon
<1>2. CASE \E f \in wire : RecvFrame(f)
  BY <1>2, RecvStep, Zenon
<1>3. CASE Tick
  BY <1>3, TickStep, Zenon
<1>4. CASE UNCHANGED vars
  <2>1. nic' = nic /\ wire' = wire /\ sent' = sent /\ got' = got /\ asked' = asked
        /\ heard' = heard
    BY <1>4, Zenon DEF vars
  <2>2. Truthful /\ Logged /\ RequestsSpaced /\ Renewed /\ Origin /\ OnePlace
    BY Zenon DEF LanInv
  <2>3. Truthful' /\ Logged' /\ RequestsSpaced' /\ Renewed'
    <3>1. Truthful'
      BY <2>1, <2>2, Zenon DEF Truthful
    <3>2. Logged' /\ RequestsSpaced'
      BY <2>1, <2>2, NotedStays, Zenon
    <3>3. Renewed'
      BY <2>1, <2>2, Zenon DEF Renewed
    <3> QED
      BY <3>1, <3>2, <3>3, Zenon
  <2>4. WaitsAsSent' /\ HandedAsSent'
    BY <2>1, <2>2 DEF Origin, WaitsAsSent, HandedAsSent
  <2>5. FramedAsSent'
    BY <2>1, <2>2, Zenon DEF Origin, FramedAsSent
  <2>6. OnlyWaits'
    BY <2>1, <2>2 DEF OnePlace, OnlyWaits
  <2>7. OnlyFramed' /\ HandedOnce'
    BY <2>1, <2>2, Zenon DEF OnePlace, OnlyFramed, HandedOnce
  <2> QED
    BY <1>4, <2>3, <2>4, <2>5, <2>6, <2>7, Zenon DEF LanInv, Origin, OnePlace
<1> QED
  BY <1>1, <1>2, <1>3, <1>4, Zenon DEF Next

-----------------------------------------------------------------------------
\* The invariant holds for any set of hosts, any traffic and any expiry times.
THEOREM LanCorrect == Spec => []LanInv
<1>1. Init => LanInv
  BY InitLan, Zenon
<1>2. LanInv /\ [Next]_vars => LanInv'
  BY LanStep, Zenon
<1> QED
  BY <1>1, <1>2, PTL DEF Spec

\* What an interface's cache says of an address is true, although it learns from
\* every message it hears (recv_frame), and flush_expire_mapping forgets it when it
\* is old and not before.
THEOREM MappingsExactCorrect == Spec => []MappingsExact
<1>1. ASSUME LanInv, NEW h \in Host, NEW ip \in Known(h)
      PROVE  nic[h].ip_map[ip].eaddr = EthOf[HostAt(ip)]
  <2>1. PICK g \in Host : ip = IpOf[g] /\ nic[h].ip_map[ip].eaddr = EthOf[g]
    BY <1>1, Zenon DEF LanInv, Truthful, Sound, Known
  <2>2. HostAt(ip) = g
    <3>1. HostAt(ip) \in Host /\ IpOf[HostAt(ip)] = ip
      BY <2>1, Zenon DEF HostAt
    <3> QED
      BY <2>1, <3>1, LanAssumption, Zenon
  <2> QED
    BY <2>1, <2>2, Zenon
<1>2. ASSUME LanInv, NEW h \in Host, NEW g \in Host
      PROVE  IpOf[g] \in Known(h) <=>
               /\ heard[h][g] # Never
               /\ nic[h].crt_time < heard[h][g] + MAPPING_EXPIRE_TIME_MS
  <2>1. /\ heard[h][g] + MAPPING_EXPIRE_TIME_MS \in Int
        /\ nic[h].crt_time \in Int
    <3>1. heard[h][g] \in Int /\ nic[h].crt_time \in Nat
      BY <1>2, Zenon DEF LanInv, Renewed, Truthful, Interfaces
    <3>2. MAPPING_EXPIRE_TIME_MS \in Nat
      BY ExpiryAssumption, Zenon
    <3> QED
      BY <3>1, <3>2
  <2> QED
    BY <1>2, <2>1 DEF LanInv, Renewed, Known
<1>3. LanInv => MappingsExact
  BY <1>1, <1>2, Zenon DEF MappingsExact
<1> QED
  BY <1>3, LanCorrect, PTL

\* A datagram is handed up at its next hop only, and once, whether send_datagram
\* sent it at once or it waited for ARP.
THEOREM DeliveredOnceCorrect == Spec => []DeliveredOnce
<1>1. LanInv => DeliveredOnce
  BY Zenon DEF LanInv, Origin, HandedAsSent, OnePlace, HandedOnce, DeliveredOnce
<1> QED
  BY <1>1, LanCorrect, PTL

\* No datagram waits in unknown_datagram_map for an address in ip_map.
THEOREM NoneWaitsForKnownCorrect == Spec => []NoneWaitsForKnown
<1>1. LanInv => NoneWaitsForKnown
  BY Zenon DEF LanInv, Truthful, Sound, NoneWaitsForKnown, Known, Waiting
<1> QED
  BY <1>1, LanCorrect, PTL

\* broad_cast repeats a request only after DST_IP_EXPIRE_TIME_MS.
THEOREM RequestsSpacedCorrect == Spec => []RequestsSpaced
<1>1. LanInv => RequestsSpaced
  BY Zenon DEF LanInv
<1> QED
  BY <1>1, LanCorrect, PTL

-----------------------------------------------------------------------------
(* The socket.                                                             *)

ViewFields ==
  {"in", "in_ended", "out", "out_ended", "error", "active", "opening", "started"}

\* A listening socket has neither heard nor sent anything; after that the peers
\* heard of are the one its segments go to.
PeerInv ==
  /\ adapter \in [kind : {"udp", "ip"}, source : Address,
                  destination : Address, listen : BOOLEAN]
  /\ DOMAIN view = ViewFields
  /\ adapter.listen => queued = FALSE /\ view.started = FALSE /\ peers = {}
  /\ peers \subseteq {adapter.destination}

\* A datagram that passes an adapter which no longer listens comes from the
\* adapter's peer, although the adapters over IP compare hosts and ports apart.
LEMMA AcceptsPeer ==
  ASSUME NEW a \in [kind : {"udp", "ip"}, source : Address,
                    destination : Address, listen : BOOLEAN],
         NEW d \in Datagrams, ~a.listen, adapter_accepts(a, d)
  PROVE  d.from = a.destination
<1>1. d.from \in Address /\ a.destination \in Address
  BY AddressesAssumption, Zenon
<1>2. CASE a.kind = "udp"
  BY <1>2, Zenon DEF adapter_accepts, udp_accepts
<1>3. CASE a.kind # "udp"
  <2>1. d.from[1] = a.destination[1] /\ d.from[2] = a.destination[2]
    BY <1>3, Zenon DEF adapter_accepts, ip_accepts
  <2> QED
    BY <2>1, <1>1 DEF Address
<1> QED
  BY <1>2, <1>3, Zenon

\* Taking a peer ends the listening and makes the sender the peer.
LEMMA TakesPeer ==
  ASSUME NEW a \in [kind : {"udp", "ip"}, source : Address,
                    destination : Address, listen : BOOLEAN],
         NEW d \in Datagrams, adapter_accepts(a, d)
  PROVE  /\ TakePeer(a, d) \in [kind : {"udp", "ip"}, source : Address,
                                destination : Address, listen : BOOLEAN]
         /\ TakePeer(a, d).listen = FALSE
         /\ TakePeer(a, d).destination = d.from
         /\ ~a.listen => TakePeer(a, d).destination = a.destination
<1>1. d.from \in Address /\ d.to \in Address /\ a.source \in Address
  BY AddressesAssumption, Zenon
<1>2. <<d.to[1], a.source[2]>> \in Address
  BY <1>1, Zenon DEF Address
<1>3. CASE a.listen
  BY <1>1, <1>2, <1>3, Zenon DEF TakePeer
<1>4. CASE ~a.listen
  BY <1>4, AcceptsPeer, Zenon DEF TakePeer
<1> QED
  BY <1>3, <1>4, Zenon

\* A new socket has heard nothing, and only one that connects has sent.
LEMMA InitPeer == SocketInit => PeerInv
<1> SUFFICES ASSUME SocketInit PROVE PeerInv
  BY Zenon
<1>1. adapter \in [kind : {"udp", "ip"}, source : Address,
                   destination : Address, listen : BOOLEAN]
  BY AddressesAssumption, Zenon DEF SocketInit
<1> QED
  BY <1>1, Zenon DEF SocketInit, PeerInv, NewView, ViewFields

\* A call of a connection that has not started sends nothing, unless it is
\* segment_received().
LEMMA QuietSteps ==
  ASSUME PeerInv, UNCHANGED <<adapter, peers>>, NEW v \in SomeView,
         NEW sends \in BOOLEAN, Becomes(v, sends), v.started = view.started
  PROVE  PeerInv'
<1>1. DOMAIN v = ViewFields
  BY Zenon DEF SomeView, Views, ViewFields
<1>2. view' = v /\ queued' = (queued \/ sends) /\ (sends => v.started)
  BY Zenon DEF Becomes, MaySend
<1> QED
  BY <1>1, <1>2, Zenon DEF PeerInv

\* Every call but segment_received() leaves it to the connection whether it has
\* started.
LEMMA StartedKept ==
  ASSUME NEW a, DOMAIN a = ViewFields, NEW v
  PROVE  /\ AfterEndInput(a, v) => v.started = a.started
         /\ \A n : AfterWrite(a, n, v) => v.started = a.started
         /\ AfterTick(a, v) => v.started = a.started
<1>1. AfterEndInput(a, v) => v.started = a.started
  BY Zenon DEF AfterEndInput, ViewFields
<1>2. \A n : AfterWrite(a, n, v) => v.started = a.started
  BY Zenon DEF AfterWrite, ViewFields
<1>3. AfterTick(a, v) => v.started = a.started
  BY Zenon DEF AfterTick, ResetView, ViewFields
<1> QED
  BY <1>1, <1>2, <1>3, Zenon

\* Every step preserves the invariant.
LEMMA NextPeer == PeerInv /\ [SocketNext]_socketVars => PeerInv'
<1> SUFFICES ASSUME PeerInv, [SocketNext]_socketVars PROVE PeerInv'
  BY Zenon
<1>0. DOMAIN view = ViewFields
  BY Zenon DEF PeerInv
<1>1. CASE Wait
  <2>1. /\ UNCHANGED <<adapter, peers>>
        /\ \E v \in SomeView, sends \in BOOLEAN :
             (AfterEndInput(view, v) \/ v = view) /\ Becomes(v, sends)
    BY <1>1, Zenon DEF Wait
  <2> QED
    BY <2>1, <1>0, StartedKept, QuietSteps, Zenon
<1>2. CASE ReceiveSegment
  <2>1. PICK d \in Datagrams, dropped \in should_drop :
          /\ adapter' = IF adapter_accepts(adapter, d)
                        THEN TakePeer(adapter, d) ELSE adapter
          /\ IF adapter_accepts(adapter, d) /\ ~dropped
             THEN /\ peers' = peers \cup {d.from}
                  /\ \E v \in SomeView : view' = v
             ELSE UNCHANGED <<peers, view, queued>>
    BY <1>2, Zenon DEF ReceiveSegment, Becomes
  <2>2. CASE adapter_accepts(adapter, d)
    <3>1. /\ adapter' \in [kind : {"udp", "ip"}, source : Address,
                           destination : Address, listen : BOOLEAN]
          /\ adapter'.listen = FALSE
          /\ adapter'.destination = d.from
          /\ ~adapter.listen => adapter'.destination = adapter.destination
      BY <2>1, <2>2, TakesPeer, Zenon DEF PeerInv
    <3>2. peers' \subseteq {d.from}
      BY <2>1, <3>1, Zenon DEF PeerInv
    <3>3. DOMAIN view' = ViewFields
      BY <2>1, <1>0, Zenon DEF SomeView, Views, ViewFields
    <3> QED
      BY <3>1, <3>2, <3>3, Zenon DEF PeerInv
  <2>3. CASE ~adapter_accepts(adapter, d)
    BY <2>1, <2>3, Zenon DEF PeerInv
  <2> QED
    BY <2>2, <2>3, Zenon
<1>3. CASE SendOutbound
  <2>1. /\ UNCHANGED <<adapter, peers>>
        /\ \E v \in SomeView, sends \in BOOLEAN :
             /\ \/ AfterEndInput(view, v) \/ v = view
                \/ AfterWrite(view, Lesser(pair.to_tcp, OutCap - view.out), v)
             /\ Becomes(v, sends)
    BY <1>3, Zenon DEF SendOutbound
  <2> QED
    BY <2>1, <1>0, StartedKept, QuietSteps, Zenon
<1>4. CASE DeliverInbound
  <2>1. /\ UNCHANGED <<adapter, peers, queued>>
        /\ \/ view' = view
           \/ \E n : view' = [view EXCEPT !.in = n]
    BY <1>4, Zenon DEF DeliverInbound
  <2>2. DOMAIN view' = ViewFields /\ view'.started = view.started
    BY <2>1, <1>0, Zenon DEF ViewFields
  <2> QED
    BY <2>1, <2>2, Zenon DEF PeerInv
<1>5. CASE SendSegments
  BY <1>5, Zenon DEF SendSegments, PeerInv
<1>6. CASE LoopTick
  <2>1. /\ UNCHANGED <<adapter, peers>>
        /\ \/ UNCHANGED <<view, queued>>
           \/ \E v \in SomeView, sends \in BOOLEAN :
                (AfterTick(view, v) \/ v = view) /\ Becomes(v, sends)
    BY <1>6, Zenon DEF LoopTick
  <2>2. CASE UNCHANGED <<view, queued>>
    BY <2>1, <2>2, Zenon DEF PeerInv
  <2>3. CASE ~UNCHANGED <<view, queued>>
    BY <2>1, <2>3, <1>0, StartedKept, QuietSteps, Zenon
  <2> QED
    BY <2>2, <2>3, Zenon
<1>7. CASE OwnerWrite \/ OwnerRead \/ OwnerShutdown \/ WaitUntilClosed \/ Destroy
  BY <1>7, Zenon DEF OwnerWrite, OwnerRead, OwnerShutdown, WaitUntilClosed, Destroy, PeerInv
<1>8. CASE UNCHANGED socketVars
  BY <1>8, Zenon DEF socketVars, PeerInv
<1> QED
  BY <1>1, <1>2, <1>3, <1>4, <1>5, <1>6, <1>7, <1>8, Zenon DEF SocketNext, LoopStep

\* For any adapters and any datagrams, from any hosts and in any order, with any
\* of them dropped after the adapter took its peer: the segments of one peer only
\* reach the connection, and a socket that listens has not sent anything.
THEOREM OnePeerCorrect == SocketSpec => []OnePeer
<1>1. PeerInv => OnePeer
  BY Zenon DEF PeerInv, OnePeer
<1> QED
  BY <1>1, InitPeer, NextPeer, PTL DEF SocketSpec

-----------------------------------------------------------------------------
(* No bytes are lost between the two threads.                              *)

Pairs ==
  [to_tcp : Nat, to_owner : 0 .. PipeCap, owner_shut_wr : BOOLEAN,
   owner_shut_rd : BOOLEAN, tcp_shut_wr : BOOLEAN, eof : BOOLEAN]

Loops ==
  [pc : {"wait", "serve", "tick", "done", "threw"}, rules : SUBSET (1 .. 4),
   todo : SUBSET (1 .. 4), inbound_shutdown : BOOLEAN,
   outbound_shutdown : BOOLEAN]

TypeInv ==
  /\ view \in SomeView /\ pair \in Pairs /\ loop \in Loops
  /\ owner \in {"opening", "running", "waiting", "destroying"}

\* What is known of the two streams once their ends were passed on.
StreamsInv(v, p) ==
  /\ Settled(v)
  /\ p.tcp_shut_wr => v.error \/ inbound_eof(v)
  /\ v.out_ended => p.owner_shut_wr /\ p.to_tcp = 0

\* Rule 1 is never cancelled, rule 3 only if nobody reads; rule 2 is called only
\* if there are bytes or their end.
RulesInv(l, p) ==
  /\ 1 \in l.rules
  /\ 3 \notin l.rules => p.owner_shut_rd \/ p.tcp_shut_wr
  /\ p.eof => p.owner_shut_wr /\ p.to_tcp = 0
  /\ l.pc = "serve" => l.todo # {}
  /\ l.pc = "serve" /\ 2 \in l.todo => p.to_tcp > 0 \/ p.owner_shut_wr

\* The owner stops reading only when it waits, or when the thread has ended.
OwnerInv(l, p, o) == p.owner_shut_rd => o = "waiting" \/ l.pc = "done"

HandInv ==
  /\ TypeInv
  /\ StreamsInv(view, pair) /\ RulesInv(loop, pair) /\ OwnerInv(loop, pair, owner)
  /\ HandsOver /\ ThrowsOnlyIf

\* The first callback to call is one of those to call.
LEMMA FirstType ==
  ASSUME NEW todo \in SUBSET (1 .. 4), todo # {}
  PROVE  First(todo) \in todo
<1>1. \E i \in todo : \A j \in todo : i <= j
  <2>1. CASE 1 \in todo
    BY <2>1
  <2>2. CASE 1 \notin todo /\ 2 \in todo
    BY <2>2
  <2>3. CASE 1 \notin todo /\ 2 \notin todo /\ 3 \in todo
    BY <2>3
  <2>4. CASE 1 \notin todo /\ 2 \notin todo /\ 3 \notin todo
    <3>1. ASSUME NEW j \in todo PROVE j = 4
      <4>1. j \in 1 .. 4 /\ j # 1 /\ j # 2 /\ j # 3
        BY <2>4, Zenon
      <4> QED
        BY <4>1
    <3>2. PICK i \in todo : TRUE
      BY Zenon
    <3>3. i = 4 /\ \A j \in todo : i <= j
      BY <3>1
    <3> QED
      BY <3>3, Zenon
  <2> QED
    BY <2>1, <2>2, <2>3, <2>4, Zenon
<1> QED
  BY <1>1, Zenon DEF First

\* Everything is open and nothing under way.
LEMMA InitHand == SocketInit => HandInv
<1> SUFFICES ASSUME SocketInit PROVE HandInv
  BY Zenon
<1>1. NewView(~adapter.listen) \in SomeView
  BY CapacitiesAssumption DEF NewView, SomeView, Views
<1>2. TypeInv
  BY <1>1, CapacitiesAssumption DEF SocketInit, TypeInv, Pairs, Loops
<1>3. /\ view.active = TRUE /\ view.out_ended = FALSE
      /\ pair.tcp_shut_wr = FALSE /\ pair.eof = FALSE
      /\ pair.owner_shut_rd = FALSE /\ loop.pc = "wait" /\ loop.rules = 1 .. 4
  BY Zenon DEF SocketInit, NewView
<1> QED
  BY <1>2, <1>3 DEF HandInv, StreamsInv, RulesInv, OwnerInv, HandsOver,
                    ThrowsOnlyIf, Settled

\* What the contract lets the calls of the connection do to its streams.
LEMMA CallsKeep ==
  ASSUME NEW a \in SomeView, NEW b \in SomeView, NEW p \in Pairs, StreamsInv(a, p),
         \/ b = a \/ b = ResetView(a) \/ AfterSegment(a, b) \/ AfterTick(a, b)
         \/ \E n : AfterWrite(a, n, b)
         \/ AfterEndInput(a, b) /\ p.owner_shut_wr /\ p.to_tcp = 0
  PROVE  StreamsInv(b, p) /\ (a.error => b.error)
<1> USE DEF SomeView, Views, StreamsInv, Settled, inbound_eof
<1>1. CASE b = a
  BY <1>1, Zenon
<1>2. CASE b = ResetView(a)
  BY <1>2, Zenon DEF ResetView
<1>3. CASE AfterSegment(a, b)
  BY <1>3, Zenon DEF AfterSegment
<1>4. CASE AfterTick(a, b)
  BY <1>4, Zenon DEF AfterTick, ResetView
<1>5. ASSUME NEW n, AfterWrite(a, n, b) PROVE StreamsInv(b, p) /\ (a.error => b.error)
  BY <1>5, Zenon DEF AfterWrite
<1>6. CASE AfterEndInput(a, b) /\ p.owner_shut_wr /\ p.to_tcp = 0
  <2>1. PICK m \in 0 .. a.out : b = [a EXCEPT !.out = m, !.out_ended = TRUE]
    BY <1>6, Zenon DEF AfterEndInput
  <2>2. /\ b.out = m /\ b.out_ended = TRUE /\ b.in = a.in
        /\ b.in_ended = a.in_ended /\ b.error = a.error /\ b.active = a.active
    BY <2>1, Zenon
  <2>3. a.out = 0 => m = 0
    BY SMT
  <2> QED
    BY <1>6, <2>2, <2>3, Zenon
<1> QED
  BY <1>1, <1>2, <1>3, <1>4, <1>5, <1>6, Zenon

\* An invariant in pieces, of the state a step leads to.
LEMMA Together ==
  ASSUME TypeInv', StreamsInv(view', pair'), RulesInv(loop', pair'),
         OwnerInv(loop', pair', owner'), ThrowsOnlyIf',
         loop'.pc = "done" /\ owner' = "running" => view'.error \/ inbound_eof(view')
  PROVE  HandInv'
BY Zenon DEF HandInv, HandsOver, StreamsInv, inbound_eof, RulesInv, OwnerInv, Settled

\* One call of wait_next_event() up to its callbacks.
LEMMA WaitHand == HandInv /\ Wait => HandInv'
<1> SUFFICES ASSUME HandInv, Wait PROVE HandInv'
  BY Zenon
<1> DEFINE at_eof == IF pair.eof THEN {2} ELSE {}
           cancels == 2 \in loop.rules \cap at_eof
           flags == [loop EXCEPT !.rules = NotAtEof(@, at_eof),
                                 !.outbound_shutdown = @ \/ cancels]
           polled(v, sends) ==
             Polled(flags.rules, Interested(v, queued \/ sends, flags))
<1>1. PICK v \in SomeView, sends \in BOOLEAN :
        /\ IF cancels THEN AfterEndInput(view, v) ELSE v = view /\ ~sends
        /\ view' = v
        /\ \/ polled(v, sends) = {} /\ Leave(flags)
           \/ /\ polled(v, sends) # {}
              /\ \E arrived \in BOOLEAN :
                   Trigger(flags, polled(v, sends), Ready(arrived))
              /\ UNCHANGED <<pair, owner>>
  BY DEF Wait, Becomes
<1>2. loop.pc = "wait"
  BY Zenon DEF Wait
<1>3. /\ flags.rules = loop.rules \ at_eof /\ flags.pc = "wait"
      /\ flags \in Loops /\ 1 \in flags.rules
      /\ 3 \notin flags.rules => pair.owner_shut_rd \/ pair.tcp_shut_wr
  <2>1. at_eof \subseteq {2} /\ cancels \in BOOLEAN
    OBVIOUS
  <2> HIDE DEF at_eof, cancels
  <2>2. flags \in Loops /\ flags.rules = loop.rules \ at_eof /\ flags.pc = "wait"
    BY <1>2, <2>1, Zenon DEF HandInv, TypeInv, Loops, NotAtEof
  <2> HIDE DEF flags
  <2> QED
    BY <2>1, <2>2 DEF HandInv, RulesInv
<1>4. StreamsInv(v, pair)
  BY <1>1, CallsKeep, Zenon DEF HandInv, TypeInv, RulesInv
<1> HIDE DEF flags, cancels, at_eof
<1>5. CASE polled(v, sends) = {} /\ Leave(flags)
  <2>1. ~v.active
    BY <1>3, <1>5 DEF Polled, Interested
  <2>2. 3 \in flags.rules => v.error \/ inbound_eof(v)
    <3>1. 3 \in flags.rules => ~WantsInbound(v, flags)
      BY <1>5 DEF Polled, Interested
    <3> QED
      BY <2>1, <3>1, <1>4 DEF WantsInbound, StreamsInv, Settled, inbound_eof, SomeView, Views
  <2>3. CASE owner = "opening"
    <3>1. owner' = "running" /\ loop' = [flags EXCEPT !.pc = "wait"] /\ pair' = pair
      BY <1>5, <2>3, Zenon DEF Leave
    <3>2. loop' \in Loops /\ loop'.pc = "wait" /\ loop'.rules = flags.rules
      BY <1>3, <3>1, Zenon DEF Loops
    <3>3. TypeInv'
      BY <1>1, <3>1, <3>2, Zenon DEF HandInv, TypeInv
    <3>4. RulesInv(loop', pair')
      BY <1>3, <3>1, <3>2, Zenon DEF HandInv, RulesInv
    <3>5. OwnerInv(loop', pair', owner')
      BY <1>2, <2>3, <3>1, Zenon DEF HandInv, OwnerInv
    <3> QED
      BY <1>1, <1>4, <3>1, <3>2, <3>3, <3>4, <3>5, Together, Zenon DEF ThrowsOnlyIf
  <2>4. CASE owner # "opening"
    <3>1. /\ owner' = owner /\ loop' = [flags EXCEPT !.pc = "done"]
          /\ pair' = [pair EXCEPT !.owner_shut_wr = TRUE, !.owner_shut_rd = TRUE]
      BY <1>5, <2>4, Zenon DEF Leave
    <3>2. loop' \in Loops /\ loop'.pc = "done" /\ loop'.rules = flags.rules
      BY <1>3, <3>1, Zenon DEF Loops
    <3>3. /\ pair' \in Pairs /\ pair'.owner_shut_wr /\ pair'.owner_shut_rd
          /\ pair'.tcp_shut_wr = pair.tcp_shut_wr /\ pair'.to_tcp = pair.to_tcp
          /\ pair'.eof = pair.eof
      BY <3>1, Zenon DEF HandInv, TypeInv, Pairs
    <3>4. TypeInv'
      BY <1>1, <3>1, <3>2, <3>3, Zenon DEF HandInv, TypeInv
    <3>5. RulesInv(loop', pair')
      BY <1>3, <3>2, <3>3, Zenon DEF HandInv, RulesInv
    <3>6. OwnerInv(loop', pair', owner')
      BY <3>2, Zenon DEF OwnerInv
    <3>7. StreamsInv(view', pair')
      BY <1>1, <1>4, <3>3, Zenon DEF StreamsInv
    <3>8. owner' = "running" => v.error \/ inbound_eof(v)
      BY <1>2, <1>3, <1>4, <2>2, <3>1, Zenon DEF HandInv, OwnerInv, StreamsInv
    <3> QED
      BY <1>1, <3>2, <3>4, <3>5, <3>6, <3>7, <3>8, Together, Zenon DEF ThrowsOnlyIf
  <2> QED
    BY <2>3, <2>4, Zenon
<1>6. ASSUME NEW arrived \in BOOLEAN, UNCHANGED <<pair, owner>>,
             Trigger(flags, polled(v, sends), Ready(arrived))
      PROVE  HandInv'
  <2> DEFINE todo == Triggered(polled(v, sends), Ready(arrived))
             gone == Defunct(polled(v, sends), Ready(arrived), HungUp)
  <2>1. loop' = [flags EXCEPT !.rules = @ \ gone, !.todo = todo,
                              !.pc = IF todo = {} THEN "tick" ELSE "serve"]
    BY <1>6, Zenon DEF Trigger
  <2>2. todo \in SUBSET (1 .. 4) /\ (2 \in todo => pair.to_tcp > 0 \/ pair.owner_shut_wr)
    BY DEF Triggered, Ready, Polled, Interested
  <2>3. gone \subseteq HungUp
    BY Zenon DEF Defunct
  <2> HIDE DEF todo, gone
  <2>4. /\ loop' \in Loops /\ loop'.rules = flags.rules \ gone /\ loop'.todo = todo
        /\ loop'.pc = IF todo = {} THEN "tick" ELSE "serve"
    BY <1>3, <2>1, <2>2, Zenon DEF Loops
  <2>5. TypeInv'
    BY <1>1, <1>6, <2>4, Zenon DEF HandInv, TypeInv
  <2>6. RulesInv(loop', pair')
    <3>1. 1 \in loop'.rules
      BY <1>3, <2>3, <2>4 DEF HungUp
    <3>2. 3 \notin loop'.rules => pair.owner_shut_rd \/ pair.tcp_shut_wr
      BY <1>3, <2>3, <2>4, Zenon DEF HungUp
    <3> QED
      BY <1>6, <2>2, <2>4, <3>1, <3>2, Zenon DEF HandInv, RulesInv
  <2>7. OwnerInv(loop', pair', owner')
    BY <1>2, <1>6, Zenon DEF HandInv, OwnerInv
  <2> QED
    BY <1>1, <1>4, <1>6, <2>4, <2>5, <2>6, <2>7, Together, Zenon DEF ThrowsOnlyIf
<1> QED
  BY <1>1, <1>5, <1>6, Zenon

\* After a callback the loop has one callback less to call.
LEMMA FinishedIs ==
  ASSUME HandInv, NEW flags \in Loops, NEW threw \in BOOLEAN, NEW rule,
         flags.rules = loop.rules, Serves(rule), Finished(flags, threw)
  PROVE  /\ loop' \in Loops /\ loop'.rules = loop.rules /\ rule \in loop.todo
         /\ loop'.todo = loop.todo \ {rule}
         /\ loop'.pc \in {"tick", "serve", "threw"}
         /\ loop'.pc = "serve" => loop'.todo # {}
         /\ loop'.pc = "threw" <=> threw
<1> DEFINE todo == loop.todo \ {rule}
<1>1. loop.pc = "serve" /\ First(loop.todo) = rule
  BY Zenon DEF Serves
<1>2. loop.todo \in SUBSET (1 .. 4) /\ loop.todo # {}
  BY <1>1, Zenon DEF HandInv, TypeInv, Loops, RulesInv
<1>3. rule \in loop.todo
  BY <1>1, <1>2, FirstType, Zenon
<1>4. loop' = [flags EXCEPT !.todo = todo,
                            !.pc = IF threw THEN "threw"
                                   ELSE IF todo = {} THEN "tick" ELSE "serve"]
  BY <1>1, Zenon DEF Finished
<1>5. todo \in SUBSET (1 .. 4)
  BY <1>2, Zenon
<1> HIDE DEF todo
<1> QED
  BY <1>3, <1>4, <1>5, Zenon DEF Loops, todo

\* Rules 1 and 4 change the connection, or only its queue.
LEMMA SegmentsHand == HandInv /\ (ReceiveSegment \/ SendSegments) => HandInv'
<1> SUFFICES ASSUME HandInv, ReceiveSegment \/ SendSegments PROVE HandInv'
  BY Zenon
<1>1. PICK rule \in {1, 4} : Serves(rule) /\ Finished(loop, FALSE)
  <2>1. CASE ReceiveSegment
    BY <2>1, Zenon DEF ReceiveSegment
  <2>2. CASE SendSegments
    <3>1. PICK used \in BOOLEAN :
            Finished(loop, BusyWait(used, 4 \in Interested(view, queued', loop)))
      BY <2>2, Zenon DEF SendSegments
    <3>2. BusyWait(used, 4 \in Interested(view, queued', loop)) = FALSE
      BY <2>2 DEF SendSegments, BusyWait, Interested
    <3> QED
      BY <2>2, <3>1, <3>2, Zenon DEF SendSegments
  <2> QED
    BY <2>1, <2>2, Zenon
<1>2. pair' = pair /\ owner' = owner
  BY Zenon DEF ReceiveSegment, SendSegments
<1>3. view' \in SomeView /\ StreamsInv(view', pair)
  <2>1. \/ view' = view
        \/ view' \in SomeView /\ (view' = ResetView(view) \/ AfterSegment(view, view'))
    BY Zenon DEF ReceiveSegment, SendSegments, Becomes
  <2> QED
    BY <2>1, CallsKeep, Zenon DEF HandInv, TypeInv
<1>4. loop \in Loops
  BY Zenon DEF HandInv, TypeInv
<1>5. /\ loop' \in Loops /\ loop'.rules = loop.rules /\ loop'.todo \subseteq loop.todo
      /\ loop'.pc \in {"tick", "serve"} /\ (loop'.pc = "serve" => loop'.todo # {})
  BY <1>1, <1>4, FinishedIs, Zenon
<1>6. loop.pc = "serve"
  BY <1>1, Zenon DEF Serves
<1>7. TypeInv'
  BY <1>2, <1>3, <1>5, Zenon DEF HandInv, TypeInv
<1>8. RulesInv(loop', pair')
  BY <1>2, <1>5, <1>6, Zenon DEF HandInv, RulesInv
<1>9. OwnerInv(loop', pair', owner')
  BY <1>2, <1>6, Zenon DEF HandInv, OwnerInv
<1> QED
  BY <1>2, <1>3, <1>5, <1>7, <1>8, <1>9, Together, Zenon DEF ThrowsOnlyIf

\* Rule 2 passes on the owner's bytes, and their end when none are left.
LEMMA SendOutboundHand == HandInv /\ SendOutbound => HandInv'
<1> SUFFICES ASSUME HandInv, SendOutbound PROVE HandInv'
  BY Zenon
<1> DEFINE n == Lesser(pair.to_tcp, OutCap - view.out)
           ended == pair.to_tcp = 0
           flags == [loop EXCEPT !.outbound_shutdown = ended]
           short == n > 0 /\ view.out_ended
<1>1. Serves(2) /\ Finished(flags, short)
  BY Zenon DEF SendOutbound
<1>2. pair' = [pair EXCEPT !.to_tcp = @ - n, !.eof = ended] /\ owner' = owner
  BY Zenon DEF SendOutbound
<1>3. n \in 0 .. pair.to_tcp
  BY CapacitiesAssumption
     DEF HandInv, TypeInv, SomeView, Views, Pairs, Lesser
<1>4. ~short
  BY <1>3 DEF HandInv, StreamsInv
<1>5. flags \in Loops /\ flags.rules = loop.rules
  <2>1. ended \in BOOLEAN
    BY Zenon
  <2> HIDE DEF ended
  <2> QED
    BY <2>1, Zenon DEF HandInv, TypeInv, Loops
<1>6. /\ loop' \in Loops /\ loop'.rules = loop.rules /\ 2 \in loop.todo
      /\ loop'.todo = loop.todo \ {2}
      /\ loop'.pc \in {"tick", "serve"} /\ (loop'.pc = "serve" => loop'.todo # {})
  <2>1. short \in BOOLEAN
    BY Zenon
  <2> HIDE DEF short, flags
  <2> QED
    BY <1>1, <1>4, <1>5, <2>1, FinishedIs, Zenon
<1>7. loop.pc = "serve"
  BY <1>1, Zenon DEF Serves
<1>8. ended => pair.owner_shut_wr
  BY <1>6, <1>7 DEF HandInv, RulesInv
<1>9. view' \in SomeView /\ StreamsInv(view', pair)
  <2>1. /\ view' \in SomeView
        /\ \/ ended /\ AfterEndInput(view, view')
           \/ view' = view
           \/ \E k : AfterWrite(view, k, view')
    BY Zenon DEF SendOutbound, Becomes
  <2> QED
    BY <1>8, <2>1, CallsKeep, Zenon DEF HandInv, TypeInv
<1> HIDE DEF short, flags, n
<1>10. /\ pair' \in Pairs /\ pair'.to_tcp = pair.to_tcp - n /\ pair'.eof = ended
       /\ pair'.owner_shut_wr = pair.owner_shut_wr
       /\ pair'.owner_shut_rd = pair.owner_shut_rd
       /\ pair'.tcp_shut_wr = pair.tcp_shut_wr
  <2>1. pair \in Pairs /\ pair.to_tcp - n \in Nat /\ ended \in BOOLEAN
    BY <1>3 DEF HandInv, TypeInv, Pairs
  <2> HIDE DEF ended
  <2> QED
    BY <1>2, <2>1, Zenon DEF Pairs
<1>11. pair.to_tcp = 0 => pair'.to_tcp = 0
  <2>1. pair.to_tcp = 0 => n = 0
    BY <1>3
  <2> QED
    BY <1>10, <2>1
<1>12. TypeInv'
  BY <1>2, <1>6, <1>9, <1>10, Zenon DEF HandInv, TypeInv
<1>13. RulesInv(loop', pair')
  BY <1>6, <1>8, <1>10, <1>11, Zenon DEF HandInv, RulesInv
<1>14. OwnerInv(loop', pair', owner')
  BY <1>2, <1>7, <1>10, Zenon DEF HandInv, OwnerInv
<1>15. StreamsInv(view', pair')
  BY <1>9, <1>10, <1>11, Zenon DEF StreamsInv
<1> QED
  BY <1>6, <1>12, <1>13, <1>14, <1>15, Together, Zenon DEF ThrowsOnlyIf

\* Rule 3 passes bytes on, and their end once none are left; it finds the pipe
\* broken only after a reset or when the owner waits.
LEMMA DeliverInboundHand == HandInv /\ DeliverInbound => HandInv'
<1> SUFFICES ASSUME HandInv, DeliverInbound PROVE HandInv'
  BY Zenon
<1> DEFINE n == Lesser(view.in, PipeCap - pair.to_owner)
           after == [view EXCEPT !.in = @ - n]
           over == InboundOver(after)
           flags == [loop EXCEPT !.inbound_shutdown = @ \/ over]
<1>1. Serves(3) /\ owner' = owner
  BY Zenon DEF DeliverInbound
<1>2. loop.pc = "serve"
  BY <1>1, Zenon DEF Serves
<1>3. loop \in Loops /\ view \in SomeView /\ pair \in Pairs
  BY Zenon DEF HandInv, TypeInv
<1>4. CASE view.in > 0 /\ BrokenPipe
  <2>1. Finished(loop, TRUE) /\ view' = view /\ pair' = pair
    BY <1>4, Zenon DEF DeliverInbound
  <2>2. /\ loop' \in Loops /\ loop'.rules = loop.rules /\ loop'.pc = "threw"
    BY <1>1, <1>3, <2>1, FinishedIs, Zenon
  <2>3. view.error \/ owner = "waiting"
    <3>1. CASE pair.tcp_shut_wr
      BY <1>4, <3>1 DEF HandInv, StreamsInv, inbound_eof
    <3>2. CASE pair.owner_shut_rd
      BY <1>2, <3>2, Zenon DEF HandInv, OwnerInv
    <3> QED
      BY <1>4, <3>1, <3>2, Zenon DEF BrokenPipe
  <2>4. TypeInv'
    BY <1>1, <2>1, <2>2, Zenon DEF HandInv, TypeInv
  <2>5. RulesInv(loop', pair')
    BY <2>1, <2>2, Zenon DEF HandInv, RulesInv
  <2>6. OwnerInv(loop', pair', owner')
    BY <1>1, <1>2, <2>1, Zenon DEF HandInv, OwnerInv
  <2>7. StreamsInv(view', pair')
    BY <2>1, Zenon DEF HandInv
  <2>8. ThrowsOnlyIf'
    BY <1>1, <1>4, <2>1, <2>3, Zenon DEF ThrowsOnlyIf
  <2> QED
    BY <2>2, <2>4, <2>5, <2>6, <2>7, <2>8, Together, Zenon
<1>5. CASE ~(view.in > 0 /\ BrokenPipe)
  <2>1. /\ view' = after
        /\ pair' = [pair EXCEPT !.to_owner = @ + n, !.tcp_shut_wr = @ \/ over]
        /\ Finished(flags, FALSE)
    BY <1>5, Zenon DEF DeliverInbound
  <2>2. n \in 0 .. view.in /\ pair.to_owner + n \in 0 .. PipeCap
    <3>1. view.in \in Nat /\ pair.to_owner \in 0 .. PipeCap /\ PipeCap \in Nat
      BY <1>3, CapacitiesAssumption DEF SomeView, Views, Pairs
    <3> QED
      BY <3>1 DEF Lesser
  <2> HIDE DEF n
  <2>3. /\ after \in SomeView /\ after.in = view.in - n
        /\ after.in_ended = view.in_ended /\ after.error = view.error
        /\ after.active = view.active /\ after.out_ended = view.out_ended
        /\ after.out = view.out
    BY <1>3, <2>2, CapacitiesAssumption DEF SomeView, Views
  <2> HIDE DEF after
  <2>4. over \in BOOLEAN
    BY <2>3, Zenon DEF InboundOver, inbound_eof, SomeView, Views
  <2>5. flags \in Loops /\ flags.rules = loop.rules
    <3> HIDE DEF over
    <3> QED
      BY <1>3, <2>4, Zenon DEF Loops
  <2> HIDE DEF flags
  <2>6. /\ loop' \in Loops /\ loop'.rules = loop.rules /\ loop'.todo = loop.todo \ {3}
        /\ loop'.pc \in {"tick", "serve"} /\ (loop'.pc = "serve" => loop'.todo # {})
    BY <1>1, <2>1, <2>5, FinishedIs, Zenon
  <2>7. /\ pair' \in Pairs /\ pair'.to_tcp = pair.to_tcp /\ pair'.eof = pair.eof
        /\ pair'.owner_shut_wr = pair.owner_shut_wr
        /\ pair'.owner_shut_rd = pair.owner_shut_rd
        /\ pair'.tcp_shut_wr = (pair.tcp_shut_wr \/ over)
    <3> HIDE DEF over
    <3> QED
      BY <1>3, <2>1, <2>2, <2>4, Zenon DEF Pairs
  <2>8. TypeInv'
    BY <1>1, <2>1, <2>3, <2>6, <2>7, Zenon DEF HandInv, TypeInv
  <2>9. RulesInv(loop', pair')
    BY <1>2, <2>6, <2>7, Zenon DEF HandInv, RulesInv
  <2>10. OwnerInv(loop', pair', owner')
    BY <1>1, <1>2, <2>7, Zenon DEF HandInv, OwnerInv
  <2>11. StreamsInv(view', pair')
    <3>1. view.in = 0 => after.in = 0
      <4>1. view.in = 0 => n = 0
        BY <2>2
      <4> QED
        BY <2>3, <4>1
    <3>2. inbound_eof(view) => inbound_eof(after)
      BY <2>3, <3>1, Zenon DEF inbound_eof
    <3>3. Settled(view') /\ (view'.out_ended => pair'.owner_shut_wr /\ pair'.to_tcp = 0)
      BY <2>1, <2>3, <2>7, Zenon DEF HandInv, StreamsInv, Settled
    <3>4. pair'.tcp_shut_wr => view'.error \/ inbound_eof(view')
      <4>1. over => after.error \/ inbound_eof(after)
        BY Zenon DEF InboundOver
      <4>2. pair.tcp_shut_wr => after.error \/ inbound_eof(after)
        BY <2>3, <3>2, Zenon DEF HandInv, StreamsInv
      <4> HIDE DEF over
      <4> QED
        BY <2>1, <2>7, <4>1, <4>2, Zenon
    <3> QED
      BY <3>3, <3>4, Zenon DEF StreamsInv
  <2> QED
    BY <2>6, <2>8, <2>9, <2>10, <2>11, Together, Zenon DEF ThrowsOnlyIf
<1> QED
  BY <1>4, <1>5, Zenon

\* Time passes, or the loop is left for an owner that destroys the socket.
LEMMA TickHand == HandInv /\ LoopTick => HandInv'
<1> SUFFICES ASSUME HandInv, LoopTick PROVE HandInv'
  BY Zenon
<1>1. loop.pc = "tick" /\ loop \in Loops
  BY Zenon DEF LoopTick, HandInv, TypeInv
<1>2. CASE owner = "destroying"
  <2>1. /\ view' = view /\ owner' = owner /\ loop' = [loop EXCEPT !.pc = "done"]
        /\ pair' = [pair EXCEPT !.owner_shut_wr = TRUE, !.owner_shut_rd = TRUE]
    BY <1>2, Zenon DEF LoopTick, Leave
  <2>2. loop' \in Loops /\ loop'.pc = "done" /\ loop'.rules = loop.rules
    BY <1>1, <2>1, Zenon DEF Loops
  <2>3. /\ pair' \in Pairs /\ pair'.owner_shut_wr /\ pair'.owner_shut_rd
        /\ pair'.tcp_shut_wr = pair.tcp_shut_wr /\ pair'.to_tcp = pair.to_tcp
        /\ pair'.eof = pair.eof
    BY <2>1, Zenon DEF HandInv, TypeInv, Pairs
  <2>4. TypeInv'
    BY <2>1, <2>2, <2>3, Zenon DEF HandInv, TypeInv
  <2>5. RulesInv(loop', pair') /\ OwnerInv(loop', pair', owner')
    BY <2>2, <2>3, Zenon DEF HandInv, RulesInv, OwnerInv
  <2>6. StreamsInv(view', pair')
    BY <2>1, <2>3, Zenon DEF HandInv, StreamsInv
  <2> QED
    BY <1>2, <2>1, <2>2, <2>4, <2>5, <2>6, Together, Zenon DEF ThrowsOnlyIf
<1>3. CASE owner # "destroying"
  <2>1. PICK v \in SomeView :
          /\ v = view \/ AfterTick(view, v)
          /\ view' = v
          /\ owner' = IF owner = "opening" /\ ~v.opening THEN "running" ELSE owner
    BY <1>3, Zenon DEF LoopTick, Becomes
  <2>2. loop' = [loop EXCEPT !.pc = "wait"] /\ pair' = pair
    BY <1>3, Zenon DEF LoopTick
  <2>3. loop' \in Loops /\ loop'.pc = "wait" /\ loop'.rules = loop.rules
    BY <1>1, <2>2, Zenon DEF Loops
  <2>4. StreamsInv(view', pair')
    BY <2>1, <2>2, CallsKeep, Zenon DEF HandInv, TypeInv
  <2>5. TypeInv'
    BY <2>1, <2>2, <2>3, Zenon DEF HandInv, TypeInv
  <2>6. RulesInv(loop', pair') /\ OwnerInv(loop', pair', owner')
    BY <1>1, <2>1, <2>2, <2>3, Zenon DEF HandInv, RulesInv, OwnerInv
  <2> QED
    BY <2>3, <2>4, <2>5, <2>6, Together, Zenon DEF ThrowsOnlyIf
<1> QED
  BY <1>2, <1>3, Zenon

\* The owner writes nothing after its shutdown, and stops reading when it waits.
LEMMA OwnerHand ==
  /\ HandInv
  /\ OwnerWrite \/ OwnerRead \/ OwnerShutdown \/ WaitUntilClosed \/ Destroy
  => HandInv'
<1> SUFFICES ASSUME HandInv,
                    \/ OwnerWrite \/ OwnerRead \/ OwnerShutdown
                    \/ WaitUntilClosed \/ Destroy
             PROVE  HandInv'
  BY Zenon
<1>1. view' = view /\ loop' = loop /\ owner = "running"
  BY Zenon DEF OwnerWrite, OwnerRead, OwnerShutdown, WaitUntilClosed, Destroy
<1>2. pair \in Pairs /\ PipeCap \in Nat
  BY CapacitiesAssumption, Zenon DEF HandInv, TypeInv
<1>3. /\ pair' \in Pairs /\ pair'.tcp_shut_wr = pair.tcp_shut_wr
      /\ pair'.eof = pair.eof /\ (pair.owner_shut_wr => pair'.owner_shut_wr)
      /\ pair'.to_tcp >= pair.to_tcp
      /\ pair.owner_shut_wr => pair'.to_tcp = pair.to_tcp
      /\ pair.owner_shut_rd => pair'.owner_shut_rd
      /\ pair'.owner_shut_rd => pair.owner_shut_rd \/ owner' = "waiting"
  <2>1. CASE OwnerWrite
    <3>1. pair.to_tcp \in Nat /\ pair.to_tcp + 1 \in Nat
      BY <1>2 DEF Pairs
    <3>2. pair' = [pair EXCEPT !.to_tcp = @ + 1] /\ ~pair.owner_shut_wr
      BY <2>1, Zenon DEF OwnerWrite
    <3>3. pair' \in Pairs /\ pair'.to_tcp = pair.to_tcp + 1
      BY <1>2, <3>1, <3>2, Zenon DEF Pairs
    <3>4. /\ pair'.tcp_shut_wr = pair.tcp_shut_wr /\ pair'.eof = pair.eof
          /\ pair'.owner_shut_wr = pair.owner_shut_wr
          /\ pair'.owner_shut_rd = pair.owner_shut_rd
      BY <1>2, <3>2, Zenon DEF Pairs
    <3> QED
      BY <3>1, <3>2, <3>3, <3>4
  <2>2. CASE OwnerRead
    <3>1. pair.to_owner - 1 \in 0 .. PipeCap /\ pair.to_tcp \in Nat
      BY <1>2, <2>2 DEF OwnerRead, Pairs
    <3>2. pair' = [pair EXCEPT !.to_owner = @ - 1]
      BY <2>2, Zenon DEF OwnerRead
    <3>3. pair' \in Pairs /\ pair'.to_tcp = pair.to_tcp
      BY <1>2, <3>1, <3>2, Zenon DEF Pairs
    <3>4. /\ pair'.tcp_shut_wr = pair.tcp_shut_wr /\ pair'.eof = pair.eof
          /\ pair'.owner_shut_wr = pair.owner_shut_wr
          /\ pair'.owner_shut_rd = pair.owner_shut_rd
      BY <1>2, <3>2, Zenon DEF Pairs
    <3> QED
      BY <3>1, <3>3, <3>4
  <2>3. CASE OwnerShutdown
    <3>1. pair' = [pair EXCEPT !.owner_shut_wr = TRUE]
      BY <2>3, Zenon DEF OwnerShutdown
    <3>2. pair' \in Pairs /\ pair'.to_tcp = pair.to_tcp /\ pair.to_tcp \in Nat
      BY <1>2, <3>1, Zenon DEF Pairs
    <3>3. /\ pair'.tcp_shut_wr = pair.tcp_shut_wr /\ pair'.eof = pair.eof
          /\ pair'.owner_shut_wr
          /\ pair'.owner_shut_rd = pair.owner_shut_rd
      BY <1>2, <2>3, <3>1, Zenon DEF OwnerShutdown, Pairs
    <3> QED
      BY <3>2, <3>3
  <2>4. CASE WaitUntilClosed
    <3>1. pair' = [pair EXCEPT !.owner_shut_wr = TRUE, !.owner_shut_rd = TRUE]
      BY <2>4, Zenon DEF WaitUntilClosed
    <3>2. pair' \in Pairs /\ pair'.to_tcp = pair.to_tcp /\ pair.to_tcp \in Nat
      BY <1>2, <3>1, Zenon DEF Pairs
    <3>3. /\ pair'.tcp_shut_wr = pair.tcp_shut_wr /\ pair'.eof = pair.eof
          /\ pair'.owner_shut_wr
          /\ pair'.owner_shut_rd /\ owner' = "waiting"
      BY <1>2, <2>4, <3>1, Zenon DEF WaitUntilClosed, Pairs
    <3> QED
      BY <3>2, <3>3
  <2>5. CASE Destroy
    BY <1>2, <2>5 DEF Destroy, Pairs
  <2> QED
    BY <2>1, <2>2, <2>3, <2>4, <2>5, Zenon
<1>4. owner' \in {"running", "waiting", "destroying"}
  BY <1>1, Zenon DEF OwnerWrite, OwnerRead, OwnerShutdown, WaitUntilClosed, Destroy
<1>5. TypeInv'
  BY <1>1, <1>3, <1>4, Zenon DEF HandInv, TypeInv
<1>6. StreamsInv(view', pair')
  BY <1>1, <1>3, Zenon DEF HandInv, StreamsInv
<1>7. RulesInv(loop', pair')
  BY <1>1, <1>2, <1>3 DEF HandInv, RulesInv, Pairs
<1>8. OwnerInv(loop', pair', owner')
  BY <1>1, <1>3, Zenon DEF HandInv, OwnerInv
<1>9. ThrowsOnlyIf'
  BY <1>1, Zenon DEF HandInv, ThrowsOnlyIf
<1>10. loop'.pc = "done" => view'.error \/ inbound_eof(view')
  BY <1>1, Zenon DEF HandInv, HandsOver
<1> QED
  BY <1>5, <1>6, <1>7, <1>8, <1>9, <1>10, Together, Zenon

\* Every step keeps the invariant.
LEMMA NextHand == HandInv /\ [SocketNext]_socketVars => HandInv'
<1>1. HandInv /\ UNCHANGED socketVars => HandInv'
  BY Zenon DEF HandInv, TypeInv, StreamsInv, Settled, inbound_eof, RulesInv, OwnerInv,
         HandsOver, ThrowsOnlyIf, socketVars
<1> QED
  BY <1>1, WaitHand, SegmentsHand, SendOutboundHand, DeliverInboundHand, TickHand,
     OwnerHand, Zenon DEF SocketNext, LoopStep

\* Whatever the capacities, both threads' steps in any order pass every byte on
\* before the end of its stream: HandsOver holds of TCPSpongeSocket.
THEOREM HandsOverCorrect == SocketSpec => []HandsOver
<1>1. HandInv => HandsOver
  BY Zenon DEF HandInv
<1> QED
  BY <1>1, InitHand, NextHand, PTL DEF SocketSpec

\* Whatever the capacities, _tcp_loop throws only after a reset with bytes left,
\* or when the owner waits with bytes still to come.
THEOREM ThrowsOnlyIfCorrect == SocketSpec => []ThrowsOnlyIf
<1>1. HandInv => ThrowsOnlyIf
  BY Zenon DEF HandInv
<1> QED
  BY <1>1, InitHand, NextHand, PTL DEF SocketSpec
=============================================================================
