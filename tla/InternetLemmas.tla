--------------------------- MODULE InternetLemmas ---------------------------
(***************************************************************************)
(* The invariant NInv of the network of hosts and routers, and what        *)
(* receiving a frame and sending a datagram do: they keep it, for any      *)
(* hosts, routers, segments and tables, and any number of datagrams.       *)
(***************************************************************************)
EXTENDS Internet, WellFoundedInduction, TLAPS

\* A set of counts that is not empty has a least member.
LEMMA LeastOfSet ==
  ASSUME NEW S \in SUBSET Nat, S # {}
  PROVE  \E i \in S : \A j \in S : i <= j
<1> DEFINE R == {p \in Nat \X Nat : p[1] < p[2]}
<1>1. IsWellFoundedOn(R, Nat)
  BY NatLessThanWellFounded, Zenon DEF OpToRel
<1>2. PICK i \in S : \A j \in S : ~(<<j, i>> \in R)
  BY <1>1, WFMin, Zenon
<1>3. \A j \in Nat, k \in Nat : j < k => <<j, k>> \in R
  BY Zenon
<1> HIDE DEF R
<1>4. \A j \in S : ~(j < i)
  BY <1>2, <1>3, Zenon
<1>5. \A j \in S : i <= j
  BY <1>4
<1> QED
  BY <1>5, Zenon

\* Nothing is added.
LEMMA PlusZero == \A k \in Nat : k + 0 = k /\ k + 0 >= k
OBVIOUS

\* A datagram with time T left of S after C routers, which one more sends out.
LEMMA OneMore ==
  ASSUME NEW S \in Nat, NEW C \in Nat, NEW T \in Nat, T > 1, T + C + 0 = S
  PROVE  /\ C + 1 <= IF S = 0 THEN 0 ELSE S - 1
         /\ (T - 1) + (C + 1) >= S
OBVIOUS

-----------------------------------------------------------------------------
(* Ports, and the types of what an interface holds.                        *)

Node == Host \cup RouterName

Count(x) == Cardinality(Ports(x))

\* The Ethernet address of a port.
Eth(p) == <<"eth", p[1], p[2]>>

Dgrams == [id : Nat, dst : Addresses, ttl : Nat]

\* The std::maps from IP addresses to V.
Maps(V) == UNION {[S -> V] : S \in SUBSET Addresses}

\* What the ports s of one segment send each other: datagrams, and ARP messages
\* that tell the truth.
Eths(s) == {Eth(q) : q \in s}

Requests(s) ==
  {ARPMessage(1, Eth(q), IpOf[q], NoEthernetAddress, ip) : q \in s, ip \in Addresses}

Replies(s) == {ARPMessage(2, Eth(q), IpOf[q], Eth(o), IpOf[o]) : q, o \in s}

Datagrams == [kind : {"IPv4"}, dgram : Dgrams]

Frames(s) ==
  [src : Eths(s), dst : Eths(s), payload : Datagrams \cup Replies(s)]
    \cup [src : Eths(s), dst : {ETHERNET_BROADCAST}, payload : Requests(s)]

Mappings(s) == [eaddr : Eths(s), expires : Nat]

Interfaces(s) ==
  [ethernet_address : Eths(s), ip_address : Addresses, frames_out : Seq(Frames(s)),
   crt_time : Nat, ip_map : Maps(Mappings(s)),
   unknown_datagram_map : Maps(Dgrams), ip_arp_time : Maps(Nat)]

\* The frames that an interface has queued.
Outbox(n) == {n.frames_out[i] : i \in 1 .. Len(n.frames_out)}

\* The interface at port p of segment s, between two calls or within one.
Sound(n, p, s) ==
  /\ n \in Interfaces(s)
  /\ n.ethernet_address = Eth(p)
  /\ n.ip_address = IpOf[p]
  /\ \A ip \in DOMAIN n.ip_map :
       \E q \in s : ip = IpOf[q] /\ n.ip_map[ip].eaddr = Eth(q)

\* An interface without frames to send has an empty outbox.
LEMMA EmptyOutbox ==
  ASSUME NEW n, n.frames_out = << >>
  PROVE  Outbox(n) = {}
BY DEF Outbox

\* The datagram with number k + 1.
LEMMA NextDgram ==
  ASSUME NEW k \in Nat, NEW dst \in Addresses, NEW ttl \in Nat
  PROVE  [id |-> k + 1, dst |-> dst, ttl |-> ttl] \in Dgrams
BY DEF Dgrams

\* The ports of a node are numbered from one.
LEMMA PortsOfNode ==
  /\ \A x \in Node : Count(x) \in Nat \ {0}
  /\ \A x \in Node : \A i \in 1 .. Count(x) : <<x, i>> \in Port
  /\ \A p \in Port : /\ p[1] \in Node /\ p[2] \in 1 .. Count(p[1])
                     /\ p = <<p[1], p[2]>>
                     /\ IpOf[p] \in Addresses
  /\ \A h \in Host : Count(h) = 1
<1>1. \A x \in Node : /\ Count(x) \in Nat \ {0}
                      /\ Ports(x) = {<<x, i>> : i \in 1 .. Count(x)}
  BY InternetAssumption, Zenon DEF Node, Count
<1>2. \A x \in Node : \A i \in 1 .. Count(x) : <<x, i>> \in Port
  BY <1>1, Zenon DEF Ports
<1>3. ASSUME NEW p \in Port
      PROVE  /\ p[1] \in Node /\ p[2] \in 1 .. Count(p[1])
             /\ p = <<p[1], p[2]>>
             /\ IpOf[p] \in Addresses
  <2>1. p \in Node \X (Nat \ {0})
    BY InternetAssumption, Zenon DEF Node
  <2>2. p \in Ports(p[1])
    BY Zenon DEF Ports
  <2>3. PICK i \in 1 .. Count(p[1]) : p = <<p[1], i>>
    BY <1>1, <2>1, <2>2
  <2> QED
    BY <2>1, <2>3, InternetAssumption
<1>4. \A h \in Host : Count(h) = 1
  BY InternetAssumption, Zenon DEF Count
<1> QED
  BY <1>1, <1>2, <1>3, <1>4, Zenon

\* A port is on one segment.
LEMMA LinkOfPort ==
  /\ \A p \in Port : Link(p) \in Segment /\ p \in Link(p)
  /\ \A s \in Segment : s \subseteq Port /\ \A p \in s : Link(p) = s
<1>1. ASSUME NEW p \in Port PROVE Link(p) \in Segment /\ p \in Link(p)
  <2>1. \E s \in Segment : p \in s
    BY Zenon DEF Port
  <2> QED
    BY <2>1, Zenon DEF Link
<1>2. ASSUME NEW s \in Segment PROVE s \subseteq Port /\ \A p \in s : Link(p) = s
  <2>1. s \subseteq Port
    BY Zenon DEF Port
  <2>2. \A p \in s : p \in Link(p) /\ Link(p) \in Segment
    BY <1>1, <2>1, Zenon
  <2> QED
    BY <2>1, <2>2, InternetAssumption, Zenon
<1> QED
  BY <1>1, <1>2, Zenon

\* Ports have addresses of their own.
LEMMA EthInjective ==
  /\ \A p, q \in Port : Eth(p) = Eth(q) => p = q
  /\ \A p, q \in Port : IpOf[p] = IpOf[q] => p = q
  /\ \A p \in Port : Eth(p) # ETHERNET_BROADCAST
<1>1. ASSUME NEW p \in Port, NEW q \in Port, Eth(p) = Eth(q) PROVE p = q
  BY <1>1, PortsOfNode, Zenon DEF Eth
<1>2. \A p, q \in Port : IpOf[p] = IpOf[q] => p = q
  BY InternetAssumption, Zenon
<1>3. \A p \in Port : Eth(p) # ETHERNET_BROADCAST
  BY Zenon DEF Eth, ETHERNET_BROADCAST
<1> QED
  BY <1>1, <1>2, <1>3, Zenon

-----------------------------------------------------------------------------
(* The maps.                                                               *)

\* A map stays one when an entry is put into it: map[key] = value.
LEMMA PutProperties ==
  ASSUME NEW V, NEW m \in Maps(V), NEW key \in Addresses, NEW value \in V
  PROVE  /\ Put(m, key, value) \in Maps(V)
         /\ DOMAIN Put(m, key, value) = DOMAIN m \cup {key}
         /\ Put(m, key, value)[key] = value
         /\ \A k \in DOMAIN m : k # key => Put(m, key, value)[k] = m[k]
<1>1. PICK S \in SUBSET Addresses : m \in [S -> V]
  BY Zenon DEF Maps
<1>2. Put(m, key, value) \in [S \cup {key} -> V]
  BY <1>1, Zenon DEF Put
<1>3. Put(m, key, value) \in Maps(V)
  BY <1>2, Zenon DEF Maps
<1> QED
  BY <1>3, Zenon DEF Put

\* So it does when one is taken out: map.erase(key).
LEMMA EraseProperties ==
  ASSUME NEW V, NEW m \in Maps(V), NEW key
  PROVE  /\ Erase(m, key) \in Maps(V)
         /\ DOMAIN Erase(m, key) = DOMAIN m \ {key}
         /\ \A k \in DOMAIN m \ {key} : Erase(m, key)[k] = m[k]
<1>1. PICK S \in SUBSET Addresses : m \in [S -> V]
  BY Zenon DEF Maps
<1>2. Erase(m, key) \in [S \ {key} -> V] /\ S \ {key} \in SUBSET Addresses
  BY <1>1, Zenon DEF Erase
<1>3. Erase(m, key) \in Maps(V)
  BY <1>2, Zenon DEF Maps
<1> QED
  BY <1>3, Zenon DEF Erase

\* The values of a map.
LEMMA MapValues ==
  ASSUME NEW V, NEW m \in Maps(V)
  PROVE  DOMAIN m \subseteq Addresses /\ \A k \in DOMAIN m : m[k] \in V
BY Zenon DEF Maps

\* A new map is empty.
LEMMA NoMapProperties ==
  ASSUME NEW V
  PROVE  NoMap \in Maps(V) /\ DOMAIN NoMap = {}
<1>1. NoMap \in [{} -> V] /\ DOMAIN NoMap = {}
  BY Zenon DEF NoMap
<1> QED
  BY <1>1, Zenon DEF Maps

-----------------------------------------------------------------------------
(* One interface.                                                          *)

\* send_payload queues one frame and changes nothing else.
LEMMA SendPayload ==
  ASSUME NEW s, NEW n \in Interfaces(s), NEW e, NEW p,
         Frame(n.ethernet_address, e, p) \in Frames(s)
  PROVE  LET o == send_payload(n, e, p) IN
         /\ o \in Interfaces(s)
         /\ Outbox(o) = Outbox(n) \cup {Frame(n.ethernet_address, e, p)}
         /\ o = [n EXCEPT !.frames_out = o.frames_out]
<1> DEFINE f == Frame(n.ethernet_address, e, p)
           o == send_payload(n, e, p)
<1>1. f \in Frames(s)
  BY Zenon
<1>2. n.frames_out \in Seq(Frames(s))
  BY Zenon DEF Interfaces
<1>3. o = [n EXCEPT !.frames_out = Append(n.frames_out, f)]
  BY Zenon DEF send_payload
<1>4. o.frames_out = Append(n.frames_out, f)
  BY <1>3, Zenon DEF Interfaces
<1>5. o \in Interfaces(s)
  <2>1. Append(n.frames_out, f) \in Seq(Frames(s))
    BY <1>1, <1>2
  <2> HIDE DEF f, o
  <2> QED
    BY <1>3, <2>1, Zenon DEF Interfaces
<1>6. Outbox(o) = Outbox(n) \cup {f}
  <2> HIDE DEF f
  <2>1. Len(Append(n.frames_out, f)) = Len(n.frames_out) + 1
    BY <1>1, <1>2
  <2>2. \A i \in 1 .. Len(n.frames_out) : Append(n.frames_out, f)[i] = n.frames_out[i]
    BY <1>1, <1>2
  <2>3. Append(n.frames_out, f)[Len(n.frames_out) + 1] = f
    BY <1>1, <1>2
  <2>4. Len(n.frames_out) \in Nat
    BY <1>2
  <2> QED
    BY <1>4, <2>1, <2>2, <2>3, <2>4 DEF Outbox
<1> QED
  BY <1>3, <1>4, <1>5, <1>6, Zenon

\* The interface n at p comes from m by a call that received a frame: some waiting
\* datagrams have left for their next hops, and replies may have left too.
Answers(m, n, p, s) ==
  /\ Sound(n, p, s)
  /\ \A ip \in DOMAIN n.unknown_datagram_map :
       /\ ip \in DOMAIN m.unknown_datagram_map
       /\ n.unknown_datagram_map[ip] = m.unknown_datagram_map[ip]
  /\ \A f \in Outbox(n) :
       \/ f.payload \in Replies(s)
       \/ \E q \in s :
            /\ IpOf[q] \in DOMAIN m.unknown_datagram_map
            /\ IpOf[q] \notin DOMAIN n.unknown_datagram_map
            /\ f = Frame(Eth(p), Eth(q), Datagram(m.unknown_datagram_map[IpOf[q]]))

\* Learning a true mapping keeps an interface sound, and lets exactly the datagram
\* that waited for it leave.
LEMMA LearnAnswers ==
  ASSUME NEW s \in Segment, NEW p \in s, NEW q \in s, NEW m, NEW n, Answers(m, n, p, s)
  PROVE  Answers(m, Learn(n, IpOf[q], Eth(q)), p, s)
<1> DEFINE entry == [eaddr |-> Eth(q), expires |-> n.crt_time + MAPPING_EXPIRE_TIME_MS]
           ipmap == Put(n.ip_map, IpOf[q], entry)
           known == [n EXCEPT !.ip_map = ipmap]
           left  == Erase(n.unknown_datagram_map, IpOf[q])
           carry == Datagram(n.unknown_datagram_map[IpOf[q]])
           out   == send_payload(known, Eth(q), carry)
<1>1. n \in Interfaces(s) /\ n.ethernet_address = Eth(p) /\ n.ip_address = IpOf[p]
  BY Zenon DEF Answers, Sound
<1>2. /\ n.ip_map \in Maps(Mappings(s))
      /\ n.unknown_datagram_map \in Maps(Dgrams)
      /\ n.crt_time \in Nat
  BY <1>1, Zenon DEF Interfaces
<1>3. IpOf[q] \in Addresses /\ Eth(q) \in Eths(s) /\ Eth(p) \in Eths(s)
  BY LinkOfPort, PortsOfNode, Zenon DEF Eths
<1>4. entry \in Mappings(s) /\ entry.eaddr = Eth(q)
  BY <1>2, <1>3, ExpiryAssumption DEF Mappings
<1>5. /\ ipmap \in Maps(Mappings(s))
      /\ DOMAIN ipmap = DOMAIN n.ip_map \cup {IpOf[q]}
      /\ ipmap[IpOf[q]] = entry
      /\ \A k \in DOMAIN n.ip_map : k # IpOf[q] => ipmap[k] = n.ip_map[k]
  <2>1. n.ip_map \in Maps(Mappings(s)) /\ IpOf[q] \in Addresses /\ entry \in Mappings(s)
    BY <1>2, <1>3, <1>4, Zenon
  <2> HIDE DEF entry
  <2>2. ipmap \in Maps(Mappings(s))
    BY <2>1, PutProperties, Zenon
  <2> QED
    BY <2>2, Zenon DEF Put
<1>6. \A ip \in DOMAIN ipmap : \E x \in s : ip = IpOf[x] /\ ipmap[ip].eaddr = Eth(x)
  <2> HIDE DEF entry, ipmap
  <2> QED
    BY <1>4, <1>5 DEF Answers, Sound
<1>7. /\ known \in Interfaces(s)
      /\ known.ip_map = ipmap
      /\ known.ethernet_address = Eth(p)
      /\ known.ip_address = IpOf[p]
      /\ known.unknown_datagram_map = n.unknown_datagram_map
      /\ known.frames_out = n.frames_out
  <2> HIDE DEF entry, ipmap
  <2> QED
    BY <1>1, <1>5, Zenon DEF Interfaces
<1>8. CASE IpOf[q] \notin DOMAIN n.unknown_datagram_map
  <2>1. Learn(n, IpOf[q], Eth(q)) = known
    BY <1>8, Zenon DEF Learn
  <2> HIDE DEF entry, ipmap, known
  <2>2. Sound(known, p, s)
    BY <1>6, <1>7, Zenon DEF Sound
  <2>3. Outbox(known) = Outbox(n)
    BY <1>7, Zenon DEF Outbox
  <2> QED
    BY <1>7, <2>1, <2>2, <2>3, Zenon DEF Answers
<1>9. CASE IpOf[q] \in DOMAIN n.unknown_datagram_map
  <2> DEFINE l == [out EXCEPT !.unknown_datagram_map = left]
             f == Frame(Eth(p), Eth(q), carry)
  <2>1. f \in Frames(s)
    <3>1. carry \in Datagrams
      BY <1>2, <1>9, MapValues, Zenon DEF Datagrams, Datagram
    <3> HIDE DEF carry
    <3> QED
      BY <3>1, <1>3, Zenon DEF Frames, Frame
  <2>2. /\ left \in Maps(Dgrams)
        /\ DOMAIN left = DOMAIN n.unknown_datagram_map \ {IpOf[q]}
        /\ \A k \in DOMAIN n.unknown_datagram_map \ {IpOf[q]} :
              left[k] = n.unknown_datagram_map[k]
    <3>1. n.unknown_datagram_map \in Maps(Dgrams)
      BY <1>2, Zenon
    <3> QED
      BY <3>1, EraseProperties, Zenon
  <2>3. /\ out \in Interfaces(s)
        /\ Outbox(out) = Outbox(known) \cup {f}
        /\ out = [known EXCEPT !.frames_out = out.frames_out]
    <3>1. Frame(known.ethernet_address, Eth(q), carry) = f
      BY <1>7, Zenon
    <3> HIDE DEF entry, ipmap, known, carry, f
    <3> QED
      BY <1>7, <2>1, <3>1, SendPayload
  <2>4. Learn(n, IpOf[q], Eth(q)) = l
    <3>1. out.unknown_datagram_map = n.unknown_datagram_map
      <4> HIDE DEF known, out
      <4> QED
        BY <1>7, <2>3, Zenon DEF Interfaces
    <3>2. Erase(out.unknown_datagram_map, IpOf[q]) = left
      BY <3>1, Zenon
    <3>3. Learn(n, IpOf[q], Eth(q))
            = [out EXCEPT !.unknown_datagram_map = Erase(out.unknown_datagram_map, IpOf[q])]
      BY <1>9, Zenon DEF Learn
    <3> HIDE DEF out, left
    <3> QED
      BY <3>2, <3>3, Zenon
  <2>5. /\ l \in Interfaces(s)
        /\ l.ip_map = ipmap
        /\ l.ethernet_address = Eth(p)
        /\ l.ip_address = IpOf[p]
        /\ l.unknown_datagram_map = left
        /\ l.frames_out = out.frames_out
    <3> HIDE DEF entry, ipmap, known, out, left
    <3> QED
      BY <1>7, <2>2, <2>3, Zenon DEF Interfaces
  <2>6. Outbox(l) = Outbox(n) \cup {f}
    <3> HIDE DEF entry, ipmap, known, out, left, f, l
    <3>1. Outbox(l) = Outbox(out) /\ Outbox(known) = Outbox(n)
      BY <1>7, <2>5, Zenon DEF Outbox
    <3> QED
      BY <2>3, <3>1, Zenon
  <2>7. n.unknown_datagram_map[IpOf[q]] = m.unknown_datagram_map[IpOf[q]]
    BY <1>9, Zenon DEF Answers
  <2>8. f = Frame(Eth(p), Eth(q), Datagram(m.unknown_datagram_map[IpOf[q]]))
    BY <2>7, Zenon
  <2> HIDE DEF entry, ipmap, known, out, left, l, f, carry
  <2>9. Sound(l, p, s)
    BY <1>6, <2>5, Zenon DEF Sound
  <2>10. Answers(m, l, p, s)
    BY <1>9, <2>2, <2>5, <2>6, <2>8, <2>9, Zenon DEF Answers
  <2> QED
    BY <2>4, <2>10, Zenon
<1> QED
  BY <1>8, <1>9, Zenon

\* recv_frame, for any frame that tells the truth.
LEMMA RecvAnswers ==
  ASSUME NEW s \in Segment, NEW p \in s, NEW m, Sound(m, p, s), m.frames_out = << >>,
         NEW f \in Frames(s)
  PROVE  Answers(m, recv_frame(m, f), p, s)
<1> DEFINE msg == f.payload
<1>1. Answers(m, m, p, s)
  BY DEF Answers, Outbox
<1>2. CASE ~(ForMe(m, f) /\ msg.kind = "ARP")
  BY <1>1, <1>2, Zenon DEF recv_frame
<1>3. CASE ForMe(m, f) /\ msg.kind = "ARP"
  <2>1. recv_frame(m, f) = ReceiveARP(m, msg)
    BY <1>3, Zenon DEF recv_frame
  <2>2. msg \in Requests(s) \cup Replies(s)
    BY <1>3, Zenon DEF Frames, Datagrams
  <2> HIDE DEF msg
  <2>3. CASE msg \in Replies(s)
    <3>1. PICK x, y \in s : msg = ARPMessage(2, Eth(x), IpOf[x], Eth(y), IpOf[y])
      BY <2>3 DEF Replies
    <3> DEFINE learnt == Learn(m, IpOf[x], Eth(x))
    <3>2. ReceiveARP(m, msg) = Learn(learnt, IpOf[y], Eth(y))
      BY <3>1, Zenon DEF ReceiveARP, ARPMessage
    <3>3. Answers(m, learnt, p, s)
      BY <1>1, LearnAnswers, Zenon
    <3> HIDE DEF learnt
    <3> QED
      BY <2>1, <3>2, <3>3, LearnAnswers, Zenon
  <2>4. CASE msg \in Requests(s)
    <3>1. PICK x \in s, ip \in Addresses :
            msg = ARPMessage(1, Eth(x), IpOf[x], NoEthernetAddress, ip)
      BY <2>4 DEF Requests
    <3> DEFINE learnt == Learn(m, IpOf[x], Eth(x))
               reply  == ARPMessage(2, Eth(p), IpOf[p], Eth(x), IpOf[x])
               out    == send_payload(learnt, Eth(x), reply)
               answer == Frame(Eth(p), Eth(x), reply)
    <3>2. ReceiveARP(m, msg) = IF ip = IpOf[p] THEN out ELSE learnt
      BY <3>1 DEF ReceiveARP, ARPMessage, Sound
    <3>3. Answers(m, learnt, p, s)
      BY <1>1, LearnAnswers, Zenon
    <3>4. reply \in Replies(s) /\ Eth(x) \in Eths(s) /\ Eth(p) \in Eths(s)
      BY DEF Replies, Eths
    <3> HIDE DEF learnt, reply
    <3>5. learnt \in Interfaces(s) /\ learnt.ethernet_address = Eth(p)
      BY <3>3, Zenon DEF Answers, Sound
    <3>6. answer \in Frames(s) /\ answer.payload = reply
      BY <3>4, Zenon DEF Frames, Frame
    <3>7. Frame(learnt.ethernet_address, Eth(x), reply) = answer
      BY <3>5, Zenon
    <3> HIDE DEF answer
    <3>8. /\ out \in Interfaces(s)
          /\ Outbox(out) = Outbox(learnt) \cup {answer}
          /\ out = [learnt EXCEPT !.frames_out = out.frames_out]
      BY <3>5, <3>6, <3>7, SendPayload
    <3> HIDE DEF out
    <3>9. /\ out.ethernet_address = learnt.ethernet_address
          /\ out.ip_address = learnt.ip_address
          /\ out.ip_map = learnt.ip_map
          /\ out.unknown_datagram_map = learnt.unknown_datagram_map
      BY <3>5, <3>8, Zenon DEF Interfaces
    <3>10. Sound(out, p, s)
      BY <3>3, <3>8, <3>9 DEF Answers, Sound
    <3>11. Answers(m, out, p, s)
      BY <3>3, <3>4, <3>6, <3>8, <3>9, <3>10, Zenon DEF Answers
    <3> QED
      BY <2>1, <3>2, <3>3, <3>11, Zenon
  <2> QED
    BY <2>2, <2>3, <2>4, Zenon
<1> QED
  BY <1>2, <1>3, Zenon

\* The interface n at p comes from m by sending d to the next hop: d has left if
\* the address of the next hop is known, and waits for it otherwise.
Sends(m, n, p, s, d, hop) ==
  /\ Sound(n, p, s)
  /\ n.ip_map = m.ip_map
  /\ \/ /\ hop \in DOMAIN m.ip_map
        /\ n.unknown_datagram_map = m.unknown_datagram_map
        /\ Outbox(n) = Outbox(m)
             \cup {Frame(Eth(p), m.ip_map[hop].eaddr, Datagram(d))}
     \/ /\ hop \notin DOMAIN m.ip_map
        /\ n.unknown_datagram_map = Put(m.unknown_datagram_map, hop, d)
        /\ \A f \in Outbox(n) : f \in Outbox(m) \/ f.payload \in Requests(s)

\* send_datagram does one of these.
LEMMA SendDatagramSends ==
  ASSUME NEW s \in Segment, NEW p \in s, NEW m, Sound(m, p, s),
         NEW d \in Dgrams, NEW hop \in Addresses
  PROVE  Sends(m, send_datagram(m, d, hop), p, s, d, hop)
<1> DEFINE n == send_datagram(m, d, hop)
           request == ARPMessage(1, Eth(p), IpOf[p], NoEthernetAddress, hop)
           waiting == Put(m.unknown_datagram_map, hop, d)
           asking  == [m EXCEPT !.unknown_datagram_map = waiting]
           sent1   == send_payload(asking, ETHERNET_BROADCAST, request)
           log     == Put(m.ip_arp_time, hop, m.crt_time + DST_IP_EXPIRE_TIME_MS)
<1> SUFFICES Sends(m, n, p, s, d, hop)
  BY Zenon
<1>1. /\ m \in Interfaces(s) /\ m.ethernet_address = Eth(p) /\ m.ip_address = IpOf[p]
      /\ \A ip \in DOMAIN m.ip_map :
           \E q \in s : ip = IpOf[q] /\ m.ip_map[ip].eaddr = Eth(q)
  BY Zenon DEF Sound
<1>2. Eth(p) \in Eths(s) /\ Datagram(d) \in Datagrams
  BY Zenon DEF Eths, Datagrams, Datagram
<1>3. CASE hop \in DOMAIN m.ip_map
  <2> DEFINE e == m.ip_map[hop].eaddr
             f == Frame(Eth(p), e, Datagram(d))
  <2>1. e \in Eths(s)
    BY <1>1, <1>3, Zenon DEF Eths
  <2>2. n = send_payload(m, e, Datagram(d))
    BY <1>3, Zenon DEF send_datagram
  <2> HIDE DEF n, e
  <2>3. f \in Frames(s) /\ Frame(m.ethernet_address, e, Datagram(d)) = f
    BY <1>1, <1>2, <2>1, Zenon DEF Frames, Frame
  <2> HIDE DEF f
  <2>4. /\ n \in Interfaces(s)
        /\ Outbox(n) = Outbox(m) \cup {f}
        /\ n = [m EXCEPT !.frames_out = n.frames_out]
    BY <1>1, <2>2, <2>3, SendPayload
  <2>5. /\ n.ethernet_address = m.ethernet_address
        /\ n.ip_address = m.ip_address
        /\ n.ip_map = m.ip_map
        /\ n.unknown_datagram_map = m.unknown_datagram_map
    BY <1>1, <2>4, Zenon DEF Interfaces
  <2> QED
    BY <1>1, <1>3, <2>4, <2>5 DEF Sends, Sound, f, e
<1>4. CASE hop \notin DOMAIN m.ip_map
  <2>1. waiting \in Maps(Dgrams)
    <3>1. m.unknown_datagram_map \in Maps(Dgrams)
      BY <1>1, Zenon DEF Interfaces
    <3> QED
      BY <3>1, PutProperties, Zenon
  <2>2. m.crt_time + DST_IP_EXPIRE_TIME_MS \in Nat /\ m.ip_arp_time \in Maps(Nat)
    BY <1>1, ExpiryAssumption DEF Interfaces
  <2>3. log \in Maps(Nat)
    BY <2>2, PutProperties, Zenon
  <2>4. n = broad_cast(asking, hop)
    BY <1>4, Zenon DEF send_datagram
  <2> HIDE DEF waiting, log
  <2>5. /\ asking \in Interfaces(s)
        /\ asking.ethernet_address = Eth(p)
        /\ asking.ip_address = IpOf[p]
        /\ asking.crt_time = m.crt_time
        /\ asking.ip_map = m.ip_map
        /\ asking.ip_arp_time = m.ip_arp_time
        /\ asking.unknown_datagram_map = waiting
        /\ asking.frames_out = m.frames_out
    BY <1>1, <2>1, Zenon DEF Interfaces
  <2> HIDE DEF asking
  <2>6. Sound(asking, p, s) /\ Outbox(asking) = Outbox(m)
    BY <1>1, <2>5, Zenon DEF Sound, Outbox
  <2>7. CASE hop \in DOMAIN m.ip_arp_time
    <3>1. n = asking
      BY <2>4, <2>5, <2>7, Zenon DEF broad_cast
    <3> QED
      BY <1>4, <2>5, <2>6, <3>1, Zenon DEF Sends, waiting
  <2>8. CASE hop \notin DOMAIN m.ip_arp_time
    <3> DEFINE f == Frame(Eth(p), ETHERNET_BROADCAST, request)
    <3>1. request \in Requests(s)
      BY DEF Requests
    <3>2. n = [sent1 EXCEPT !.ip_arp_time =
                 Put(sent1.ip_arp_time, hop, m.crt_time + DST_IP_EXPIRE_TIME_MS)]
      BY <2>4, <2>5, <2>8, Zenon DEF broad_cast
    <3> HIDE DEF request
    <3>3. f \in Frames(s) /\ f.payload = request
      BY <1>2, <3>1, Zenon DEF Frames, Frame
    <3>4. Frame(asking.ethernet_address, ETHERNET_BROADCAST, request) = f
      BY <2>5, Zenon
    <3> HIDE DEF f
    <3>5. /\ sent1 \in Interfaces(s)
          /\ Outbox(sent1) = Outbox(asking) \cup {f}
          /\ sent1 = [asking EXCEPT !.frames_out = sent1.frames_out]
      BY <2>5, <3>3, <3>4, SendPayload
    <3> HIDE DEF sent1
    <3>6. sent1.ip_arp_time = m.ip_arp_time
      BY <2>5, <3>5, Zenon DEF Interfaces
    <3>7. n = [sent1 EXCEPT !.ip_arp_time = log]
      BY <3>2, <3>6, Zenon DEF log
    <3> HIDE DEF n
    <3>8. /\ n \in Interfaces(s)
          /\ n.ethernet_address = Eth(p)
          /\ n.ip_address = IpOf[p]
          /\ n.ip_map = m.ip_map
          /\ n.unknown_datagram_map = waiting
          /\ n.frames_out = sent1.frames_out
      BY <2>3, <2>5, <3>5, <3>7, Zenon DEF Interfaces
    <3>9. Outbox(n) = Outbox(m) \cup {f}
      <4>1. Outbox(n) = Outbox(sent1)
        BY <3>8, Zenon DEF Outbox
      <4> QED
        BY <2>6, <3>5, <4>1, Zenon
    <3>10. Sound(n, p, s)
      BY <1>1, <3>8, Zenon DEF Sound
    <3> QED
      BY <1>4, <3>1, <3>3, <3>8, <3>9, <3>10, Zenon DEF Sends, waiting
  <2> QED
    BY <2>7, <2>8, Zenon
<1> QED
  BY <1>3, <1>4, Zenon

-----------------------------------------------------------------------------
(* One node.                                                               *)

\* The prefixes that the mask of add_route may leave.
Prefixes ==
  UNION {MaskedPrefixes(a, l) : a \in Addresses, l \in 0 .. AddressBits}

\* The rows of the table of a router with so many interfaces.
Rows(count) ==
  [route_prefix : Prefixes, prefix_length : 0 .. AddressBits,
   next_hop : Addresses \cup {Direct}, interface_num : 0 .. count - 1]

Async == [nic : UNION {Interfaces(s) : s \in Segment}, datagrams_out : Seq(Dgrams)]

\* The record of node x, between two calls or within one.
SoundNode(n, x) ==
  /\ n \in [interfaces : [1 .. Count(x) -> Async], map_vec : Seq(Rows(Count(x)))]
  /\ \A i \in 1 .. Count(x) : Sound(n.interfaces[i].nic, <<x, i>>, Link(<<x, i>>))

Drained(n, x) == \A i \in 1 .. Count(x) : n.interfaces[i].nic.frames_out = << >>

\* The interfaces of a node.
LEMMA NodeParts ==
  ASSUME NEW x \in Node, NEW n, SoundNode(n, x)
  PROVE  /\ n.interfaces \in Seq(Async) /\ Len(n.interfaces) = Count(x)
         /\ DOMAIN n.interfaces = 1 .. Count(x)
         /\ n.map_vec \in Seq(Rows(Count(x)))
         /\ \A i \in 1 .. Count(x) : n.interfaces[i].datagrams_out \in Seq(Dgrams)
         /\ \A i \in 1 .. Count(x) :
              /\ DOMAIN n.interfaces[i].nic.unknown_datagram_map \subseteq Addresses
              /\ \A ip \in DOMAIN n.interfaces[i].nic.unknown_datagram_map :
                   n.interfaces[i].nic.unknown_datagram_map[ip] \in Dgrams
<1>1. Count(x) \in Nat
  BY PortsOfNode, Zenon
<1>2. n.interfaces \in [1 .. Count(x) -> Async] /\ n.map_vec \in Seq(Rows(Count(x)))
  BY Zenon DEF SoundNode
<1>3. n.interfaces \in Seq(Async) /\ Len(n.interfaces) = Count(x)
  BY <1>1, <1>2
<1>4. \A i \in 1 .. Count(x) : n.interfaces[i].datagrams_out \in Seq(Dgrams)
  BY <1>2, Zenon DEF Async
<1>5. ASSUME NEW i \in 1 .. Count(x)
      PROVE  n.interfaces[i].nic.unknown_datagram_map \in Maps(Dgrams)
  BY Zenon DEF SoundNode, Sound, Interfaces
<1>6. \A i \in 1 .. Count(x) :
        /\ DOMAIN n.interfaces[i].nic.unknown_datagram_map \subseteq Addresses
        /\ \A ip \in DOMAIN n.interfaces[i].nic.unknown_datagram_map :
             n.interfaces[i].nic.unknown_datagram_map[ip] \in Dgrams
  BY <1>5, MapValues, Zenon
<1> QED
  BY <1>2, <1>3, <1>4, <1>6, Zenon

\* Interface i of the node has become v, and nothing else has changed.
LEMMA SetNic ==
  ASSUME NEW x \in Node, NEW n, SoundNode(n, x), NEW i \in 1 .. Count(x),
         NEW v, Sound(v, <<x, i>>, Link(<<x, i>>))
  PROVE  LET o == [n EXCEPT !.interfaces[i].nic = v] IN
         /\ SoundNode(o, x)
         /\ o.map_vec = n.map_vec
         /\ o.interfaces[i].nic = v
         /\ \A j \in 1 .. Count(x) : j # i => o.interfaces[j].nic = n.interfaces[j].nic
         /\ \A j \in 1 .. Count(x) :
              o.interfaces[j].datagrams_out = n.interfaces[j].datagrams_out
<1> DEFINE o == [n EXCEPT !.interfaces[i].nic = v]
           a == [n.interfaces[i] EXCEPT !.nic = v]
<1>1. /\ n.interfaces \in [1 .. Count(x) -> Async]
      /\ n.map_vec \in Seq(Rows(Count(x)))
      /\ n \in [interfaces : [1 .. Count(x) -> Async], map_vec : Seq(Rows(Count(x)))]
  BY Zenon DEF SoundNode
<1>2. o.interfaces = [n.interfaces EXCEPT ![i] = a] /\ o.map_vec = n.map_vec
  BY <1>1, Zenon
<1>3. o = [interfaces |-> o.interfaces, map_vec |-> o.map_vec]
  BY <1>1
<1>4. v \in UNION {Interfaces(s) : s \in Segment}
  <2>1. Link(<<x, i>>) \in Segment
    BY PortsOfNode, LinkOfPort, Zenon
  <2> QED
    BY <2>1, Zenon DEF Sound
<1>5. a \in Async /\ a.nic = v /\ a.datagrams_out = n.interfaces[i].datagrams_out
  BY <1>1, <1>4, Zenon DEF Async
<1> HIDE DEF o, a
<1>6. o.interfaces \in [1 .. Count(x) -> Async]
  BY <1>1, <1>2, <1>5, Zenon
<1>7. o \in [interfaces : [1 .. Count(x) -> Async], map_vec : Seq(Rows(Count(x)))]
  BY <1>1, <1>2, <1>3, <1>6, Zenon
<1>8. /\ o.interfaces[i] = a
      /\ \A j \in 1 .. Count(x) : j # i => o.interfaces[j] = n.interfaces[j]
  BY <1>1, <1>2, Zenon
<1>9. SoundNode(o, x)
  BY <1>5, <1>7, <1>8, Zenon DEF SoundNode
<1> QED
  BY <1>2, <1>5, <1>8, <1>9, Zenon DEF o

-----------------------------------------------------------------------------
(* Where a datagram ends up.                                               *)

\* Where it ends up from each node with t left, given where it does with t - 1.
EndStep(routes, dst, t, b) ==
  [n \in Host \cup RouterName |->
     IF n \in Host THEN Ports(n)
     ELSE IF t <= 1 THEN {}
     ELSE LET way  == WayOut(routes, n, dst)
              port == <<n, way.interface>>
          IN  UNION {b[p[1]] : p \in PortAt(Link(port) \ {port}, way.hop)}]

IsEnd(routes, dst, f, ttl) ==
  f = [t \in 0 .. ttl |-> EndStep(routes, dst, t, f[t - 1])]

End(routes, dst, ttl) == CHOOSE f : IsEnd(routes, dst, f, ttl)

\* The recursion of Fate is sound for any time to live.
LEMMA EndExists ==
  ASSUME NEW routes, NEW dst, NEW ttl \in Nat
  PROVE  \E f : IsEnd(routes, dst, f, ttl)
<1> DEFINE Bad == {k \in Nat : ~\E f : IsEnd(routes, dst, f, k)}
           step(t, b) == EndStep(routes, dst, t, b)
<1> SUFFICES ASSUME Bad # {} PROVE FALSE
  BY Zenon
<1>1. PICK k \in Bad : \A j \in Bad : k <= j
  <2>1. Bad \in SUBSET Nat
    BY Zenon
  <2> HIDE DEF Bad
  <2> QED
    BY <2>1, LeastOfSet, Zenon
<1>2. CASE k = 0
  <2> DEFINE g == [t \in 0 .. 0 |-> step(0, << >>)]
  <2>1. \A b : step(0, b) = step(0, << >>)
    BY DEF EndStep
  <2>2. g = [t \in 0 .. 0 |-> step(t, g[t - 1])]
    <3> HIDE DEF step
    <3> QED
      BY <2>1
  <2> QED
    BY <1>2, <2>2, Zenon DEF IsEnd
<1>3. CASE k > 0
  <2>1. k - 1 \in Nat /\ k - 1 \notin Bad
    BY <1>1, <1>3
  <2>2. PICK f : IsEnd(routes, dst, f, k - 1)
    BY <2>1, Zenon
  <2> DEFINE g == [t \in 0 .. k |-> IF t = k THEN step(k, f[k - 1]) ELSE f[t]]
  <2>3. f = [t \in 0 .. k - 1 |-> step(t, f[t - 1])]
    BY <2>2, Zenon DEF IsEnd
  <2>4. \A b, c : step(0, b) = step(0, c)
    BY DEF EndStep
  <2>5. g = [t \in 0 .. k |-> step(t, g[t - 1])]
    <3> HIDE DEF step
    <3>1. \A t \in 0 .. k - 1 : f[t] = step(t, f[t - 1])
      BY <2>3, Zenon
    <3>2. \A t \in 0 .. k : g[t] = step(t, g[t - 1])
      <4> SUFFICES ASSUME NEW t \in 0 .. k PROVE g[t] = step(t, g[t - 1])
        BY Zenon
      <4>1. CASE t = 0
        <5>1. g[0] = f[0] /\ f[0] = step(0, f[0 - 1])
          BY <1>1, <1>3, <3>1
        <5> QED
          BY <2>4, <4>1, <5>1, Zenon
      <4>2. CASE t > 0 /\ t < k
        <5>1. t - 1 \in 0 .. k /\ t - 1 # k /\ t \in 0 .. k - 1 /\ t # k
          BY <1>1, <4>2
        <5> QED
          BY <3>1, <5>1, Zenon
      <4>3. CASE t = k
        <5>1. t - 1 \in 0 .. k /\ t - 1 # k
          BY <1>1, <1>3, <4>3
        <5> QED
          BY <4>3, <5>1, Zenon
      <4> QED
        BY <1>1, <4>1, <4>2, <4>3
    <3> QED
      BY <3>2, Zenon
  <2> QED
    BY <2>5, <1>1, Zenon DEF IsEnd
<1> QED
  BY <1>1, <1>2, <1>3

\* What Fate is at each time to live.
LEMMA EndIs ==
  ASSUME NEW routes, NEW dst, NEW ttl \in Nat
  PROVE  \A t \in 0 .. ttl :
           End(routes, dst, ttl)[t] = EndStep(routes, dst, t, End(routes, dst, ttl)[t - 1])
<1> DEFINE f == End(routes, dst, ttl)
           step(t, b) == EndStep(routes, dst, t, b)
<1>1. \E g : IsEnd(routes, dst, g, ttl)
  BY EndExists, Zenon
<1>2. IsEnd(routes, dst, f, ttl)
  BY <1>1, Zenon DEF End
<1> HIDE DEF f
<1>3. f = [t \in 0 .. ttl |-> step(t, f[t - 1])]
  BY <1>2, Zenon DEF IsEnd
<1> HIDE DEF step
<1>4. \A t \in 0 .. ttl : f[t] = step(t, f[t - 1])
  BY <1>3, Zenon
<1> QED
  BY <1>4, Zenon DEF f, step

\* It does not depend on how far the recursion goes beyond it.
LEMMA EndAgrees ==
  ASSUME NEW routes, NEW dst, NEW ttl \in Nat \ {0}
  PROVE  End(routes, dst, ttl)[ttl - 1] = End(routes, dst, ttl - 1)[ttl - 1]
<1> DEFINE f == End(routes, dst, ttl)
           g == End(routes, dst, ttl - 1)
           step(t, b) == EndStep(routes, dst, t, b)
           Bad == {t \in Nat : t <= ttl - 1 /\ f[t] # g[t]}
<1>1. ttl - 1 \in Nat
  OBVIOUS
<1>2. \A t \in 0 .. ttl : f[t] = step(t, f[t - 1])
  BY EndIs, Zenon
<1>3. \A t \in 0 .. ttl - 1 : g[t] = step(t, g[t - 1])
  BY <1>1, EndIs, Zenon
<1>4. \A b, c : step(0, b) = step(0, c)
  BY DEF EndStep
<1> HIDE DEF f, g, step
<1>5. Bad = {}
  <2> SUFFICES ASSUME Bad # {} PROVE FALSE
    BY Zenon
  <2>1. PICK t \in Bad : \A j \in Bad : t <= j
    <3>1. Bad \in SUBSET Nat
      BY Zenon
    <3> HIDE DEF Bad
    <3> QED
      BY <3>1, LeastOfSet, Zenon
  <2>2. t \in 0 .. ttl /\ t \in 0 .. ttl - 1 /\ f[t] # g[t]
    BY <2>1
  <2>3. f[t] = step(t, f[t - 1]) /\ g[t] = step(t, g[t - 1])
    BY <1>2, <1>3, <2>2, Zenon
  <2>4. t # 0
    BY <1>4, <2>2, <2>3, Zenon
  <2>5. t - 1 \in Nat /\ t - 1 <= ttl - 1 /\ t - 1 \notin Bad
    BY <2>1, <2>4
  <2>6. f[t - 1] = g[t - 1]
    BY <2>5, Zenon
  <2> QED
    BY <2>2, <2>3, <2>6, Zenon
<1> QED
  BY <1>1, <1>5 DEF f, g

\* A datagram stays at a host, and goes on from a router to the port that has the
\* address of the next hop.
LEMMA FateUnfolds ==
  ASSUME NEW routes, NEW dst, NEW ttl \in Nat
  PROVE  /\ \A h \in Host : Fate(routes, h, dst, ttl) = Ports(h)
         /\ \A r \in RouterName :
              LET way  == WayOut(routes, r, dst)
                  port == <<r, way.interface>>
              IN  ttl > 1 /\ port \in Port =>
                    \A p \in PortAt(Link(port) \ {port}, way.hop) :
                      Fate(routes, p[1], dst, ttl - 1) \subseteq Fate(routes, r, dst, ttl)
<1> DEFINE f == End(routes, dst, ttl)
<1>1. \A t \in Nat : \A n : Fate(routes, n, dst, t) = End(routes, dst, t)[t][n]
  BY Zenon DEF Fate, End, IsEnd, EndStep
<1>2. f[ttl] = EndStep(routes, dst, ttl, f[ttl - 1])
  <2>1. ttl \in 0 .. ttl
    OBVIOUS
  <2> QED
    BY <2>1, EndIs, Zenon
<1>3. ASSUME NEW h \in Host PROVE Fate(routes, h, dst, ttl) = Ports(h)
  <2>1. EndStep(routes, dst, ttl, f[ttl - 1])[h] = Ports(h)
    BY Zenon DEF EndStep
  <2> QED
    BY <1>1, <1>2, <2>1, Zenon
<1>4. ASSUME NEW r \in RouterName, ttl > 1,
             <<r, WayOut(routes, r, dst).interface>> \in Port,
             NEW p \in PortAt(Link(<<r, WayOut(routes, r, dst).interface>>)
                                \ {<<r, WayOut(routes, r, dst).interface>>},
                              WayOut(routes, r, dst).hop)
      PROVE  Fate(routes, p[1], dst, ttl - 1) \subseteq Fate(routes, r, dst, ttl)
  <2> DEFINE way  == WayOut(routes, r, dst)
             port == <<r, way.interface>>
  <2>1. r \notin Host /\ r \in Host \cup RouterName
    BY InternetAssumption, Zenon
  <2>2. f[ttl][r] = UNION {f[ttl - 1][q[1]] : q \in PortAt(Link(port) \ {port}, way.hop)}
    <3>1. ~(ttl <= 1)
      BY <1>4
    <3>2. EndStep(routes, dst, ttl, f[ttl - 1])[r]
            = UNION {f[ttl - 1][q[1]] : q \in PortAt(Link(port) \ {port}, way.hop)}
      BY <2>1, <3>1, Zenon DEF EndStep
    <3> QED
      BY <1>2, <3>2, Zenon
  <2>3. f[ttl - 1] = End(routes, dst, ttl - 1)[ttl - 1]
    <3>1. ttl \in Nat \ {0}
      BY <1>4
    <3> QED
      BY <3>1, EndAgrees, Zenon
  <2>4. Fate(routes, p[1], dst, ttl - 1) = f[ttl - 1][p[1]]
    <3>1. ttl - 1 \in Nat
      BY <1>4
    <3> QED
      BY <1>1, <2>3, <3>1, Zenon
  <2>5. f[ttl - 1][p[1]] \subseteq f[ttl][r]
    <3> HIDE DEF f
    <3> QED
      BY <1>4, <2>2, Zenon
  <2> QED
    BY <1>1, <2>4, <2>5, Zenon
<1> HIDE DEF f
<1> QED
  BY <1>3, <1>4, Zenon

-----------------------------------------------------------------------------
(* The copies of the datagrams.                                            *)

\* The queue of the interface at port p, and what waits there for addresses.
Queue(N, p) == N[p[1]].interfaces[p[2]].datagrams_out

Waiting(N, p) == N[p[1]].interfaces[p[2]].nic.unknown_datagram_map

\* Frame f on the way carries a datagram to the port that it is meant for.
Aimed(f) == f.frame.payload.kind = "IPv4" /\ f.frame.dst = Eth(f.to)

Copy(at, port, key, dgram) == [at |-> at, port |-> port, key |-> key, dgram |-> dgram]

\* A copy of a datagram is in a queue, waits, or is on the way from an address.
Copies(N, W) ==
  (UNION {{Copy("queue", p, k, Queue(N, p)[k]) : k \in DOMAIN Queue(N, p)} : p \in Port})
    \cup
  (UNION {{Copy("waits", p, ip, Waiting(N, p)[ip]) : ip \in DOMAIN Waiting(N, p)} :
            p \in Port})
    \cup
  {Copy("wire", f.to, f.frame.src, f.frame.payload.dgram) : f \in {g \in W : Aimed(g)}}

\* The routers that have taken a unit of a copy's time without sending it yet.
Held(c) == IF c.at = "waits" /\ c.port[1] \in RouterName THEN 1 ELSE 0

\* The ports that a copy can reach next without a router's choice.
Heads(c) ==
  IF c.at = "waits" THEN PortAt(Link(c.port) \ {c.port}, c.key) ELSE {c.port}

\* Where the tables lead a datagram sent as s.
DueOf(routes, s) == Fate(routes, GatewayOf(s.from)[1], s.dst, s.ttl)

\* Copy c fits a datagram sent as s that routers have sent out n times.
Fits(routes, c, s, n) ==
  /\ c.dgram.dst = s.dst
  /\ c.dgram.ttl \in Nat
  /\ c.dgram.ttl + n + Held(c) = s.ttl
  /\ Held(c) = 1 => c.dgram.ttl >= 1
  /\ \A q \in Heads(c) :
       Fate(routes, q[1], c.dgram.dst, c.dgram.ttl) \subseteq DueOf(routes, s)

Sendings == [from : Host, dst : Addresses, ttl : Nat]

\* A frame on the way, to a port that hears its sender.
OnTheWay(f) ==
  /\ f = [to |-> f.to, frame |-> f.frame]
  /\ f.to \in Port
  /\ f.frame \in Frames(Link(f.to))

\* The nodes and the frames have their types.
TypesInv ==
  /\ nodes = [x \in Node |-> nodes[x]]
  /\ \A x \in Node : SoundNode(nodes[x], x) /\ Drained(nodes[x], x)
  /\ \A f \in wire : OnTheWay(f)
  /\ sent \in Seq(Sendings)
  /\ crossings \in [DOMAIN sent -> Nat]

\* No datagram has two copies.
UniqueInv == \A a, b \in Copies(nodes, wire) : a.dgram.id = b.dgram.id => a = b

\* Every copy is of a datagram that was sent, and fits what has happened to it.
FitsInv ==
  \A c \in Copies(nodes, wire) :
    /\ c.dgram.id \in DOMAIN sent
    /\ Fits(Routes, c, sent[c.dgram.id], crossings[c.dgram.id])

\* No datagram was sent out too often, and every frame that carries one, whether
\* or not anyone will take it, has what the routers have left of its time.
BoundInv ==
  /\ \A id \in DOMAIN sent :
       crossings[id] <= IF sent[id].ttl = 0 THEN 0 ELSE sent[id].ttl - 1
  /\ \A f \in wire : f.frame.payload.kind = "IPv4" =>
       /\ f.frame.payload.dgram.id \in DOMAIN sent
       /\ f.frame.payload.dgram.ttl + crossings[f.frame.payload.dgram.id]
            >= sent[f.frame.payload.dgram.id].ttl

NInv == TypesInv /\ UniqueInv /\ FitsInv /\ BoundInv

\* Node x, when it is n, has queued a frame that carries datagram id.
SentOut(n, x, id) ==
  \E i \in 1 .. Count(x) : \E g \in Outbox(n.interfaces[i].nic) : Carries(g, id)

\* The frames that n has queued, each on the way to a port that hears it.
Heard(n, x) ==
  UNION {UNION {{[to |-> q, frame |-> g] : q \in Link(<<x, i>>) \ {<<x, i>>}} :
                  g \in Outbox(n.interfaces[i].nic)} : i \in 1 .. Count(x)}

\* Draining the queues of frames leaves the rest of a node as it is.
LEMMA DrainedIs ==
  ASSUME NEW x \in Node, NEW n, SoundNode(n, x)
  PROVE  LET o == [n EXCEPT !.interfaces = [i \in DOMAIN @ |->
                     [@[i] EXCEPT !.nic.frames_out = << >>]]]
         IN
         /\ SoundNode(o, x) /\ Drained(o, x)
         /\ o.map_vec = n.map_vec
         /\ \A i \in 1 .. Count(x) :
              /\ o.interfaces[i].datagrams_out = n.interfaces[i].datagrams_out
              /\ o.interfaces[i].nic.unknown_datagram_map
                   = n.interfaces[i].nic.unknown_datagram_map
<1> DEFINE c == Count(x)
           g == [i \in DOMAIN n.interfaces |->
                   [n.interfaces[i] EXCEPT !.nic.frames_out = << >>]]
           o == [n EXCEPT !.interfaces = g]
<1>1. /\ n.interfaces \in [1 .. c -> Async]
      /\ n.map_vec \in Seq(Rows(c))
      /\ n \in [interfaces : [1 .. c -> Async], map_vec : Seq(Rows(c))]
  BY Zenon DEF SoundNode
<1>2. o.interfaces = g /\ o.map_vec = n.map_vec
      /\ o = [interfaces |-> g, map_vec |-> n.map_vec]
  <2> HIDE DEF g
  <2> QED
    BY <1>1
<1>3. ASSUME NEW i \in 1 .. c
      PROVE  /\ g[i] \in Async
             /\ Sound(g[i].nic, <<x, i>>, Link(<<x, i>>))
             /\ g[i].nic.frames_out = << >>
             /\ g[i].datagrams_out = n.interfaces[i].datagrams_out
             /\ g[i].nic.unknown_datagram_map
                  = n.interfaces[i].nic.unknown_datagram_map
  <2> DEFINE s == Link(<<x, i>>)
             a == n.interfaces[i]
             v == [a.nic EXCEPT !.frames_out = << >>]
  <2>1. s \in Segment
    BY PortsOfNode, LinkOfPort, Zenon
  <2>2. a \in Async /\ Sound(a.nic, <<x, i>>, s)
    BY <1>1, Zenon DEF SoundNode
  <2>3. g[i] = [a EXCEPT !.nic.frames_out = << >>]
    BY <1>1, Zenon
  <2> HIDE DEF g, s, a
  <2>4. g[i] = [a EXCEPT !.nic = v]
    BY <2>3, Zenon
  <2>5. a.nic \in Interfaces(s) /\ << >> \in Seq(Frames(s))
    BY <2>2 DEF Sound
  <2>6. /\ v \in Interfaces(s) /\ v.frames_out = << >>
        /\ v.ethernet_address = a.nic.ethernet_address
        /\ v.ip_address = a.nic.ip_address /\ v.ip_map = a.nic.ip_map
        /\ v.unknown_datagram_map = a.nic.unknown_datagram_map
    BY <2>5, Zenon DEF Interfaces
  <2> HIDE DEF v
  <2>7. Sound(v, <<x, i>>, s)
    BY <2>2, <2>6, Zenon DEF Sound
  <2>8. /\ g[i].nic = v /\ g[i].datagrams_out = a.datagrams_out
        /\ g[i] \in Async
    BY <2>1, <2>2, <2>4, <2>6, Zenon DEF Async
  <2> QED
    BY <2>6, <2>7, <2>8, Zenon DEF a, s
<1>4. DOMAIN g = 1 .. c /\ g \in [1 .. c -> Async]
  <2>1. DOMAIN g = 1 .. c
    BY <1>1, Zenon
  <2>2. g = [i \in DOMAIN g |-> g[i]]
    BY Zenon
  <2> HIDE DEF g
  <2> QED
    BY <1>3, <2>1, <2>2, Zenon
<1> HIDE DEF g, o
<1>5. o \in [interfaces : [1 .. c -> Async], map_vec : Seq(Rows(c))]
  BY <1>1, <1>2, <1>4, Zenon
<1>6. SoundNode(o, x) /\ Drained(o, x)
  BY <1>2, <1>3, <1>5, Zenon DEF SoundNode, Drained
<1> QED
  BY <1>2, <1>3, <1>6, Zenon DEF g, o

\* The members of Heard.
LEMMA HeardIs ==
  ASSUME NEW n, NEW x, NEW f \in Heard(n, x)
  PROVE  \E i \in 1 .. Count(x) : \E g \in Outbox(n.interfaces[i].nic) :
           \E q \in Link(<<x, i>>) \ {<<x, i>>} : f = [to |-> q, frame |-> g]
<1> DEFINE T(i, g) == {[to |-> q, frame |-> g] : q \in Link(<<x, i>>) \ {<<x, i>>}}
           S(i) == UNION {T(i, g) : g \in Outbox(n.interfaces[i].nic)}
<1>1. f \in UNION {S(i) : i \in 1 .. Count(x)}
  BY Zenon DEF Heard
<1> HIDE DEF S
<1>2. PICK i \in 1 .. Count(x) : f \in S(i)
  BY <1>1, Zenon
<1> HIDE DEF T
<1>3. PICK g \in Outbox(n.interfaces[i].nic) : f \in T(i, g)
  BY <1>2, Zenon DEF S
<1>4. \E q \in Link(<<x, i>>) \ {<<x, i>>} : f = [to |-> q, frame |-> g]
  BY <1>3, Zenon DEF T
<1> QED
  BY <1>4, Zenon

\* A frame in Heard is in an outbox, and its port is another one on the link.
LEMMA HeardParts ==
  ASSUME NEW n, NEW x, NEW f \in Heard(n, x)
  PROVE  /\ f = [to |-> f.to, frame |-> f.frame]
         /\ \E i \in 1 .. Count(x) : /\ f.frame \in Outbox(n.interfaces[i].nic)
                                    /\ f.to \in Link(<<x, i>>) \ {<<x, i>>}
<1>1. PICK i \in 1 .. Count(x) : \E g \in Outbox(n.interfaces[i].nic) :
        \E q \in Link(<<x, i>>) \ {<<x, i>>} : f = [to |-> q, frame |-> g]
  BY HeardIs
<1> DEFINE S == Outbox(n.interfaces[i].nic)
           T == Link(<<x, i>>) \ {<<x, i>>}
<1>2. \E g \in S : \E q \in T : f = [to |-> q, frame |-> g]
  BY <1>1, Zenon
<1> HIDE DEF S, T
<1>3. f = [to |-> f.to, frame |-> f.frame] /\ f.frame \in S /\ f.to \in T
  BY <1>2
<1> QED
  BY <1>3, Zenon DEF S, T

\* At most one port has an address.
LEMMA OnePortAt ==
  ASSUME NEW s, s \subseteq Port, NEW p, NEW ip
  PROVE  \A q, o \in PortAt(s \ {p}, ip) : q = o
BY EthInjective, Zenon DEF PortAt

\* Frame e has these addresses and carries datagram d.
IsFrame(e, src, dst, d) == e = Frame(src, dst, Datagram(d))

FrameHas(e, src, dst, d) == e.src = src /\ e.dst = dst /\ e.payload.dgram = d

\* The fields of a frame that carries a datagram.
LEMMA FrameFields ==
  ASSUME NEW e, NEW src, NEW dst, NEW d, IsFrame(e, src, dst, d)
  PROVE  FrameHas(e, src, dst, d)
BY Zenon DEF IsFrame, FrameHas, Frame, Datagram

\* Copy c has these fields.
IsCopy(c, at, port, key, dgram) == c = Copy(at, port, key, dgram)

CopyHas(c, at, port, key, dgram) ==
  c.at = at /\ c.port = port /\ c.key = key /\ c.dgram = dgram

\* The fields of a copy.
LEMMA CopyFields ==
  ASSUME NEW c, NEW at, NEW port, NEW key, NEW d, IsCopy(c, at, port, key, d)
  PROVE  CopyHas(c, at, port, key, d)
BY Zenon DEF IsCopy, CopyHas, Copy

\* The members of Copies.
LEMMA CopiesAre ==
  ASSUME NEW N, NEW W
  PROVE  /\ \A p \in Port : \A k \in DOMAIN Queue(N, p) :
              Copy("queue", p, k, Queue(N, p)[k]) \in Copies(N, W)
         /\ \A p \in Port : \A ip \in DOMAIN Waiting(N, p) :
              Copy("waits", p, ip, Waiting(N, p)[ip]) \in Copies(N, W)
         /\ \A f \in W : Aimed(f) =>
              Copy("wire", f.to, f.frame.src, f.frame.payload.dgram) \in Copies(N, W)
         /\ \A c \in Copies(N, W) :
              \/ \E p \in Port : \E k \in DOMAIN Queue(N, p) :
                   c = Copy("queue", p, k, Queue(N, p)[k])
              \/ \E p \in Port : \E ip \in DOMAIN Waiting(N, p) :
                   c = Copy("waits", p, ip, Waiting(N, p)[ip])
              \/ \E f \in W :
                   /\ Aimed(f)
                   /\ c = Copy("wire", f.to, f.frame.src, f.frame.payload.dgram)
<1> DEFINE A(p) == {Copy("queue", p, k, Queue(N, p)[k]) : k \in DOMAIN Queue(N, p)}
           B(p) == {Copy("waits", p, ip, Waiting(N, p)[ip]) : ip \in DOMAIN Waiting(N, p)}
           D == {Copy("wire", f.to, f.frame.src, f.frame.payload.dgram) :
                   f \in {g \in W : Aimed(g)}}
<1>1. Copies(N, W) = (UNION {A(p) : p \in Port}) \cup (UNION {B(p) : p \in Port}) \cup D
  BY Zenon DEF Copies
<1>2. \A c, p : c \in A(p) <=>
         \E k \in DOMAIN Queue(N, p) : c = Copy("queue", p, k, Queue(N, p)[k])
  BY Zenon
<1>3. \A c, p : c \in B(p) <=>
         \E ip \in DOMAIN Waiting(N, p) : c = Copy("waits", p, ip, Waiting(N, p)[ip])
  BY Zenon
<1>4. \A c : c \in D <=>
         \E f \in W : /\ Aimed(f)
                      /\ c = Copy("wire", f.to, f.frame.src, f.frame.payload.dgram)
  BY Zenon
<1> HIDE DEF A, B, D
<1>5. \A c : c \in Copies(N, W) <=>
         (\E p \in Port : c \in A(p)) \/ (\E p \in Port : c \in B(p)) \/ c \in D
  <2> DEFINE X == UNION {A(p) : p \in Port}
             Y == UNION {B(p) : p \in Port}
  <2>1. \A c : c \in X <=> \E p \in Port : c \in A(p)
    BY Zenon
  <2>2. \A c : c \in Y <=> \E p \in Port : c \in B(p)
    BY Zenon
  <2>3. Copies(N, W) = X \cup Y \cup D
    BY <1>1, Zenon
  <2> HIDE DEF X, Y
  <2>4. \A c : c \in Copies(N, W) <=> c \in X \/ c \in Y \/ c \in D
    BY <2>3, Zenon
  <2> QED
    BY <2>1, <2>2, <2>4, Zenon
<1>6. \A p \in Port : \A k \in DOMAIN Queue(N, p) :
         Copy("queue", p, k, Queue(N, p)[k]) \in Copies(N, W)
  BY <1>2, <1>5, Zenon
<1>7. \A p \in Port : \A ip \in DOMAIN Waiting(N, p) :
         Copy("waits", p, ip, Waiting(N, p)[ip]) \in Copies(N, W)
  BY <1>3, <1>5, Zenon
<1>8. \A f \in W : Aimed(f) =>
         Copy("wire", f.to, f.frame.src, f.frame.payload.dgram) \in Copies(N, W)
  BY <1>4, <1>5, Zenon
<1>9. \A c \in Copies(N, W) :
         \/ \E p \in Port : \E k \in DOMAIN Queue(N, p) :
              c = Copy("queue", p, k, Queue(N, p)[k])
         \/ \E p \in Port : \E ip \in DOMAIN Waiting(N, p) :
              c = Copy("waits", p, ip, Waiting(N, p)[ip])
         \/ \E f \in W :
              /\ Aimed(f)
              /\ c = Copy("wire", f.to, f.frame.src, f.frame.payload.dgram)
  <2> TAKE c \in Copies(N, W)
  <2>1. CASE \E p \in Port : c \in A(p)
    BY <1>2, <2>1, Zenon
  <2>2. CASE \E p \in Port : c \in B(p)
    BY <1>3, <2>2, Zenon
  <2>3. CASE c \in D
    BY <1>4, <2>3, Zenon
  <2> QED
    BY <1>5, <2>1, <2>2, <2>3, Zenon
<1> QED
  BY <1>6, <1>7, <1>8, <1>9, Zenon

\* Where a copy is.
IsQueued(c, N) ==
  \E p \in Port : \E k \in DOMAIN Queue(N, p) : c = Copy("queue", p, k, Queue(N, p)[k])

IsWaiting(c, N) ==
  \E p \in Port : \E ip \in DOMAIN Waiting(N, p) : c = Copy("waits", p, ip, Waiting(N, p)[ip])

IsFlying(c, W) ==
  \E f \in W : Aimed(f) /\ c = Copy("wire", f.to, f.frame.src, f.frame.payload.dgram)

\* A copy is in a queue, waits, or is on the way.
LEMMA CopyCases ==
  ASSUME NEW N, NEW W, NEW c \in Copies(N, W)
  PROVE  IsQueued(c, N) \/ IsWaiting(c, N) \/ IsFlying(c, W)
BY CopiesAre DEF IsQueued, IsWaiting, IsFlying

\* A copy is the record of its four fields.
LEMMA CopyRecord ==
  ASSUME NEW N, NEW W, NEW c \in Copies(N, W)
  PROVE  c = Copy(c.at, c.port, c.key, c.dgram)
<1>1. CASE IsQueued(c, N)
  BY <1>1, Zenon DEF IsQueued, Copy
<1>2. CASE IsWaiting(c, N)
  BY <1>2, Zenon DEF IsWaiting, Copy
<1>3. CASE IsFlying(c, W)
  BY <1>3, Zenon DEF IsFlying, Copy
<1> QED
  BY <1>1, <1>2, <1>3, CopyCases, Zenon

\* What the end of every operation does.
LEMMA BecomeIs ==
  ASSUME TypesInv, NEW x \in Node, NEW n, SoundNode(n, x), NEW w, Become(x, n, w)
  PROVE  /\ nodes' = [y \in Node |-> nodes'[y]]
         /\ \A y \in Node : y # x => nodes'[y] = nodes[y]
         /\ SoundNode(nodes'[x], x) /\ Drained(nodes'[x], x)
         /\ nodes'[x].map_vec = n.map_vec
         /\ \A i \in 1 .. Count(x) :
              /\ Queue(nodes', <<x, i>>) = n.interfaces[i].datagrams_out
              /\ Waiting(nodes', <<x, i>>)
                   = n.interfaces[i].nic.unknown_datagram_map
         /\ wire' = w \cup Heard(n, x)
         /\ crossings' = [id \in DOMAIN sent' |->
                            (IF id \in DOMAIN crossings THEN crossings[id] ELSE 0)
                              + (IF x \in RouterName /\ SentOut(n, x, id) THEN 1 ELSE 0)]
<1> DEFINE o == [n EXCEPT !.interfaces = [i \in DOMAIN @ |->
                   [@[i] EXCEPT !.nic.frames_out = << >>]]]
           out == Queued(x, n)
<1>1. /\ nodes' = [nodes EXCEPT ![x] = o]
      /\ wire' = w \cup UNION {{[to |-> p, frame |-> e.frame] :
                                  p \in Link(e.from) \ {e.from}} : e \in out}
      /\ crossings' = [id \in DOMAIN sent' |->
                         (IF id \in DOMAIN crossings THEN crossings[id] ELSE 0)
                           + (IF /\ x \in RouterName
                                 /\ \E e \in out : Carries(e.frame, id)
                              THEN 1 ELSE 0)]
  BY Zenon DEF Become
<1>2. /\ SoundNode(o, x) /\ Drained(o, x)
      /\ o.map_vec = n.map_vec
      /\ \A i \in 1 .. Count(x) :
           /\ o.interfaces[i].datagrams_out = n.interfaces[i].datagrams_out
           /\ o.interfaces[i].nic.unknown_datagram_map
                = n.interfaces[i].nic.unknown_datagram_map
  BY DrainedIs, Zenon
<1> HIDE DEF o
<1>3. /\ nodes' = [y \in Node |-> nodes'[y]]
      /\ \A y \in Node : y # x => nodes'[y] = nodes[y]
      /\ nodes'[x] = o
  BY <1>1, Zenon DEF TypesInv
<1>4. \A i \in 1 .. Count(x) :
        /\ Queue(nodes', <<x, i>>) = n.interfaces[i].datagrams_out
        /\ Waiting(nodes', <<x, i>>) = n.interfaces[i].nic.unknown_datagram_map
  BY <1>2, <1>3, Zenon DEF Queue, Waiting
<1>5. /\ DOMAIN n.interfaces = 1 .. Count(x)
      /\ \A i \in 1 .. Count(x) :
           DOMAIN n.interfaces[i].nic.frames_out
             = 1 .. Len(n.interfaces[i].nic.frames_out)
  <2>1. DOMAIN n.interfaces = 1 .. Count(x)
    BY NodeParts, Zenon
  <2>2. ASSUME NEW i \in 1 .. Count(x)
        PROVE  n.interfaces[i].nic.frames_out \in Seq(Frames(Link(<<x, i>>)))
    BY Zenon DEF SoundNode, Sound, Interfaces
  <2>3. ASSUME NEW i \in 1 .. Count(x)
        PROVE  DOMAIN n.interfaces[i].nic.frames_out
                 = 1 .. Len(n.interfaces[i].nic.frames_out)
    BY <2>2
  <2> QED
    BY <2>1, <2>3, Zenon
<1>6. out = UNION {{[from |-> <<x, i>>, frame |-> g] : g \in Outbox(n.interfaces[i].nic)} :
                     i \in 1 .. Count(x)}
  BY <1>5 DEF Queued, Outbox
<1> HIDE DEF out
<1>7. \A i \in 1 .. Count(x) : \A g \in Outbox(n.interfaces[i].nic) :
         [from |-> <<x, i>>, frame |-> g] \in out
  <2> SUFFICES ASSUME NEW i \in 1 .. Count(x), NEW g \in Outbox(n.interfaces[i].nic)
               PROVE  [from |-> <<x, i>>, frame |-> g] \in out
    BY Zenon
  <2> DEFINE S(j) == {[from |-> <<x, j>>, frame |-> h] : h \in Outbox(n.interfaces[j].nic)}
  <2>1. out = UNION {S(j) : j \in 1 .. Count(x)}
    BY <1>6, Zenon
  <2>2. [from |-> <<x, i>>, frame |-> g] \in S(i)
    BY Zenon
  <2> HIDE DEF S
  <2> QED
    BY <2>1, <2>2, Zenon
<1>8. \A e \in out : \E i \in 1 .. Count(x) : \E g \in Outbox(n.interfaces[i].nic) :
         e = [from |-> <<x, i>>, frame |-> g]
  BY <1>6, Zenon
<1>9. wire' = w \cup Heard(n, x)
  <2>1. ASSUME NEW f
        PROVE  (\E e \in out : \E p \in Link(e.from) \ {e.from} :
                  f = [to |-> p, frame |-> e.frame])
                 <=> f \in Heard(n, x)
    <3>1. ASSUME NEW e \in out, NEW p \in Link(e.from) \ {e.from},
                 f = [to |-> p, frame |-> e.frame]
          PROVE  f \in Heard(n, x)
      <4>1. PICK i \in 1 .. Count(x) : \E g \in Outbox(n.interfaces[i].nic) :
              e = [from |-> <<x, i>>, frame |-> g]
        BY <1>8, Zenon
      <4>2. PICK g \in Outbox(n.interfaces[i].nic) : e = [from |-> <<x, i>>, frame |-> g]
        BY <4>1, Zenon
      <4>3. e.from = <<x, i>> /\ e.frame = g
        BY <4>2, Zenon
      <4> QED
        BY <3>1, <4>3 DEF Heard
    <3>2. ASSUME f \in Heard(n, x)
          PROVE  \E e \in out : \E p \in Link(e.from) \ {e.from} :
                   f = [to |-> p, frame |-> e.frame]
      <4>1. PICK i \in 1 .. Count(x) : /\ f.frame \in Outbox(n.interfaces[i].nic)
                                       /\ f.to \in Link(<<x, i>>) \ {<<x, i>>}
        BY <3>2, HeardParts, Zenon
      <4>2. f = [to |-> f.to, frame |-> f.frame]
        BY <3>2, HeardParts, Zenon
      <4> DEFINE g == f.frame
      <4> DEFINE e == [from |-> <<x, i>>, frame |-> g]
      <4>3. e \in out /\ e.from = <<x, i>> /\ e.frame = g
        BY <1>7, <4>1, Zenon
      <4> HIDE DEF e
      <4> QED
        BY <4>1, <4>2, <4>3, Zenon
    <3> QED
      BY <3>1, <3>2, Zenon
  <2> HIDE DEF out
  <2> QED
    BY <1>1, <2>1
<1>10. \A id : (\E e \in out : Carries(e.frame, id)) <=> SentOut(n, x, id)
  <2>1. ASSUME NEW id, NEW e \in out, Carries(e.frame, id) PROVE SentOut(n, x, id)
    <3>1. PICK i \in 1 .. Count(x) : \E g \in Outbox(n.interfaces[i].nic) :
            e = [from |-> <<x, i>>, frame |-> g]
      BY <1>8, Zenon
    <3> QED
      BY <2>1, <3>1 DEF SentOut
  <2>2. ASSUME NEW id, SentOut(n, x, id) PROVE \E e \in out : Carries(e.frame, id)
    <3>1. PICK i \in 1 .. Count(x) : \E g \in Outbox(n.interfaces[i].nic) : Carries(g, id)
      BY <2>2, Zenon DEF SentOut
    <3>2. PICK g \in Outbox(n.interfaces[i].nic) : Carries(g, id)
      BY <3>1, Zenon
    <3>3. [from |-> <<x, i>>, frame |-> g].frame = g
      BY Zenon
    <3> QED
      BY <1>7, <3>2, <3>3, Zenon
  <2> QED
    BY <2>1, <2>2, Zenon
<1>11. crossings' = [id \in DOMAIN sent' |->
                      (IF id \in DOMAIN crossings THEN crossings[id] ELSE 0)
                        + (IF x \in RouterName /\ SentOut(n, x, id) THEN 1 ELSE 0)]
  BY <1>1, <1>10, Zenon
<1> QED
  BY <1>2, <1>3, <1>4, <1>9, <1>11, Zenon

-----------------------------------------------------------------------------
(* How a copy moves.                                                       *)

\* The datagram with one unit less to live.
Aged(d) == [d EXCEPT !.ttl = @ - 1]

\* It arrives at the port that it is meant for.
LEMMA FitsArrived ==
  ASSUME NEW routes, NEW p, NEW k, NEW j, NEW d, NEW s, NEW n,
         Fits(routes, Copy("wire", p, k, d), s, n)
  PROVE  Fits(routes, Copy("queue", p, j, d), s, n)
  BY Zenon DEF Fits, Copy, Held, Heads

\* It has waited, and leaves for the port that has the address.
LEMMA FitsReleased ==
  ASSUME NEW routes, NEW p, NEW ip, NEW d, NEW s, NEW n \in Nat,
         Fits(routes, Copy("waits", p, ip, d), s, n),
         NEW q \in PortAt(Link(p) \ {p}, ip), NEW k
  PROVE  Fits(routes, Copy("wire", q, k, d), s,
              n + (IF p[1] \in RouterName THEN 1 ELSE 0))
<1> DEFINE a == Copy("waits", p, ip, d)
           b == Copy("wire", q, k, d)
           u == IF p[1] \in RouterName THEN 1 ELSE 0
<1>1. Held(a) = u /\ Held(b) = 0 /\ Heads(b) = {q} /\ q \in Heads(a)
      /\ a.dgram = d /\ b.dgram = d
  BY Zenon DEF Copy, Held, Heads
<1>2. u \in Nat
  BY Zenon
<1> HIDE DEF a, b, u
<1>3. /\ d.dst = s.dst /\ d.ttl \in Nat /\ d.ttl + n + u = s.ttl
      /\ Fate(routes, q[1], d.dst, d.ttl) \subseteq DueOf(routes, s)
  BY <1>1, Zenon DEF Fits, a
<1>4. d.ttl + (n + u) + 0 = s.ttl
  BY <1>2, <1>3
<1>5. Fits(routes, b, s, n + u)
  BY <1>1, <1>3, <1>4 DEF Fits
<1> QED
  BY <1>5, Zenon DEF b, u

\* A router takes it from a queue, and it leaves or waits for the address.
LEMMA FitsRouted ==
  ASSUME NEW routes, NEW x \in RouterName, NEW p, p[1] = x, NEW k, NEW d \in Dgrams,
         d.ttl > 1, NEW s, NEW n \in Nat,
         Fits(routes, Copy("queue", p, k, d), s, n),
         NEW i, NEW hop, <<x, i>> \in Port,
         WayOut(routes, x, d.dst) = [interface |-> i, hop |-> hop]
  PROVE  /\ Fits(routes, Copy("waits", <<x, i>>, hop, Aged(d)), s, n)
         /\ \A q \in PortAt(Link(<<x, i>>) \ {<<x, i>>}, hop) : \A j :
              Fits(routes, Copy("wire", q, j, Aged(d)), s, n + 1)
<1> DEFINE e == Aged(d)
           port == <<x, i>>
           b == Copy("waits", port, hop, e)
<1>1. /\ d.dst = s.dst /\ d.ttl \in Nat /\ d.ttl + n = s.ttl
      /\ Fate(routes, x, d.dst, d.ttl) \subseteq DueOf(routes, s)
  BY DEF Fits, Copy, Held, Heads
<1>2. e.dst = d.dst /\ e.ttl = d.ttl - 1
  BY Zenon DEF Aged, Dgrams
<1>3. \A q \in PortAt(Link(port) \ {port}, hop) :
        Fate(routes, q[1], d.dst, d.ttl - 1) \subseteq Fate(routes, x, d.dst, d.ttl)
  <2> DEFINE w == WayOut(routes, x, d.dst)
             at == <<x, w.interface>>
  <2>1. w.interface = i /\ w.hop = hop /\ at = port
    OBVIOUS
  <2>2. d.ttl > 1 /\ at \in Port =>
          \A q \in PortAt(Link(at) \ {at}, w.hop) :
            Fate(routes, q[1], d.dst, d.ttl - 1) \subseteq Fate(routes, x, d.dst, d.ttl)
    BY <1>1, FateUnfolds, Zenon
  <2> HIDE DEF w, at
  <2> QED
    BY <2>1, <2>2, Zenon
<1> HIDE DEF e
<1>4. e.ttl \in Nat /\ e.ttl >= 1 /\ e.ttl + n + 1 = s.ttl /\ e.ttl + (n + 1) + 0 = s.ttl
  BY <1>1, <1>2
<1>5. \A q \in PortAt(Link(port) \ {port}, hop) :
        Fate(routes, q[1], e.dst, e.ttl) \subseteq DueOf(routes, s)
  BY <1>1, <1>2, <1>3, Zenon
<1>6. /\ Held(b) = 1 /\ Heads(b) = PortAt(Link(port) \ {port}, hop) /\ b.dgram = e
  BY Zenon DEF Copy, Held, Heads
<1>7. Fits(routes, b, s, n)
  <2> HIDE DEF b, port
  <2> QED
    BY <1>1, <1>2, <1>4, <1>5, <1>6, Zenon DEF Fits
<1>8. ASSUME NEW q \in PortAt(Link(port) \ {port}, hop), NEW j
      PROVE  Fits(routes, Copy("wire", q, j, e), s, n + 1)
  <2> DEFINE c == Copy("wire", q, j, e)
  <2>1. Held(c) = 0 /\ Heads(c) = {q} /\ c.dgram = e
    BY Zenon DEF Copy, Held, Heads
  <2>2. Fate(routes, q[1], e.dst, e.ttl) \subseteq DueOf(routes, s)
    BY <1>5, Zenon
  <2> HIDE DEF c, port
  <2>3. Fits(routes, c, s, n + 1)
    BY <1>1, <1>2, <1>4, <2>1, <2>2, Zenon DEF Fits
  <2> QED
    BY <2>3, Zenon DEF c
<1> QED
  BY <1>7, <1>8, Zenon DEF e

\* A host sends it, and it leaves or waits for the address of the gateway.
LEMMA FitsSent ==
  ASSUME NEW routes, NEW h \in Host, NEW dst, NEW ttl \in Nat, NEW d,
         d.dst = dst, d.ttl = ttl, NEW s, s = [from |-> h, dst |-> dst, ttl |-> ttl]
  PROVE  /\ Fits(routes, Copy("waits", <<h, 1>>, Gateway[h], d), s, 0)
         /\ \A q \in PortAt(Link(<<h, 1>>) \ {<<h, 1>>}, Gateway[h]) : \A j :
              Fits(routes, Copy("wire", q, j, d), s, 0)
<1> DEFINE port == <<h, 1>>
           ps == PortAt(Link(port) \ {port}, Gateway[h])
           b == Copy("waits", port, Gateway[h], d)
<1>1. h \notin RouterName /\ port \in Port /\ port[1] = h
  BY InternetAssumption, PortsOfNode DEF Node
<1>2. \A q \in ps : GatewayOf(h) = q
  <2> SUFFICES ASSUME NEW q \in ps PROVE GatewayOf(h) = q
    BY Zenon
  <2>1. q \in Link(port) /\ IpOf[q] = Gateway[h]
    BY Zenon DEF PortAt
  <2>2. GatewayOf(h) \in Link(port) /\ IpOf[GatewayOf(h)] = Gateway[h]
    BY <2>1, Zenon DEF GatewayOf
  <2>3. Link(port) \subseteq Port
    BY <1>1, LinkOfPort, Zenon
  <2> QED
    BY <2>1, <2>2, <2>3, EthInjective, Zenon
<1>3. s.from = h /\ s.dst = dst /\ s.ttl = ttl
  BY Zenon
<1>4. \A q \in ps : Fate(routes, q[1], dst, ttl) \subseteq DueOf(routes, s)
  BY <1>2, <1>3, Zenon DEF DueOf
<1>5. Held(b) = 0 /\ Heads(b) = ps /\ b.dgram = d
  BY <1>1, Zenon DEF Copy, Held, Heads
<1>6. ttl + 0 + 0 = ttl
  OBVIOUS
<1>7. Fits(routes, b, s, 0)
  <2> HIDE DEF b, ps
  <2> QED
    BY <1>3, <1>4, <1>5, <1>6 DEF Fits
<1>8. ASSUME NEW q \in ps, NEW j
      PROVE  Fits(routes, Copy("wire", q, j, d), s, 0)
  <2> DEFINE c == Copy("wire", q, j, d)
  <2>1. Held(c) = 0 /\ Heads(c) = {q} /\ c.dgram = d
    BY Zenon DEF Copy, Held, Heads
  <2> HIDE DEF c, ps
  <2>2. Fits(routes, c, s, 0)
    BY <1>3, <1>4, <1>6, <2>1 DEF Fits
  <2> QED
    BY <2>2, Zenon DEF c
<1> QED
  BY <1>7, <1>8, Zenon

-----------------------------------------------------------------------------
(* What every operation keeps.                                             *)

\* What the step by which node x becomes n adds to the crossings of datagram id.
Outgoing(n, x, id) == IF x \in RouterName /\ SentOut(n, x, id) THEN 1 ELSE 0

\* The types, the tables, and what the other nodes hold.
LEMMA BecomeTypes ==
  ASSUME TypesInv, NEW x \in Node, NEW n, SoundNode(n, x), NEW w, Become(x, n, w),
         n.map_vec = nodes[x].map_vec, sent' \in Seq(Sendings),
         \A f \in w : OnTheWay(f)
  PROVE  /\ TypesInv'
         /\ Routes' = Routes
         /\ \A p \in Port : p[1] # x => /\ Queue(nodes', p) = Queue(nodes, p)
                                        /\ Waiting(nodes', p) = Waiting(nodes, p)
<1>1. /\ nodes' = [y \in Node |-> nodes'[y]]
      /\ \A y \in Node : y # x => nodes'[y] = nodes[y]
      /\ SoundNode(nodes'[x], x) /\ Drained(nodes'[x], x)
      /\ nodes'[x].map_vec = n.map_vec
  BY BecomeIs, Zenon
<1>2. wire' = w \cup Heard(n, x)
  BY BecomeIs, Zenon
<1>3. crossings' = [id \in DOMAIN sent' |->
                      (IF id \in DOMAIN crossings THEN crossings[id] ELSE 0)
                        + (IF x \in RouterName /\ SentOut(n, x, id) THEN 1 ELSE 0)]
  BY BecomeIs, Zenon
<1>4. \A y \in Node : SoundNode(nodes'[y], y) /\ Drained(nodes'[y], y)
  BY <1>1, Zenon DEF TypesInv
<1>5. ASSUME NEW f \in wire' PROVE OnTheWay(f)
  <2>1. CASE f \in w
    BY <2>1, Zenon
  <2>2. CASE f \in Heard(n, x)
    <3>1. PICK i \in 1 .. Count(x) : /\ f.frame \in Outbox(n.interfaces[i].nic)
                                     /\ f.to \in Link(<<x, i>>) \ {<<x, i>>}
      BY <2>2, HeardParts, Zenon
    <3> DEFINE s == Link(<<x, i>>)
               v == n.interfaces[i].nic
               g == f.frame
               q == f.to
    <3>2. g \in Outbox(v) /\ q \in s
      BY <3>1, Zenon
    <3>3. f = [to |-> q, frame |-> g]
      BY <2>2, HeardParts, Zenon
    <3>4. s \in Segment
      BY PortsOfNode, LinkOfPort, Zenon
    <3>5. q \in Port /\ Link(q) = s
      BY <3>2, <3>4, LinkOfPort, Zenon
    <3>6. v.frames_out \in Seq(Frames(s))
      BY Zenon DEF SoundNode, Sound, Interfaces
    <3> HIDE DEF v, s, g, q
    <3>7. g \in Frames(s)
      BY <3>2, <3>6 DEF Outbox
    <3> QED
      BY <3>3, <3>5, <3>7, Zenon DEF OnTheWay, g, q
  <2> QED
    BY <1>2, <2>1, <2>2, Zenon
<1>6. crossings' \in [DOMAIN sent' -> Nat]
  <2>1. \A id \in DOMAIN crossings : crossings[id] \in Nat
    BY Zenon DEF TypesInv
  <2> DEFINE A(id) == IF id \in DOMAIN crossings THEN crossings[id] ELSE 0
             B(id) == IF x \in RouterName /\ SentOut(n, x, id) THEN 1 ELSE 0
  <2>2. \A id : A(id) \in Nat /\ B(id) \in Nat
    BY <2>1, Zenon
  <2>3. crossings' = [id \in DOMAIN sent' |-> A(id) + B(id)]
    BY <1>3, Zenon
  <2> HIDE DEF A, B
  <2>4. \A id : A(id) + B(id) \in Nat
    BY <2>2
  <2> QED
    BY <2>3, <2>4, Zenon
<1>7. TypesInv'
  BY <1>1, <1>4, <1>5, <1>6, Zenon DEF TypesInv
<1>8. Routes' = Routes
  <2>1. \A r \in RouterName : nodes'[r].map_vec = nodes[r].map_vec
    BY <1>1, Zenon DEF Node
  <2> QED
    BY <2>1, Zenon DEF Routes
<1>9. \A p \in Port : p[1] # x => /\ Queue(nodes', p) = Queue(nodes, p)
                                  /\ Waiting(nodes', p) = Waiting(nodes, p)
  BY <1>1, PortsOfNode, Zenon DEF Queue, Waiting
<1> QED
  BY <1>7, <1>8, <1>9, Zenon

\* When every copy comes from one copy of before, of which nothing else comes, and
\* fits if that did, there are no two copies still and all fit.
LEMMA MovesKeep ==
  ASSUME NInv, TypesInv', Routes' = Routes, sent' = sent, NEW x, NEW n,
         crossings' = [id \in DOMAIN sent |-> crossings[id] + Outgoing(n, x, id)],
         NEW M,
         \A b, a, c : <<b, a>> \in M /\ <<b, c>> \in M => a = c,
         \A a \in Copies(nodes', wire') :
           \E b \in Copies(nodes, wire) : <<b, a>> \in M,
         \A b \in Copies(nodes, wire) : \A a : <<b, a>> \in M =>
           /\ a.dgram.id = b.dgram.id
           /\ \A s : \A k \in Nat :
                Fits(Routes, b, s, k)
                  => Fits(Routes, a, s, k + Outgoing(n, x, b.dgram.id))
  PROVE  UniqueInv' /\ FitsInv'
<1>1. UniqueInv'
  <2> SUFFICES ASSUME NEW a \in Copies(nodes', wire'), NEW c \in Copies(nodes', wire'),
                      a.dgram.id = c.dgram.id
               PROVE  a = c
    BY Zenon DEF UniqueInv
  <2>1. PICK b \in Copies(nodes, wire) : <<b, a>> \in M
    BY Zenon
  <2>2. PICK d \in Copies(nodes, wire) : <<d, c>> \in M
    BY Zenon
  <2>3. b.dgram.id = d.dgram.id
    BY <2>1, <2>2, Zenon
  <2>4. b = d
    BY <2>3, Zenon DEF NInv, UniqueInv
  <2> QED
    BY <2>1, <2>2, <2>4, Zenon
<1>2. FitsInv'
  <2> SUFFICES ASSUME NEW a \in Copies(nodes', wire')
               PROVE  /\ a.dgram.id \in DOMAIN sent
                      /\ Fits(Routes, a, sent[a.dgram.id], crossings'[a.dgram.id])
    BY Zenon DEF FitsInv
  <2>1. PICK b \in Copies(nodes, wire) : <<b, a>> \in M
    BY Zenon
  <2> DEFINE id == b.dgram.id
  <2>2. id \in DOMAIN sent /\ Fits(Routes, b, sent[id], crossings[id])
    BY Zenon DEF NInv, FitsInv
  <2>3. crossings[id] \in Nat
    BY <2>2, Zenon DEF NInv, TypesInv
  <2>4. a.dgram.id = id /\ Fits(Routes, a, sent[id], crossings[id] + Outgoing(n, x, id))
    BY <2>1, <2>2, <2>3
  <2>5. crossings'[id] = crossings[id] + Outgoing(n, x, id)
    BY <2>2, Zenon
  <2> QED
    BY <2>2, <2>4, <2>5, Zenon
<1> QED
  BY <1>1, <1>2, Zenon

\* What node x, now n, sends out comes from a copy that it had.
Origin(b, d, x) ==
  \/ /\ b.at = "waits" /\ b.port[1] = x
     /\ d = b.dgram
  \/ /\ b.at = "queue" /\ b.port[1] = x /\ x \in RouterName
     /\ b.dgram.ttl > 1
     /\ d = Aged(b.dgram)

\* When all it sends out does, nothing is sent out too often.
LEMMA OriginsKeep ==
  ASSUME NInv, NEW x, NEW n, NEW w \in SUBSET wire, sent' = sent,
         crossings' = [id \in DOMAIN sent |-> crossings[id] + Outgoing(n, x, id)],
         wire' = w \cup Heard(n, x),
         \A i \in 1 .. Count(x) : \A g \in Outbox(n.interfaces[i].nic) :
           g.payload.kind = "IPv4" =>
             \E b \in Copies(nodes, wire) :
               b.dgram \in Dgrams /\ Origin(b, g.payload.dgram, x)
  PROVE  BoundInv'
<1> DEFINE Cap(k) == IF sent[k].ttl = 0 THEN 0 ELSE sent[k].ttl - 1
           Fine(d) == d.id \in DOMAIN sent /\ d.ttl + crossings'[d.id] >= sent[d.id].ttl
           Good(d) == Fine(d) /\ crossings'[d.id] <= Cap(d.id)
<1>1. ASSUME NEW id \in DOMAIN sent
      PROVE  /\ crossings[id] \in Nat /\ sent[id].ttl \in Nat
             /\ crossings[id] <= Cap(id)
             /\ crossings'[id] = crossings[id] + Outgoing(n, x, id)
             /\ Outgoing(n, x, id) \in {0, 1}
  <2>1. sent[id] \in Sendings
    BY DEF NInv, TypesInv
  <2>2. crossings[id] \in Nat /\ Outgoing(n, x, id) \in {0, 1}
    BY Zenon DEF NInv, TypesInv, Outgoing
  <2>3. crossings[id] <= Cap(id)
    BY Zenon DEF NInv, BoundInv
  <2>4. crossings'[id] = crossings[id] + Outgoing(n, x, id)
    BY Zenon
  <2>5. sent[id].ttl \in Nat
    BY <2>1, Zenon DEF Sendings
  <2> QED
    BY <2>2, <2>3, <2>4, <2>5, Zenon
<1> HIDE DEF Fine, Good
<1>2. ASSUME NEW i \in 1 .. Count(x), NEW g \in Outbox(n.interfaces[i].nic),
             g.payload.kind = "IPv4"
      PROVE  Good(g.payload.dgram)
  <2> DEFINE d == g.payload.dgram
             id == d.id
  <2>1. PICK b \in Copies(nodes, wire) : b.dgram \in Dgrams /\ Origin(b, d, x)
    BY <1>2, Zenon
  <2>2. SentOut(n, x, id)
    BY <1>2, Zenon DEF SentOut, Carries
  <2> HIDE DEF d
  <2>3. b.dgram.id = id
    BY <2>1, Zenon DEF Origin, Aged, Dgrams
  <2>4. id \in DOMAIN sent /\ Fits(Routes, b, sent[id], crossings[id])
    BY <2>3, Zenon DEF NInv, FitsInv
  <2> HIDE DEF id
  <2>5. Outgoing(n, x, id) = IF x \in RouterName THEN 1 ELSE 0
    BY <2>2, Zenon DEF Outgoing
  <2> DEFINE S == sent[id].ttl
             C == crossings[id]
             T == b.dgram.ttl
  <2>6. /\ C \in Nat /\ S \in Nat /\ C <= IF S = 0 THEN 0 ELSE S - 1
        /\ crossings'[id] = C + Outgoing(n, x, id)
    BY <1>1, <2>4, Zenon
  <2>7. T \in Nat /\ T + C + Held(b) = S /\ (Held(b) = 1 => T >= 1)
    BY <2>1, <2>4, Zenon DEF Fits, Dgrams
  <2>8. CASE b.at = "waits" /\ b.port[1] = x /\ d = b.dgram
    <3>1. Held(b) = Outgoing(n, x, id) /\ Outgoing(n, x, id) \in {0, 1} /\ d.ttl = T
      BY <2>5, <2>8, Zenon DEF Held
    <3> HIDE DEF S, C, T, Cap
    <3>2. /\ crossings'[id] <= IF S = 0 THEN 0 ELSE S - 1
          /\ d.ttl + crossings'[id] >= S
      BY <2>6, <2>7, <3>1
    <3>3. Fine(d)
      BY <2>4, <3>2, Zenon DEF Fine, S, id
    <3>4. crossings'[d.id] <= Cap(d.id)
      BY <3>2, Zenon DEF Cap, S, id
    <3> QED
      BY <3>3, <3>4, Zenon DEF Good, d
  <2>9. CASE /\ b.at = "queue" /\ b.port[1] = x /\ x \in RouterName
             /\ b.dgram.ttl > 1 /\ d = Aged(b.dgram)
    <3>1. Held(b) = 0 /\ Outgoing(n, x, id) = 1 /\ T > 1
      BY <2>5, <2>9, Zenon DEF Held
    <3>2. d.ttl = T - 1
      BY <2>1, <2>9, Zenon DEF Aged, Dgrams
    <3> HIDE DEF S, C, T, Cap
    <3>3. /\ crossings'[id] <= IF S = 0 THEN 0 ELSE S - 1
          /\ d.ttl + crossings'[id] >= S
      <4>1. T + C + 0 = S /\ crossings'[id] = C + 1
        BY <2>6, <2>7, <3>1, Zenon
      <4>2. /\ C + 1 <= IF S = 0 THEN 0 ELSE S - 1
            /\ (T - 1) + (C + 1) >= S
        BY <2>6, <2>7, <3>1, <4>1, OneMore, Zenon
      <4> QED
        BY <3>2, <4>1, <4>2, Zenon
    <3>4. Fine(d)
      BY <2>4, <3>3, Zenon DEF Fine, S, id
    <3>5. crossings'[d.id] <= Cap(d.id)
      BY <3>3, Zenon DEF Cap, S, id
    <3> QED
      BY <3>4, <3>5, Zenon DEF Good, d
  <2> QED
    BY <2>1, <2>8, <2>9, Zenon DEF Origin
<1> HIDE DEF Cap
<1>3. ASSUME NEW id \in DOMAIN sent
      PROVE  crossings'[id] <= Cap(id)
  <2>1. CASE SentOut(n, x, id)
    <3>1. PICK i \in 1 .. Count(x) : \E g \in Outbox(n.interfaces[i].nic) : Carries(g, id)
      BY <2>1, Zenon DEF SentOut
    <3>2. PICK g \in Outbox(n.interfaces[i].nic) : Carries(g, id)
      BY <3>1, Zenon
    <3> DEFINE d == g.payload.dgram
    <3>3. d.id = id /\ Good(d)
      BY <1>2, <3>2, Zenon DEF Carries
    <3> HIDE DEF d
    <3> QED
      BY <3>3, Zenon DEF Good
  <2>2. CASE ~SentOut(n, x, id)
    <3>1. Outgoing(n, x, id) = 0
      BY <2>2, Zenon DEF Outgoing
    <3> QED
      BY <1>1, <3>1
  <2> QED
    BY <2>1, <2>2, Zenon
<1>4. ASSUME NEW f \in wire', f.frame.payload.kind = "IPv4"
      PROVE  Fine(f.frame.payload.dgram)
  <2> DEFINE d == f.frame.payload.dgram
             id == d.id
  <2>1. CASE f \in wire
    <3>1. id \in DOMAIN sent /\ d.ttl + crossings[id] >= sent[id].ttl
      BY <1>4, <2>1, Zenon DEF NInv, BoundInv
    <3>2. d.ttl \in Nat
      BY <1>4, <2>1 DEF NInv, TypesInv, OnTheWay, Frames, Datagrams, Dgrams, Replies,
                       Requests, ARPMessage
    <3> HIDE DEF d, id
    <3>3. d.ttl + crossings'[id] >= sent[id].ttl
      BY <1>1, <3>1, <3>2
    <3>4. Fine(d)
      BY <3>1, <3>3, Zenon DEF Fine, id
    <3> QED
      BY <3>4, Zenon DEF d
  <2>2. CASE f \in Heard(n, x)
    <3>1. PICK i \in 1 .. Count(x) : f.frame \in Outbox(n.interfaces[i].nic)
      BY <2>2, HeardParts, Zenon
    <3>2. Good(f.frame.payload.dgram)
      BY <1>2, <1>4, <3>1, Zenon
    <3> QED
      BY <3>2, Zenon DEF Good
  <2> QED
    BY <2>1, <2>2, Zenon
<1> QED
  BY <1>3, <1>4, Zenon DEF BoundInv, Fine, Cap

-----------------------------------------------------------------------------
(* Receiving a frame.                                                      *)

\* A datagram in a frame is meant for one port.
LEMMA FrameParts ==
  ASSUME NEW s \in Segment, NEW g \in Frames(s)
  PROVE  /\ g = [src |-> g.src, dst |-> g.dst, payload |-> g.payload]
         /\ g.payload \in Replies(s) \cup Requests(s) => g.payload.kind # "IPv4"
         /\ g.payload.kind = "IPv4" =>
              /\ g.payload = Datagram(g.payload.dgram)
              /\ g.payload.dgram \in Dgrams
              /\ g.dst # ETHERNET_BROADCAST
<1>1. g = [src |-> g.src, dst |-> g.dst, payload |-> g.payload]
  BY Zenon DEF Frames
<1>2. g.payload \in Replies(s) \cup Requests(s) => g.payload.kind = "ARP"
  BY DEF Replies, Requests, ARPMessage
<1>3. ASSUME g.payload.kind = "IPv4"
      PROVE  /\ g.payload = Datagram(g.payload.dgram)
             /\ g.payload.dgram \in Dgrams
             /\ g.dst # ETHERNET_BROADCAST
  <2>1. g \in [src : Eths(s), dst : Eths(s), payload : Datagrams]
    BY <1>2, <1>3, Zenon DEF Frames
  <2>2. g.payload \in Datagrams /\ g.dst \in Eths(s)
    BY <2>1, Zenon
  <2>3. PICK q \in s : g.dst = Eth(q)
    BY <2>2, Zenon DEF Eths
  <2>4. q \in Port
    BY LinkOfPort, Zenon
  <2>5. g.dst # ETHERNET_BROADCAST
    BY <2>3, <2>4, EthInjective, Zenon
  <2> QED
    BY <2>2, <2>5, Zenon DEF Datagrams, Datagram
<1> QED
  BY <1>1, <1>2, <1>3, Zenon

\* Node x, when it is m, takes in a frame at port i and becomes n.
Absorbs(m, n, frame, x, i) ==
  LET forMe == frame.payload.kind = "IPv4" /\ frame.dst = Eth(<<x, i>>) IN
  /\ SoundNode(n, x)
  /\ n.map_vec = m.map_vec
  /\ Answers(m.interfaces[i].nic, n.interfaces[i].nic, <<x, i>>, Link(<<x, i>>))
  /\ \A j \in 1 .. Count(x) : j # i => n.interfaces[j] = m.interfaces[j]
  /\ ~forMe => n.interfaces[i].datagrams_out = m.interfaces[i].datagrams_out
  /\ forMe => n.interfaces[i].datagrams_out
                = Append(m.interfaces[i].datagrams_out, frame.payload.dgram)

\* AsyncNetworkInterface::recv_frame does that.
LEMMA AsyncRecv ==
  ASSUME NEW x \in Node, NEW m, SoundNode(m, x), Drained(m, x),
         NEW i \in 1 .. Count(x), NEW frame \in Frames(Link(<<x, i>>))
  PROVE  Absorbs(m, async_recv_frame(m, i, frame), frame, x, i)
<1> DEFINE p == <<x, i>>
           s == Link(p)
           nic == m.interfaces[i].nic
           v == recv_frame(nic, frame)
           q == m.interfaces[i].datagrams_out
           ret == ReturnedDatagram(nic, frame)
           a == [nic |-> v, datagrams_out |-> q \o ret]
           n == async_recv_frame(m, i, frame)
           forMe == frame.payload.kind = "IPv4" /\ frame.dst = Eth(p)
<1>1. s \in Segment /\ p \in s
  BY PortsOfNode, LinkOfPort, Zenon
<1>2. Sound(nic, p, s) /\ nic.frames_out = << >>
  BY Zenon DEF SoundNode, Drained
<1>3. Answers(nic, v, p, s)
  BY <1>1, <1>2, RecvAnswers, Zenon
<1>4. /\ m.interfaces \in [1 .. Count(x) -> Async]
      /\ m.map_vec \in Seq(Rows(Count(x)))
      /\ m \in [interfaces : [1 .. Count(x) -> Async], map_vec : Seq(Rows(Count(x)))]
  BY Zenon DEF SoundNode
<1>5. q \in Seq(Dgrams)
  BY NodeParts, Zenon
<1>6. /\ frame.payload.kind = "IPv4" => /\ frame.payload.dgram \in Dgrams
                                        /\ frame.dst # ETHERNET_BROADCAST
      /\ nic.ethernet_address = Eth(p)
  BY <1>1, <1>2, FrameParts, Zenon DEF Sound
<1>7. ret = IF forMe THEN <<frame.payload.dgram>> ELSE << >>
  BY <1>6, Zenon DEF ReturnedDatagram, ForMe
<1>8. n = [m EXCEPT !.interfaces[i] = a]
  BY Zenon DEF async_recv_frame
<1> HIDE DEF v, q, ret, n, s, nic
<1>9. /\ ~forMe => q \o ret = q
      /\ forMe => q \o ret = Append(q, frame.payload.dgram)
      /\ q \o ret \in Seq(Dgrams)
  <2>1. CASE forMe
    BY <1>5, <1>6, <1>7, <2>1
  <2>2. CASE ~forMe
    BY <1>5, <1>7, <2>2
  <2> QED
    BY <2>1, <2>2, Zenon
<1>10. Sound(v, p, s) /\ v \in Interfaces(s)
  BY <1>3, Zenon DEF Answers, Sound
<1>11. a \in Async /\ a.nic = v /\ a.datagrams_out = q \o ret
  BY <1>1, <1>9, <1>10, Zenon DEF Async
<1> HIDE DEF a
<1>12. /\ n.interfaces = [m.interfaces EXCEPT ![i] = a] /\ n.map_vec = m.map_vec
       /\ n = [interfaces |-> n.interfaces, map_vec |-> n.map_vec]
  BY <1>4, <1>8, Zenon
<1>13. /\ n.interfaces \in [1 .. Count(x) -> Async] /\ n.interfaces[i] = a
       /\ \A j \in 1 .. Count(x) : j # i => n.interfaces[j] = m.interfaces[j]
  BY <1>4, <1>11, <1>12, Zenon
<1>14. n \in [interfaces : [1 .. Count(x) -> Async], map_vec : Seq(Rows(Count(x)))]
  BY <1>4, <1>12, <1>13, Zenon
<1>15. SoundNode(n, x)
  <2>1. \A j \in 1 .. Count(x) : Sound(n.interfaces[j].nic, <<x, j>>, Link(<<x, j>>))
    BY <1>10, <1>11, <1>13, Zenon DEF SoundNode, s
  <2> QED
    BY <1>14, <2>1, Zenon DEF SoundNode
<1> QED
  BY <1>3, <1>9, <1>11, <1>12, <1>13, <1>15, Zenon DEF Absorbs, n, s, nic, q

\* Frame f is received: its datagram may join a queue, datagrams may stop waiting at
\* the port, and those are all that is sent out.
TakesIn(f, n) ==
  LET p == f.to IN
  /\ \A o \in Port : \A k \in DOMAIN Queue(nodes', o) :
       \/ /\ k \in DOMAIN Queue(nodes, o)
          /\ Queue(nodes', o)[k] = Queue(nodes, o)[k]
       \/ /\ o = p /\ Aimed(f)
          /\ k = Len(Queue(nodes, p)) + 1
          /\ Queue(nodes', p)[k] = f.frame.payload.dgram
  /\ \A o \in Port : \A ip \in DOMAIN Waiting(nodes', o) :
       /\ ip \in DOMAIN Waiting(nodes, o)
       /\ Waiting(nodes', o)[ip] = Waiting(nodes, o)[ip]
  /\ \A i \in 1 .. Count(p[1]) : \A g \in Outbox(n.interfaces[i].nic) :
       g.payload.kind = "IPv4" =>
         /\ i = p[2]
         /\ \E q \in Link(p) :
              /\ IpOf[q] \in DOMAIN Waiting(nodes, p)
              /\ IpOf[q] \notin DOMAIN Waiting(nodes', p)
              /\ g = Frame(Eth(p), Eth(q), Datagram(Waiting(nodes, p)[IpOf[q]]))

\* RecvFrame does that.
LEMMA RecvEffect ==
  ASSUME NInv, NEW f \in wire, RecvFrame(f)
  PROVE  LET p == f.to
             x == p[1]
             n == async_recv_frame(nodes[x], p[2], f.frame)
         IN
         /\ p \in Port /\ x \in Node /\ p = <<x, p[2]>> /\ f.frame \in Frames(Link(p))
         /\ TypesInv' /\ Routes' = Routes /\ sent' = sent
         /\ wire' = (wire \ {f}) \cup Heard(n, x)
         /\ crossings' = [id \in DOMAIN sent |-> crossings[id] + Outgoing(n, x, id)]
         /\ TakesIn(f, n)
<1> DEFINE p == f.to
           x == p[1]
           i == p[2]
           s == Link(p)
           m == nodes[x]
           nic == m.interfaces[i].nic
           n == async_recv_frame(m, i, f.frame)
           w == wire \ {f}
           forMe == f.frame.payload.kind = "IPv4" /\ f.frame.dst = Eth(p)
<1>1. TypesInv /\ OnTheWay(f)
  BY Zenon DEF NInv, TypesInv
<1>2. p \in Port /\ f.frame \in Frames(s)
  BY <1>1, Zenon DEF OnTheWay
<1>3. x \in Node /\ i \in 1 .. Count(x) /\ p = <<x, i>>
  BY <1>2, PortsOfNode, Zenon
<1>4. SoundNode(m, x) /\ Drained(m, x)
  BY <1>1, <1>3, Zenon DEF TypesInv
<1>5. sent' = sent /\ Become(x, n, w)
  BY Zenon DEF RecvFrame
<1>6. \A j \in 1 .. Count(x) : /\ Queue(nodes, <<x, j>>) = m.interfaces[j].datagrams_out
                               /\ Waiting(nodes, <<x, j>>)
                                    = m.interfaces[j].nic.unknown_datagram_map
  BY Zenon DEF Queue, Waiting
<1> HIDE DEF x, i, m, p, s, w
<1>7. /\ SoundNode(n, x) /\ n.map_vec = m.map_vec
      /\ Answers(nic, n.interfaces[i].nic, p, s)
      /\ \A j \in 1 .. Count(x) : j # i => n.interfaces[j] = m.interfaces[j]
      /\ ~forMe => n.interfaces[i].datagrams_out = m.interfaces[i].datagrams_out
      /\ forMe => n.interfaces[i].datagrams_out
                    = Append(m.interfaces[i].datagrams_out, f.frame.payload.dgram)
  <2>1. f.frame \in Frames(Link(<<x, i>>))
    BY <1>2, <1>3, Zenon DEF s
  <2>2. Absorbs(m, n, f.frame, x, i)
    BY <1>3, <1>4, <2>1, AsyncRecv, Zenon
  <2> HIDE DEF n
  <2> QED
    BY <1>3, <2>2, Zenon DEF Absorbs, s
<1> HIDE DEF n
<1>8. SoundNode(n, x) /\ n.map_vec = m.map_vec
  BY <1>7, Zenon
<1>9. /\ \A j \in 1 .. Count(x) :
           /\ Queue(nodes', <<x, j>>) = n.interfaces[j].datagrams_out
           /\ Waiting(nodes', <<x, j>>) = n.interfaces[j].nic.unknown_datagram_map
      /\ wire' = w \cup Heard(n, x)
      /\ crossings' = [id \in DOMAIN sent' |->
                         (IF id \in DOMAIN crossings THEN crossings[id] ELSE 0)
                           + (IF x \in RouterName /\ SentOut(n, x, id) THEN 1 ELSE 0)]
  BY <1>1, <1>3, <1>5, <1>8, BecomeIs, Zenon
<1>10. /\ TypesInv' /\ Routes' = Routes
       /\ \A o \in Port : o[1] # x => /\ Queue(nodes', o) = Queue(nodes, o)
                                      /\ Waiting(nodes', o) = Waiting(nodes, o)
  <2>1. sent' \in Seq(Sendings) /\ \A g \in w : OnTheWay(g)
    BY <1>1, <1>5, Zenon DEF TypesInv, w
  <2> QED
    BY <1>1, <1>3, <1>5, <1>8, <2>1, BecomeTypes, Zenon DEF m
<1>11. crossings' = [id \in DOMAIN sent |-> crossings[id] + Outgoing(n, x, id)]
  <2>1. DOMAIN crossings = DOMAIN sent
    BY <1>1, Zenon DEF TypesInv
  <2>2. crossings' = [id \in DOMAIN sent' |->
                        (IF id \in DOMAIN crossings THEN crossings[id] ELSE 0)
                          + (IF x \in RouterName /\ SentOut(n, x, id) THEN 1 ELSE 0)]
    BY <1>9, Zenon
  <2> QED
    BY <1>5, <2>1, <2>2, Zenon DEF Outgoing
<1>12. ASSUME NEW j \in 1 .. Count(x), j # i
       PROVE  /\ Queue(nodes', <<x, j>>) = Queue(nodes, <<x, j>>)
              /\ Waiting(nodes', <<x, j>>) = Waiting(nodes, <<x, j>>)
              /\ n.interfaces[j].nic.frames_out = << >>
  <2>1. n.interfaces[j] = m.interfaces[j]
    BY <1>7, <1>12, Zenon
  <2>2. m.interfaces[j].nic.frames_out = << >>
    BY <1>4, Zenon DEF Drained
  <2> QED
    BY <1>6, <1>9, <2>1, <2>2, Zenon
<1>13. /\ ~forMe => Queue(nodes', p) = Queue(nodes, p)
       /\ forMe => Queue(nodes', p) = Append(Queue(nodes, p), f.frame.payload.dgram)
  BY <1>3, <1>6, <1>7, <1>9, Zenon
<1>14. /\ Waiting(nodes, p) = nic.unknown_datagram_map
       /\ Waiting(nodes', p) = n.interfaces[i].nic.unknown_datagram_map
  BY <1>3, <1>6, <1>9, Zenon
<1>15. Queue(nodes, p) \in Seq(Dgrams)
  BY <1>3, <1>4, <1>6, NodeParts, Zenon
<1> DEFINE v == n.interfaces[i].nic
<1>16. Answers(nic, v, p, s)
  BY <1>7, Zenon
<1> HIDE DEF nic, forMe, v
<1>17. \A o \in Port : o # p /\ o[1] = x =>
         /\ o[2] \in 1 .. Count(x) /\ o[2] # i /\ o = <<x, o[2]>>
  BY <1>3, PortsOfNode, Zenon
<1>18. \A o \in Port : o # p =>
         /\ Queue(nodes', o) = Queue(nodes, o)
         /\ Waiting(nodes', o) = Waiting(nodes, o)
  BY <1>10, <1>12, <1>17, Zenon
<1>19. ASSUME NEW o \in Port, NEW k \in DOMAIN Queue(nodes', o)
       PROVE  \/ /\ k \in DOMAIN Queue(nodes, o)
                 /\ Queue(nodes', o)[k] = Queue(nodes, o)[k]
              \/ /\ o = p /\ Aimed(f)
                 /\ k = Len(Queue(nodes, p)) + 1
                 /\ Queue(nodes', p)[k] = f.frame.payload.dgram
  <2>1. CASE o # p \/ ~forMe
    BY <1>13, <1>18, <2>1, Zenon
  <2>2. CASE o = p /\ forMe
    <3> DEFINE q == Queue(nodes, p)
               d == f.frame.payload.dgram
    <3>1. Queue(nodes', p) = Append(q, d)
      BY <1>13, <2>2, Zenon
    <3>2. Aimed(f)
      BY <2>2, Zenon DEF Aimed, forMe, p
    <3>3. q \in Seq(Dgrams)
      BY <1>15, Zenon
    <3> HIDE DEF q, d
    <3>4. k \in 1 .. Len(q) + 1
      BY <1>19, <2>2, <3>1, <3>3
    <3>5. k \in 1 .. Len(q) => Append(q, d)[k] = q[k]
      BY <3>3
    <3>6. Append(q, d)[Len(q) + 1] = d
      BY <3>3
    <3>7. CASE k \in 1 .. Len(q)
      <4>1. k \in DOMAIN q
        BY <3>3, <3>7
      <4> QED
        BY <2>2, <3>1, <3>5, <3>7, <4>1, Zenon DEF q
    <3>8. CASE k = Len(q) + 1
      BY <2>2, <3>1, <3>2, <3>6, <3>8, Zenon DEF q, d
    <3> QED
      BY <3>3, <3>4, <3>7, <3>8
  <2> QED
    BY <2>1, <2>2, Zenon
<1>20. ASSUME NEW o \in Port, NEW ip \in DOMAIN Waiting(nodes', o)
       PROVE  /\ ip \in DOMAIN Waiting(nodes, o)
              /\ Waiting(nodes', o)[ip] = Waiting(nodes, o)[ip]
  <2>1. CASE o # p
    BY <1>18, <2>1, Zenon
  <2>2. CASE o = p
    BY <1>14, <1>16, <2>2, Zenon DEF Answers, v
  <2> QED
    BY <2>1, <2>2, Zenon
<1>21. ASSUME NEW j \in 1 .. Count(x), NEW g \in Outbox(n.interfaces[j].nic),
              g.payload.kind = "IPv4"
       PROVE  /\ j = i
              /\ \E q \in s :
                   /\ IpOf[q] \in DOMAIN Waiting(nodes, p)
                   /\ IpOf[q] \notin DOMAIN Waiting(nodes', p)
                   /\ g = Frame(Eth(p), Eth(q), Datagram(Waiting(nodes, p)[IpOf[q]]))
  <2>1. j = i
    <3>1. n.interfaces[j].nic.frames_out = << >> => Outbox(n.interfaces[j].nic) = {}
      BY DEF Outbox
    <3> QED
      BY <1>12, <1>21, <3>1, Zenon
  <2>2. g.payload \notin Replies(s)
    BY <1>21 DEF Replies, ARPMessage
  <2>3. g \in Outbox(v)
    BY <1>21, <2>1, Zenon DEF v
  <2>4. /\ Waiting(nodes, p) = nic.unknown_datagram_map
        /\ Waiting(nodes', p) = v.unknown_datagram_map
    BY <1>14, Zenon DEF v
  <2>5. \E q \in s :
          /\ IpOf[q] \in DOMAIN nic.unknown_datagram_map
          /\ IpOf[q] \notin DOMAIN v.unknown_datagram_map
          /\ g = Frame(Eth(p), Eth(q), Datagram(nic.unknown_datagram_map[IpOf[q]]))
    BY <1>16, <1>21, <2>2, <2>3, Zenon DEF Answers
  <2> QED
    BY <2>1, <2>4, <2>5, Zenon
<1>22. TakesIn(f, n)
  BY <1>19, <1>20, <1>21, Zenon DEF TakesIn, x, i, p, s
<1> QED
  BY <1>2, <1>3, <1>5, <1>9, <1>10, <1>11, <1>22, Zenon DEF x, i, n, p, s, m, w

\* RecvFrame keeps the invariant.
LEMMA RecvKeeps ==
  ASSUME NInv, NEW f \in wire, RecvFrame(f)
  PROVE  NInv'
<1> DEFINE p == f.to
           x == p[1]
           n == async_recv_frame(nodes[x], p[2], f.frame)
           old == Copies(nodes, wire)
           new == Copies(nodes', wire')
           wf == Copy("wire", p, f.frame.src, f.frame.payload.dgram)
           gone(b) == b.at = "waits" /\ b.port = p /\ b.key \notin DOMAIN Waiting(nodes', p)
           taken(b) == Aimed(f) /\ b = wf
           stays(b, a) == ~gone(b) /\ ~taken(b) /\ a = b
           arrives(b, a) == /\ taken(b)
                            /\ a = Copy("queue", p, Len(Queue(nodes, p)) + 1, b.dgram)
           leaves(b, a) == /\ gone(b) /\ SentOut(n, x, b.dgram.id)
                           /\ \E q \in PortAt(Link(p) \ {p}, b.key) :
                                a = Copy("wire", q, Eth(p), b.dgram)
           M == {t \in old \X new :
                   stays(t[1], t[2]) \/ arrives(t[1], t[2]) \/ leaves(t[1], t[2])}
<1>1. /\ p \in Port /\ x \in Node /\ p = <<x, p[2]>> /\ f.frame \in Frames(Link(p))
      /\ TypesInv' /\ Routes' = Routes /\ sent' = sent
      /\ wire' = (wire \ {f}) \cup Heard(n, x)
      /\ crossings' = [id \in DOMAIN sent |-> crossings[id] + Outgoing(n, x, id)]
      /\ TakesIn(f, n)
  BY RecvEffect, Zenon
<1>2. p[2] \in 1 .. Count(x) /\ Link(p) \in Segment /\ p \in Link(p)
  BY <1>1, PortsOfNode, LinkOfPort, Zenon
<1>3. /\ UniqueInv /\ TypesInv
      /\ \A g \in wire : OnTheWay(g)
  BY Zenon DEF NInv, TypesInv
<1> HIDE DEF n, x, p
<1>4. ASSUME NEW j \in 1 .. Count(x), NEW g \in Outbox(n.interfaces[j].nic),
             g.payload.kind = "IPv4"
      PROVE  \E q \in Link(p) :
               LET b == Copy("waits", p, IpOf[q], g.payload.dgram) IN
               /\ j = p[2] /\ g = Frame(Eth(p), Eth(q), Datagram(g.payload.dgram))
               /\ b \in old /\ gone(b) /\ b.dgram \in Dgrams
  <2>1. PICK q \in Link(p) :
              /\ j = p[2]
              /\ IpOf[q] \in DOMAIN Waiting(nodes, p)
              /\ IpOf[q] \notin DOMAIN Waiting(nodes', p)
              /\ g = Frame(Eth(p), Eth(q), Datagram(Waiting(nodes, p)[IpOf[q]]))
    BY <1>1, <1>4, Zenon DEF TakesIn, p, x
  <2> DEFINE b == Copy("waits", p, IpOf[q], g.payload.dgram)
  <2>2. g.payload.dgram = Waiting(nodes, p)[IpOf[q]]
    BY <2>1, Zenon DEF Frame, Datagram
  <2>3. b \in old
    BY <1>1, <2>1, <2>2, CopiesAre, Zenon
  <2>4. gone(b)
    BY <2>1, Zenon DEF Copy
  <2>5. Waiting(nodes, p)[IpOf[q]] \in Dgrams
    <3>1. SoundNode(nodes[x], x)
      BY <1>1, <1>3, Zenon DEF TypesInv
    <3> QED
      BY <1>1, <1>2, <2>1, <3>1, NodeParts, Zenon DEF Waiting, x
  <2>6. b.dgram \in Dgrams
    BY <2>2, <2>5, Zenon DEF Copy
  <2> QED
    BY <2>1, <2>2, <2>3, <2>4, <2>6, Zenon
<1>5. \A b \in old : SentOut(n, x, b.dgram.id) => gone(b)
  <2> SUFFICES ASSUME NEW b \in old, SentOut(n, x, b.dgram.id) PROVE gone(b)
    BY Zenon
  <2>1. PICK j \in 1 .. Count(x) : \E g \in Outbox(n.interfaces[j].nic) :
          Carries(g, b.dgram.id)
    BY Zenon DEF SentOut
  <2>2. PICK g \in Outbox(n.interfaces[j].nic) : Carries(g, b.dgram.id)
    BY <2>1, Zenon
  <2>3. g.payload.kind = "IPv4" /\ g.payload.dgram.id = b.dgram.id
    BY <2>2, Zenon DEF Carries
  <2>4. PICK q \in Link(p) :
          LET c == Copy("waits", p, IpOf[q], g.payload.dgram) IN c \in old /\ gone(c)
    BY <1>4, <2>3, Zenon
  <2> DEFINE c == Copy("waits", p, IpOf[q], g.payload.dgram)
  <2>5. c.dgram.id = b.dgram.id
    BY <2>3, Zenon DEF Copy
  <2> HIDE DEF c
  <2>6. b = c
    BY <1>3, <2>4, <2>5, Zenon DEF UniqueInv, c
  <2> QED
    BY <2>4, <2>6, Zenon DEF c
<1>6. \A b, a, c : <<b, a>> \in M /\ <<b, c>> \in M => a = c
  <2> SUFFICES ASSUME NEW b, NEW a, NEW c, <<b, a>> \in M, <<b, c>> \in M PROVE a = c
    BY Zenon
  <2>1. /\ stays(b, a) \/ arrives(b, a) \/ leaves(b, a)
        /\ stays(b, c) \/ arrives(b, c) \/ leaves(b, c)
    BY Zenon
  <2>2. ~(gone(b) /\ taken(b))
    BY DEF Copy
  <2>3. ASSUME leaves(b, a), leaves(b, c) PROVE a = c
    <3> DEFINE near == PortAt(Link(p) \ {p}, b.key)
    <3>1. \A q, o \in near : q = o
      BY <1>2, LinkOfPort, OnePortAt, Zenon
    <3>2. /\ \E q \in near : a = Copy("wire", q, Eth(p), b.dgram)
          /\ \E q \in near : c = Copy("wire", q, Eth(p), b.dgram)
      BY <2>3, Zenon
    <3> HIDE DEF near
    <3> QED
      BY <3>1, <3>2, Zenon
  <2>4. CASE stays(b, a)
    BY <2>1, <2>4, Zenon
  <2>5. CASE arrives(b, a)
    BY <2>1, <2>2, <2>5, Zenon
  <2>6. CASE leaves(b, a)
    BY <2>1, <2>2, <2>3, <2>6, Zenon
  <2> QED
    BY <2>1, <2>4, <2>5, <2>6, Zenon
<1>7. ASSUME NEW a \in new PROVE \E b \in old : <<b, a>> \in M
  <2> SUFFICES \E b \in old : stays(b, a) \/ arrives(b, a) \/ leaves(b, a)
    BY Zenon
  <2>1. CASE IsQueued(a, nodes')
    <3>1. PICK o \in Port : \E k \in DOMAIN Queue(nodes', o) :
            a = Copy("queue", o, k, Queue(nodes', o)[k])
      BY <2>1, Zenon DEF IsQueued
    <3>2. PICK k \in DOMAIN Queue(nodes', o) :
            a = Copy("queue", o, k, Queue(nodes', o)[k])
      BY <3>1, Zenon
    <3>3. CASE k \in DOMAIN Queue(nodes, o) /\ Queue(nodes', o)[k] = Queue(nodes, o)[k]
      <4>1. a \in old
        BY <3>2, <3>3, CopiesAre, Zenon
      <4>2. ~gone(a) /\ ~taken(a)
        BY <3>2, Zenon DEF Copy
      <4> QED
        BY <4>1, <4>2, Zenon
    <3>4. CASE /\ o = p /\ Aimed(f) /\ k = Len(Queue(nodes, p)) + 1
               /\ Queue(nodes', p)[k] = f.frame.payload.dgram
      <4>1. wf \in old
        BY <3>4, CopiesAre, Zenon DEF p
      <4>2. wf.dgram = f.frame.payload.dgram
        BY Zenon DEF Copy
      <4> QED
        BY <3>2, <3>4, <4>1, <4>2, Zenon
    <3> QED
      BY <1>1, <3>3, <3>4, Zenon DEF TakesIn, p
  <2>2. CASE IsWaiting(a, nodes')
    <3>1. PICK o \in Port : \E ip \in DOMAIN Waiting(nodes', o) :
            a = Copy("waits", o, ip, Waiting(nodes', o)[ip])
      BY <2>2, Zenon DEF IsWaiting
    <3>2. PICK ip \in DOMAIN Waiting(nodes', o) :
            a = Copy("waits", o, ip, Waiting(nodes', o)[ip])
      BY <3>1, Zenon
    <3>3. ip \in DOMAIN Waiting(nodes, o) /\ Waiting(nodes', o)[ip] = Waiting(nodes, o)[ip]
      BY <1>1, Zenon DEF TakesIn
    <3>4. a \in old
      BY <3>2, <3>3, CopiesAre, Zenon
    <3>5. ~gone(a) /\ ~taken(a)
      BY <3>2, Zenon DEF Copy
    <3> QED
      BY <3>4, <3>5, Zenon
  <2>3. CASE IsFlying(a, wire')
    <3>1. PICK g \in wire' :
            Aimed(g) /\ a = Copy("wire", g.to, g.frame.src, g.frame.payload.dgram)
      BY <2>3, Zenon DEF IsFlying
    <3>2. CASE g \in wire \ {f}
      <4>1. a \in old
        BY <3>1, <3>2, CopiesAre, Zenon
      <4>2. ~gone(a)
        BY <3>1, Zenon DEF Copy
      <4>3. ASSUME taken(a) PROVE FALSE
        <5>1. /\ Aimed(f) /\ g.to = p /\ g.frame.src = f.frame.src
              /\ g.frame.payload.dgram = f.frame.payload.dgram
          <6>1. IsCopy(a, "wire", g.to, g.frame.src, g.frame.payload.dgram)
            BY <3>1, Zenon DEF IsCopy
          <6>2. Aimed(f) /\ IsCopy(a, "wire", p, f.frame.src, f.frame.payload.dgram)
            BY <4>3, Zenon DEF IsCopy
          <6>3. /\ CopyHas(a, "wire", g.to, g.frame.src, g.frame.payload.dgram)
                /\ CopyHas(a, "wire", p, f.frame.src, f.frame.payload.dgram)
            BY <6>1, <6>2, CopyFields, Zenon
          <6> QED
            BY <6>2, <6>3, Zenon DEF CopyHas
        <5>2. /\ g.frame.payload.kind = "IPv4" /\ g.frame.dst = Eth(p)
              /\ f.frame.payload.kind = "IPv4" /\ f.frame.dst = Eth(p)
          BY <3>1, <5>1, Zenon DEF Aimed, p
        <5>3. /\ g = [to |-> g.to, frame |-> g.frame] /\ f = [to |-> f.to, frame |-> f.frame]
              /\ g.frame \in Frames(Link(p)) /\ f.frame \in Frames(Link(p))
          BY <1>3, <3>2, <5>1, Zenon DEF OnTheWay, p
        <5>4. /\ g.frame = [src |-> g.frame.src, dst |-> g.frame.dst,
                            payload |-> Datagram(g.frame.payload.dgram)]
              /\ f.frame = [src |-> f.frame.src, dst |-> f.frame.dst,
                            payload |-> Datagram(f.frame.payload.dgram)]
          BY <1>2, <5>2, <5>3, FrameParts, Zenon
        <5>5. g.frame = f.frame /\ g.to = f.to
          BY <5>1, <5>2, <5>4, Zenon DEF p
        <5> QED
          BY <3>2, <5>3, <5>5, Zenon
      <4> QED
        BY <4>1, <4>2, <4>3, Zenon
    <3>3. CASE g \in Heard(n, x)
      <4> DEFINE e == g.frame
                 q == g.to
      <4>1. PICK j \in 1 .. Count(x) : /\ e \in Outbox(n.interfaces[j].nic)
                                       /\ q \in Link(<<x, j>>) \ {<<x, j>>}
        BY <3>3, HeardParts, Zenon
      <4>2. a = Copy("wire", q, e.src, e.payload.dgram)
        BY <3>1, Zenon
      <4>3. e.payload.kind = "IPv4" /\ e.dst = Eth(q)
        BY <3>1, Zenon DEF Aimed
      <4> HIDE DEF e, q
      <4>4. PICK o \in Link(p) :
               LET b == Copy("waits", p, IpOf[o], e.payload.dgram) IN
               /\ j = p[2] /\ e = Frame(Eth(p), Eth(o), Datagram(e.payload.dgram))
               /\ b \in old /\ gone(b) /\ b.dgram \in Dgrams
        BY <1>4, <4>1, <4>3, Zenon
      <4> DEFINE b == Copy("waits", p, IpOf[o], e.payload.dgram)
      <4>5. q \in Link(p) \ {p} /\ Link(p) \subseteq Port
        BY <1>1, <1>2, <4>1, <4>4, LinkOfPort, Zenon
      <4>6. o = q /\ e.src = Eth(p)
        <5>1. e.src = Eth(p) /\ e.dst = Eth(o)
          <6>1. IsFrame(e, Eth(p), Eth(o), e.payload.dgram)
            BY <4>4, Zenon DEF IsFrame
          <6>2. FrameHas(e, Eth(p), Eth(o), e.payload.dgram)
            BY <6>1, FrameFields, Zenon
          <6> QED
            BY <6>2, Zenon DEF FrameHas
        <5> QED
          BY <4>3, <4>5, <5>1, EthInjective, Zenon
      <4>7. b.key = IpOf[q] /\ b.dgram = e.payload.dgram
        BY <4>6, Zenon DEF Copy
      <4>8. a = Copy("wire", q, Eth(p), b.dgram)
        BY <4>2, <4>6, <4>7, Zenon
      <4>9. SentOut(n, x, b.dgram.id)
        BY <4>1, <4>3, <4>7, Zenon DEF SentOut, Carries
      <4>10. q \in PortAt(Link(p) \ {p}, b.key)
        BY <4>5, <4>7, Zenon DEF PortAt
      <4>11. b \in old /\ gone(b)
        BY <4>4, Zenon
      <4> HIDE DEF b, gone, old
      <4> QED
        BY <4>8, <4>9, <4>10, <4>11, Zenon
    <3> QED
      BY <1>1, <3>2, <3>3, Zenon
  <2> QED
    BY <2>1, <2>2, <2>3, CopyCases, Zenon
<1>8. ASSUME NEW b \in old, NEW a, <<b, a>> \in M
      PROVE  /\ a.dgram.id = b.dgram.id
             /\ \A s : \A k \in Nat :
                  Fits(Routes, b, s, k)
                    => Fits(Routes, a, s, k + Outgoing(n, x, b.dgram.id))
  <2>1. stays(b, a) \/ arrives(b, a) \/ leaves(b, a)
    BY <1>8, Zenon
  <2>2. CASE stays(b, a)
    <3>1. Outgoing(n, x, b.dgram.id) = 0
      BY <1>5, <2>2, Zenon DEF Outgoing
    <3>2. \A k \in Nat : k + 0 = k
      BY PlusZero, Zenon
    <3> QED
      BY <2>2, <3>1, <3>2, Zenon
  <2>3. CASE arrives(b, a)
    <3>1. ~gone(b) /\ a.dgram = b.dgram /\ b = Copy("wire", p, f.frame.src, b.dgram)
      BY <2>3, Zenon DEF Copy
    <3>2. Outgoing(n, x, b.dgram.id) = 0
      BY <1>5, <3>1, Zenon DEF Outgoing
    <3>3. \A k \in Nat : k + 0 = k
      BY PlusZero, Zenon
    <3>4. \A s, k : Fits(Routes, b, s, k) => Fits(Routes, a, s, k)
      <4> TAKE s, k
      <4> HAVE Fits(Routes, b, s, k)
      <4>1. Fits(Routes, Copy("wire", p, f.frame.src, b.dgram), s, k)
        BY <3>1, Zenon
      <4> HIDE DEF old, wf, gone, M
      <4>2. Fits(Routes, Copy("queue", p, Len(Queue(nodes, p)) + 1, b.dgram), s, k)
        BY <4>1, FitsArrived, Zenon
      <4> QED
        BY <2>3, <4>2, Zenon
    <3> QED
      BY <3>1, <3>2, <3>3, <3>4, Zenon
  <2>4. CASE leaves(b, a)
    <3>1. PICK q \in PortAt(Link(p) \ {p}, b.key) : a = Copy("wire", q, Eth(p), b.dgram)
      BY <2>4, Zenon
    <3>2. a.dgram = b.dgram
      BY <3>1, Zenon DEF Copy
    <3>3. b = Copy("waits", p, b.key, b.dgram)
      BY <1>8, <2>4, CopyRecord, Zenon
    <3>4. Outgoing(n, x, b.dgram.id) = IF p[1] \in RouterName THEN 1 ELSE 0
      BY <2>4, Zenon DEF Outgoing, x
    <3>5. ASSUME NEW s, NEW k \in Nat, Fits(Routes, b, s, k)
          PROVE  Fits(Routes, a, s, k + Outgoing(n, x, b.dgram.id))
      <4>1. Fits(Routes, Copy("waits", p, b.key, b.dgram), s, k)
        BY <3>3, <3>5, Zenon
      <4>2. Fits(Routes, Copy("wire", q, Eth(p), b.dgram), s,
                 k + (IF p[1] \in RouterName THEN 1 ELSE 0))
        <5> HIDE DEF old, M, gone, wf
        <5> QED
          BY <4>1, FitsReleased, Zenon
      <4> QED
        BY <3>1, <3>4, <4>2, Zenon
    <3> QED
      BY <3>2, <3>5, Zenon
  <2> QED
    BY <2>1, <2>2, <2>3, <2>4, Zenon
<1>9. UniqueInv' /\ FitsInv'
  <2> HIDE DEF M
  <2>1. \A a \in new : \E b \in old : <<b, a>> \in M
    BY <1>7, Zenon
  <2>2. \A b \in old : \A a : <<b, a>> \in M =>
           /\ a.dgram.id = b.dgram.id
           /\ \A s : \A k \in Nat :
                Fits(Routes, b, s, k)
                  => Fits(Routes, a, s, k + Outgoing(n, x, b.dgram.id))
    BY <1>8, Zenon
  <2> QED
    BY <1>1, <1>6, <2>1, <2>2, MovesKeep, Zenon
<1>10. BoundInv'
  <2>1. ASSUME NEW j \in 1 .. Count(x), NEW g \in Outbox(n.interfaces[j].nic),
               g.payload.kind = "IPv4"
        PROVE  \E b \in old : b.dgram \in Dgrams /\ Origin(b, g.payload.dgram, x)
    <3>1. PICK q \in Link(p) :
            LET b == Copy("waits", p, IpOf[q], g.payload.dgram) IN
            b \in old /\ b.dgram \in Dgrams
      BY <1>4, <2>1, Zenon
    <3>2. Origin(Copy("waits", p, IpOf[q], g.payload.dgram), g.payload.dgram, x)
      BY Zenon DEF Origin, Copy, x
    <3> QED
      BY <3>1, <3>2, Zenon
  <2>2. wire \ {f} \in SUBSET wire
    BY Zenon
  <2> QED
    BY <1>1, <2>1, <2>2, OriginsKeep, Zenon
<1> QED
  BY <1>1, <1>9, <1>10, Zenon DEF NInv

-----------------------------------------------------------------------------
(* Sending.                                                                *)

\* The addresses that interface i of node x knows.
Known(x, i) == nodes[x].interfaces[i].nic.ip_map

\* What host h does when it sends d: it leaves, or it waits.
PutsOut(h, d, n) ==
  LET p == <<h, 1>> IN
  /\ \A o \in Port : Queue(nodes', o) = Queue(nodes, o)
  /\ \A o \in Port : o # p => Waiting(nodes', o) = Waiting(nodes, o)
  /\ \A ip \in DOMAIN Waiting(nodes', p) :
       \/ /\ ip \in DOMAIN Waiting(nodes, p)
          /\ Waiting(nodes', p)[ip] = Waiting(nodes, p)[ip]
       \/ /\ ip = Gateway[h] /\ Gateway[h] \notin DOMAIN Known(h, 1)
          /\ Waiting(nodes', p)[ip] = d
  /\ \A g \in Outbox(n.interfaces[1].nic) :
       g.payload.kind = "IPv4" =>
         /\ Gateway[h] \in DOMAIN Known(h, 1)
         /\ g = Frame(Eth(p), Known(h, 1)[Gateway[h]].eaddr, Datagram(d))

\* Send does that.
LEMMA SendEffect ==
  ASSUME NInv, NEW h \in Host, NEW dst \in Addresses, NEW ttl \in Nat, Send(h, dst, ttl)
  PROVE  LET d == [id |-> Len(sent) + 1, dst |-> dst, ttl |-> ttl]
             n == [nodes[h] EXCEPT !.interfaces[1].nic = send_datagram(@, d, Gateway[h])]
         IN
         /\ h \in Node /\ Count(h) = 1 /\ <<h, 1>> \in Port /\ SoundNode(nodes[h], h)
         /\ d \in Dgrams
         /\ TypesInv' /\ Routes' = Routes
         /\ sent' = Append(sent, [from |-> h, dst |-> dst, ttl |-> ttl])
         /\ wire' = wire \cup Heard(n, h)
         /\ crossings' = [id \in DOMAIN sent' |->
                            IF id \in DOMAIN crossings THEN crossings[id] ELSE 0]
         /\ PutsOut(h, d, n)
<1> DEFINE d == [id |-> Len(sent) + 1, dst |-> dst, ttl |-> ttl]
           m == nodes[h]
           p == <<h, 1>>
           s == Link(p)
           nic == m.interfaces[1].nic
           hop == Gateway[h]
           v == send_datagram(nic, d, hop)
           n == [m EXCEPT !.interfaces[1].nic = v]
           u == [from |-> h, dst |-> dst, ttl |-> ttl]
<1>1. /\ TypesInv /\ h \in Node /\ Count(h) = 1 /\ p \in Port /\ h \notin RouterName
      /\ hop \in Addresses /\ 1 \in 1 .. Count(h)
  <2>1. TypesInv /\ h \in Node
    BY Zenon DEF NInv, Node
  <2>2. Count(h) = 1 /\ 1 \in 1 .. 1
    BY PortsOfNode
  <2>3. 1 \in 1 .. Count(h)
    BY <2>2, Zenon
  <2>4. p \in Port
    BY <2>1, <2>3, PortsOfNode, Zenon
  <2>5. h \notin RouterName /\ hop \in Addresses
    BY InternetAssumption, Zenon
  <2> QED
    BY <2>1, <2>2, <2>3, <2>4, <2>5, Zenon
<1>2. s \in Segment /\ p \in s
  BY <1>1, LinkOfPort, Zenon
<1>3. SoundNode(m, h) /\ Drained(m, h)
  BY <1>1, Zenon DEF TypesInv
<1>4. sent \in Seq(Sendings) /\ Len(sent) \in Nat /\ u \in Sendings
  BY <1>1 DEF TypesInv, Sendings
<1>5. d \in Dgrams
  BY <1>4, NextDgram, Zenon
<1>6. Sound(nic, p, s) /\ nic.frames_out = << >>
  BY <1>1, <1>3, Zenon DEF SoundNode, Drained
<1>7. sent' = Append(sent, u) /\ Become(h, n, wire)
  BY Zenon DEF Send
<1> HIDE DEF d
<1>8. Sends(nic, v, p, s, d, hop)
  BY <1>1, <1>2, <1>5, <1>6, SendDatagramSends, Zenon
<1> HIDE DEF v, s
<1>9. /\ SoundNode(n, h) /\ n.map_vec = m.map_vec /\ n.interfaces[1].nic = v
      /\ \A j \in 1 .. Count(h) :
           n.interfaces[j].datagrams_out = m.interfaces[j].datagrams_out
  <2>1. Sound(v, <<h, 1>>, Link(<<h, 1>>))
    BY <1>8, Zenon DEF Sends, s
  <2> HIDE DEF p, m
  <2> QED
    BY <1>1, <1>3, <2>1, SetNic
<1> HIDE DEF n
<1>10. /\ \A j \in 1 .. Count(h) :
            /\ Queue(nodes', <<h, j>>) = n.interfaces[j].datagrams_out
            /\ Waiting(nodes', <<h, j>>) = n.interfaces[j].nic.unknown_datagram_map
       /\ wire' = wire \cup Heard(n, h)
       /\ crossings' = [id \in DOMAIN sent' |->
                          (IF id \in DOMAIN crossings THEN crossings[id] ELSE 0)
                            + (IF h \in RouterName /\ SentOut(n, h, id) THEN 1 ELSE 0)]
  BY <1>1, <1>7, <1>9, BecomeIs, Zenon
<1>11. /\ TypesInv' /\ Routes' = Routes
       /\ \A o \in Port : o[1] # h => /\ Queue(nodes', o) = Queue(nodes, o)
                                      /\ Waiting(nodes', o) = Waiting(nodes, o)
  <2>1. sent' \in Seq(Sendings) /\ \A g \in wire : OnTheWay(g)
    BY <1>1, <1>4, <1>7 DEF TypesInv
  <2> QED
    BY <1>1, <1>7, <1>9, <2>1, BecomeTypes, Zenon
<1>12. crossings' = [id \in DOMAIN sent' |->
                       IF id \in DOMAIN crossings THEN crossings[id] ELSE 0]
  <2> DEFINE A(id) == IF id \in DOMAIN crossings THEN crossings[id] ELSE 0
  <2>1. \A id : A(id) \in Nat
    BY <1>1, Zenon DEF TypesInv
  <2>2. crossings' = [id \in DOMAIN sent' |-> A(id) + 0]
    BY <1>1, <1>10, Zenon
  <2> HIDE DEF A
  <2>3. \A id : A(id) + 0 = A(id)
    BY <2>1
  <2>4. crossings' = [id \in DOMAIN sent' |-> A(id)]
    BY <2>2, <2>3, Zenon
  <2> QED
    BY <2>4, Zenon DEF A
<1>13. \A o \in Port : o[1] = h => o = p
  BY <1>1, PortsOfNode
<1>14. /\ Queue(nodes, p) = m.interfaces[1].datagrams_out
       /\ Waiting(nodes, p) = nic.unknown_datagram_map
       /\ Known(h, 1) = nic.ip_map
       /\ Queue(nodes', p) = m.interfaces[1].datagrams_out
       /\ Waiting(nodes', p) = v.unknown_datagram_map
  BY <1>1, <1>9, <1>10, Zenon DEF Queue, Waiting, Known
<1>15. \A o \in Port : Queue(nodes', o) = Queue(nodes, o)
  BY <1>11, <1>13, <1>14, Zenon
<1>16. \A o \in Port : o # p => Waiting(nodes', o) = Waiting(nodes, o)
  BY <1>11, <1>13, Zenon
<1>17. ASSUME NEW ip \in DOMAIN Waiting(nodes', p)
       PROVE  \/ /\ ip \in DOMAIN Waiting(nodes, p)
                 /\ Waiting(nodes', p)[ip] = Waiting(nodes, p)[ip]
              \/ /\ ip = hop /\ hop \notin DOMAIN Known(h, 1)
                 /\ Waiting(nodes', p)[ip] = d
  <2>1. CASE hop \in DOMAIN nic.ip_map
    BY <1>8, <1>14, <1>17, <2>1, Zenon DEF Sends
  <2>2. CASE hop \notin DOMAIN nic.ip_map
    <3>1. Waiting(nodes', p) = Put(Waiting(nodes, p), hop, d)
      BY <1>8, <1>14, <2>2, Zenon DEF Sends
    <3> HIDE DEF hop
    <3> QED
      BY <1>14, <1>17, <2>2, <3>1, Zenon DEF Put
  <2> QED
    BY <2>1, <2>2, Zenon
<1>18. ASSUME NEW g \in Outbox(n.interfaces[1].nic), g.payload.kind = "IPv4"
       PROVE  /\ hop \in DOMAIN Known(h, 1)
              /\ g = Frame(Eth(p), Known(h, 1)[hop].eaddr, Datagram(d))
  <2>1. g \in Outbox(v) /\ Outbox(nic) = {}
    BY <1>6, <1>9, EmptyOutbox, Zenon
  <2>2. g.payload \notin Requests(s)
    BY <1>18 DEF Requests, ARPMessage
  <2> QED
    BY <1>8, <1>14, <2>1, <2>2, Zenon DEF Sends
<1>19. PutsOut(h, d, n)
  BY <1>15, <1>16, <1>17, <1>18, Zenon DEF PutsOut
<1> QED
  BY <1>1, <1>3, <1>5, <1>7, <1>10, <1>11, <1>12, <1>19, Zenon DEF d, n, v

\* Send keeps the invariant.
LEMMA SendKeeps ==
  ASSUME NInv, NEW h \in Host, NEW dst \in Addresses, NEW ttl \in Nat, Send(h, dst, ttl)
  PROVE  NInv'
<1> DEFINE i == Len(sent) + 1
           d == [id |-> i, dst |-> dst, ttl |-> ttl]
           n == [nodes[h] EXCEPT !.interfaces[1].nic = send_datagram(@, d, Gateway[h])]
           u == [from |-> h, dst |-> dst, ttl |-> ttl]
           p == <<h, 1>>
           hop == Gateway[h]
           old == Copies(nodes, wire)
           new == Copies(nodes', wire')
           waits == Copy("waits", p, hop, d)
           leaves(q) == Copy("wire", q, Eth(p), d)
           known == hop \in DOMAIN Known(h, 1)
           target(q) == /\ q \in PortAt(Link(p) \ {p}, hop)
                        /\ Known(h, 1)[hop].eaddr = Eth(q)
<1>1. /\ h \in Node /\ Count(h) = 1 /\ p \in Port /\ SoundNode(nodes[h], h)
      /\ d \in Dgrams
      /\ TypesInv' /\ Routes' = Routes
      /\ sent' = Append(sent, u)
      /\ wire' = wire \cup Heard(n, h)
      /\ crossings' = [id \in DOMAIN sent' |->
                         IF id \in DOMAIN crossings THEN crossings[id] ELSE 0]
      /\ PutsOut(h, d, n)
  BY SendEffect, Zenon
<1>2. TypesInv /\ UniqueInv /\ FitsInv /\ BoundInv
  BY Zenon DEF NInv
<1>3. /\ d.id = i /\ d.dst = dst /\ d.ttl = ttl /\ u.ttl = ttl
  BY Zenon
<1> HIDE DEF n, d
<1>4. /\ DOMAIN sent' = DOMAIN sent \cup {i} /\ i \notin DOMAIN sent
      /\ \A id \in DOMAIN sent : sent'[id] = sent[id] /\ crossings'[id] = crossings[id]
      /\ sent'[i] = u /\ crossings'[i] = 0
  <2>1. sent \in Seq(Sendings) /\ Len(sent) \in Nat /\ DOMAIN crossings = DOMAIN sent
    BY <1>2 DEF TypesInv
  <2> HIDE DEF u
  <2>2. sent' = Append(sent, u)
    BY <1>1, Zenon
  <2>3. /\ DOMAIN sent' = DOMAIN sent \cup {i} /\ i \notin DOMAIN sent
        /\ \A id \in DOMAIN sent : sent'[id] = sent[id]
        /\ sent'[i] = u
    BY <2>1, <2>2
  <2> HIDE DEF i
  <2> QED
    BY <1>1, <2>1, <2>3, Zenon
<1>5. /\ Link(p) \in Segment /\ Link(p) \subseteq Port
      /\ 1 \in 1 .. Count(h) /\ \A j \in 1 .. Count(h) : j = 1
  <2>1. 1 \in 1 .. 1 /\ \A j \in 1 .. 1 : j = 1
    OBVIOUS
  <2> QED
    BY <1>1, <2>1, LinkOfPort, Zenon
<1>6. ASSUME NEW g \in Heard(n, h), g.frame.payload.kind = "IPv4"
      PROVE  /\ known /\ g.to \in Link(p) \ {p}
             /\ g.frame = Frame(Eth(p), Known(h, 1)[hop].eaddr, Datagram(d))
  <2>1. PICK j \in 1 .. Count(h) : /\ g.frame \in Outbox(n.interfaces[j].nic)
                                   /\ g.to \in Link(<<h, j>>) \ {<<h, j>>}
    BY <1>6, HeardParts, Zenon
  <2>2. g.frame \in Outbox(n.interfaces[1].nic) /\ g.to \in Link(p) \ {p}
    BY <1>5, <2>1, Zenon
  <2> QED
    BY <1>1, <1>6, <2>2, Zenon DEF PutsOut
<1>7. ASSUME NEW a \in new
      PROVE  a \in old \/ (~known /\ a = waits) \/ (known /\ \E q : target(q) /\ a = leaves(q))
  <2>1. CASE IsQueued(a, nodes')
    <3>1. \A o \in Port : Queue(nodes', o) = Queue(nodes, o)
      BY <1>1, Zenon DEF PutsOut
    <3>2. PICK o \in Port : \E k \in DOMAIN Queue(nodes', o) :
            a = Copy("queue", o, k, Queue(nodes', o)[k])
      BY <2>1, Zenon DEF IsQueued
    <3>3. PICK k \in DOMAIN Queue(nodes', o) : a = Copy("queue", o, k, Queue(nodes', o)[k])
      BY <3>2, Zenon
    <3>4. k \in DOMAIN Queue(nodes, o) /\ a = Copy("queue", o, k, Queue(nodes, o)[k])
      BY <3>1, <3>3, Zenon
    <3> QED
      BY <3>4, CopiesAre, Zenon
  <2>2. CASE IsWaiting(a, nodes')
    <3>1. PICK o \in Port : \E ip \in DOMAIN Waiting(nodes', o) :
            a = Copy("waits", o, ip, Waiting(nodes', o)[ip])
      BY <2>2, Zenon DEF IsWaiting
    <3>2. PICK ip \in DOMAIN Waiting(nodes', o) :
            a = Copy("waits", o, ip, Waiting(nodes', o)[ip])
      BY <3>1, Zenon
    <3>3. CASE /\ ip \in DOMAIN Waiting(nodes, o)
               /\ Waiting(nodes', o)[ip] = Waiting(nodes, o)[ip]
      BY <3>2, <3>3, CopiesAre, Zenon
    <3>4. CASE o = p /\ ip = hop /\ ~known /\ Waiting(nodes', p)[ip] = d
      BY <3>2, <3>4, Zenon
    <3> HIDE DEF p, hop
    <3> QED
      BY <1>1, <3>3, <3>4, Zenon DEF PutsOut, p, hop
  <2>3. CASE IsFlying(a, wire')
    <3>1. PICK g \in wire' :
            Aimed(g) /\ a = Copy("wire", g.to, g.frame.src, g.frame.payload.dgram)
      BY <2>3, Zenon DEF IsFlying
    <3>2. CASE g \in wire
      BY <3>1, <3>2, CopiesAre, Zenon
    <3>3. CASE g \in Heard(n, h)
      <4>1. /\ known /\ g.to \in Link(p) \ {p}
            /\ g.frame = Frame(Eth(p), Known(h, 1)[hop].eaddr, Datagram(d))
        BY <1>6, <3>1, <3>3, Zenon DEF Aimed
      <4>2. /\ g.frame.src = Eth(p) /\ g.frame.payload.dgram = d
            /\ Known(h, 1)[hop].eaddr = Eth(g.to)
        <5>1. /\ g.frame.src = Eth(p) /\ g.frame.payload.dgram = d
              /\ g.frame.dst = Known(h, 1)[hop].eaddr
          <6>1. IsFrame(g.frame, Eth(p), Known(h, 1)[hop].eaddr, d)
            BY <4>1, Zenon DEF IsFrame
          <6>2. FrameHas(g.frame, Eth(p), Known(h, 1)[hop].eaddr, d)
            BY <6>1, FrameFields, Zenon
          <6> QED
            BY <6>2, Zenon DEF FrameHas
        <5> QED
          BY <3>1, <5>1, Zenon DEF Aimed
      <4>3. PICK q \in Link(p) : hop = IpOf[q] /\ Known(h, 1)[hop].eaddr = Eth(q)
        <5>1. Sound(nodes[h].interfaces[1].nic, p, Link(p))
          BY <1>1, <1>5, Zenon DEF SoundNode
        <5> QED
          BY <4>1, <5>1, Zenon DEF Sound, Known
      <4>4. q = g.to
        BY <1>5, <4>1, <4>2, <4>3, EthInjective, Zenon
      <4>5. target(g.to) /\ a = leaves(g.to)
        BY <3>1, <4>1, <4>2, <4>3, <4>4, Zenon DEF PortAt
      <4> QED
        BY <4>1, <4>5, Zenon
    <3> QED
      BY <1>1, <3>2, <3>3, Zenon
  <2> QED
    BY <2>1, <2>2, <2>3, CopyCases, Zenon
<1>8. /\ waits.dgram = d
      /\ \A q : leaves(q).dgram = d
  BY Zenon DEF Copy
<1>9. \A q, o : target(q) /\ target(o) => q = o
  BY <1>5, EthInjective, Zenon DEF PortAt
<1>10. \A a \in old : a.dgram.id \in DOMAIN sent
  BY <1>2, Zenon DEF FitsInv
<1> HIDE DEF target, waits, leaves, known, old, new, i, u
<1>11. UniqueInv'
  <2> SUFFICES ASSUME NEW a \in new, NEW b \in new, a.dgram.id = b.dgram.id
               PROVE  a = b
    BY Zenon DEF UniqueInv, new
  <2>1. CASE a \in old /\ b \in old
    BY <1>2, <2>1, Zenon DEF UniqueInv, old
  <2>2. CASE a \notin old /\ b \notin old
    BY <1>7, <1>9, <2>2, Zenon
  <2>3. \A c \in new : c \notin old => c.dgram.id = i
    BY <1>3, <1>7, <1>8, Zenon
  <2> QED
    BY <1>4, <1>10, <2>1, <2>2, <2>3, Zenon
<1>12. FitsInv'
  <2> SUFFICES ASSUME NEW a \in new
               PROVE  /\ a.dgram.id \in DOMAIN sent'
                      /\ Fits(Routes, a, sent'[a.dgram.id], crossings'[a.dgram.id])
    BY <1>1, Zenon DEF FitsInv, new
  <2>1. CASE a \in old
    BY <1>2, <1>4, <2>1, Zenon DEF FitsInv, old
  <2>2. /\ Fits(Routes, waits, u, 0)
        /\ \A q : target(q) => Fits(Routes, leaves(q), u, 0)
    <3>1. /\ Fits(Routes, Copy("waits", <<h, 1>>, Gateway[h], d), u, 0)
          /\ \A q \in PortAt(Link(<<h, 1>>) \ {<<h, 1>>}, Gateway[h]) : \A j :
               Fits(Routes, Copy("wire", q, j, d), u, 0)
      BY <1>3, FitsSent, Zenon DEF u
    <3> QED
      BY <3>1, Zenon DEF waits, leaves, target
  <2>3. CASE a \notin old
    <3>1. a.dgram.id = i /\ Fits(Routes, a, u, 0)
      BY <1>3, <1>7, <1>8, <2>2, <2>3, Zenon
    <3> QED
      BY <1>4, <3>1, Zenon
  <2> QED
    BY <2>1, <2>3, Zenon
<1>13. BoundInv'
  <2>1. \A id \in DOMAIN sent' :
          crossings'[id] <= IF sent'[id].ttl = 0 THEN 0 ELSE sent'[id].ttl - 1
    <3>1. 0 <= IF ttl = 0 THEN 0 ELSE ttl - 1
      OBVIOUS
    <3> QED
      BY <1>2, <1>3, <1>4, <3>1, Zenon DEF BoundInv
  <2> DEFINE Fine(e) == e.id \in DOMAIN sent' /\ e.ttl + crossings'[e.id] >= sent'[e.id].ttl
  <2>2. ASSUME NEW f \in wire', f.frame.payload.kind = "IPv4"
        PROVE  Fine(f.frame.payload.dgram)
    <3> DEFINE e == f.frame.payload.dgram
    <3>1. CASE f \in wire
      <4>1. e.id \in DOMAIN sent /\ e.ttl + crossings[e.id] >= sent[e.id].ttl
        BY <1>2, <2>2, <3>1, Zenon DEF BoundInv
      <4> HIDE DEF e
      <4>2. Fine(e)
        BY <1>4, <4>1, Zenon
      <4> HIDE DEF Fine
      <4> QED
        BY <4>2, Zenon DEF e
    <3>2. CASE f \in Heard(n, h)
      <4>1. e = d
        BY <1>6, <2>2, <3>2 DEF Frame, Datagram
      <4>2. ttl + 0 >= ttl
        BY PlusZero, Zenon
      <4>3. Fine(d)
        BY <1>3, <1>4, <4>2, Zenon
      <4> HIDE DEF Fine
      <4> QED
        BY <4>1, <4>3, Zenon
    <3> HIDE DEF Fine
    <3> QED
      BY <1>1, <3>1, <3>2, Zenon
  <2> QED
    BY <2>1, <2>2, Zenon DEF BoundInv
<1> QED
  BY <1>1, <1>11, <1>12, <1>13, Zenon DEF NInv
=============================================================================
