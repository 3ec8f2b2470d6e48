------------------------------ MODULE Internet ------------------------------
(***************************************************************************)
(* Hosts and Routers on several Ethernet segments, as apps/lab7.cc and     *)
(* apps/network_simulator.cc connect them.  A host is a node with one      *)
(* AsyncNetworkInterface, whose queue is what the host received, and with  *)
(* no routing table.  Frames on the way arrive in any order; the times are *)
(* short of the expiry of an ARP entry.                                    *)
(***************************************************************************)
EXTENDS Router, FiniteSets

CONSTANTS
  Host, Gateway,  \* the hosts, and [Host -> the next hop of all they send]
  RouterName,     \* the routers
  Tables,         \* [RouterName -> the possible sequences of calls of add_route]
  Segment,        \* sets of ports <<node, interface>> that hear each other
  IpOf,           \* [ports -> addresses]
  Traffic,        \* the pairs of a host and a destination for which it sends
  Ttls,           \* the times to live that a datagram may start with
  MaxDgrams       \* bound: the datagrams sent

Port == UNION Segment

Link(p) == CHOOSE s \in Segment : p \in s

Ports(node) == {p \in Port : p[1] = node}

PortAt(s, ip) == {p \in s : IpOf[p] = ip}

ASSUME InternetAssumption ==
  /\ Host \cap RouterName = {}
  /\ Port \subseteq (Host \cup RouterName) \X (Nat \ {0})
  /\ IpOf \in [Port -> Addresses]
  /\ \A p, q \in Port : p # q => IpOf[p] # IpOf[q]
  /\ \A s, t \in Segment : s # t => s \cap t = {}
  /\ \A node \in Host \cup RouterName :
       /\ Cardinality(Ports(node)) \in Nat \ {0}
       /\ Ports(node) = {<<node, i>> : i \in 1 .. Cardinality(Ports(node))}
  /\ \A h \in Host : Cardinality(Ports(h)) = 1
  /\ Gateway \in [Host -> Addresses]
  /\ \A r \in RouterName : Tables[r] \subseteq
       Seq([route_prefix : Addresses, prefix_length : 0 .. AddressBits,
            next_hop : Addresses \cup {Direct},
            interface_num : 0 .. Cardinality(Ports(r)) - 1])
  /\ Traffic \subseteq Host \X Addresses
  /\ Ttls \subseteq Nat

VARIABLES
  nodes,      \* the hosts and routers, the frame queues of their interfaces drained
  wire,       \* the frames on the way, each with the port it is on the way to
  sent,       \* history: the sender, the destination and the time to live of each
              \* datagram, in order
  crossings,  \* history: how often each datagram was sent out by a router
  replaced    \* history: the datagrams whose place another took while they waited

vars == <<nodes, wire, sent, crossings, replaced>>

\* A node with n interfaces.
WithInterfaces(node, n) ==
  LET upTo[i \in 0 .. n] ==
        IF i = 0 THEN NewRouter
        ELSE add_interface(upTo[i - 1],
                           NewNetworkInterface(<<"eth", node, i>>, IpOf[<<node, i>>]))
  IN  upTo[n]

\* What a sequence of calls of add_route may leave in the table.
Configured(r, table) ==
  LET after[k \in 0 .. Len(table)] ==
        IF k = 0 THEN {r}
        ELSE UNION {{add_route(q, masked, table[k].prefix_length,
                               table[k].next_hop, table[k].interface_num) :
                       masked \in MaskedPrefixes(table[k].route_prefix,
                                                 table[k].prefix_length)} :
                      q \in after[k - 1]}
  IN  after[Len(table)]

NewRouters(r) ==
  UNION {Configured(WithInterfaces(r, Cardinality(Ports(r))), table) :
           table \in Tables[r]}

Init ==
  /\ nodes \in {f \in [Host \cup RouterName ->
                         (UNION {NewRouters(r) : r \in RouterName})
                           \cup {WithInterfaces(h, 1) : h \in Host}] :
                  /\ \A h \in Host : f[h] = WithInterfaces(h, 1)
                  /\ \A r \in RouterName : f[r] \in NewRouters(r)}
  /\ wire = {}
  /\ sent = << >>
  /\ crossings = << >>
  /\ replaced = {}

-----------------------------------------------------------------------------
\* The routing tables.
Routes == [r \in RouterName |-> nodes[r].map_vec]

\* The interface and the next hop for which a datagram for dst leaves this node.
WayOut(routes, node, dst) ==
  IF node \in Host THEN [interface |-> 1, hop |-> Gateway[node]]
  ELSE LET c == Choice(routes[node], dst)
       IN  [interface |-> c.interface_num + 1,
            hop |-> IF c.next_hop = Direct THEN dst ELSE c.next_hop]

Carries(frame, id) == frame.payload.kind = "IPv4" /\ frame.payload.dgram.id = id

\* Another datagram waits where datagram id would, in the node that is now n.
PlaceTaken(node, n, id) ==
  LET way  == WayOut(Routes, node, sent'[id].dst)
      here == n.interfaces[way.interface].nic.unknown_datagram_map
  IN  way.hop \in DOMAIN here /\ here[way.hop].id # id

\* The datagrams that a node has to send: they wait, or they have arrived at a
\* router in time.
ToSend(node, n) ==
  (UNION {{q[k].id : k \in {j \in DOMAIN q : node \in RouterName /\ q[j].ttl > 1}} :
            q \in {n.interfaces[i].datagrams_out : i \in DOMAIN n.interfaces}})
    \cup
  (UNION {{m[ip].id : ip \in DOMAIN m} :
            m \in {n.interfaces[i].nic.unknown_datagram_map : i \in DOMAIN n.interfaces}})

\* The frames that the interfaces of node, now n, have queued, with their ports.
Queued(node, n) ==
  UNION {{[from |-> <<node, i>>, frame |-> n.interfaces[i].nic.frames_out[k]] :
            k \in DOMAIN n.interfaces[i].nic.frames_out} : i \in DOMAIN n.interfaces}

\* Node becomes n, and what its interfaces queued goes to all other ports of
\* their segments, along with the frames w on the way.
Become(node, n, w) ==
  LET out == Queued(node, n)
  IN  /\ nodes' = [nodes EXCEPT ![node] =
                     [n EXCEPT !.interfaces = [i \in DOMAIN @ |->
                        [@[i] EXCEPT !.nic.frames_out = << >>]]]]
      /\ wire' = w \cup UNION {{[to |-> p, frame |-> o.frame] :
                                  p \in Link(o.from) \ {o.from}} : o \in out}
      /\ replaced' = replaced \cup
           {id \in ToSend(node, nodes[node]) \ ToSend(node, n) :
              /\ \A o \in out : ~Carries(o.frame, id)
              /\ PlaceTaken(node, n, id)}
      /\ crossings' = [id \in DOMAIN sent' |->
                         (IF id \in DOMAIN crossings THEN crossings[id] ELSE 0)
                           + IF /\ node \in RouterName
                                /\ \E o \in out : Carries(o.frame, id)
                             THEN 1 ELSE 0]

\* Host::send_to, or the write() of lab7's adapter.
Send(h, dst, ttl) ==
  LET dgram == [id |-> Len(sent) + 1, dst |-> dst, ttl |-> ttl]
  IN  /\ Len(sent) < MaxDgrams
      /\ sent' = Append(sent, [from |-> h, dst |-> dst, ttl |-> ttl])
      /\ Become(h, [nodes[h] EXCEPT !.interfaces[1].nic =
                      send_datagram(@, dgram, Gateway[h])], wire)

RecvFrame(f) ==
  /\ UNCHANGED sent
  /\ Become(f.to[1], async_recv_frame(nodes[f.to[1]], f.to[2], f.frame), wire \ {f})

Route(r) ==
  /\ UNCHANGED sent
  /\ Become(r, route(nodes[r]), wire)

Next ==
  \/ \E t \in Traffic, ttl \in Ttls : Send(t[1], t[2], ttl)
  \/ \E f \in wire : RecvFrame(f)
  \/ \E r \in RouterName : Route(r)

Spec == Init /\ [][Next]_vars

\* Every frame arrives, and the owner of a router keeps calling route().
FairSpec ==
  /\ Spec
  /\ []<>(wire = {}) \/ []<><<\E f \in wire : RecvFrame(f)>>_vars
  /\ \A r \in RouterName :
       []<>(Arrived(nodes[r]) = << >>) \/ []<><<Route(r)>>_vars

-----------------------------------------------------------------------------
\* The routes that match a destination, bit by bit, by their place in the table.
Matching(r, dst) ==
  LET bit(a, k) == (a \div 2 ^ k) % 2
  IN  {i \in DOMAIN Routes[r] :
         \A k \in AddressBits - Routes[r][i].prefix_length .. AddressBits - 1 :
           bit(dst, k) = bit(Routes[r][i].route_prefix, k)}

\* Route i is the one that is taken for dst.
Taken(r, dst, i) ==
  /\ Choice(Routes[r], dst).interface_num = Routes[r][i].interface_num
  /\ Choice(Routes[r], dst).next_hop = Routes[r][i].next_hop

\* When some route matches a datagram, the route taken matches it, and it is of
\* the greatest length if the table is sorted by length and its prefixes have
\* zeroes where a uint8_t looks.
TakesAMatch ==
  \A r \in RouterName : \A t \in Traffic : LET dst == t[2] IN Matching(r, dst) # {} =>
    \E i \in Matching(r, dst) :
      /\ Taken(r, dst, i)
      /\ \/ \E j \in DOMAIN Routes[r] : Routes[r][j].route_prefix % LengthModulus # 0
         \/ \E j, k \in DOMAIN Routes[r] :
              j < k /\ Routes[r][j].prefix_length > Routes[r][k].prefix_length
         \/ \A j \in Matching(r, dst) :
              Routes[r][j].prefix_length <= Routes[r][i].prefix_length

\* A datagram that waits at a router for an address waits on the interface and for
\* the next hop of "the route with the longest prefix_length that matches the
\* datagram's destination address", if a route matches.
TakesLongest ==
  \A r \in RouterName : \A i \in DOMAIN nodes[r].interfaces :
    LET waits == nodes[r].interfaces[i].nic.unknown_datagram_map
    IN  \A hop \in DOMAIN waits :
          LET dst     == waits[hop].dst
              longest == {k \in Matching(r, dst) : \A j \in Matching(r, dst) :
                            Routes[r][j].prefix_length <= Routes[r][k].prefix_length}
          IN  Matching(r, dst) # {} =>
                \E k \in longest :
                  /\ Routes[r][k].interface_num + 1 = i
                  /\ hop = IF Routes[r][k].next_hop = Direct THEN dst
                           ELSE Routes[r][k].next_hop

\* The routers together send a datagram out less often than the time to live it
\* started with, also when their tables send it in a circle and when it waits for
\* an address in between; no router sends one with nothing left.
CrossingsBounded ==
  \A id \in DOMAIN sent :
    /\ crossings[id] <= IF sent[id].ttl = 0 THEN 0 ELSE sent[id].ttl - 1
    /\ \A f \in wire : Carries(f.frame, id) /\ crossings[id] > 0 =>
         f.frame.payload.dgram.ttl > 0

-----------------------------------------------------------------------------
\* Where datagram id is: queued at an interface or received by a host, waiting
\* for an address, or on the way to the port that it is meant for.
Places(id) ==
  LET nicOf(p) == nodes[p[1]].interfaces[p[2]]
  IN  (UNION {{[at |-> "queue", port |-> p, key |-> k,
                dgram |-> nicOf(p).datagrams_out[k]] :
                 k \in {j \in DOMAIN nicOf(p).datagrams_out :
                          nicOf(p).datagrams_out[j].id = id}} : p \in Port})
        \cup
      (UNION {{[at |-> "waits", port |-> p, key |-> ip,
                dgram |-> nicOf(p).nic.unknown_datagram_map[ip]] :
                 ip \in {a \in DOMAIN nicOf(p).nic.unknown_datagram_map :
                           nicOf(p).nic.unknown_datagram_map[a].id = id}} : p \in Port})
        \cup
      {[at |-> "wire", port |-> f.to, key |-> 0, dgram |-> f.frame.payload.dgram] :
         f \in {g \in wire : Carries(g.frame, id)
                               /\ g.frame.dst = <<"eth", g.to[1], g.to[2]>>}}

\* Where a datagram for dst that reaches node with this time to live ends up when
\* nothing interferes: the ports of a host, or none.
Fate(routes, node, dst, ttl) ==
  LET end[t \in 0 .. ttl] == [n \in Host \cup RouterName |->
        IF n \in Host THEN Ports(n)
        ELSE IF t <= 1 THEN {}
        ELSE LET way  == WayOut(routes, n, dst)
                 port == <<n, way.interface>>
             IN  UNION {end[t - 1][p[1]] : p \in PortAt(Link(port) \ {port}, way.hop)}]
  IN  end[ttl][node]

GatewayOf(h) == CHOOSE p \in Link(<<h, 1>>) : IpOf[p] = Gateway[h]

Received(h, id) ==
  \E k \in DOMAIN nodes[h].interfaces[1].datagrams_out :
    nodes[h].interfaces[1].datagrams_out[k].id = id

\* The ports at which datagram id is due.
Due(id) == Fate(Routes, GatewayOf(sent[id].from)[1], sent[id].dst, sent[id].ttl)

\* There is one copy of a datagram at most, and wherever it is, it has been
\* relieved of one unit of its time to live for each router that it crossed or
\* that holds it for an address.  No host but the one to which the tables lead it
\* receives it.
OneCopy ==
  \A id \in DOMAIN sent :
    /\ \A p, q \in Places(id) : p = q
    /\ \A p \in Places(id) :
         /\ p.dgram = [id |-> id, dst |-> sent[id].dst,
                       ttl |-> sent[id].ttl - crossings[id]
                                 - IF p.at = "waits" /\ p.port[1] \in RouterName
                                   THEN 1 ELSE 0]
         /\ p.at = "queue" /\ p.port[1] \in Host => p.port \in Due(id)

\* However the frames of several datagrams and of the ARP exchanges on every
\* segment interleave, a datagram reaches the host to which the tables lead it,
\* unless another took its place while it waited for an address.
ArrivesAsRouted ==
  \A id \in 1 .. MaxDgrams :
    id \in DOMAIN sent ~>
      /\ id \in DOMAIN sent
      /\ id \in replaced \/ \A p \in Due(id) : Received(p[1], id)
=============================================================================
