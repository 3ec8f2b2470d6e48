--------------------------- MODULE InternetProofs ---------------------------
(***************************************************************************)
(* For any hosts, routers, segments and tables, and any number of          *)
(* datagrams: routing takes a route that matches, a datagram is in one     *)
(* place at most and crosses less routers than it may live, and only the   *)
(* host to which the tables lead it receives it.                           *)
(***************************************************************************)
EXTENDS InternetLemmas

-----------------------------------------------------------------------------
(* The loop over the routing table.                                        *)

\* One round of the loop of route_one_datagram.
Looked(map_vec, dest_ip, i, best) ==
  LET item == map_vec[i]
  IN  IF /\ matched_prefix_length(dest_ip, item.route_prefix, item.prefix_length)
         /\ item.route_prefix >= best.max_match_length
      THEN [max_match_length |-> item.route_prefix % LengthModulus,
            interface_num |-> item.interface_num,
            next_hop |-> item.next_hop]
      ELSE best

\* f holds what the loop has after each of its first n rounds.
IsScan(map_vec, dest_ip, f, n) ==
  f = [i \in 0 .. n |->
         IF i = 0 THEN NoChoice ELSE Looked(map_vec, dest_ip, i, f[i - 1])]

Scan(map_vec, dest_ip) == CHOOSE f : IsScan(map_vec, dest_ip, f, Len(map_vec))

\* The loop can be run for any number of rounds.
LEMMA ScanExists ==
  ASSUME NEW map_vec, NEW dest_ip, NEW n \in Nat
  PROVE  \E f : IsScan(map_vec, dest_ip, f, n)
<1> DEFINE Bad == {k \in Nat : ~\E f : IsScan(map_vec, dest_ip, f, k)}
           step(k, b) == Looked(map_vec, dest_ip, k, b)
<1> SUFFICES ASSUME Bad # {} PROVE FALSE
  BY Zenon
<1>1. PICK k \in Bad : \A j \in Bad : k <= j
  <2>1. Bad \in SUBSET Nat
    BY Zenon
  <2> HIDE DEF Bad
  <2> QED
    BY <2>1, LeastOfSet, Zenon
<1>2. CASE k = 0
  <2> DEFINE g == [i \in 0 .. 0 |-> NoChoice]
  <2>1. g = [i \in 0 .. 0 |-> IF i = 0 THEN NoChoice ELSE step(i, g[i - 1])]
    <3> HIDE DEF step
    <3> QED
      OBVIOUS
  <2> QED
    BY <1>2, <2>1, Zenon DEF IsScan
<1>3. CASE k > 0
  <2>1. k - 1 \in Nat /\ k - 1 \notin Bad
    BY <1>1, <1>3
  <2>2. PICK f : IsScan(map_vec, dest_ip, f, k - 1)
    BY <2>1, Zenon
  <2> DEFINE g == [i \in 0 .. k |-> IF i = k THEN step(k, f[k - 1]) ELSE f[i]]
  <2>3. f = [i \in 0 .. k - 1 |-> IF i = 0 THEN NoChoice ELSE step(i, f[i - 1])]
    BY <2>2, Zenon DEF IsScan
  <2>4. g = [i \in 0 .. k |-> IF i = 0 THEN NoChoice ELSE step(i, g[i - 1])]
    <3> HIDE DEF step
    <3>1. \A i \in 0 .. k - 1 : f[i] = IF i = 0 THEN NoChoice ELSE step(i, f[i - 1])
      BY <2>3, Zenon
    <3>2. \A i \in 0 .. k : g[i] = IF i = 0 THEN NoChoice ELSE step(i, g[i - 1])
      BY <3>1, <1>3, <1>1
    <3> QED
      BY <3>2, Zenon
  <2> QED
    BY <2>4, <1>1, Zenon DEF IsScan
<1> QED
  BY <1>1, <1>2, <1>3

\* Choice is what the loop has after the last round.
LEMMA ChoiceIs ==
  ASSUME NEW map_vec, NEW dest_ip, Len(map_vec) \in Nat
  PROVE  /\ Choice(map_vec, dest_ip) = Scan(map_vec, dest_ip)[Len(map_vec)]
         /\ Scan(map_vec, dest_ip)[0] = NoChoice
         /\ \A i \in 1 .. Len(map_vec) :
              Scan(map_vec, dest_ip)[i]
                = Looked(map_vec, dest_ip, i, Scan(map_vec, dest_ip)[i - 1])
<1> DEFINE f == Scan(map_vec, dest_ip)
<1>1. Choice(map_vec, dest_ip) = f[Len(map_vec)]
  BY Zenon DEF Choice, Scan, IsScan, Looked
<1>2. \E g : IsScan(map_vec, dest_ip, g, Len(map_vec))
  BY ScanExists, Zenon
<1>3. IsScan(map_vec, dest_ip, f, Len(map_vec))
  BY <1>2, Zenon DEF Scan
<1> HIDE DEF f
<1>4. f = [i \in 0 .. Len(map_vec) |->
             IF i = 0 THEN NoChoice ELSE Looked(map_vec, dest_ip, i, f[i - 1])]
  BY <1>3, Zenon DEF IsScan
<1>5. f[0] = NoChoice
  BY <1>4
<1>6. \A i \in 1 .. Len(map_vec) : f[i] = Looked(map_vec, dest_ip, i, f[i - 1])
  BY <1>4
<1> QED
  BY <1>1, <1>5, <1>6, Zenon DEF f

-----------------------------------------------------------------------------
(* Which route is taken.                                                   *)

\* Wherever the loop stops, it has an interface of the router and a next hop.
LEMMA ChoiceTyped ==
  ASSUME NEW count \in Nat \ {0}, NEW map_vec \in Seq(Rows(count)), NEW dest_ip
  PROVE  /\ Choice(map_vec, dest_ip).interface_num \in 0 .. count - 1
         /\ Choice(map_vec, dest_ip).next_hop \in Addresses \cup {Direct}
<1> DEFINE f == Scan(map_vec, dest_ip)
           ok(b) == /\ b.interface_num \in 0 .. count - 1
                    /\ b.next_hop \in Addresses \cup {Direct}
           Bad == {k \in Nat : k <= Len(map_vec) /\ ~ok(f[k])}
<1>1. Len(map_vec) \in Nat
  OBVIOUS
<1>2. /\ Choice(map_vec, dest_ip) = f[Len(map_vec)]
      /\ f[0] = NoChoice
      /\ \A i \in 1 .. Len(map_vec) : f[i] = Looked(map_vec, dest_ip, i, f[i - 1])
  BY <1>1, ChoiceIs, Zenon
<1> HIDE DEF f
<1>3. ok(NoChoice)
  BY DEF NoChoice
<1>4. ASSUME NEW i \in 1 .. Len(map_vec), NEW b, ok(b)
      PROVE  ok(Looked(map_vec, dest_ip, i, b))
  <2>1. map_vec[i] \in Rows(count)
    OBVIOUS
  <2>2. /\ map_vec[i].interface_num \in 0 .. count - 1
        /\ map_vec[i].next_hop \in Addresses \cup {Direct}
    BY <2>1, Zenon DEF Rows
  <2> QED
    BY <1>4, <2>2, Zenon DEF Looked
<1> HIDE DEF ok
<1>5. Bad = {}
  <2> SUFFICES ASSUME Bad # {} PROVE FALSE
    BY Zenon
  <2>1. PICK k \in Bad : \A j \in Bad : k <= j
    <3>1. Bad \in SUBSET Nat
      BY Zenon
    <3> HIDE DEF Bad
    <3> QED
      BY <3>1, LeastOfSet, Zenon
  <2>2. k # 0
    BY <1>2, <1>3, <2>1, Zenon
  <2>3. k \in 1 .. Len(map_vec) /\ k - 1 \in Nat /\ k - 1 <= Len(map_vec)
    BY <1>1, <2>1, <2>2
  <2>4. ok(f[k - 1])
    BY <2>1, <2>3
  <2> QED
    BY <1>2, <1>4, <2>1, <2>3, <2>4, Zenon
<1>6. ok(f[Len(map_vec)])
  BY <1>1, <1>5
<1> QED
  BY <1>2, <1>6, Zenon DEF ok

\* The interface and the next hop that a table has for dst.
RouteOf(map_vec, dst) ==
  [interface |-> Choice(map_vec, dst).interface_num + 1,
   hop |-> IF Choice(map_vec, dst).next_hop = Direct THEN dst
           ELSE Choice(map_vec, dst).next_hop]

\* It leads out of the node.
LEMMA RouteTyped ==
  ASSUME NEW x \in Node, NEW map_vec \in Seq(Rows(Count(x))), NEW dst \in Addresses
  PROVE  /\ RouteOf(map_vec, dst).interface \in 1 .. Count(x)
         /\ RouteOf(map_vec, dst).hop \in Addresses
<1>1. Count(x) \in Nat \ {0}
  BY PortsOfNode, Zenon
<1>2. /\ Choice(map_vec, dst).interface_num \in 0 .. Count(x) - 1
      /\ Choice(map_vec, dst).next_hop \in Addresses \cup {Direct}
  BY <1>1, ChoiceTyped, Zenon
<1> QED
  BY <1>1, <1>2 DEF RouteOf

\* route_one_datagram sends what has time left out of one interface.
LEMMA RouteOne ==
  ASSUME NEW x \in Node, NEW m, SoundNode(m, x), NEW d \in Dgrams, d.ttl \notin {0, 1}
  PROVE  LET n == route_one_datagram(m, d)
             w == RouteOf(m.map_vec, d.dst)
         IN
         /\ SoundNode(n, x)
         /\ n.map_vec = m.map_vec
         /\ w.interface \in 1 .. Count(x)
         /\ Sends(m.interfaces[w.interface].nic, n.interfaces[w.interface].nic,
                  <<x, w.interface>>, Link(<<x, w.interface>>), Aged(d), w.hop)
         /\ \A j \in 1 .. Count(x) :
              j # w.interface => n.interfaces[j].nic = m.interfaces[j].nic
         /\ \A j \in 1 .. Count(x) :
              n.interfaces[j].datagrams_out = m.interfaces[j].datagrams_out
<1> DEFINE w == RouteOf(m.map_vec, d.dst)
           i == w.interface
           v == send_datagram(m.interfaces[i].nic, Aged(d), w.hop)
<1>1. m.map_vec \in Seq(Rows(Count(x))) /\ d.dst \in Addresses
  BY Zenon DEF SoundNode, Dgrams
<1>2. i \in 1 .. Count(x) /\ w.hop \in Addresses
  BY <1>1, RouteTyped, Zenon
<1>3. route_one_datagram(m, d) = [m EXCEPT !.interfaces[i].nic = v]
  BY Zenon DEF route_one_datagram, RouteOf, Aged
<1>4. Aged(d) \in Dgrams
  BY DEF Aged, Dgrams
<1>5. /\ Link(<<x, i>>) \in Segment /\ <<x, i>> \in Link(<<x, i>>)
      /\ Sound(m.interfaces[i].nic, <<x, i>>, Link(<<x, i>>))
  BY <1>2, PortsOfNode, LinkOfPort, Zenon DEF SoundNode
<1>6. Sends(m.interfaces[i].nic, v, <<x, i>>, Link(<<x, i>>), Aged(d), w.hop)
  BY <1>2, <1>4, <1>5, SendDatagramSends, Zenon
<1>7. Sound(v, <<x, i>>, Link(<<x, i>>))
  BY <1>6, Zenon DEF Sends
<1> DEFINE n == route_one_datagram(m, d)
<1> HIDE DEF v, w
<1>8. /\ SoundNode(n, x)
      /\ n.map_vec = m.map_vec
      /\ n.interfaces[i].nic = v
      /\ \A j \in 1 .. Count(x) : j # i => n.interfaces[j].nic = m.interfaces[j].nic
      /\ \A j \in 1 .. Count(x) :
           n.interfaces[j].datagrams_out = m.interfaces[j].datagrams_out
  BY <1>2, <1>3, <1>7, SetNic
<1> HIDE DEF n
<1>9. Sends(m.interfaces[i].nic, n.interfaces[i].nic, <<x, i>>, Link(<<x, i>>),
            Aged(d), w.hop)
  BY <1>6, <1>8, Zenon
<1> QED
  BY <1>2, <1>8, <1>9, Zenon DEF w, n

-----------------------------------------------------------------------------
(* route().                                                                *)

\* f holds what Arrived has collected from each of the first n interfaces.
IsCollected(r, f, n) ==
  f = [i \in 0 .. n |->
         IF i = 0 THEN << >> ELSE f[i - 1] \o r.interfaces[i].datagrams_out]

Collected(r) == CHOOSE f : IsCollected(r, f, Len(r.interfaces))

\* Any number of queues can be collected.
LEMMA CollectedExists ==
  ASSUME NEW r, NEW n \in Nat
  PROVE  \E f : IsCollected(r, f, n)
<1> DEFINE Bad == {k \in Nat : ~\E f : IsCollected(r, f, k)}
           step(k, b) == b \o r.interfaces[k].datagrams_out
<1> SUFFICES ASSUME Bad # {} PROVE FALSE
  BY Zenon
<1>1. PICK k \in Bad : \A j \in Bad : k <= j
  <2>1. Bad \in SUBSET Nat
    BY Zenon
  <2> HIDE DEF Bad
  <2> QED
    BY <2>1, LeastOfSet, Zenon
<1>2. CASE k = 0
  <2> DEFINE g == [i \in 0 .. 0 |-> << >>]
  <2>1. g = [i \in 0 .. 0 |-> IF i = 0 THEN << >> ELSE step(i, g[i - 1])]
    <3> HIDE DEF step
    <3> QED
      OBVIOUS
  <2> QED
    BY <1>2, <2>1, Zenon DEF IsCollected
<1>3. CASE k > 0
  <2>1. k - 1 \in Nat /\ k - 1 \notin Bad
    BY <1>1, <1>3
  <2>2. PICK f : IsCollected(r, f, k - 1)
    BY <2>1, Zenon
  <2> DEFINE g == [i \in 0 .. k |-> IF i = k THEN step(k, f[k - 1]) ELSE f[i]]
  <2>3. f = [i \in 0 .. k - 1 |-> IF i = 0 THEN << >> ELSE step(i, f[i - 1])]
    BY <2>2, Zenon DEF IsCollected
  <2>4. g = [i \in 0 .. k |-> IF i = 0 THEN << >> ELSE step(i, g[i - 1])]
    <3> HIDE DEF step
    <3>1. \A i \in 0 .. k - 1 : f[i] = IF i = 0 THEN << >> ELSE step(i, f[i - 1])
      BY <2>3, Zenon
    <3>2. \A i \in 0 .. k : g[i] = IF i = 0 THEN << >> ELSE step(i, g[i - 1])
      BY <3>1, <1>3, <1>1
    <3> QED
      BY <3>2, Zenon
  <2> QED
    BY <2>4, <1>1, Zenon DEF IsCollected
<1> QED
  BY <1>1, <1>2, <1>3

\* The datagrams in the queues of node x.
InQueues(n, x) ==
  UNION {{n.interfaces[i].datagrams_out[k] : k \in DOMAIN n.interfaces[i].datagrams_out} :
           i \in 1 .. Count(x)}

\* What route() takes comes from the queues.
LEMMA ArrivedIs ==
  ASSUME NEW x \in Node, NEW n, SoundNode(n, x)
  PROVE  Arrived(n) \in Seq(InQueues(n, x))
<1> DEFINE f == Collected(n)
           c == Count(x)
           Bad == {k \in Nat : k <= c /\ f[k] \notin Seq(InQueues(n, x))}
<1>1. c \in Nat /\ Len(n.interfaces) = c
  BY NodeParts, PortsOfNode, Zenon
<1>2. Arrived(n) = f[Len(n.interfaces)]
  BY Zenon DEF Arrived, Collected, IsCollected
<1>3. \E g : IsCollected(n, g, Len(n.interfaces))
  BY <1>1, CollectedExists, Zenon
<1>4. IsCollected(n, f, Len(n.interfaces))
  BY <1>3, Zenon DEF Collected
<1> HIDE DEF f, c
<1>5. f = [i \in 0 .. c |->
             IF i = 0 THEN << >> ELSE f[i - 1] \o n.interfaces[i].datagrams_out]
  BY <1>1, <1>4, Zenon DEF IsCollected
<1>6. /\ f[0] = << >>
      /\ \A i \in 1 .. c : f[i] = f[i - 1] \o n.interfaces[i].datagrams_out
  <2> DEFINE step(k, b) == b \o n.interfaces[k].datagrams_out
  <2>1. f = [i \in 0 .. c |-> IF i = 0 THEN << >> ELSE step(i, f[i - 1])]
    BY <1>5, Zenon
  <2> HIDE DEF step
  <2>2. f[0] = << >> /\ \A i \in 1 .. c : f[i] = step(i, f[i - 1])
    BY <1>1, <2>1
  <2> QED
    BY <2>2, Zenon DEF step
<1>7. ASSUME NEW i \in 1 .. c
      PROVE  n.interfaces[i].datagrams_out \in Seq(InQueues(n, x))
  <2> DEFINE q == n.interfaces[i].datagrams_out
  <2>1. q \in Seq(Dgrams)
    BY NodeParts, Zenon DEF c
  <2>2. \A k \in DOMAIN q : q[k] \in InQueues(n, x)
    BY DEF InQueues, c
  <2> HIDE DEF q
  <2>3. q \in Seq(InQueues(n, x))
    BY <2>1, <2>2
  <2> QED
    BY <2>3, Zenon DEF q
<1>8. Bad = {}
  <2> SUFFICES ASSUME Bad # {} PROVE FALSE
    BY Zenon
  <2>1. PICK k \in Bad : \A j \in Bad : k <= j
    <3>1. Bad \in SUBSET Nat
      BY Zenon
    <3> HIDE DEF Bad
    <3> QED
      BY <3>1, LeastOfSet, Zenon
  <2>2. k # 0
    <3>1. << >> \in Seq(InQueues(n, x))
      OBVIOUS
    <3>2. f[k] \notin Seq(InQueues(n, x))
      BY <2>1, Zenon
    <3> QED
      BY <1>6, <3>1, <3>2, Zenon
  <2>3. k \in 1 .. c /\ k - 1 \in Nat /\ k - 1 <= c
    BY <1>1, <2>1, <2>2
  <2>4. f[k - 1] \in Seq(InQueues(n, x))
    BY <2>1, <2>3
  <2>5. f[k - 1] \o n.interfaces[k].datagrams_out \in Seq(InQueues(n, x))
    <3>1. n.interfaces[k].datagrams_out \in Seq(InQueues(n, x))
      BY <1>7, <2>3, Zenon
    <3> QED
      BY <2>4, <3>1
  <2> QED
    BY <1>6, <2>1, <2>3, <2>5, Zenon
<1> QED
  BY <1>1, <1>2, <1>8

\* The node with empty queues.
Emptied(r) ==
  [r EXCEPT !.interfaces = [i \in DOMAIN @ |-> [@[i] EXCEPT !.datagrams_out = << >>]]]

\* f holds the router after each of the first n datagrams.
IsRouting(r, queue, f, n) ==
  f = [i \in 0 .. n |-> IF i = 0 THEN Emptied(r) ELSE route_one_datagram(f[i - 1], queue[i])]

Routing(r, queue) == CHOOSE f : IsRouting(r, queue, f, Len(queue))

\* Any number of datagrams can be routed.
LEMMA RoutingExists ==
  ASSUME NEW r, NEW queue, NEW n \in Nat
  PROVE  \E f : IsRouting(r, queue, f, n)
<1> DEFINE Bad == {k \in Nat : ~\E f : IsRouting(r, queue, f, k)}
           step(k, b) == route_one_datagram(b, queue[k])
           base == Emptied(r)
<1> SUFFICES ASSUME Bad # {} PROVE FALSE
  BY Zenon
<1>1. PICK k \in Bad : \A j \in Bad : k <= j
  <2>1. Bad \in SUBSET Nat
    BY Zenon
  <2> HIDE DEF Bad
  <2> QED
    BY <2>1, LeastOfSet, Zenon
<1>2. CASE k = 0
  <2> DEFINE g == [i \in 0 .. 0 |-> base]
  <2>1. g = [i \in 0 .. 0 |-> IF i = 0 THEN base ELSE step(i, g[i - 1])]
    <3> HIDE DEF step, base
    <3> QED
      OBVIOUS
  <2> QED
    BY <1>2, <2>1, Zenon DEF IsRouting
<1>3. CASE k > 0
  <2>1. k - 1 \in Nat /\ k - 1 \notin Bad
    BY <1>1, <1>3
  <2>2. PICK f : IsRouting(r, queue, f, k - 1)
    BY <2>1, Zenon
  <2> DEFINE g == [i \in 0 .. k |-> IF i = k THEN step(k, f[k - 1]) ELSE f[i]]
  <2>3. f = [i \in 0 .. k - 1 |-> IF i = 0 THEN base ELSE step(i, f[i - 1])]
    BY <2>2, Zenon DEF IsRouting
  <2>4. g = [i \in 0 .. k |-> IF i = 0 THEN base ELSE step(i, g[i - 1])]
    <3> HIDE DEF step, base
    <3>1. \A i \in 0 .. k - 1 : f[i] = IF i = 0 THEN base ELSE step(i, f[i - 1])
      BY <2>3, Zenon
    <3>2. \A i \in 0 .. k : g[i] = IF i = 0 THEN base ELSE step(i, g[i - 1])
      BY <3>1, <1>3, <1>1
    <3> QED
      BY <3>2, Zenon
  <2> QED
    BY <2>4, <1>1, Zenon DEF IsRouting
<1> QED
  BY <1>1, <1>2, <1>3

\* Datagram d, of the queues of node x, is to leave by interface i for ip.
Leaves(m, x, d, i, ip) ==
  /\ d \in InQueues(m, x)
  /\ d.ttl > 1
  /\ RouteOf(m.map_vec, d.dst) = [interface |-> i, hop |-> ip]

\* Interface i of node x, now v, on the way from m through route(): what waits has
\* waited before or was to leave for an unknown address, and the datagrams queued
\* were to leave for known ones.
RoutedAt(m, x, i, v) ==
  LET nic == m.interfaces[i].nic IN
  /\ v.datagrams_out = << >>
  /\ v.nic.ip_map = nic.ip_map
  /\ \A ip \in DOMAIN v.nic.unknown_datagram_map :
       \/ /\ ip \in DOMAIN nic.unknown_datagram_map
          /\ v.nic.unknown_datagram_map[ip] = nic.unknown_datagram_map[ip]
       \/ \E d : /\ Leaves(m, x, d, i, ip)
                 /\ ip \notin DOMAIN nic.ip_map
                 /\ v.nic.unknown_datagram_map[ip] = Aged(d)
  /\ \A f \in Outbox(v.nic) :
       \/ f.payload \in Requests(Link(<<x, i>>))
       \/ \E d, ip : /\ Leaves(m, x, d, i, ip)
                     /\ ip \in DOMAIN nic.ip_map
                     /\ f = Frame(Eth(<<x, i>>), nic.ip_map[ip].eaddr, Datagram(Aged(d)))

Routed(m, n, x) ==
  /\ SoundNode(n, x)
  /\ n.map_vec = m.map_vec
  /\ \A i \in 1 .. Count(x) : RoutedAt(m, x, i, n.interfaces[i])

\* So it is when route() has taken the queues.
LEMMA EmptiedRouted ==
  ASSUME NEW x \in Node, NEW m, SoundNode(m, x), Drained(m, x)
  PROVE  Routed(m, Emptied(m), x)
<1> DEFINE e == Emptied(m)
           g == [i \in 1 .. Count(x) |-> [m.interfaces[i] EXCEPT !.datagrams_out = << >>]]
<1>1. /\ m.interfaces \in [1 .. Count(x) -> Async]
      /\ m.map_vec \in Seq(Rows(Count(x)))
      /\ m \in [interfaces : [1 .. Count(x) -> Async], map_vec : Seq(Rows(Count(x)))]
  BY Zenon DEF SoundNode
<1>2. e = [m EXCEPT !.interfaces = g]
  BY <1>1, Zenon DEF Emptied
<1>3. \A i \in 1 .. Count(x) : /\ g[i] \in Async /\ g[i].datagrams_out = << >>
                               /\ g[i].nic = m.interfaces[i].nic
  <2> SUFFICES ASSUME NEW i \in 1 .. Count(x)
               PROVE  /\ g[i] \in Async /\ g[i].datagrams_out = << >>
                      /\ g[i].nic = m.interfaces[i].nic
    BY Zenon
  <2> DEFINE a == m.interfaces[i]
  <2>1. a \in Async /\ << >> \in Seq(Dgrams)
    <3>1. m.interfaces \in [1 .. Count(x) -> Async]
      BY <1>1, Zenon
    <3>2. << >> \in Seq(Dgrams)
      OBVIOUS
    <3> QED
      BY <3>1, <3>2, Zenon
  <2>2. g[i] = [a EXCEPT !.datagrams_out = << >>]
    BY Zenon
  <2> HIDE DEF a, g
  <2>3. g[i] \in Async /\ g[i].datagrams_out = << >> /\ g[i].nic = a.nic
    BY <2>1, <2>2, Zenon DEF Async
  <2> QED
    BY <2>3, Zenon DEF a
<1>4. g \in [1 .. Count(x) -> Async]
  BY <1>3, Zenon
<1> HIDE DEF g, e
<1>5. /\ e.interfaces = g /\ e.map_vec = m.map_vec
      /\ e \in [interfaces : [1 .. Count(x) -> Async], map_vec : Seq(Rows(Count(x)))]
  BY <1>1, <1>2, <1>4, Zenon
<1>6. SoundNode(e, x)
  BY <1>3, <1>5, Zenon DEF SoundNode
<1>7. ASSUME NEW i \in 1 .. Count(x) PROVE RoutedAt(m, x, i, g[i])
  <2>1. g[i].nic.frames_out = << >>
    BY <1>3, Zenon DEF Drained
  <2>2. Outbox(g[i].nic) = {}
    BY <2>1 DEF Outbox
  <2> QED
    BY <1>3, <2>2, Zenon DEF RoutedAt
<1> QED
  BY <1>5, <1>6, <1>7, Zenon DEF Routed, e

\* And it stays so with each datagram.
LEMMA RouteOneRouted ==
  ASSUME NEW x \in Node, NEW m, SoundNode(m, x), NEW n, Routed(m, n, x),
         NEW d \in InQueues(m, x)
  PROVE  Routed(m, route_one_datagram(n, d), x)
<1>1. d \in Dgrams
  <2>1. \A i \in 1 .. Count(x) : m.interfaces[i].datagrams_out \in Seq(Dgrams)
    BY NodeParts, Zenon
  <2>2. PICK i \in 1 .. Count(x) : \E k \in DOMAIN m.interfaces[i].datagrams_out :
          d = m.interfaces[i].datagrams_out[k]
    BY Zenon DEF InQueues
  <2> QED
    BY <2>1, <2>2
<1>2. CASE d.ttl \in {0, 1}
  <2>1. route_one_datagram(n, d) = n
    BY <1>2, Zenon DEF route_one_datagram
  <2> QED
    BY <2>1, Zenon
<1>3. CASE d.ttl \notin {0, 1}
  <2> DEFINE o  == route_one_datagram(n, d)
             w  == RouteOf(m.map_vec, d.dst)
             i  == w.interface
             a  == n.interfaces[i].nic
             v  == o.interfaces[i].nic
             nm == m.interfaces[i].nic
  <2>1. SoundNode(n, x) /\ n.map_vec = m.map_vec
    BY Zenon DEF Routed
  <2>2. /\ SoundNode(o, x)
        /\ o.map_vec = n.map_vec
        /\ i \in 1 .. Count(x)
        /\ Sends(a, v, <<x, i>>, Link(<<x, i>>), Aged(d), w.hop)
        /\ \A j \in 1 .. Count(x) : j # i => o.interfaces[j].nic = n.interfaces[j].nic
        /\ \A j \in 1 .. Count(x) :
             o.interfaces[j].datagrams_out = n.interfaces[j].datagrams_out
    BY <1>1, <1>3, <2>1, RouteOne
  <2>3. w = [interface |-> i, hop |-> w.hop]
    BY Zenon DEF RouteOf
  <2>4. Leaves(m, x, d, i, w.hop)
    <3>1. d.ttl > 1
      <4>1. d.ttl \in Nat /\ d.ttl # 0 /\ d.ttl # 1
        BY <1>1, <1>3, Zenon DEF Dgrams
      <4> QED
        BY <4>1
    <3> QED
      BY <2>3, <3>1, Zenon DEF Leaves
  <2> HIDE DEF o, w
  <2>5. ASSUME NEW j \in 1 .. Count(x), j # i PROVE RoutedAt(m, x, j, o.interfaces[j])
    <3>1. RoutedAt(m, x, j, n.interfaces[j])
      BY Zenon DEF Routed
    <3>2. /\ o.interfaces[j].nic = n.interfaces[j].nic
          /\ o.interfaces[j].datagrams_out = n.interfaces[j].datagrams_out
      BY <2>2, <2>5, Zenon
    <3> QED
      BY <3>1, <3>2 DEF RoutedAt
  <2>6. RoutedAt(m, x, i, o.interfaces[i])
    <3>1. RoutedAt(m, x, i, n.interfaces[i])
      BY <2>2, Zenon DEF Routed
    <3>2. /\ o.interfaces[i].datagrams_out = << >>
          /\ v.ip_map = nm.ip_map /\ a.ip_map = nm.ip_map
      BY <2>2, <3>1, Zenon DEF RoutedAt, Sends
    <3>3. a.unknown_datagram_map \in Maps(Dgrams)
      BY <2>1, <2>2, Zenon DEF SoundNode, Sound, Interfaces
    <3>4. Aged(d) \in Dgrams /\ w.hop \in Addresses
      <4>1. m.map_vec \in Seq(Rows(Count(x))) /\ d.dst \in Addresses
        BY <1>1, Zenon DEF SoundNode, Dgrams
      <4> QED
        BY <1>1, <1>3, <4>1, RouteTyped DEF Aged, Dgrams, w
    <3> DEFINE old(u, ip) == /\ ip \in DOMAIN nm.unknown_datagram_map
                             /\ u[ip] = nm.unknown_datagram_map[ip]
               new(u, ip) == \E b : /\ Leaves(m, x, b, i, ip)
                                    /\ ip \notin DOMAIN nm.ip_map
                                    /\ u[ip] = Aged(b)
               out(f) == \E b, ip :
                           /\ Leaves(m, x, b, i, ip)
                           /\ ip \in DOMAIN nm.ip_map
                           /\ f = Frame(Eth(<<x, i>>), nm.ip_map[ip].eaddr, Datagram(Aged(b)))
               asks(f) == f.payload \in Requests(Link(<<x, i>>))
    <3>5. /\ \A ip \in DOMAIN a.unknown_datagram_map :
               old(a.unknown_datagram_map, ip) \/ new(a.unknown_datagram_map, ip)
          /\ \A f \in Outbox(a) : asks(f) \/ out(f)
      BY <3>1, Zenon DEF RoutedAt
    <3>6. CASE w.hop \in DOMAIN a.ip_map
      <4>1. /\ v.unknown_datagram_map = a.unknown_datagram_map
            /\ Outbox(v) = Outbox(a)
                 \cup {Frame(Eth(<<x, i>>), nm.ip_map[w.hop].eaddr, Datagram(Aged(d)))}
        BY <2>2, <3>2, <3>6, Zenon DEF Sends
      <4>2. out(Frame(Eth(<<x, i>>), nm.ip_map[w.hop].eaddr, Datagram(Aged(d))))
        BY <2>4, <3>2, <3>6, Zenon
      <4> HIDE DEF old, new, out, asks, a, v
      <4>3. /\ \A ip \in DOMAIN v.unknown_datagram_map :
                 old(v.unknown_datagram_map, ip) \/ new(v.unknown_datagram_map, ip)
            /\ \A f \in Outbox(v) : asks(f) \/ out(f)
        BY <3>5, <4>1, <4>2, Zenon
      <4> QED
        BY <3>2, <4>3, Zenon DEF RoutedAt, old, new, out, asks, v
    <3>7. CASE w.hop \notin DOMAIN a.ip_map
      <4>1. /\ v.unknown_datagram_map = Put(a.unknown_datagram_map, w.hop, Aged(d))
            /\ \A f \in Outbox(v) : f \in Outbox(a) \/ asks(f)
        BY <2>2, <3>7, Zenon DEF Sends
      <4>2. /\ DOMAIN v.unknown_datagram_map = DOMAIN a.unknown_datagram_map \cup {w.hop}
            /\ v.unknown_datagram_map[w.hop] = Aged(d)
            /\ \A ip \in DOMAIN a.unknown_datagram_map :
                 ip # w.hop => v.unknown_datagram_map[ip] = a.unknown_datagram_map[ip]
        BY <4>1, Zenon DEF Put
      <4>3. new(v.unknown_datagram_map, w.hop)
        BY <2>4, <3>2, <3>7, <4>2, Zenon
      <4>4. ASSUME NEW ip \in DOMAIN a.unknown_datagram_map, ip # w.hop
            PROVE  old(v.unknown_datagram_map, ip) \/ new(v.unknown_datagram_map, ip)
        <5>1. v.unknown_datagram_map[ip] = a.unknown_datagram_map[ip]
          BY <4>2, <4>4, Zenon
        <5> QED
          BY <3>5, <5>1, Zenon
      <4> HIDE DEF old, new, out, asks, a, v
      <4>5. /\ \A ip \in DOMAIN v.unknown_datagram_map :
                 old(v.unknown_datagram_map, ip) \/ new(v.unknown_datagram_map, ip)
            /\ \A f \in Outbox(v) : asks(f) \/ out(f)
        BY <3>5, <4>1, <4>2, <4>3, <4>4, Zenon
      <4> QED
        BY <3>2, <4>5, Zenon DEF RoutedAt, old, new, out, asks, v
    <3> QED
      BY <3>6, <3>7, Zenon
  <2> QED
    BY <2>1, <2>2, <2>5, <2>6, Zenon DEF Routed, o
<1> QED
  BY <1>2, <1>3, Zenon

\* route() itself.
LEMMA RouteRouted ==
  ASSUME NEW x \in Node, NEW m, SoundNode(m, x), Drained(m, x)
  PROVE  Routed(m, route(m), x)
<1> DEFINE queue == Arrived(m)
           f == Routing(m, queue)
           Bad == {k \in Nat : k <= Len(queue) /\ ~Routed(m, f[k], x)}
<1>1. queue \in Seq(InQueues(m, x))
  BY ArrivedIs, Zenon
<1>2. Len(queue) \in Nat
  BY <1>1
<1>3. route(m) = f[Len(queue)]
  BY Zenon DEF route, Routing, IsRouting, Emptied
<1>4. \E g : IsRouting(m, queue, g, Len(queue))
  BY <1>2, RoutingExists, Zenon
<1>5. IsRouting(m, queue, f, Len(queue))
  BY <1>4, Zenon DEF Routing
<1> HIDE DEF f, queue
<1>6. /\ f[0] = Emptied(m)
      /\ \A i \in 1 .. Len(queue) : f[i] = route_one_datagram(f[i - 1], queue[i])
  <2> DEFINE step(k, b) == route_one_datagram(b, queue[k])
             base == Emptied(m)
  <2>1. f = [i \in 0 .. Len(queue) |-> IF i = 0 THEN base ELSE step(i, f[i - 1])]
    BY <1>5, Zenon DEF IsRouting
  <2> HIDE DEF step, base
  <2>2. f[0] = base /\ \A i \in 1 .. Len(queue) : f[i] = step(i, f[i - 1])
    BY <1>2, <2>1
  <2> QED
    BY <2>2, Zenon DEF step, base
<1>7. Bad = {}
  <2> SUFFICES ASSUME Bad # {} PROVE FALSE
    BY Zenon
  <2>1. PICK k \in Bad : \A j \in Bad : k <= j
    <3>1. Bad \in SUBSET Nat
      BY Zenon
    <3> HIDE DEF Bad
    <3> QED
      BY <3>1, LeastOfSet, Zenon
  <2>2. k # 0
    <3>1. Routed(m, Emptied(m), x)
      BY EmptiedRouted, Zenon
    <3> QED
      BY <1>6, <2>1, <3>1, Zenon
  <2>3. k \in 1 .. Len(queue) /\ k - 1 \in Nat /\ k - 1 <= Len(queue)
    BY <1>2, <2>1, <2>2
  <2>4. Routed(m, f[k - 1], x) /\ queue[k] \in InQueues(m, x)
    BY <1>1, <2>1, <2>3
  <2>5. Routed(m, route_one_datagram(f[k - 1], queue[k]), x)
    BY <2>4, RouteOneRouted, Zenon
  <2> QED
    BY <1>6, <2>1, <2>3, <2>5, Zenon
<1> QED
  BY <1>2, <1>3, <1>7

-----------------------------------------------------------------------------
(* Routing.                                                                *)

\* How a datagram leaves node x, by its table.
WayOf(x, d) == RouteOf(nodes[x].map_vec, d.dst)

\* Copy b is in a queue of node x, with time left.
Departs(b, x) == b.at = "queue" /\ b.port[1] = x /\ b.dgram.ttl > 1

\* Node x routes: its queues are emptied, what waits waited before or departs for an
\* unknown address, and all that is sent out departs for a known one.
PassesOn(x, n) ==
  /\ \A i \in 1 .. Count(x) : Queue(nodes', <<x, i>>) = << >>
  /\ \A i \in 1 .. Count(x) : \A ip \in DOMAIN Waiting(nodes', <<x, i>>) :
       \/ /\ ip \in DOMAIN Waiting(nodes, <<x, i>>)
          /\ Waiting(nodes', <<x, i>>)[ip] = Waiting(nodes, <<x, i>>)[ip]
       \/ \E b \in Copies(nodes, wire) :
            /\ Departs(b, x) /\ WayOf(x, b.dgram) = [interface |-> i, hop |-> ip]
            /\ ip \notin DOMAIN Known(x, i)
            /\ Waiting(nodes', <<x, i>>)[ip] = Aged(b.dgram)
  /\ \A i \in 1 .. Count(x) : \A g \in Outbox(n.interfaces[i].nic) :
       g.payload.kind = "IPv4" =>
         \E b \in Copies(nodes, wire), ip \in DOMAIN Known(x, i) :
           /\ Departs(b, x) /\ WayOf(x, b.dgram) = [interface |-> i, hop |-> ip]
           /\ b.dgram \in Dgrams
           /\ g = Frame(Eth(<<x, i>>), Known(x, i)[ip].eaddr, Datagram(Aged(b.dgram)))

\* Route does that.
LEMMA RouteEffect ==
  ASSUME NInv, NEW x \in RouterName, Route(x)
  PROVE  LET n == route(nodes[x]) IN
         /\ x \in Node /\ SoundNode(nodes[x], x)
         /\ TypesInv' /\ Routes' = Routes /\ sent' = sent
         /\ wire' = wire \cup Heard(n, x)
         /\ crossings' = [id \in DOMAIN sent |-> crossings[id] + Outgoing(n, x, id)]
         /\ \A p \in Port : p[1] # x => /\ Queue(nodes', p) = Queue(nodes, p)
                                        /\ Waiting(nodes', p) = Waiting(nodes, p)
         /\ PassesOn(x, n)
<1> DEFINE m == nodes[x]
           n == route(m)
<1>1. TypesInv /\ x \in Node
  BY Zenon DEF NInv, Node
<1>2. SoundNode(m, x) /\ Drained(m, x)
  BY <1>1, Zenon DEF TypesInv
<1>3. sent' = sent /\ Become(x, n, wire)
  BY Zenon DEF Route
<1>4. Routed(m, n, x)
  BY <1>1, <1>2, RouteRouted, Zenon
<1> HIDE DEF n
<1>5. SoundNode(n, x) /\ n.map_vec = m.map_vec
  BY <1>4, Zenon DEF Routed
<1>6. /\ \A j \in 1 .. Count(x) :
           /\ Queue(nodes', <<x, j>>) = n.interfaces[j].datagrams_out
           /\ Waiting(nodes', <<x, j>>) = n.interfaces[j].nic.unknown_datagram_map
      /\ wire' = wire \cup Heard(n, x)
      /\ crossings' = [id \in DOMAIN sent' |->
                         (IF id \in DOMAIN crossings THEN crossings[id] ELSE 0)
                           + (IF x \in RouterName /\ SentOut(n, x, id) THEN 1 ELSE 0)]
  BY <1>1, <1>3, <1>5, BecomeIs, Zenon
<1>7. /\ TypesInv' /\ Routes' = Routes
      /\ \A p \in Port : p[1] # x => /\ Queue(nodes', p) = Queue(nodes, p)
                                     /\ Waiting(nodes', p) = Waiting(nodes, p)
  <2>1. sent' \in Seq(Sendings) /\ \A g \in wire : OnTheWay(g)
    BY <1>1, <1>3, Zenon DEF TypesInv
  <2> QED
    BY <1>1, <1>3, <1>5, <2>1, BecomeTypes, Zenon
<1>8. crossings' = [id \in DOMAIN sent |-> crossings[id] + Outgoing(n, x, id)]
  <2>1. DOMAIN crossings = DOMAIN sent
    BY <1>1, Zenon DEF TypesInv
  <2> QED
    BY <1>3, <1>6, <2>1, Zenon DEF Outgoing
<1>9. \A i \in 1 .. Count(x) : RoutedAt(m, x, i, n.interfaces[i])
  BY <1>4, Zenon DEF Routed
<1>10. ASSUME NEW d, NEW i, NEW ip, Leaves(m, x, d, i, ip)
       PROVE  \E b \in Copies(nodes, wire) :
                /\ Departs(b, x) /\ WayOf(x, b.dgram) = [interface |-> i, hop |-> ip]
                /\ b.dgram = d /\ d \in Dgrams
  <2>1. d \in InQueues(m, x) /\ d.ttl > 1
        /\ RouteOf(m.map_vec, d.dst) = [interface |-> i, hop |-> ip]
    BY <1>10, Zenon DEF Leaves
  <2>2. PICK j \in 1 .. Count(x) : \E k \in DOMAIN m.interfaces[j].datagrams_out :
          d = m.interfaces[j].datagrams_out[k]
    BY <2>1, Zenon DEF InQueues
  <2> DEFINE p == <<x, j>>
  <2>3. p \in Port /\ Queue(nodes, p) = m.interfaces[j].datagrams_out
    BY <1>1, PortsOfNode, Zenon DEF Queue
  <2>4. PICK k \in DOMAIN Queue(nodes, p) : d = Queue(nodes, p)[k]
    BY <2>2, <2>3, Zenon
  <2>5. Copy("queue", p, k, d) \in Copies(nodes, wire)
    BY <2>3, <2>4, CopiesAre, Zenon
  <2>6. d \in Dgrams
    <3>1. Queue(nodes, p) \in Seq(Dgrams)
      BY <1>1, <1>2, <2>3, NodeParts, Zenon
    <3> QED
      BY <2>4, <3>1
  <2>7. /\ Departs(Copy("queue", p, k, d), x)
        /\ Copy("queue", p, k, d).dgram = d
        /\ WayOf(x, d) = [interface |-> i, hop |-> ip]
    BY <2>1, Zenon DEF Departs, Copy, WayOf
  <2> QED
    BY <2>5, <2>6, <2>7, Zenon
<1>11. \A i \in 1 .. Count(x) : Queue(nodes', <<x, i>>) = << >>
  BY <1>6, <1>9, Zenon DEF RoutedAt
<1>12. ASSUME NEW i \in 1 .. Count(x), NEW ip \in DOMAIN Waiting(nodes', <<x, i>>)
       PROVE  \/ /\ ip \in DOMAIN Waiting(nodes, <<x, i>>)
                 /\ Waiting(nodes', <<x, i>>)[ip] = Waiting(nodes, <<x, i>>)[ip]
              \/ \E b \in Copies(nodes, wire) :
                   /\ Departs(b, x) /\ WayOf(x, b.dgram) = [interface |-> i, hop |-> ip]
                   /\ ip \notin DOMAIN Known(x, i)
                   /\ Waiting(nodes', <<x, i>>)[ip] = Aged(b.dgram)
  <2> DEFINE nic == m.interfaces[i].nic
             u == n.interfaces[i].nic.unknown_datagram_map
  <2>1. Waiting(nodes', <<x, i>>) = u /\ Waiting(nodes, <<x, i>>) = nic.unknown_datagram_map
        /\ Known(x, i) = nic.ip_map
    BY <1>6, Zenon DEF Waiting, Known
  <2>2. \/ /\ ip \in DOMAIN nic.unknown_datagram_map
           /\ u[ip] = nic.unknown_datagram_map[ip]
        \/ \E d : /\ Leaves(m, x, d, i, ip)
                  /\ ip \notin DOMAIN nic.ip_map
                  /\ u[ip] = Aged(d)
    BY <1>9, <1>12, <2>1, Zenon DEF RoutedAt
  <2> HIDE DEF nic, u, m
  <2> QED
    BY <1>10, <2>1, <2>2
<1>13. ASSUME NEW i \in 1 .. Count(x), NEW g \in Outbox(n.interfaces[i].nic),
              g.payload.kind = "IPv4"
       PROVE  \E b \in Copies(nodes, wire), ip \in DOMAIN Known(x, i) :
                /\ Departs(b, x) /\ WayOf(x, b.dgram) = [interface |-> i, hop |-> ip]
                /\ b.dgram \in Dgrams
                /\ g = Frame(Eth(<<x, i>>), Known(x, i)[ip].eaddr,
                             Datagram(Aged(b.dgram)))
  <2> DEFINE nic == m.interfaces[i].nic
  <2>1. Known(x, i) = nic.ip_map
    BY Zenon DEF Known
  <2>2. g.payload \notin Requests(Link(<<x, i>>))
    BY <1>13 DEF Requests, ARPMessage
  <2>3. \E d, ip : /\ Leaves(m, x, d, i, ip)
                   /\ ip \in DOMAIN nic.ip_map
                   /\ g = Frame(Eth(<<x, i>>), nic.ip_map[ip].eaddr, Datagram(Aged(d)))
    BY <1>9, <1>13, <2>2, Zenon DEF RoutedAt
  <2>4. PICK d, ip : /\ Leaves(m, x, d, i, ip)
                     /\ ip \in DOMAIN Known(x, i)
                     /\ g = Frame(Eth(<<x, i>>), Known(x, i)[ip].eaddr, Datagram(Aged(d)))
    BY <2>1, <2>3, Zenon
  <2> HIDE DEF m
  <2>5. PICK b \in Copies(nodes, wire) :
          /\ Departs(b, x) /\ WayOf(x, b.dgram) = [interface |-> i, hop |-> ip]
          /\ b.dgram = d /\ d \in Dgrams
    BY <1>10, <2>4, Zenon
  <2> QED
    BY <2>4, <2>5, Zenon
<1>14. PassesOn(x, n)
  BY <1>11, <1>12, <1>13, Zenon DEF PassesOn
<1> QED
  BY <1>1, <1>2, <1>3, <1>6, <1>7, <1>8, <1>14, Zenon DEF n

\* A copy is a datagram, at a port.
LEMMA CopyTyped ==
  ASSUME TypesInv, NEW b \in Copies(nodes, wire)
  PROVE  b.dgram \in Dgrams /\ b.port \in Port
<1>1. CASE IsQueued(b, nodes)
  <2>1. PICK p \in Port : \E k \in DOMAIN Queue(nodes, p) :
          b = Copy("queue", p, k, Queue(nodes, p)[k])
    BY <1>1, Zenon DEF IsQueued
  <2>2. p[1] \in Node /\ p[2] \in 1 .. Count(p[1]) /\ SoundNode(nodes[p[1]], p[1])
    BY PortsOfNode, Zenon DEF TypesInv
  <2>3. Queue(nodes, p) \in Seq(Dgrams)
    BY <2>2, NodeParts, Zenon DEF Queue
  <2> QED
    BY <2>1, <2>3 DEF Copy
<1>2. CASE IsWaiting(b, nodes)
  <2>1. PICK p \in Port : \E ip \in DOMAIN Waiting(nodes, p) :
          b = Copy("waits", p, ip, Waiting(nodes, p)[ip])
    BY <1>2, Zenon DEF IsWaiting
  <2>2. p[1] \in Node /\ p[2] \in 1 .. Count(p[1]) /\ SoundNode(nodes[p[1]], p[1])
    BY PortsOfNode, Zenon DEF TypesInv
  <2>3. \A ip \in DOMAIN Waiting(nodes, p) : Waiting(nodes, p)[ip] \in Dgrams
    BY <2>2, NodeParts, Zenon DEF Waiting
  <2> QED
    BY <2>1, <2>3 DEF Copy
<1>3. CASE IsFlying(b, wire)
  <2>1. PICK f \in wire :
          Aimed(f) /\ b = Copy("wire", f.to, f.frame.src, f.frame.payload.dgram)
    BY <1>3, Zenon DEF IsFlying
  <2>2. f.to \in Port /\ f.frame \in Frames(Link(f.to))
    BY Zenon DEF TypesInv, OnTheWay
  <2>3. f.frame.payload.dgram \in Dgrams
    BY <2>1, <2>2, LinkOfPort, FrameParts, Zenon DEF Aimed
  <2> QED
    BY <2>1, <2>2, <2>3, Zenon DEF Copy
<1> QED
  BY <1>1, <1>2, <1>3, CopyCases, Zenon

\* Route keeps the invariant.
LEMMA RouteKeeps ==
  ASSUME NInv, NEW x \in RouterName, Route(x)
  PROVE  NInv'
<1> DEFINE n == route(nodes[x])
           old == Copies(nodes, wire)
           new == Copies(nodes', wire')
           way(b) == WayOf(x, b.dgram)
           at(b) == <<x, way(b).interface>>
           known(b) == way(b).hop \in DOMAIN Known(x, way(b).interface)
           stays(b, a) == ~(b.at = "queue" /\ b.port[1] = x) /\ a = b
           waits(b, a) == /\ Departs(b, x) /\ ~known(b)
                          /\ a = Copy("waits", at(b), way(b).hop, Aged(b.dgram))
           leaves(b, a) == /\ Departs(b, x) /\ known(b) /\ SentOut(n, x, b.dgram.id)
                           /\ \E q \in PortAt(Link(at(b)) \ {at(b)}, way(b).hop) :
                                a = Copy("wire", q, Eth(at(b)), Aged(b.dgram))
           M == {t \in old \X new :
                   stays(t[1], t[2]) \/ waits(t[1], t[2]) \/ leaves(t[1], t[2])}
<1>1. /\ x \in Node /\ SoundNode(nodes[x], x)
      /\ TypesInv' /\ Routes' = Routes /\ sent' = sent
      /\ wire' = wire \cup Heard(n, x)
      /\ crossings' = [id \in DOMAIN sent |-> crossings[id] + Outgoing(n, x, id)]
      /\ \A p \in Port : p[1] # x => /\ Queue(nodes', p) = Queue(nodes, p)
                                     /\ Waiting(nodes', p) = Waiting(nodes, p)
      /\ PassesOn(x, n)
  BY RouteEffect, Zenon
<1>2. UniqueInv /\ TypesInv /\ x \notin Host
  BY InternetAssumption, Zenon DEF NInv
<1> HIDE DEF n
<1>3. \A p \in Port : p[1] = x => p[2] \in 1 .. Count(x) /\ p = <<x, p[2]>>
  BY PortsOfNode, Zenon
<1>4. ASSUME NEW j \in 1 .. Count(x), NEW g \in Outbox(n.interfaces[j].nic),
             g.payload.kind = "IPv4"
      PROVE  \E b \in old :
               /\ Departs(b, x) /\ known(b) /\ way(b).interface = j
               /\ b.dgram \in Dgrams
               /\ g = Frame(Eth(at(b)), Known(x, j)[way(b).hop].eaddr,
                            Datagram(Aged(b.dgram)))
  <2>1. PICK b \in old, ip \in DOMAIN Known(x, j) :
          /\ Departs(b, x) /\ WayOf(x, b.dgram) = [interface |-> j, hop |-> ip]
          /\ b.dgram \in Dgrams
          /\ g = Frame(Eth(<<x, j>>), Known(x, j)[ip].eaddr, Datagram(Aged(b.dgram)))
    BY <1>1, <1>4, Zenon DEF PassesOn
  <2>2. way(b).interface = j /\ way(b).hop = ip
    BY <2>1
  <2> HIDE DEF old, way
  <2> QED
    BY <2>1, <2>2, Zenon
<1>5. ASSUME NEW b, b.dgram \in Dgrams
      PROVE  Aged(b.dgram).id = b.dgram.id
  BY <1>5, Zenon DEF Aged, Dgrams
<1>6. \A b \in old : b.dgram \in Dgrams
  BY <1>2, CopyTyped, Zenon
<1>7. \A b \in old : SentOut(n, x, b.dgram.id) => Departs(b, x) /\ known(b)
  <2> SUFFICES ASSUME NEW b \in old, SentOut(n, x, b.dgram.id)
               PROVE  Departs(b, x) /\ known(b)
    BY Zenon
  <2>1. PICK j \in 1 .. Count(x) : \E g \in Outbox(n.interfaces[j].nic) :
          Carries(g, b.dgram.id)
    BY Zenon DEF SentOut
  <2>2. PICK g \in Outbox(n.interfaces[j].nic) : Carries(g, b.dgram.id)
    BY <2>1, Zenon
  <2>3. g.payload.kind = "IPv4" /\ g.payload.dgram.id = b.dgram.id
    BY <2>2, Zenon DEF Carries
  <2>4. PICK c \in old :
          /\ Departs(c, x) /\ known(c) /\ c.dgram \in Dgrams
          /\ g.payload = Datagram(Aged(c.dgram))
    <3>1. PICK c \in old :
            /\ Departs(c, x) /\ known(c) /\ c.dgram \in Dgrams
            /\ g = Frame(Eth(at(c)), Known(x, j)[way(c).hop].eaddr,
                         Datagram(Aged(c.dgram)))
      BY <1>4, <2>3, Zenon
    <3> QED
      BY <3>1, Zenon DEF Frame
  <2>5. c.dgram.id = b.dgram.id
    <3>1. g.payload.dgram = Aged(c.dgram)
      BY <2>4 DEF Datagram
    <3> QED
      BY <1>5, <2>3, <2>4, <3>1, Zenon
  <2> HIDE DEF known, old
  <2>6. b = c
    BY <1>2, <2>4, <2>5, Zenon DEF UniqueInv, old
  <2> QED
    BY <2>4, <2>6, Zenon
<1>8. ASSUME NEW b \in old, Departs(b, x)
      PROVE  /\ way(b).interface \in 1 .. Count(x) /\ at(b) \in Port
             /\ Link(at(b)) \in Segment /\ Link(at(b)) \subseteq Port
             /\ WayOut(Routes, x, b.dgram.dst)
                  = [interface |-> way(b).interface, hop |-> way(b).hop]
  <2>1. /\ nodes[x].map_vec \in Seq(Rows(Count(x))) /\ b.dgram.dst \in Addresses
        /\ Routes[x] = nodes[x].map_vec
    <3>1. nodes[x].map_vec \in Seq(Rows(Count(x)))
      BY <1>1, NodeParts, Zenon
    <3>2. b.dgram.dst \in Addresses
      BY <1>6, Zenon DEF Dgrams
    <3> QED
      BY <3>1, <3>2, Zenon DEF Routes
  <2>2. way(b).interface \in 1 .. Count(x)
    BY <1>1, <2>1, RouteTyped, Zenon DEF WayOf
  <2>3. at(b) \in Port
    BY <1>1, <2>2, PortsOfNode, Zenon
  <2>4. WayOut(Routes, x, b.dgram.dst)
          = [interface |-> way(b).interface, hop |-> way(b).hop]
    BY <1>2, <2>1, Zenon DEF WayOut, WayOf, RouteOf
  <2> HIDE DEF at
  <2>5. Link(at(b)) \in Segment /\ Link(at(b)) \subseteq Port
    BY <2>3, LinkOfPort, Zenon
  <2> QED
    BY <2>2, <2>3, <2>4, <2>5, Zenon
<1>9. \A b, a, c : <<b, a>> \in M /\ <<b, c>> \in M => a = c
  <2> SUFFICES ASSUME NEW b, NEW a, NEW c, <<b, a>> \in M, <<b, c>> \in M PROVE a = c
    BY Zenon
  <2>1. /\ stays(b, a) \/ waits(b, a) \/ leaves(b, a)
        /\ stays(b, c) \/ waits(b, c) \/ leaves(b, c)
        /\ b \in old
    BY Zenon
  <2>2. Departs(b, x) => b.at = "queue" /\ b.port[1] = x
    BY Zenon DEF Departs
  <2>3. ASSUME leaves(b, a), leaves(b, c) PROVE a = c
    <3>1. Link(at(b)) \subseteq Port
      BY <1>8, <2>1, <2>3, Zenon
    <3> DEFINE near == PortAt(Link(at(b)) \ {at(b)}, way(b).hop)
    <3>2. \A q, o \in near : q = o
      BY <3>1, OnePortAt, Zenon
    <3>3. /\ \E q \in near : a = Copy("wire", q, Eth(at(b)), Aged(b.dgram))
          /\ \E q \in near : c = Copy("wire", q, Eth(at(b)), Aged(b.dgram))
      BY <2>3, Zenon
    <3> HIDE DEF near, at
    <3> QED
      BY <3>2, <3>3, Zenon
  <2> HIDE DEF known, at, way, M
  <2>4. CASE stays(b, a)
    BY <2>1, <2>2, <2>4, Zenon
  <2>5. CASE waits(b, a)
    BY <2>1, <2>2, <2>5, Zenon
  <2>6. CASE leaves(b, a)
    BY <2>1, <2>2, <2>3, <2>6, Zenon
  <2> QED
    BY <2>1, <2>4, <2>5, <2>6, Zenon
<1>10. ASSUME NEW a \in new PROVE \E b \in old : <<b, a>> \in M
  <2> SUFFICES \E b \in old : stays(b, a) \/ waits(b, a) \/ leaves(b, a)
    BY Zenon
  <2>1. CASE IsQueued(a, nodes')
    <3>1. PICK o \in Port : \E k \in DOMAIN Queue(nodes', o) :
            a = Copy("queue", o, k, Queue(nodes', o)[k])
      BY <2>1, Zenon DEF IsQueued
    <3>2. PICK k \in DOMAIN Queue(nodes', o) : a = Copy("queue", o, k, Queue(nodes', o)[k])
      BY <3>1, Zenon
    <3>3. o[1] # x
      <4> SUFFICES ASSUME o[1] = x PROVE FALSE
        BY Zenon
      <4>1. Queue(nodes', o) = << >>
        BY <1>1, <1>3, Zenon DEF PassesOn
      <4> QED
        BY <3>2, <4>1
    <3>4. a \in old
      BY <1>1, <3>2, <3>3, CopiesAre, Zenon
    <3>5. stays(a, a)
      BY <3>2, <3>3, Zenon DEF Copy
    <3> QED
      BY <3>4, <3>5, Zenon
  <2>2. CASE IsWaiting(a, nodes')
    <3>1. PICK o \in Port : \E ip \in DOMAIN Waiting(nodes', o) :
            a = Copy("waits", o, ip, Waiting(nodes', o)[ip])
      BY <2>2, Zenon DEF IsWaiting
    <3>2. PICK ip \in DOMAIN Waiting(nodes', o) :
            a = Copy("waits", o, ip, Waiting(nodes', o)[ip])
      BY <3>1, Zenon
    <3>3. CASE /\ ip \in DOMAIN Waiting(nodes, o)
               /\ Waiting(nodes', o)[ip] = Waiting(nodes, o)[ip]
      <4>1. a \in old
        BY <3>2, <3>3, CopiesAre, Zenon
      <4>2. stays(a, a)
        BY <3>2, Zenon DEF Copy
      <4> QED
        BY <4>1, <4>2, Zenon
    <3>4. ASSUME o[1] = x, NEW b \in old, Departs(b, x),
                 WayOf(x, b.dgram) = [interface |-> o[2], hop |-> ip],
                 ip \notin DOMAIN Known(x, o[2]),
                 Waiting(nodes', o)[ip] = Aged(b.dgram)
          PROVE  waits(b, a)
      <4>1. way(b).interface = o[2] /\ way(b).hop = ip
        BY <3>4
      <4>2. at(b) = o
        BY <1>3, <3>4, <4>1, Zenon
      <4> HIDE DEF way, at
      <4> QED
        BY <3>2, <3>4, <4>1, <4>2, Zenon
    <3>5. CASE o[1] # x
      BY <1>1, <3>2, <3>3, <3>5, Zenon
    <3>6. CASE o[1] = x
      <4>1. o = <<x, o[2]>> /\ o[2] \in 1 .. Count(x)
        BY <1>3, <3>6, Zenon
      <4>2. \/ /\ ip \in DOMAIN Waiting(nodes, o)
               /\ Waiting(nodes', o)[ip] = Waiting(nodes, o)[ip]
            \/ \E b \in old :
                 /\ Departs(b, x)
                 /\ WayOf(x, b.dgram) = [interface |-> o[2], hop |-> ip]
                 /\ ip \notin DOMAIN Known(x, o[2])
                 /\ Waiting(nodes', o)[ip] = Aged(b.dgram)
        <5> DEFINE i == o[2]
        <5>1. /\ i \in 1 .. Count(x) /\ o = <<x, i>>
              /\ ip \in DOMAIN Waiting(nodes', <<x, i>>)
          BY <4>1, Zenon
        <5> HIDE DEF i
        <5>2. \/ /\ ip \in DOMAIN Waiting(nodes, <<x, i>>)
                 /\ Waiting(nodes', <<x, i>>)[ip] = Waiting(nodes, <<x, i>>)[ip]
              \/ \E b \in old :
                   /\ Departs(b, x)
                   /\ WayOf(x, b.dgram) = [interface |-> i, hop |-> ip]
                   /\ ip \notin DOMAIN Known(x, i)
                   /\ Waiting(nodes', <<x, i>>)[ip] = Aged(b.dgram)
          BY <1>1, <5>1, Zenon DEF PassesOn
        <5> QED
          BY <5>1, <5>2, Zenon DEF i
      <4> HIDE DEF waits
      <4> QED
        BY <3>3, <3>4, <3>6, <4>2, Zenon
    <3> QED
      BY <3>5, <3>6, Zenon
  <2>3. CASE IsFlying(a, wire')
    <3>1. PICK g \in wire' :
            Aimed(g) /\ a = Copy("wire", g.to, g.frame.src, g.frame.payload.dgram)
      BY <2>3, Zenon DEF IsFlying
    <3>2. CASE g \in wire
      <4>1. a \in old
        BY <3>1, <3>2, CopiesAre, Zenon
      <4>2. stays(a, a)
        BY <3>1, Zenon DEF Copy
      <4> QED
        BY <4>1, <4>2, Zenon
    <3>3. CASE g \in Heard(n, x)
      <4> DEFINE e == g.frame
                 q == g.to
      <4>1. PICK j \in 1 .. Count(x) : /\ e \in Outbox(n.interfaces[j].nic)
                                       /\ q \in Link(<<x, j>>) \ {<<x, j>>}
        BY <3>3, HeardParts, Zenon
      <4>2. a = Copy("wire", q, e.src, e.payload.dgram)
        BY <3>1, Zenon
      <4>3. q \in Link(<<x, j>>) \ {<<x, j>>}
        BY <4>1, Zenon
      <4>4. e.payload.kind = "IPv4" /\ e.dst = Eth(q)
        BY <3>1, Zenon DEF Aimed
      <4> HIDE DEF e, q
      <4>5. PICK b \in old :
               /\ Departs(b, x) /\ known(b) /\ way(b).interface = j
               /\ b.dgram \in Dgrams
               /\ e = Frame(Eth(at(b)), Known(x, j)[way(b).hop].eaddr,
                            Datagram(Aged(b.dgram)))
        BY <1>4, <4>1, <4>4, Zenon
      <4>6. /\ e.src = Eth(at(b)) /\ e.dst = Known(x, j)[way(b).hop].eaddr
            /\ e.payload.dgram = Aged(b.dgram)
        <5> HIDE DEF at, way, known
        <5> QED
          BY <4>5, Zenon DEF Frame, Datagram
      <4>7. at(b) = <<x, j>> /\ way(b).hop \in DOMAIN Known(x, j)
        BY <4>5, Zenon
      <4>8. PICK o \in Link(<<x, j>>) :
              way(b).hop = IpOf[o] /\ Known(x, j)[way(b).hop].eaddr = Eth(o)
        <5> HIDE DEF way
        <5> QED
          BY <1>1, <4>7, Zenon DEF SoundNode, Sound, Known
      <4>9. Link(<<x, j>>) \subseteq Port
        BY <1>8, <4>5, <4>7, Zenon
      <4> HIDE DEF at, way
      <4>10. o = q
        BY <4>3, <4>4, <4>6, <4>8, <4>9, EthInjective, Zenon
      <4>11. q \in PortAt(Link(at(b)) \ {at(b)}, way(b).hop)
        BY <4>3, <4>7, <4>8, <4>10, Zenon DEF PortAt
      <4>12. SentOut(n, x, b.dgram.id)
        BY <1>5, <4>1, <4>4, <4>5, <4>6, Zenon DEF SentOut, Carries
      <4>13. a = Copy("wire", q, Eth(at(b)), Aged(b.dgram))
        BY <4>2, <4>6, Zenon
      <4> HIDE DEF known, old
      <4> QED
        BY <4>5, <4>11, <4>12, <4>13, Zenon
    <3> QED
      BY <1>1, <3>2, <3>3, Zenon
  <2> QED
    BY <2>1, <2>2, <2>3, CopyCases, Zenon
<1>11. ASSUME NEW b \in old, NEW a, <<b, a>> \in M
       PROVE  /\ a.dgram.id = b.dgram.id
              /\ \A s : \A k \in Nat :
                   Fits(Routes, b, s, k)
                     => Fits(Routes, a, s, k + Outgoing(n, x, b.dgram.id))
  <2>1. stays(b, a) \/ waits(b, a) \/ leaves(b, a)
    BY <1>11, Zenon
  <2>2. CASE stays(b, a)
    <3>1. Outgoing(n, x, b.dgram.id) = 0
      BY <1>7, <2>2, Zenon DEF Outgoing, Departs
    <3>2. \A k \in Nat : k + 0 = k
      BY PlusZero, Zenon
    <3> QED
      BY <2>2, <3>1, <3>2, Zenon
  <2>3. ASSUME Departs(b, x)
        PROVE  /\ Aged(b.dgram).id = b.dgram.id
               /\ \A s : \A k \in Nat : Fits(Routes, b, s, k) =>
                    /\ Fits(Routes, Copy("waits", at(b), way(b).hop, Aged(b.dgram)), s, k)
                    /\ \A q \in PortAt(Link(at(b)) \ {at(b)}, way(b).hop) : \A j :
                         Fits(Routes, Copy("wire", q, j, Aged(b.dgram)), s, k + 1)
    <3> DEFINE i == way(b).interface
               hop == way(b).hop
               d == b.dgram
    <3>1. /\ <<x, i>> \in Port
          /\ WayOut(Routes, x, d.dst) = [interface |-> i, hop |-> hop]
      BY <1>8, <2>3, Zenon
    <3>2. d \in Dgrams /\ Aged(d).id = d.id /\ d.ttl > 1 /\ b.port[1] = x
      BY <1>5, <1>6, <2>3, Zenon DEF Departs
    <3>3. b = Copy("queue", b.port, b.key, d)
      BY <2>3, CopyRecord, Zenon DEF Departs
    <3> HIDE DEF i, hop, d, way, at, old, M
    <3>4. ASSUME NEW s, NEW k \in Nat, Fits(Routes, b, s, k)
          PROVE  /\ Fits(Routes, Copy("waits", <<x, i>>, hop, Aged(d)), s, k)
                 /\ \A q \in PortAt(Link(<<x, i>>) \ {<<x, i>>}, hop) : \A j :
                      Fits(Routes, Copy("wire", q, j, Aged(d)), s, k + 1)
      <4>1. Fits(Routes, Copy("queue", b.port, b.key, d), s, k)
        BY <3>3, <3>4, Zenon
      <4> QED
        BY <3>1, <3>2, <4>1, FitsRouted, Zenon
    <3> QED
      BY <3>2, <3>4, Zenon DEF i, hop, d, at
  <2>4. CASE waits(b, a)
    <3>1. Outgoing(n, x, b.dgram.id) = 0
      BY <1>7, <2>4, Zenon DEF Outgoing
    <3>2. a.dgram = Aged(b.dgram)
      BY <2>4, Zenon DEF Copy
    <3>3. \A k \in Nat : k + 0 = k
      BY PlusZero, Zenon
    <3> HIDE DEF way, at, known, old, M
    <3> QED
      BY <2>3, <2>4, <3>1, <3>2, <3>3, Zenon
  <2>5. CASE leaves(b, a)
    <3>1. Outgoing(n, x, b.dgram.id) = 1
      BY <2>5, Zenon DEF Outgoing
    <3> HIDE DEF way, at, known, old, M
    <3>2. PICK q \in PortAt(Link(at(b)) \ {at(b)}, way(b).hop) :
            a = Copy("wire", q, Eth(at(b)), Aged(b.dgram))
      BY <2>5, Zenon
    <3>3. a.dgram = Aged(b.dgram)
      BY <3>2, Zenon DEF Copy
    <3> QED
      BY <2>3, <2>5, <3>1, <3>2, <3>3, Zenon
  <2> QED
    BY <2>1, <2>2, <2>4, <2>5, Zenon
<1>12. UniqueInv' /\ FitsInv'
  <2> HIDE DEF M
  <2>1. \A a \in new : \E b \in old : <<b, a>> \in M
    BY <1>10, Zenon
  <2>2. \A b \in old : \A a : <<b, a>> \in M =>
           /\ a.dgram.id = b.dgram.id
           /\ \A s : \A k \in Nat :
                Fits(Routes, b, s, k)
                  => Fits(Routes, a, s, k + Outgoing(n, x, b.dgram.id))
    BY <1>11, Zenon
  <2> QED
    BY <1>1, <1>9, <2>1, <2>2, MovesKeep, Zenon
<1>13. BoundInv'
  <2>1. ASSUME NEW j \in 1 .. Count(x), NEW g \in Outbox(n.interfaces[j].nic),
               g.payload.kind = "IPv4"
        PROVE  \E b \in old : b.dgram \in Dgrams /\ Origin(b, g.payload.dgram, x)
    <3>1. PICK b \in old :
            /\ Departs(b, x) /\ b.dgram \in Dgrams
            /\ g = Frame(Eth(at(b)), Known(x, j)[way(b).hop].eaddr,
                         Datagram(Aged(b.dgram)))
      BY <1>4, <2>1, Zenon
    <3>2. g.payload.dgram = Aged(b.dgram)
      <4> HIDE DEF at, way
      <4> QED
        BY <3>1, Zenon DEF Frame, Datagram
    <3> QED
      BY <3>1, <3>2, Zenon DEF Origin, Departs
  <2>2. wire \in SUBSET wire
    BY Zenon
  <2> QED
    BY <1>1, <2>1, <2>2, OriginsKeep, Zenon
<1> QED
  BY <1>1, <1>12, <1>13, Zenon DEF NInv

-----------------------------------------------------------------------------
(* New nodes.                                                              *)

NewInterface(x, i) == NewNetworkInterface(<<"eth", x, i>>, IpOf[<<x, i>>])

\* f holds the node after each of the first n calls of add_interface.
IsBuilding(x, f, n) ==
  f = [i \in 0 .. n |->
         IF i = 0 THEN NewRouter ELSE add_interface(f[i - 1], NewInterface(x, i))]

Building(x, n) == CHOOSE f : IsBuilding(x, f, n)

\* Any number of interfaces can be added.
LEMMA BuildingExists ==
  ASSUME NEW x, NEW n \in Nat
  PROVE  \E f : IsBuilding(x, f, n)
<1> DEFINE Bad == {k \in Nat : ~\E f : IsBuilding(x, f, k)}
           step(k, b) == add_interface(b, NewInterface(x, k))
           base == NewRouter
<1> SUFFICES ASSUME Bad # {} PROVE FALSE
  BY Zenon
<1>1. PICK k \in Bad : \A j \in Bad : k <= j
  <2>1. Bad \in SUBSET Nat
    BY Zenon
  <2> HIDE DEF Bad
  <2> QED
    BY <2>1, LeastOfSet, Zenon
<1>2. CASE k = 0
  <2> DEFINE g == [i \in 0 .. 0 |-> base]
  <2>1. g = [i \in 0 .. 0 |-> IF i = 0 THEN base ELSE step(i, g[i - 1])]
    <3> HIDE DEF step, base
    <3> QED
      OBVIOUS
  <2> QED
    BY <1>2, <2>1, Zenon DEF IsBuilding
<1>3. CASE k > 0
  <2>1. k - 1 \in Nat /\ k - 1 \notin Bad
    BY <1>1, <1>3
  <2>2. PICK f : IsBuilding(x, f, k - 1)
    BY <2>1, Zenon
  <2> DEFINE g == [i \in 0 .. k |-> IF i = k THEN step(k, f[k - 1]) ELSE f[i]]
  <2>3. f = [i \in 0 .. k - 1 |-> IF i = 0 THEN base ELSE step(i, f[i - 1])]
    BY <2>2, Zenon DEF IsBuilding
  <2>4. g = [i \in 0 .. k |-> IF i = 0 THEN base ELSE step(i, g[i - 1])]
    <3> HIDE DEF step, base
    <3>1. \A i \in 0 .. k - 1 : f[i] = IF i = 0 THEN base ELSE step(i, f[i - 1])
      BY <2>3, Zenon
    <3>2. \A i \in 0 .. k : g[i] = IF i = 0 THEN base ELSE step(i, g[i - 1])
      BY <3>1, <1>3, <1>1
    <3> QED
      BY <3>2, Zenon
  <2> QED
    BY <2>4, <1>1, Zenon DEF IsBuilding
<1> QED
  BY <1>1, <1>2, <1>3

\* A node that holds nothing yet.
Blank(n, x) ==
  /\ SoundNode(n, x)
  /\ \A i \in 1 .. Count(x) :
       /\ n.interfaces[i].nic.frames_out = << >>
       /\ n.interfaces[i].datagrams_out = << >>
       /\ DOMAIN n.interfaces[i].nic.unknown_datagram_map = {}

\* An interface is sound when it is made.
LEMMA NewInterfaceSound ==
  ASSUME NEW x \in Node, NEW i \in 1 .. Count(x)
  PROVE  LET v == NewInterface(x, i) IN
         /\ Sound(v, <<x, i>>, Link(<<x, i>>))
         /\ v.frames_out = << >>
         /\ DOMAIN v.unknown_datagram_map = {}
         /\ [nic |-> v, datagrams_out |-> << >>] \in Async
<1> DEFINE v == NewInterface(x, i)
           s == Link(<<x, i>>)
<1>1. /\ <<x, i>> \in Port /\ s \in Segment /\ <<x, i>> \in s
      /\ IpOf[<<x, i>>] \in Addresses
  BY PortsOfNode, LinkOfPort, Zenon
<1>2. Eth(<<x, i>>) \in Eths(s) /\ Eth(<<x, i>>) = <<"eth", x, i>>
  BY <1>1, Zenon DEF Eths, Eth
<1>3. /\ NoMap \in Maps(Mappings(s)) /\ NoMap \in Maps(Dgrams) /\ NoMap \in Maps(Nat)
      /\ DOMAIN NoMap = {}
  BY NoMapProperties, Zenon
<1>4. << >> \in Seq(Frames(s)) /\ << >> \in Seq(Dgrams)
  OBVIOUS
<1> HIDE DEF s
<1>5. /\ v \in Interfaces(s) /\ v.ethernet_address = Eth(<<x, i>>)
      /\ v.ip_address = IpOf[<<x, i>>] /\ v.ip_map = NoMap
      /\ v.unknown_datagram_map = NoMap /\ v.frames_out = << >>
  BY <1>1, <1>2, <1>3, <1>4, Zenon DEF NewInterface, NewNetworkInterface, Interfaces
<1> HIDE DEF v
<1>6. Sound(v, <<x, i>>, s)
  BY <1>3, <1>5, Zenon DEF Sound
<1>7. [nic |-> v, datagrams_out |-> << >>] \in Async
  BY <1>1, <1>4, <1>5, Zenon DEF Async
<1> QED
  BY <1>3, <1>5, <1>6, <1>7, Zenon DEF v, s

\* So is a node to which its interfaces were added.
LEMMA WithInterfacesBlank ==
  ASSUME NEW x \in Node
  PROVE  Blank(WithInterfaces(x, Count(x)), x)
<1> DEFINE c == Count(x)
           f == Building(x, c)
           a(i) == [nic |-> NewInterface(x, i), datagrams_out |-> << >>]
           ok(n, k) == n = [interfaces |-> [i \in 1 .. k |-> a(i)], map_vec |-> << >>]
           Bad == {k \in Nat : k <= c /\ ~ok(f[k], k)}
<1>1. c \in Nat
  BY PortsOfNode, Zenon
<1>2. WithInterfaces(x, c) = f[c]
  BY Zenon DEF WithInterfaces, Building, IsBuilding, NewInterface
<1>3. \E g : IsBuilding(x, g, c)
  BY <1>1, BuildingExists, Zenon
<1>4. IsBuilding(x, f, c)
  BY <1>3, Zenon DEF Building
<1> HIDE DEF f, c
<1>5. /\ f[0] = NewRouter
      /\ \A i \in 1 .. c : f[i] = add_interface(f[i - 1], NewInterface(x, i))
  <2> DEFINE step(k, b) == add_interface(b, NewInterface(x, k))
             base == NewRouter
  <2>1. f = [i \in 0 .. c |-> IF i = 0 THEN base ELSE step(i, f[i - 1])]
    BY <1>4, Zenon DEF IsBuilding
  <2> HIDE DEF step, base
  <2>2. f[0] = base /\ \A i \in 1 .. c : f[i] = step(i, f[i - 1])
    BY <1>1, <2>1
  <2> QED
    BY <2>2, Zenon DEF step, base
<1>6. ok(NewRouter, 0)
  <2>1. [i \in 1 .. 0 |-> a(i)] = << >>
    <3> HIDE DEF a
    <3> QED
      OBVIOUS
  <2> QED
    BY <2>1, Zenon DEF NewRouter
<1>7. ASSUME NEW k \in 1 .. c, NEW n, ok(n, k - 1)
      PROVE  ok(add_interface(n, NewInterface(x, k)), k)
  <2> DEFINE g == [i \in 1 .. k - 1 |-> a(i)]
             h == [i \in 1 .. k |-> a(i)]
  <2>1. add_interface(n, NewInterface(x, k))
          = [interfaces |-> Append(g, a(k)), map_vec |-> << >>]
    <3>1. n = [interfaces |-> g, map_vec |-> << >>]
      BY <1>7, Zenon
    <3>2. add_interface(n, NewInterface(x, k))
            = [n EXCEPT !.interfaces = Append(n.interfaces, a(k))]
      BY Zenon DEF add_interface
    <3> HIDE DEF g, a
    <3> QED
      BY <3>1, <3>2, Zenon
  <2>2. Append(g, a(k)) = h
    <3> DEFINE V == {a(i) : i \in 1 .. k}
    <3> HIDE DEF a
    <3>1. g \in [1 .. k - 1 -> V] /\ a(k) \in V
      BY <1>1
    <3>2. g \in Seq(V) /\ Len(g) = k - 1
      BY <1>1, <3>1
    <3> QED
      BY <1>1, <3>1, <3>2
  <2> QED
    BY <2>1, <2>2, Zenon
<1> HIDE DEF ok
<1>8. Bad = {}
  <2> SUFFICES ASSUME Bad # {} PROVE FALSE
    BY Zenon
  <2>1. PICK k \in Bad : \A j \in Bad : k <= j
    <3>1. Bad \in SUBSET Nat
      BY Zenon
    <3> HIDE DEF Bad
    <3> QED
      BY <3>1, LeastOfSet, Zenon
  <2>2. k # 0
    BY <1>5, <1>6, <2>1, Zenon
  <2>3. k \in 1 .. c /\ k - 1 \in Nat /\ k - 1 <= c
    BY <1>1, <2>1, <2>2
  <2>4. ok(f[k - 1], k - 1)
    BY <2>1, <2>3
  <2> QED
    BY <1>5, <1>7, <2>1, <2>3, <2>4, Zenon
<1>9. ok(f[c], c)
  BY <1>1, <1>8
<1> DEFINE n == WithInterfaces(x, c)
<1>10. n = [interfaces |-> [i \in 1 .. c |-> a(i)], map_vec |-> << >>]
  BY <1>2, <1>9, Zenon DEF ok
<1>11. \A i \in 1 .. c : /\ a(i) \in Async /\ a(i).nic = NewInterface(x, i)
                         /\ a(i).datagrams_out = << >>
  BY NewInterfaceSound, Zenon DEF c
<1> HIDE DEF n, a
<1>12. /\ \A i \in 1 .. c : n.interfaces[i] = a(i)
       /\ n \in [interfaces : [1 .. c -> Async], map_vec : Seq(Rows(c))]
  BY <1>10, <1>11
<1>13. \A i \in 1 .. c : /\ Sound(NewInterface(x, i), <<x, i>>, Link(<<x, i>>))
                         /\ NewInterface(x, i).frames_out = << >>
                         /\ DOMAIN NewInterface(x, i).unknown_datagram_map = {}
  BY NewInterfaceSound, Zenon DEF c
<1>14. Blank(n, x)
  BY <1>11, <1>12, <1>13, Zenon DEF Blank, SoundNode, c
<1> QED
  BY <1>14, Zenon DEF n, c

\* f holds what the first n calls of add_route may have left.
IsConfiguring(r, table, f, n) ==
  f = [k \in 0 .. n |->
         IF k = 0 THEN {r}
         ELSE UNION {{add_route(q, masked, table[k].prefix_length,
                                table[k].next_hop, table[k].interface_num) :
                        masked \in MaskedPrefixes(table[k].route_prefix,
                                                  table[k].prefix_length)} :
                       q \in f[k - 1]}]

Configuring(r, table) == CHOOSE f : IsConfiguring(r, table, f, Len(table))

\* Any number of routes can be added.
LEMMA ConfiguringExists ==
  ASSUME NEW r, NEW table, NEW n \in Nat
  PROVE  \E f : IsConfiguring(r, table, f, n)
<1> DEFINE Bad == {k \in Nat : ~\E f : IsConfiguring(r, table, f, k)}
           step(k, b) == UNION {{add_route(q, masked, table[k].prefix_length,
                                           table[k].next_hop, table[k].interface_num) :
                                   masked \in MaskedPrefixes(table[k].route_prefix,
                                                             table[k].prefix_length)} :
                                  q \in b}
           base == {r}
<1> SUFFICES ASSUME Bad # {} PROVE FALSE
  BY Zenon
<1>1. PICK k \in Bad : \A j \in Bad : k <= j
  <2>1. Bad \in SUBSET Nat
    BY Zenon
  <2> HIDE DEF Bad
  <2> QED
    BY <2>1, LeastOfSet, Zenon
<1>2. CASE k = 0
  <2> DEFINE g == [i \in 0 .. 0 |-> base]
  <2>1. g = [i \in 0 .. 0 |-> IF i = 0 THEN base ELSE step(i, g[i - 1])]
    <3> HIDE DEF step, base
    <3> QED
      OBVIOUS
  <2> QED
    BY <1>2, <2>1, Zenon DEF IsConfiguring
<1>3. CASE k > 0
  <2>1. k - 1 \in Nat /\ k - 1 \notin Bad
    BY <1>1, <1>3
  <2>2. PICK f : IsConfiguring(r, table, f, k - 1)
    BY <2>1, Zenon
  <2> DEFINE g == [i \in 0 .. k |-> IF i = k THEN step(k, f[k - 1]) ELSE f[i]]
  <2>3. f = [i \in 0 .. k - 1 |-> IF i = 0 THEN base ELSE step(i, f[i - 1])]
    BY <2>2, Zenon DEF IsConfiguring
  <2>4. g = [i \in 0 .. k |-> IF i = 0 THEN base ELSE step(i, g[i - 1])]
    <3> HIDE DEF step, base
    <3>1. \A i \in 0 .. k - 1 : f[i] = IF i = 0 THEN base ELSE step(i, f[i - 1])
      BY <2>3, Zenon
    <3>2. \A i \in 0 .. k : g[i] = IF i = 0 THEN base ELSE step(i, g[i - 1])
      BY <3>1, <1>3, <1>1
    <3> QED
      BY <3>2, Zenon
  <2> QED
    BY <2>4, <1>1, Zenon DEF IsConfiguring
<1> QED
  BY <1>1, <1>2, <1>3

\* Adding routes to a blank node of x changes its table only.
LEMMA ConfiguredBlank ==
  ASSUME NEW x \in RouterName, NEW r, Blank(r, x), NEW table \in Tables[x],
         NEW n \in Configured(r, table)
  PROVE  Blank(n, x)
<1> DEFINE f == Configuring(r, table)
           Bad == {k \in Nat : k <= Len(table) /\ ~\A q \in f[k] : Blank(q, x)}
<1>1. table \in Seq([route_prefix : Addresses, prefix_length : 0 .. AddressBits,
                     next_hop : Addresses \cup {Direct},
                     interface_num : 0 .. Count(x) - 1])
  BY InternetAssumption, Zenon DEF Count
<1>2. Len(table) \in Nat
  BY <1>1
<1>3. Configured(r, table) = f[Len(table)]
  BY Zenon DEF Configured, Configuring, IsConfiguring
<1>4. \E g : IsConfiguring(r, table, g, Len(table))
  BY <1>2, ConfiguringExists, Zenon
<1>5. IsConfiguring(r, table, f, Len(table))
  BY <1>4, Zenon DEF Configuring
<1> HIDE DEF f
<1>6. /\ f[0] = {r}
      /\ \A k \in 1 .. Len(table) : \A o \in f[k] :
           \E q \in f[k - 1] :
             \E masked \in MaskedPrefixes(table[k].route_prefix, table[k].prefix_length) :
               o = add_route(q, masked, table[k].prefix_length,
                             table[k].next_hop, table[k].interface_num)
  <2> DEFINE step(k, b) ==
               UNION {{add_route(q, masked, table[k].prefix_length,
                                 table[k].next_hop, table[k].interface_num) :
                         masked \in MaskedPrefixes(table[k].route_prefix,
                                                   table[k].prefix_length)} : q \in b}
             base == {r}
  <2>1. f = [i \in 0 .. Len(table) |-> IF i = 0 THEN base ELSE step(i, f[i - 1])]
    BY <1>5, Zenon DEF IsConfiguring
  <2> HIDE DEF step, base
  <2>2. f[0] = base /\ \A i \in 1 .. Len(table) : f[i] = step(i, f[i - 1])
    <3>1. /\ 0 \in 0 .. Len(table)
          /\ \A i \in 1 .. Len(table) : i \in 0 .. Len(table) /\ i # 0
      BY <1>2
    <3> QED
      BY <2>1, <3>1, Zenon
  <2> QED
    BY <2>2 DEF step, base
<1>7. ASSUME NEW k \in 1 .. Len(table), NEW q, Blank(q, x),
             NEW masked \in MaskedPrefixes(table[k].route_prefix, table[k].prefix_length)
      PROVE  Blank(add_route(q, masked, table[k].prefix_length,
                             table[k].next_hop, table[k].interface_num), x)
  <2> DEFINE row == MapItem(masked, table[k].prefix_length,
                            table[k].next_hop, table[k].interface_num)
             o == add_route(q, masked, table[k].prefix_length,
                            table[k].next_hop, table[k].interface_num)
  <2>1. /\ table[k].route_prefix \in Addresses
        /\ table[k].prefix_length \in 0 .. AddressBits
        /\ table[k].next_hop \in Addresses \cup {Direct}
        /\ table[k].interface_num \in 0 .. Count(x) - 1
    <3> DEFINE S == [route_prefix : Addresses, prefix_length : 0 .. AddressBits,
                     next_hop : Addresses \cup {Direct},
                     interface_num : 0 .. Count(x) - 1]
    <3>1. table \in Seq(S)
      BY <1>1, Zenon
    <3> HIDE DEF S
    <3>2. table[k] \in S
      BY <3>1
    <3> QED
      BY <3>2, Zenon DEF S
  <2>2. masked \in Prefixes
    BY <1>7, <2>1 DEF Prefixes
  <2>3. row \in Rows(Count(x))
    BY <2>1, <2>2, Zenon DEF Rows, MapItem
  <2>4. q \in [interfaces : [1 .. Count(x) -> Async], map_vec : Seq(Rows(Count(x)))]
    BY <1>7, Zenon DEF Blank, SoundNode
  <2>5. o = [q EXCEPT !.map_vec = Append(q.map_vec, row)]
    BY Zenon DEF add_route
  <2> HIDE DEF row, o
  <2>6. Append(q.map_vec, row) \in Seq(Rows(Count(x)))
    BY <2>3, <2>4
  <2>7. /\ o \in [interfaces : [1 .. Count(x) -> Async], map_vec : Seq(Rows(Count(x)))]
        /\ o.interfaces = q.interfaces
    BY <2>4, <2>5, <2>6, Zenon
  <2>8. Blank(o, x)
    BY <1>7, <2>7, Zenon DEF Blank, SoundNode
  <2> QED
    BY <2>8, Zenon DEF o
<1>8. Bad = {}
  <2> SUFFICES ASSUME Bad # {} PROVE FALSE
    BY Zenon
  <2>1. PICK k \in Bad : \A j \in Bad : k <= j
    <3>1. Bad \in SUBSET Nat
      BY Zenon
    <3> HIDE DEF Bad
    <3> QED
      BY <3>1, LeastOfSet, Zenon
  <2>2. k # 0
    BY <1>6, <2>1, Zenon
  <2>3. k \in 1 .. Len(table) /\ k - 1 \in Nat /\ k - 1 <= Len(table)
    BY <1>2, <2>1, <2>2
  <2>4. \A q \in f[k - 1] : Blank(q, x)
    BY <2>1, <2>3
  <2>5. ASSUME NEW o \in f[k] PROVE Blank(o, x)
    <3>1. PICK q \in f[k - 1] :
            \E masked \in MaskedPrefixes(table[k].route_prefix, table[k].prefix_length) :
              o = add_route(q, masked, table[k].prefix_length,
                            table[k].next_hop, table[k].interface_num)
      BY <1>6, <2>3, Zenon
    <3> QED
      BY <1>7, <2>3, <2>4, <3>1, Zenon
  <2> QED
    BY <2>1, <2>5, Zenon
<1> QED
  BY <1>2, <1>3, <1>8

-----------------------------------------------------------------------------
(* The invariant.                                                          *)

\* The first interface of a host is its only one.
LEMMA InitBlank ==
  ASSUME Init, NEW x \in Node
  PROVE  Blank(nodes[x], x)
<1>1. CASE x \in Host
  <2>1. nodes[x] = WithInterfaces(x, 1) /\ Count(x) = 1
    BY <1>1, PortsOfNode, Zenon DEF Init
  <2> QED
    BY <2>1, WithInterfacesBlank, Zenon
<1>2. CASE x \in RouterName
  <2>1. nodes[x] \in NewRouters(x)
    BY <1>2, Zenon DEF Init
  <2>2. PICK table \in Tables[x] :
          nodes[x] \in Configured(WithInterfaces(x, Count(x)), table)
    BY <2>1, Zenon DEF NewRouters, Count
  <2>3. Blank(WithInterfaces(x, Count(x)), x)
    BY WithInterfacesBlank, Zenon
  <2> QED
    BY <1>2, <2>2, <2>3, ConfiguredBlank, Zenon
<1> QED
  BY <1>1, <1>2, Zenon DEF Node

\* There is no copy of anything before the first datagram.
LEMMA InitKeeps ==
  ASSUME Init
  PROVE  NInv
<1>1. \A x \in Node : Blank(nodes[x], x)
  BY InitBlank, Zenon
<1>2. /\ wire = {} /\ sent = << >> /\ crossings = << >>
      /\ nodes = [x \in Node |-> nodes[x]]
  BY Zenon DEF Init, Node
<1>3. TypesInv
  <2>1. \A x \in Node : SoundNode(nodes[x], x) /\ Drained(nodes[x], x)
    BY <1>1, Zenon DEF Blank, Drained
  <2>2. sent \in Seq(Sendings) /\ crossings \in [DOMAIN sent -> Nat]
    BY <1>2
  <2> QED
    BY <1>2, <2>1, <2>2, Zenon DEF TypesInv
<1>4. \A c \in Copies(nodes, wire) : FALSE
  <2> SUFFICES ASSUME NEW c \in Copies(nodes, wire) PROVE FALSE
    BY Zenon
  <2>1. IsQueued(c, nodes) \/ IsWaiting(c, nodes) \/ IsFlying(c, wire)
    BY CopyCases, Zenon
  <2>2. \A p \in Port : p[1] \in Node /\ p[2] \in 1 .. Count(p[1])
    BY PortsOfNode, Zenon
  <2>3. ASSUME NEW p \in Port
        PROVE  Queue(nodes, p) = << >> /\ DOMAIN Waiting(nodes, p) = {}
    BY <1>1, <2>2, Zenon DEF Blank, Queue, Waiting
  <2>4. ASSUME NEW p \in Port PROVE DOMAIN Queue(nodes, p) = {}
    BY <2>3
  <2> QED
    BY <1>2, <2>1, <2>3, <2>4, Zenon DEF IsQueued, IsWaiting, IsFlying
<1>5. UniqueInv /\ FitsInv
  BY <1>4, Zenon DEF UniqueInv, FitsInv
<1>6. BoundInv
  BY <1>2 DEF BoundInv
<1> QED
  BY <1>3, <1>5, <1>6, Zenon DEF NInv

\* Every step keeps the invariant.
LEMMA NextKeeps ==
  ASSUME NInv, [Next]_vars
  PROVE  NInv'
<1>1. ASSUME NEW t \in Traffic, NEW ttl \in Ttls, Send(t[1], t[2], ttl)
      PROVE  NInv'
  <2>1. t[1] \in Host /\ t[2] \in Addresses /\ ttl \in Nat
    BY InternetAssumption, Zenon
  <2> QED
    BY <1>1, <2>1, SendKeeps, Zenon
<1>2. ASSUME NEW f \in wire, RecvFrame(f) PROVE NInv'
  BY <1>2, RecvKeeps, Zenon
<1>3. ASSUME NEW r \in RouterName, Route(r) PROVE NInv'
  BY <1>3, RouteKeeps, Zenon
<1>4. CASE UNCHANGED vars
  BY <1>4, Zenon DEF vars, NInv, TypesInv, UniqueInv, FitsInv, BoundInv, Routes
<1> QED
  BY <1>1, <1>2, <1>3, <1>4, Zenon DEF Next

\* In every state of every such network, the nodes and the frames have their
\* types, no datagram has two copies, and every copy fits what happened to it.
THEOREM InternetInvariant == Spec => []NInv
<1>1. Init => NInv
  BY InitKeeps, Zenon
<1>2. NInv /\ [Next]_vars => NInv'
  BY NextKeeps, Zenon
<1> QED
  BY <1>1, <1>2, PTL DEF Spec

-----------------------------------------------------------------------------
(* What follows from it.                                                   *)

\* The routers together send a datagram out less often than the time to live it
\* started with, whatever their tables say (Router::route_one_datagram).
THEOREM CrossingsBoundedCorrect == Spec => []CrossingsBounded
<1>1. ASSUME NInv PROVE CrossingsBounded
  <2> SUFFICES ASSUME NEW id \in DOMAIN sent
               PROVE  /\ crossings[id] <= IF sent[id].ttl = 0 THEN 0 ELSE sent[id].ttl - 1
                      /\ \A f \in wire : Carries(f.frame, id) /\ crossings[id] > 0 =>
                           f.frame.payload.dgram.ttl > 0
    BY Zenon DEF CrossingsBounded
  <2>1. /\ crossings[id] \in Nat /\ sent[id].ttl \in Nat
        /\ crossings[id] <= IF sent[id].ttl = 0 THEN 0 ELSE sent[id].ttl - 1
    <3>1. sent \in Seq(Sendings) /\ crossings \in [DOMAIN sent -> Nat]
      BY <1>1, Zenon DEF NInv, TypesInv
    <3>2. sent[id] \in Sendings /\ crossings[id] \in Nat
      BY <3>1
    <3>3. sent[id].ttl \in Nat
      BY <3>2, Zenon DEF Sendings
    <3> QED
      BY <1>1, <3>2, <3>3, Zenon DEF NInv, BoundInv
  <2>2. ASSUME NEW f \in wire, Carries(f.frame, id), crossings[id] > 0
        PROVE  f.frame.payload.dgram.ttl > 0
    <3>1. f.frame.payload.dgram \in Dgrams
      <4>1. f.to \in Port /\ f.frame \in Frames(Link(f.to))
        BY <1>1, Zenon DEF NInv, TypesInv, OnTheWay
      <4> QED
        BY <2>2, <4>1, LinkOfPort, FrameParts, Zenon DEF Carries
    <3>2. f.frame.payload.dgram.ttl \in Nat
      BY <3>1, Zenon DEF Dgrams
    <3>3. f.frame.payload.dgram.ttl + crossings[id] >= sent[id].ttl
      BY <1>1, <2>2, Zenon DEF NInv, BoundInv, Carries
    <3> QED
      BY <2>1, <2>2, <3>2, <3>3
  <2> QED
    BY <2>1, <2>2, Zenon
<1> QED
  BY <1>1, InternetInvariant, PTL

\* The place of a copy: Places tells frames apart by their port alone.
PlaceOf(c) ==
  [at |-> c.at, port |-> c.port,
   key |-> IF c.at = "wire" THEN 0 ELSE c.key, dgram |-> c.dgram]

\* Every place of datagram id holds a copy of it.
LEMMA PlaceCopy ==
  ASSUME NEW id, NEW pl \in Places(id)
  PROVE  \E c \in Copies(nodes, wire) : c.dgram.id = id /\ pl = PlaceOf(c)
<1> DEFINE place(at, p, k, d) == [at |-> at, port |-> p, key |-> k, dgram |-> d]
           some == \E c \in Copies(nodes, wire) :
                     /\ c.dgram.id = id
                     /\ pl = place(c.at, c.port, IF c.at = "wire" THEN 0 ELSE c.key, c.dgram)
           A(p) == {place("queue", p, k, Queue(nodes, p)[k]) :
                      k \in {j \in DOMAIN Queue(nodes, p) : Queue(nodes, p)[j].id = id}}
           B(p) == {place("waits", p, ip, Waiting(nodes, p)[ip]) :
                      ip \in {a \in DOMAIN Waiting(nodes, p) : Waiting(nodes, p)[a].id = id}}
           D == {place("wire", f.to, 0, f.frame.payload.dgram) :
                   f \in {g \in wire : Carries(g.frame, id) /\ g.frame.dst = Eth(g.to)}}
<1>1. Places(id) = (UNION {A(p) : p \in Port}) \cup (UNION {B(p) : p \in Port}) \cup D
  BY Zenon DEF Places, Queue, Waiting, Eth
<1>2. ASSUME NEW p \in Port, pl \in A(p) PROVE some
  <2>1. PICK k \in DOMAIN Queue(nodes, p) : /\ Queue(nodes, p)[k].id = id
                                            /\ pl = place("queue", p, k, Queue(nodes, p)[k])
    BY <1>2, Zenon
  <2> DEFINE c == Copy("queue", p, k, Queue(nodes, p)[k])
  <2>2. c \in Copies(nodes, wire)
    BY CopiesAre, Zenon
  <2>3. c.at = "queue" /\ c.port = p /\ c.key = k /\ c.dgram = Queue(nodes, p)[k]
    BY Zenon DEF Copy
  <2> HIDE DEF c
  <2> QED
    BY <2>1, <2>2, <2>3, Zenon
<1>3. ASSUME NEW p \in Port, pl \in B(p) PROVE some
  <2>1. PICK ip \in DOMAIN Waiting(nodes, p) :
          /\ Waiting(nodes, p)[ip].id = id
          /\ pl = place("waits", p, ip, Waiting(nodes, p)[ip])
    BY <1>3, Zenon
  <2> DEFINE c == Copy("waits", p, ip, Waiting(nodes, p)[ip])
  <2>2. c \in Copies(nodes, wire)
    BY CopiesAre, Zenon
  <2>3. c.at = "waits" /\ c.port = p /\ c.key = ip /\ c.dgram = Waiting(nodes, p)[ip]
    BY Zenon DEF Copy
  <2> HIDE DEF c
  <2> QED
    BY <2>1, <2>2, <2>3, Zenon
<1>4. ASSUME pl \in D PROVE some
  <2>1. PICK f \in wire : /\ Carries(f.frame, id) /\ f.frame.dst = Eth(f.to)
                          /\ pl = place("wire", f.to, 0, f.frame.payload.dgram)
    BY <1>4, Zenon
  <2> DEFINE c == Copy("wire", f.to, f.frame.src, f.frame.payload.dgram)
  <2>2. c \in Copies(nodes, wire)
    BY <2>1, CopiesAre, Zenon DEF Aimed, Carries
  <2>3. c.at = "wire" /\ c.port = f.to /\ c.dgram = f.frame.payload.dgram
    BY Zenon DEF Copy
  <2>4. f.frame.payload.dgram.id = id
    BY <2>1, Zenon DEF Carries
  <2> HIDE DEF c
  <2> QED
    BY <2>1, <2>2, <2>3, <2>4, Zenon
<1>5. some
  <2> HIDE DEF A, B, D, some
  <2> QED
    BY <1>1, <1>2, <1>3, <1>4, Zenon
<1> QED
  BY <1>5, Zenon DEF PlaceOf

\* However frames, ARP exchanges and the routers' work interleave, there is one
\* copy of a datagram at most; it has lost one unit of its time to live for each
\* router that has worked on it, and no host receives it but the one to which the
\* tables lead it (NetworkInterface, Router::route).
THEOREM OneCopyCorrect == Spec => []OneCopy
<1>1. ASSUME NInv PROVE OneCopy
  <2> SUFFICES ASSUME NEW id \in DOMAIN sent
               PROVE  /\ \A p, q \in Places(id) : p = q
                      /\ \A p \in Places(id) :
                           /\ p.dgram = [id |-> id, dst |-> sent[id].dst,
                                ttl |-> sent[id].ttl - crossings[id]
                                          - IF p.at = "waits" /\ p.port[1] \in RouterName
                                            THEN 1 ELSE 0]
                           /\ p.at = "queue" /\ p.port[1] \in Host => p.port \in Due(id)
    BY Zenon DEF OneCopy
  <2>1. TypesInv /\ UniqueInv /\ FitsInv
    BY <1>1, Zenon DEF NInv
  <2>2. ASSUME NEW p \in Places(id), NEW q \in Places(id) PROVE p = q
    <3>1. PICK c \in Copies(nodes, wire) : c.dgram.id = id /\ p = PlaceOf(c)
      BY PlaceCopy, Zenon
    <3>2. PICK d \in Copies(nodes, wire) : d.dgram.id = id /\ q = PlaceOf(d)
      BY PlaceCopy, Zenon
    <3>3. c = d
      BY <2>1, <3>1, <3>2, Zenon DEF UniqueInv
    <3> QED
      BY <3>1, <3>2, <3>3, Zenon
  <2>3. ASSUME NEW p \in Places(id)
        PROVE  /\ p.dgram = [id |-> id, dst |-> sent[id].dst,
                             ttl |-> sent[id].ttl - crossings[id]
                                       - IF p.at = "waits" /\ p.port[1] \in RouterName
                                         THEN 1 ELSE 0]
               /\ p.at = "queue" /\ p.port[1] \in Host => p.port \in Due(id)
    <3>1. PICK c \in Copies(nodes, wire) : c.dgram.id = id /\ p = PlaceOf(c)
      BY PlaceCopy, Zenon
    <3>2. p.at = c.at /\ p.port = c.port /\ p.dgram = c.dgram
      BY <3>1, Zenon DEF PlaceOf
    <3>3. c.dgram \in Dgrams /\ c.port \in Port
      BY <2>1, CopyTyped, Zenon
    <3>4. Fits(Routes, c, sent[id], crossings[id])
      BY <2>1, <3>1, Zenon DEF FitsInv
    <3>5. sent[id].ttl \in Nat /\ crossings[id] \in Nat
      <4>1. sent[id] \in Sendings /\ crossings[id] \in Nat
        BY <2>1 DEF TypesInv
      <4> QED
        BY <4>1, Zenon DEF Sendings
    <3>6. c.dgram.ttl = sent[id].ttl - crossings[id]
                          - IF p.at = "waits" /\ p.port[1] \in RouterName THEN 1 ELSE 0
      <4> DEFINE k == IF p.at = "waits" /\ p.port[1] \in RouterName THEN 1 ELSE 0
                 ttl == c.dgram.ttl
      <4>1. k = Held(c)
        BY <3>2, Zenon DEF Held
      <4>2. ttl \in Nat /\ ttl + crossings[id] + k = sent[id].ttl
        BY <3>4, <4>1, Zenon DEF Fits
      <4>3. k \in {0, 1}
        BY Zenon
      <4> HIDE DEF k, ttl
      <4>4. ttl = sent[id].ttl - crossings[id] - k
        BY <3>5, <4>2, <4>3, SMTT(30)
      <4> QED
        BY <4>4, Zenon DEF k, ttl
    <3>7. c.dgram = [id |-> c.dgram.id, dst |-> c.dgram.dst, ttl |-> c.dgram.ttl]
      BY <3>3, Zenon DEF Dgrams
    <3>8. c.dgram.dst = sent[id].dst /\ c.dgram.ttl \in Nat
      BY <3>4, Zenon DEF Fits
    <3>9. ASSUME p.at = "queue", p.port[1] \in Host PROVE p.port \in Due(id)
      <4>1. c.port \in Heads(c)
        BY <3>2, <3>9, Zenon DEF Heads
      <4>2. Fate(Routes, c.port[1], c.dgram.dst, c.dgram.ttl) \subseteq Due(id)
        BY <3>4, <4>1, Zenon DEF Fits, DueOf, Due
      <4>3. Fate(Routes, c.port[1], c.dgram.dst, c.dgram.ttl) = Ports(c.port[1])
        <5>1. c.port[1] \in Host /\ c.dgram.ttl \in Nat
          BY <3>2, <3>8, <3>9, Zenon
        <5> QED
          BY <5>1, FateUnfolds, Zenon
      <4> QED
        BY <3>2, <3>3, <4>2, <4>3, Zenon DEF Ports
    <3> QED
      BY <3>1, <3>2, <3>6, <3>7, <3>8, <3>9, Zenon
  <2> QED
    BY <2>2, <2>3, Zenon
<1> QED
  BY <1>1, InternetInvariant, PTL

-----------------------------------------------------------------------------
(* The route that is taken.                                               *)

\* The routes, by their place in the table, that the loop finds to match.
Matches(map_vec, dest_ip) ==
  {i \in DOMAIN map_vec :
     matched_prefix_length(dest_ip, map_vec[i].route_prefix, map_vec[i].prefix_length)}

\* The first match is taken, because the loop starts from zero; later ones may
\* replace it, and all do if the bytes that it compares are zero.
LEMMA ChoiceMatches ==
  ASSUME NEW map_vec, Len(map_vec) \in Nat, DOMAIN map_vec = 1 .. Len(map_vec),
         \A i \in DOMAIN map_vec : map_vec[i].route_prefix \in Nat,
         NEW dest_ip, Matches(map_vec, dest_ip) # {}
  PROVE  \E i \in Matches(map_vec, dest_ip) :
           /\ Choice(map_vec, dest_ip).interface_num = map_vec[i].interface_num
           /\ Choice(map_vec, dest_ip).next_hop = map_vec[i].next_hop
           /\ \/ \E j \in DOMAIN map_vec : map_vec[j].route_prefix % LengthModulus # 0
              \/ \A j \in Matches(map_vec, dest_ip) : j <= i
<1> DEFINE f == Scan(map_vec, dest_ip)
           M == Matches(map_vec, dest_ip)
           zeroes == \A j \in DOMAIN map_vec : map_vec[j].route_prefix % LengthModulus = 0
           from(b, i) == /\ b.max_match_length = map_vec[i].route_prefix % LengthModulus
                         /\ b.interface_num = map_vec[i].interface_num
                         /\ b.next_hop = map_vec[i].next_hop
           none(k) == f[k].max_match_length = 0 /\ \A j \in M : j > k
           some(k) == \E i \in M : /\ i <= k
                                   /\ from(f[k], i)
                                   /\ zeroes => \A j \in M : j <= k => j <= i
           Bad == {k \in Nat : k <= Len(map_vec) /\ ~(none(k) \/ some(k))}
<1>1. /\ Choice(map_vec, dest_ip) = f[Len(map_vec)]
      /\ f[0] = NoChoice
      /\ \A i \in 1 .. Len(map_vec) : f[i] = Looked(map_vec, dest_ip, i, f[i - 1])
  BY ChoiceIs, Zenon
<1>2. M \subseteq 1 .. Len(map_vec)
  BY Zenon DEF Matches
<1> HIDE DEF f
<1>0. \A j \in M : j <= Len(map_vec)
  BY <1>2
<1>3. none(0)
  BY <1>1, <1>2 DEF NoChoice
<1>4. ASSUME NEW k \in 1 .. Len(map_vec), none(k - 1) \/ some(k - 1)
      PROVE  none(k) \/ some(k)
  <2> DEFINE item == map_vec[k]
  <2>1. f[k] = Looked(map_vec, dest_ip, k, f[k - 1])
    BY <1>1, Zenon
  <2>2. item.route_prefix \in Nat /\ item.route_prefix >= 0
    <3>1. item.route_prefix \in Nat
      BY Zenon
    <3> HIDE DEF item
    <3> QED
      BY <3>1
  <2>3. k \in M <=> matched_prefix_length(dest_ip, item.route_prefix, item.prefix_length)
    BY Zenon DEF Matches
  <2>4. CASE k \notin M
    <3>1. f[k] = f[k - 1]
      BY <2>1, <2>3, <2>4, Zenon DEF Looked
    <3>2. \A j \in M : j > k - 1 => j > k
      BY <1>2, <2>4
    <3>3. \A j \in M : j <= k => j <= k - 1
      BY <1>2, <2>4
    <3> HIDE DEF M, zeroes, from
    <3>4. none(k - 1) => none(k)
      BY <3>1, <3>2, Zenon
    <3>5. some(k - 1) => some(k)
      BY <3>1, <3>3, <1>2
    <3> QED
      BY <1>4, <3>4, <3>5, Zenon
  <2>5. CASE k \in M /\ item.route_prefix >= f[k - 1].max_match_length
    <3>1. from(f[k], k)
      BY <2>1, <2>3, <2>5 DEF Looked
    <3> HIDE DEF M, zeroes, from
    <3> QED
      <4>1. k <= k
        OBVIOUS
      <4> QED
        BY <2>5, <3>1, <4>1, Zenon
  <2>6. CASE k \in M /\ ~(item.route_prefix >= f[k - 1].max_match_length)
    <3>1. f[k] = f[k - 1]
      BY <2>1, <2>6, Zenon DEF Looked
    <3>2. some(k - 1)
      BY <1>4, <2>2, <2>6, Zenon
    <3>3. PICK i \in M : /\ i <= k - 1
                         /\ from(f[k - 1], i)
      BY <3>2, Zenon
    <3>4. ~zeroes
      <4>1. i \in DOMAIN map_vec
        BY <1>2, Zenon
      <4> QED
        BY <2>2, <2>6, <3>3, <4>1, Zenon
    <3> HIDE DEF M, zeroes, from
    <3>5. i <= k
      BY <3>3, <1>2
    <3> QED
      BY <3>1, <3>3, <3>4, <3>5, Zenon
  <2> QED
    BY <2>4, <2>5, <2>6, Zenon
<1> HIDE DEF none, some
<1>5. Bad = {}
  <2> SUFFICES ASSUME Bad # {} PROVE FALSE
    BY Zenon
  <2>1. PICK k \in Bad : \A j \in Bad : k <= j
    <3>1. Bad \in SUBSET Nat
      BY Zenon
    <3> HIDE DEF Bad
    <3> QED
      BY <3>1, LeastOfSet, Zenon
  <2>2. k # 0
    BY <1>3, <2>1, Zenon
  <2>3. k \in 1 .. Len(map_vec) /\ k - 1 \in Nat /\ k - 1 <= Len(map_vec)
    BY <2>1, <2>2
  <2>4. none(k - 1) \/ some(k - 1)
    BY <2>1, <2>3
  <2> QED
    BY <1>4, <2>1, <2>3, <2>4, Zenon
<1>6. none(Len(map_vec)) \/ some(Len(map_vec))
  BY <1>5
<1>7. some(Len(map_vec))
  <2>1. PICK j \in M : TRUE
    BY Zenon
  <2> QED
    BY <1>2, <1>6, <2>1 DEF none
<1> HIDE DEF M
<1>8. PICK i \in M : /\ from(f[Len(map_vec)], i)
                     /\ zeroes => \A j \in M : j <= Len(map_vec) => j <= i
  BY <1>7, Zenon DEF some
<1>9. zeroes => \A j \in M : j <= i
  BY <1>0, <1>8, Zenon
<1> QED
  BY <1>1, <1>8, <1>9, Zenon DEF M

-----------------------------------------------------------------------------
(* Comparing the bits of a prefix.                                         *)

\* What the powers of two are; the provers know nothing of ^.
Powers == 2 ^ 0 = 1 /\ \A n \in Nat : 2 ^ n \in Nat /\ 2 ^ (n + 1) = 2 * 2 ^ n

\* Quotient and remainder.
LEMMA DivMod ==
  ASSUME NEW m \in Nat \ {0}, NEW a \in Nat
  PROVE  /\ a \div m \in Nat /\ a % m \in 0 .. m - 1
         /\ a = m * (a \div m) + (a % m)
<1>1. a % m \in 0 .. m - 1 /\ a \div m \in Nat
  OBVIOUS
<1>2. a = m * (a \div m) + (a % m)
  OBVIOUS
<1> QED
  BY <1>1, <1>2, Zenon

\* They are determined by the number.
LEMMA DivUnique ==
  ASSUME NEW m \in Nat \ {0}, NEW q \in Nat, NEW r \in 0 .. m - 1
  PROVE  (m * q + r) \div m = q
  OBVIOUS

\* A power of two is positive.
LEMMA PowerPositive ==
  ASSUME Powers, NEW n \in Nat
  PROVE  2 ^ n \in Nat \ {0}
<1> DEFINE Bad == {k \in Nat : 2 ^ k = 0}
<1> SUFFICES ASSUME Bad # {} PROVE FALSE
  BY Zenon DEF Powers
<1>1. PICK k \in Bad : \A j \in Bad : k <= j
  <2>1. Bad \in SUBSET Nat
    BY Zenon
  <2> HIDE DEF Bad
  <2> QED
    BY <2>1, LeastOfSet, Zenon
<1>2. k # 0
  <2> SUFFICES ASSUME k = 0 PROVE FALSE
    BY Zenon
  <2>1. 2 ^ 0 = 0
    BY <1>1, Zenon
  <2>2. 2 ^ 0 = 1
    BY Zenon DEF Powers
  <2> QED
    BY <2>1, <2>2
<1>3. k - 1 \in Nat /\ (k - 1) + 1 = k /\ k - 1 \notin Bad
  BY <1>1, <1>2
<1>4. 2 ^ ((k - 1) + 1) = 2 * 2 ^ (k - 1) /\ 2 ^ (k - 1) \in Nat
  BY <1>3, Zenon DEF Powers
<1> QED
  BY <1>1, <1>3, <1>4

\* Shifting by one bit more takes the lowest bit off.
LEMMA ShiftOne ==
  ASSUME Powers, NEW a \in Nat, NEW k \in Nat
  PROVE  /\ a \div 2 ^ k \in Nat
         /\ a \div 2 ^ (k + 1) = (a \div 2 ^ k) \div 2
<1> DEFINE p == 2 ^ k
           q == a \div p
           r == a % p
           h == q \div 2
           b == q % 2
<1>1. p \in Nat \ {0} /\ 2 ^ (k + 1) = 2 * p
  BY PowerPositive, Zenon DEF Powers
<1> HIDE DEF p
<1>2. q \in Nat /\ r \in 0 .. p - 1 /\ a = p * q + r
  BY <1>1, DivMod, Zenon
<1> HIDE DEF q, r
<1>3. h \in Nat /\ b \in 0 .. 1 /\ q = 2 * h + b
  BY <1>2
<1> HIDE DEF h, b
<1>4. p * q = (2 * p) * h + p * b
  BY <1>1, <1>2, <1>3
<1>5. p * b + r \in 0 .. 2 * p - 1
  <2>1. b = 0 \/ b = 1
    BY <1>3
  <2>2. p * 0 = 0 /\ p * 1 = p
    BY <1>1
  <2> QED
    BY <1>1, <1>2, <2>1, <2>2
<1>6. p * b \in Int /\ (2 * p) * h \in Int
  BY <1>1, <1>3
<1>7. a = (2 * p) * h + (p * b + r)
  BY <1>2, <1>4, <1>6
<1>8. 2 * p \in Nat \ {0}
  BY <1>1
<1>9. a \div (2 * p) = h
  BY <1>3, <1>5, <1>7, <1>8, DivUnique, Zenon
<1> QED
  BY <1>1, <1>2, <1>9, Zenon DEF q, h, p

\* Comparing the leading bits one by one, as the loop of matched_prefix_length
\* does, and comparing the numbers without their other bits are the same.
LEMMA BitByBit ==
  ASSUME Powers, NEW a \in Addresses, NEW b \in Addresses,
         NEW l \in 0 .. AddressBits
  PROVE  matched_prefix_length(a, b, l)
           <=> \A k \in AddressBits - l .. AddressBits - 1 :
                 (a \div 2 ^ k) % 2 = (b \div 2 ^ k) % 2
<1> DEFINE w == AddressBits
           A(k) == a \div 2 ^ k
           B(k) == b \div 2 ^ k
<1>1. w \in Nat /\ a \in Nat /\ b \in Nat /\ w - l \in Nat
  BY WidthAssumption DEF Addresses
<1>2. \A k \in Nat : /\ A(k) \in Nat /\ B(k) \in Nat
                     /\ A(k + 1) = A(k) \div 2 /\ B(k + 1) = B(k) \div 2
  BY <1>1, ShiftOne, Zenon
<1>3. A(w) = 0 /\ B(w) = 0
  <2>1. 2 ^ w \in Nat \ {0}
    BY <1>1, PowerPositive, Zenon
  <2>2. a \in 0 .. 2 ^ w - 1 /\ b \in 0 .. 2 ^ w - 1
    BY Zenon DEF Addresses
  <2>3. a = 2 ^ w * 0 + a /\ b = 2 ^ w * 0 + b
    BY <2>1, <2>2
  <2> QED
    BY <2>1, <2>2, <2>3, DivUnique, Zenon
<1>4. matched_prefix_length(a, b, l) <=> A(w - l) = B(w - l)
  BY Zenon DEF matched_prefix_length, BlockSize
<1> HIDE DEF A, B
<1>5. ASSUME A(w - l) = B(w - l)
      PROVE  \A k \in w - l .. w - 1 : A(k) % 2 = B(k) % 2
  <2> DEFINE Bad == {k \in Nat : k >= w - l /\ A(k) # B(k)}
  <2>1. Bad = {}
    <3> SUFFICES ASSUME Bad # {} PROVE FALSE
      BY Zenon
    <3>1. PICK k \in Bad : \A j \in Bad : k <= j
      <4>1. Bad \in SUBSET Nat
        BY Zenon
      <4> HIDE DEF Bad
      <4> QED
        BY <4>1, LeastOfSet, Zenon
    <3>2. k # w - l
      BY <1>5, <3>1, Zenon
    <3>3. k - 1 \in Nat /\ k - 1 >= w - l /\ (k - 1) + 1 = k
      BY <1>1, <3>1, <3>2
    <3>4. A(k - 1) = B(k - 1)
      BY <3>1, <3>3
    <3>5. A((k - 1) + 1) = B((k - 1) + 1)
      BY <1>2, <3>3, <3>4
    <3> QED
      BY <3>1, <3>3, <3>5, Zenon
  <2>2. \A k \in w - l .. w - 1 : k \in Nat /\ k >= w - l
    BY <1>1
  <2> QED
    BY <2>1, <2>2, Zenon
<1>6. ASSUME \A k \in w - l .. w - 1 : A(k) % 2 = B(k) % 2
      PROVE  A(w - l) = B(w - l)
  <2> DEFINE Bad == {j \in Nat : j <= l /\ A(w - j) # B(w - j)}
  <2>1. Bad = {}
    <3> SUFFICES ASSUME Bad # {} PROVE FALSE
      BY Zenon
    <3>1. PICK j \in Bad : \A i \in Bad : j <= i
      <4>1. Bad \in SUBSET Nat
        BY Zenon
      <4> HIDE DEF Bad
      <4> QED
        BY <4>1, LeastOfSet, Zenon
    <3>2. j # 0
      BY <1>1, <1>3, <3>1
    <3>3. /\ j - 1 \in Nat /\ j - 1 <= l /\ w - (j - 1) = (w - j) + 1
          /\ w - j \in Nat /\ w - j \in w - l .. w - 1
      BY <1>1, <3>1, <3>2
    <3>4. A((w - j) + 1) = B((w - j) + 1)
      BY <3>1, <3>3
    <3>5. A(w - j) \div 2 = B(w - j) \div 2 /\ A(w - j) % 2 = B(w - j) % 2
      BY <1>2, <1>6, <3>3, <3>4, Zenon
    <3>6. A(w - j) \in Nat /\ B(w - j) \in Nat
      BY <1>2, <3>3, Zenon
    <3>7. A(w - j) = B(w - j)
      BY <3>5, <3>6
    <3> QED
      BY <3>1, <3>7, Zenon
  <2> QED
    BY <1>1, <2>1
<1> QED
  BY <1>4, <1>5, <1>6, Zenon DEF A, B

\* The mask of add_route leaves an address.
LEMMA PrefixesAre ==
  ASSUME Powers
  PROVE  Prefixes \subseteq Addresses
<1> SUFFICES ASSUME NEW a \in Addresses, NEW l \in 0 .. AddressBits,
                    NEW masked \in MaskedPrefixes(a, l)
             PROVE  masked \in Addresses
  BY DEF Prefixes
<1> DEFINE p == 2 ^ (AddressBits - l)
<1>1. a \in Nat /\ AddressBits - l \in Nat
  BY WidthAssumption DEF Addresses
<1>2. p \in Nat \ {0}
  BY <1>1, PowerPositive, Zenon
<1>3. masked = (a \div p) * p \/ masked = a
  BY Zenon DEF MaskedPrefixes, BlockSize
<1> HIDE DEF p
<1>4. a \div p \in Nat /\ a % p \in 0 .. p - 1 /\ a = p * (a \div p) + (a % p)
  BY <1>1, <1>2, DivMod, Zenon
<1>5. (a \div p) * p = p * (a \div p) /\ p * (a \div p) \in Nat
  BY <1>2, <1>4
<1>6. masked \in Nat /\ masked <= a
  <2> DEFINE x == p * (a \div p)
             y == a % p
  <2>1. x \in Nat /\ y \in Nat /\ a = x + y
    <3>1. y \in Nat /\ x \in Nat
      BY <1>2, <1>4, <1>5
    <3>2. a = x + y
      BY <1>4, Zenon
    <3> QED
      BY <3>1, <3>2, Zenon
  <2>2. masked = x \/ masked = a
    BY <1>3, <1>5, Zenon
  <2> HIDE DEF x, y
  <2> QED
    BY <1>1, <2>1, <2>2
<1>7. 2 ^ AddressBits \in Nat
  BY WidthAssumption, PowerPositive, Zenon
<1> QED
  BY <1>1, <1>6, <1>7 DEF Addresses

\* When some route matches a datagram, Router::route_one_datagram takes one that
\* does; it is of the greatest length if the table is sorted by length and the
\* prefixes have zeroes where a uint8_t looks.
THEOREM TakesAMatchCorrect ==
  ASSUME Powers
  PROVE  Spec => []TakesAMatch
<1>1. ASSUME NInv PROVE TakesAMatch
  <2> SUFFICES ASSUME NEW r \in RouterName, NEW t \in Traffic, Matching(r, t[2]) # {}
               PROVE  \E i \in Matching(r, t[2]) :
      /\ Taken(r, t[2], i)
      /\ \/ \E j \in DOMAIN Routes[r] : Routes[r][j].route_prefix % LengthModulus # 0
         \/ \E j, k \in DOMAIN Routes[r] :
              j < k /\ Routes[r][j].prefix_length > Routes[r][k].prefix_length
         \/ \A j \in Matching(r, t[2]) :
              Routes[r][j].prefix_length <= Routes[r][i].prefix_length
    BY Zenon DEF TakesAMatch
  <2> DEFINE v == nodes[r].map_vec
             dst == t[2]
  <2>1. v \in Seq(Rows(Count(r))) /\ Routes[r] = v
    <3>1. r \in Node /\ SoundNode(nodes[r], r)
      BY <1>1, Zenon DEF NInv, TypesInv, Node
    <3> QED
      BY <3>1, NodeParts, Zenon DEF Routes
  <2>2. dst \in Addresses
    BY InternetAssumption, Zenon
  <2> HIDE DEF v, dst
  <2>3. Len(v) \in Nat /\ DOMAIN v = 1 .. Len(v)
    BY <2>1
  <2>4. ASSUME NEW i \in DOMAIN v
        PROVE  /\ v[i].route_prefix \in Addresses /\ v[i].route_prefix \in Nat
               /\ v[i].prefix_length \in 0 .. AddressBits
    <3>1. v[i] \in Rows(Count(r))
      BY <2>1
    <3>2. v[i].route_prefix \in Prefixes /\ v[i].prefix_length \in 0 .. AddressBits
      BY <3>1, Zenon DEF Rows
    <3> QED
      BY <3>2, PrefixesAre DEF Addresses
  <2>5. Matching(r, dst) = Matches(v, dst)
    <3>1. ASSUME NEW i \in DOMAIN v
          PROVE  matched_prefix_length(dst, v[i].route_prefix, v[i].prefix_length)
                   <=> \A k \in AddressBits - v[i].prefix_length .. AddressBits - 1 :
                         (dst \div 2 ^ k) % 2 = (v[i].route_prefix \div 2 ^ k) % 2
      BY <2>2, <2>4, BitByBit, Zenon
    <3>2. Matching(r, dst) =
            {i \in DOMAIN v :
               \A k \in AddressBits - v[i].prefix_length .. AddressBits - 1 :
                 (dst \div 2 ^ k) % 2 = (v[i].route_prefix \div 2 ^ k) % 2}
      BY <2>1, Zenon DEF Matching
    <3> QED
      BY <3>1, <3>2, Zenon DEF Matches
  <2>6. PICK i \in Matches(v, dst) :
          /\ Choice(v, dst).interface_num = v[i].interface_num
          /\ Choice(v, dst).next_hop = v[i].next_hop
          /\ \/ \E j \in DOMAIN v : v[j].route_prefix % LengthModulus # 0
             \/ \A j \in Matches(v, dst) : j <= i
    <3>1. Matches(v, dst) # {}
      BY <2>5, Zenon DEF dst
    <3> QED
      BY <2>3, <2>4, <3>1, ChoiceMatches, Zenon
  <2>7. Taken(r, dst, i)
    BY <2>1, <2>6, Zenon DEF Taken
  <2>8. Matches(v, dst) \subseteq DOMAIN v
    BY Zenon DEF Matches
  <2>9. ASSUME \A j \in Matches(v, dst) : j <= i,
               ~\E j, k \in DOMAIN v : j < k /\ v[j].prefix_length > v[k].prefix_length
        PROVE  \A j \in Matches(v, dst) : v[j].prefix_length <= v[i].prefix_length
    <3> SUFFICES ASSUME NEW j \in Matches(v, dst)
                 PROVE  v[j].prefix_length <= v[i].prefix_length
      BY Zenon
    <3>1. i \in DOMAIN v /\ j \in DOMAIN v /\ j <= i
      BY <2>6, <2>8, <2>9, Zenon
    <3>2. v[i].prefix_length \in Int /\ v[j].prefix_length \in Int
      BY <2>4, <3>1
    <3>3. CASE j = i
      BY <3>2, <3>3
    <3>4. CASE j # i
      <4>1. j < i
        BY <2>3, <3>1, <3>4
      <4>2. ~(v[j].prefix_length > v[i].prefix_length)
        BY <2>9, <3>1, <4>1, Zenon
      <4> QED
        BY <3>2, <4>2
    <3> QED
      BY <3>3, <3>4, Zenon
  <2> QED
    BY <2>1, <2>5, <2>6, <2>7, <2>9, Zenon DEF dst
<1> QED
  BY <1>1, InternetInvariant, PTL
=============================================================================
