----------------------------- MODULE EthernetLan -----------------------------
(***************************************************************************)
(* Several NetworkInterfaces on one Ethernet segment.  Their customers     *)
(* send numbered datagrams to each other; frames arrive in any order, late *)
(* or never, and the interfaces' clocks advance together.                  *)
(***************************************************************************)
EXTENDS NetworkInterface, FiniteSets

CONSTANTS
  Host,          \* the interfaces
  IpOf, EthOf,   \* [Host -> the addresses of each]
  Traffic,       \* the pairs of hosts whose customers send, from and to
  MaxDgrams,     \* bound: datagrams sent
  MaxTime        \* bound: the clock

ASSUME LanAssumption ==
  /\ \A h, g \in Host : h # g => IpOf[h] # IpOf[g] /\ EthOf[h] # EthOf[g]
  /\ \A h \in Host : EthOf[h] \notin {ETHERNET_BROADCAST, NoEthernetAddress}
  /\ \A t \in Traffic : t \in Host \X Host /\ t[1] # t[2]
  /\ {MaxDgrams, MaxTime} \subseteq Nat

VARIABLES
  nic,       \* the NetworkInterface of each host, its queue drained
  wire,      \* the frames on the way, each with the host it is on the way to
  sent,      \* history: the sender and the next hop of each datagram, in order
  got,       \* history: got[h], the datagrams handed up at h, in order
  asked,     \* history: asked[h][g], when h asked for g's address, in order
  heard      \* history: heard[h][g], when h last heard from g or of it

vars == <<nic, wire, sent, got, asked, heard>>

Never == -1

Init ==
  /\ nic = [h \in Host |-> NewNetworkInterface(EthOf[h], IpOf[h])]
  /\ wire = {}
  /\ sent = << >>
  /\ got = [h \in Host |-> << >>]
  /\ asked = [h \in Host |-> [g \in Host |-> << >>]]
  /\ heard = [h \in Host |-> [g \in Host |-> Never]]

\* Every other host hears a frame.  Equal frames on the way are one.
Heard(h, frames) ==
  {[to |-> g, frame |-> frames[i]] : g \in Host \ {h}, i \in 1 .. Len(frames)}

IsRequestFor(frame, g) ==
  /\ frame.payload.kind = "ARP"
  /\ frame.payload.opcode = 1
  /\ frame.payload.target_ip_address = IpOf[g]

\* Interface h becomes n, and what n has queued joins the frames w on the way.
Become(h, n, w) ==
  /\ nic' = [nic EXCEPT ![h] = [n EXCEPT !.frames_out = << >>]]
  /\ wire' = w \cup Heard(h, n.frames_out)
  /\ asked' = [asked EXCEPT ![h] = [g \in Host |->
                 IF \E i \in 1 .. Len(n.frames_out) :
                      IsRequestFor(n.frames_out[i], g)
                 THEN Append(@[g], n.crt_time) ELSE @[g]]]

\* A frame with an ARP message that gives g's address: g's own, or a reply to g.
Tells(frame, g) ==
  /\ frame.payload.kind = "ARP"
  /\ \/ frame.payload.sender_ip_address = IpOf[g]
     \/ frame.payload.opcode = 2 /\ frame.payload.target_ip_address = IpOf[g]

SendDatagram(h, g) ==
  /\ Len(sent) < MaxDgrams
  /\ Become(h, send_datagram(nic[h], Len(sent) + 1, IpOf[g]), wire)
  /\ sent' = Append(sent, [from |-> h, to |-> g])
  /\ UNCHANGED <<got, heard>>

RecvFrame(f) ==
  /\ Become(f.to, recv_frame(nic[f.to], f.frame), wire \ {f})
  /\ got' = [got EXCEPT ![f.to] = @ \o ReturnedDatagram(nic[f.to], f.frame)]
  /\ heard' = [heard EXCEPT ![f.to] = [g \in Host |->
                 IF ForMe(nic[f.to], f.frame) /\ Tells(f.frame, g)
                 THEN nic[f.to].crt_time ELSE @[g]]]
  /\ UNCHANGED sent

Tick ==
  /\ \A h \in Host : nic[h].crt_time < MaxTime
  /\ nic' = [h \in Host |-> interface_tick(nic[h], 1)]
  /\ UNCHANGED <<wire, sent, got, asked, heard>>

Next ==
  \/ \E t \in Traffic : SendDatagram(t[1], t[2])
  \/ \E f \in wire : RecvFrame(f)
  \/ Tick

Spec == Init /\ [][Next]_vars

\* Every frame arrives in the end.
FairSpec ==
  /\ Spec
  /\ []<>(wire = {}) \/ []<><<\E f \in wire : RecvFrame(f)>>_vars

-----------------------------------------------------------------------------
Known(h) == DOMAIN nic[h].ip_map

Waiting(h) == DOMAIN nic[h].unknown_datagram_map

HostAt(ip) == CHOOSE h \in Host : IpOf[h] = ip

\* What an interface believes about an address is true, although requests and
\* replies teach it what their senders know of themselves and of each other; and it
\* believes it exactly while less than MAPPING_EXPIRE_TIME_MS have passed since the
\* last message that told it: nothing is trusted longer, and nothing is forgotten
\* while messages renew it.
MappingsExact ==
  \A h \in Host :
    /\ \A ip \in Known(h) : nic[h].ip_map[ip].eaddr = EthOf[HostAt(ip)]
    /\ \A g \in Host :
         IpOf[g] \in Known(h) <=>
           /\ heard[h][g] # Never
           /\ nic[h].crt_time < heard[h][g] + MAPPING_EXPIRE_TIME_MS

\* A datagram is handed up at its next hop only, and only once, however often it
\* waited for an address and whoever heard the frame that carried it.
DeliveredOnce ==
  \A h \in Host : \A i \in 1 .. Len(got[h]) :
    /\ sent[got[h][i]].to = h
    /\ \A j \in 1 .. Len(got[h]) : got[h][i] = got[h][j] => i = j

\* No datagram waits for an address that is known.
NoneWaitsForKnown == \A h \in Host : Known(h) \cap Waiting(h) = {}

\* At least DST_IP_EXPIRE_TIME_MS pass between two requests for one address, and
\* so no two are sent at one time.
RequestsSpaced ==
  \A h, g \in Host : \A i, j \in 1 .. Len(asked[h][g]) :
    i < j => asked[h][g][j] - asked[h][g][i] >= DST_IP_EXPIRE_TIME_MS

\* When every frame arrives, every datagram is handed up at its next hop, or a
\* later one from the same interface is.
LatestArrives ==
  \A d \in 1 .. MaxDgrams :
    d \in DOMAIN sent ~>
      \E e \in d .. MaxDgrams :
        /\ e \in DOMAIN sent
        /\ sent[e] = sent[d]
        /\ \E i \in 1 .. Len(got[sent[d].to]) : got[sent[d].to][i] = e
=============================================================================
