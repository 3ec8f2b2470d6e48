------------------------------ MODULE MCSocket ------------------------------
(* A client and a server, over UDP and over IP, with a peer p, a second     *)
(* socket on the peer's host, and another host q that also sends.           *)
EXTENDS SpongeSocket

Local == <<"l", 7>>
Remote == <<"p", 1>>
Nowhere == <<"-", 0>>

Datagram(from, to, syn, rst) ==
  [from |-> from, to |-> to, parses |-> TRUE, syn |-> syn, rst |-> rst]

SomeDatagrams ==
  {Datagram(from, Local, syn, rst) :
     from \in {Remote, <<"p", 2>>, <<"q", 1>>}, syn \in BOOLEAN, rst \in BOOLEAN}
    \cup {Datagram(Remote, to, TRUE, FALSE) : to \in {<<"l", 8>>, <<"m", 7>>}}
    \cup {[Datagram(Remote, Local, TRUE, FALSE) EXCEPT !.parses = FALSE]}

SomeAdapters ==
  {NewAdapter(kind, Local, Remote, FALSE) : kind \in {"udp", "ip"}}
    \cup {NewAdapter(kind, <<"-", 7>>, Nowhere, TRUE) : kind \in {"udp", "ip"}}
=============================================================================
