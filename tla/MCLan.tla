------------------------------- MODULE MCLan --------------------------------
(* Two interfaces that talk to each other and a third that hears them.  An  *)
(* address is tagged with the host it belongs to.                           *)
EXTENDS EthernetLan

CONSTANTS a, b, c

Ip == [h \in Host |-> <<"ip", h>>]

Eth == [h \in Host |-> <<"eth", h>>]

BothWays == {<<a, b>>, <<b, a>>}
=============================================================================
