----------------------------- MODULE MCInternet -----------------------------
(* The two halves of lab7: a host behind each of two routers that share a   *)
(* third network.  Addresses have five bits and lengths are below eight:    *)
(* prefixes of two bits have zeroes in the low three, as a /24 has in its   *)
(* low byte.  A default route may come first or last, a longer one first.   *)
EXTENDS Internet, TLC

Segments ==
  {{<<"client", 1>>, <<"R1", 1>>}, {<<"R1", 2>>, <<"R2", 2>>},
   {<<"R2", 1>>, <<"server", 1>>}}

Ip == (<<"R1", 1>> :> 8 @@ <<"client", 1>> :> 10 @@ <<"R2", 1>> :> 16
       @@ <<"server", 1>> :> 18 @@ <<"R1", 2>> :> 25 @@ <<"R2", 2>> :> 26)

Gateways == "client" :> 8 @@ "server" :> 16

Lab7(own, hop, other) ==
  <<MapItem(own, 2, Direct, 0), MapItem(24, 2, Direct, 1), MapItem(other, 2, hop, 1)>>

Default(hop) == <<MapItem(3, 0, hop, 1)>>

BothTables ==
  "R1" :> {<<MapItem(18, 4, 26, 1)>> \o Lab7(8, 26, 16),
           Default(26) \o Lab7(8, 26, 16), Lab7(8, 26, 16) \o Default(26)}
    @@ "R2" :> {Lab7(16, 25, 8), Default(25) \o Lab7(16, 25, 8)}

BothWays == {<<"client", 18>>, <<"server", 10>>, <<"client", 2>>}
=============================================================================
