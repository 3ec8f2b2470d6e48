------------------------------- MODULE MCPair -------------------------------
(* A client A that writes and a server B that answers with less or nothing. *)
(* The sequence numbers of A wrap in the middle of its stream.              *)
EXTENDS TCPPair

Streams10 == [e \in End |-> IF e = A THEN <<"a">> ELSE << >>]

Streams21 == [e \in End |-> IF e = A THEN <<"a", "b">> ELSE <<"c">>]

Streams50 == [e \in End |-> IF e = A THEN <<"a", "b", "c", "d", "e">> ELSE << >>]

Caps22 == [e \in End |-> 2]

Caps32 == [e \in End |-> IF e = A THEN 3 ELSE 2]

Caps33 == [e \in End |-> 3]

Isns == [e \in End |-> IF e = A THEN N - 2 ELSE 5]
=============================================================================
