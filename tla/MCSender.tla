------------------------------ MODULE MCSender ------------------------------
(* A stream longer than the sender's capacity and than one segment. *)
EXTENDS TCPSenderSpec, TCPSenderLoops

Stream4 == <<"a", "b", "c", "d">>

\* The closed forms of fill_window and ack_received compute what the loops of
\* the code compute, in every state the sender reaches and for every
\* acknowledgment it can be given there.
LoopsAgree ==
  /\ fill_window(snd) = FillLoop(snd)
  /\ \A a \in 0 .. snd.next_seqno + 1, win \in 0 .. MaxWin :
       ack_received(snd, wrap(a, Isn), win) = AckLoop(snd, wrap(a, Isn), win)
=============================================================================
