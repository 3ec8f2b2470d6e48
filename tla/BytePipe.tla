------------------------------ MODULE BytePipe ------------------------------
(***************************************************************************)
(* What every byte-carrying layer of the stack promises to the two         *)
(* programs at its ends: the bytes delivered are the bytes accepted, in    *)
(* order, and the end of the stream is announced only after the writer     *)
(* closed it and everything accepted was delivered.  Nothing is said about *)
(* buffering or about how many steps the bytes take.                       *)
(***************************************************************************)
EXTENDS Integers, Sequences

CONSTANT Byte

VARIABLES
  accepted,    \* the bytes taken from the writer
  delivered,   \* the bytes handed to the reader
  closed,      \* the writer has ended its input
  ended        \* the reader has been told that nothing follows

pipeVars == <<accepted, delivered, closed, ended>>

Init ==
  /\ accepted = << >>
  /\ delivered = << >>
  /\ closed = FALSE
  /\ ended = FALSE

\* The end may be announced along with any step, and is never taken back.
Announce == ended' \in {ended, closed' /\ delivered' = accepted'}

Accept ==
  /\ ~closed
  /\ accepted' \in Seq(Byte)
  /\ Len(accepted) <= Len(accepted')
  /\ SubSeq(accepted', 1, Len(accepted)) = accepted
  /\ UNCHANGED <<delivered, closed>>
  /\ Announce

Deliver ==
  /\ \E n \in Len(delivered) .. Len(accepted) :
       delivered' = SubSeq(accepted, 1, n)
  /\ UNCHANGED <<accepted, closed>>
  /\ Announce

Close ==
  /\ closed' = TRUE
  /\ UNCHANGED <<accepted, delivered>>
  /\ Announce

Next == Accept \/ Deliver \/ Close

Spec == Init /\ [][Next]_pipeVars
=============================================================================
