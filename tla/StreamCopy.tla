----------------------------- MODULE StreamCopy -----------------------------
(***************************************************************************)
(* apps/bidirectional_stream_copy.cc: standard input is copied to a socket *)
(* and the socket to standard output, by four rules of one EventLoop.      *)
(* This module extends the outbound pump (rules 1 and 2) and instantiates  *)
(* the inbound one (rules 3 and 4); the socket is the sink of the first    *)
(* and the source of the second.  At the other end of the socket is the    *)
(* TCP thread of a TCPSpongeSocket, which may shut it down at any time.    *)
(***************************************************************************)
EXTENDS StreamPump, EventLoop

CONSTANT InTotal   \* bound of the bytes that the socket brings

ASSUME CopyAssumption ==
  /\ InTotal \in Nat /\ 1 .. InTotal \subseteq Byte
  /\ Cap > 0 /\ Cap <= MaxCall

VARIABLES
  inbound, in_accepted, in_delivered, in_source, in_sink,   \* the other pump
  loop    \* the EventLoop: where it is, its rules, and what poll(2) left to do

In == INSTANCE StreamPump WITH
        MaxTotal <- InTotal, stream <- inbound, accepted <- in_accepted,
        delivered <- in_delivered, source <- in_source, sink <- in_sink

inVars == <<inbound, in_accepted, in_delivered, in_source, in_sink>>

copyVars == <<pumpVars, inVars, loop>>

Rules == 1 .. 4

CopyInit ==
  /\ PumpInit
  /\ In!PumpInit /\ ~in_source.hangs
  /\ loop = [pc |-> "setup", rules |-> Rules, call |-> {}, cancel |-> {},
             fail |-> {}]

-----------------------------------------------------------------------------
\* The interest functions.
Interested ==
  {r \in Rules : \/ r = 1 /\ WantsToFill /\ ~inbound.error
                 \/ r = 2 /\ WantsToDrain
                 \/ r = 3 /\ In!WantsToFill /\ ~stream.error
                 \/ r = 4 /\ In!WantsToDrain}

\* Mutant: the rule of a closed descriptor is kept.
AtEnd_keeps_closed == {r \in Rules : \/ r = 1 /\ source.fd.eof
                                     \/ r = 3 /\ in_source.fd.eof}

\* The rules to cancel before polling: those that read a descriptor at its end,
\* and those of a closed descriptor.
AtEnd == {r \in Rules : \/ r = 1 /\ source.fd.eof
                        \/ r = 3 /\ in_source.fd.eof
                        \/ r = 4 /\ in_sink.fd.closed}

\* What poll(2) reports.
Ready == {r \in Rules : \/ r = 1 /\ Readable
                        \/ r = 2 /\ Writable
                        \/ r = 3 /\ In!Readable
                        \/ r = 4 /\ In!Writable}

HungUp == {r \in Rules : \/ r = 1 /\ source.ended /\ source.hangs
                         \/ r \in {2, 3} /\ sink.broken}

\* POLLNVAL is reported of a closed descriptor.
Erring == {r \in Rules : r = 4 /\ (in_sink.broken \/ in_sink.fd.closed)}

\* wait_next_event() up to the call of poll(2): rules are cancelled in order,
\* before the interest of the later ones is asked for.
Setup ==
  LET rules == NotAtEof(loop.rules, AtEnd)
      gone  == loop.rules \ rules
  IN  /\ loop.pc = "setup"
      /\ IF 1 \in gone THEN CancelRule ELSE UNCHANGED pumpVars
      /\ IF gone \cap {3, 4} # {} THEN In!CancelRule ELSE UNCHANGED inVars
      /\ loop' = [loop EXCEPT !.rules = rules,
                              !.pc = IF Polled(rules, Interested') = {}
                                     THEN "done" ELSE "poll"]

\* poll(2) returns once it has anything to report.  An error or a hangup is
\* reported of the rules that are not interested as well.
Poll ==
  LET polled == Polled(loop.rules, Interested)
      call   == Triggered(polled, Ready)
  IN  /\ loop.pc = "poll"
      /\ call \cup (loop.rules \cap (HungUp \cup Erring)) # {}
      /\ loop' = [loop EXCEPT !.pc = "serve", !.call = call,
                              !.cancel = Defunct(polled, Ready, HungUp),
                              !.fail = loop.rules \cap Erring]
      /\ UNCHANGED <<pumpVars, inVars>>

\* A signal interrupts poll(2): the result is Exit.
Interrupt ==
  /\ loop.pc = "poll"
  /\ loop' = [loop EXCEPT !.pc = "interrupted"]
  /\ UNCHANGED <<pumpVars, inVars>>

-----------------------------------------------------------------------------
Todo == loop.call \cup loop.cancel \cup loop.fail

Turn(r) == loop.pc = "serve" /\ Todo # {} /\ r = First(Todo)

Served(r) == loop' = [loop EXCEPT !.call = @ \ {r}]

Throw == loop' = [loop EXCEPT !.pc = "threw"]

Rule1 ==
  /\ Turn(1) /\ 1 \in loop.call
  /\ Fill
  /\ Served(1)
  /\ UNCHANGED inVars

Rule2 ==
  /\ Turn(2) /\ 2 \in loop.call
  /\ IF DrainFails THEN Throw /\ UNCHANGED pumpVars
     ELSE Drain(FALSE) /\ Served(2)
  /\ UNCHANGED inVars

Rule3 ==
  /\ Turn(3) /\ 3 \in loop.call
  /\ In!Fill
  /\ Served(3)
  /\ UNCHANGED pumpVars

Rule4 ==
  /\ Turn(4) /\ 4 \in loop.call \ loop.fail
  /\ IF In!DrainFails THEN Throw /\ UNCHANGED inVars
     ELSE In!Drain(TRUE) /\ Served(4)
  /\ UNCHANGED pumpVars

\* A rule whose descriptor only hung up is cancelled.
CancelDefunct(r) ==
  /\ Turn(r) /\ r \in loop.cancel
  /\ CancelRule
  /\ loop' = [loop EXCEPT !.cancel = @ \ {r}, !.rules = @ \ {r}]
  /\ UNCHANGED inVars

PollError ==
  /\ \E r \in loop.fail : Turn(r)
  /\ Throw
  /\ UNCHANGED <<pumpVars, inVars>>

Loop ==
  /\ loop.pc = "serve" /\ Todo = {}
  /\ loop' = [loop EXCEPT !.pc = "setup"]
  /\ UNCHANGED <<pumpVars, inVars>>

Run == \/ Setup \/ Poll \/ Loop \/ PollError
       \/ Rule1 \/ Rule2 \/ Rule3 \/ Rule4
       \/ \E r \in {1, 2} : CancelDefunct(r)

-----------------------------------------------------------------------------
\* The TCP thread shuts the socket down in both directions: what it had written
\* can still be read.
HangUp ==
  /\ Break
  /\ IF in_source.ended THEN UNCHANGED inVars ELSE In!EndSource

\* The user types and ends the input; the TCP thread reads and writes; the
\* reader of the output reads, or leaves.
Environment ==
  /\ \/ (Come \/ EndSource \/ Take) /\ UNCHANGED inVars
     \/ (In!Come \/ In!EndSource \/ In!Take \/ In!Break) /\ UNCHANGED pumpVars
     \/ HangUp
  /\ UNCHANGED loop

CopyNext == Run \/ Interrupt \/ Environment

CopySpec == CopyInit /\ [][CopyNext]_copyVars

\* The program is never kept from running, and both readers go on reading while
\* they are there.
Fairness ==
  /\ WF_copyVars(Run)
  /\ WF_copyVars(Take /\ UNCHANGED <<inVars, loop>>)
  /\ WF_copyVars(In!Take /\ UNCHANGED <<pumpVars, loop>>)

FairCopy == CopySpec /\ Fairness

-----------------------------------------------------------------------------
\* Each direction is a byte pipe from one descriptor to the other, through
\* partial reads and writes in any order: the socket is shut down for writing,
\* and the output closed, only after the last byte was written to it.
CopiesBothWays == EndToEnd!Spec /\ In!EndToEnd!Spec

\* A byte read from a descriptor is never dropped, and the function returns only
\* when both directions are over and both ends were passed on; neither holds of
\* the outbound direction once the socket has hung up, nor the second if a
\* signal interrupts.
NoByteDropped ==
  /\ ~sink.broken => source.taken = Len(accepted)
  /\ in_source.taken = Len(in_accepted)
  /\ loop.pc = "done" =>
       /\ in_sink.shutdown /\ in_source.ended
       /\ Len(in_delivered) = in_source.came
       /\ sink.broken \/ (sink.shutdown /\ Len(delivered) = source.came)

\* The copy ends in an exception only if the socket hung up while bytes for it
\* were left, or if the output broke: an end of either input in any order with
\* the readiness of the other descriptors is no error.
CopyThrowsOnlyIf ==
  loop.pc = "threw" => \/ sink.broken /\ stream.buf # << >>
                       \/ in_sink.broken

\* Once the user and the peer have ended their streams, the function returns:
\* a rule that is cancelled, or not interested, never leaves the others waiting.
CopyEnds ==
  (source.ended /\ in_source.ended)
     ~> loop.pc \in {"done", "threw", "interrupted"}
=============================================================================
