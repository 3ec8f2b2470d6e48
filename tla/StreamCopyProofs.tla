-------------------------- MODULE StreamCopyProofs --------------------------
(***************************************************************************)
(* The event loop of the copy runs two directions, each a byte pipe; it    *)
(* drops no byte that it read, and ends when both directions are over.     *)
(***************************************************************************)
EXTENDS StreamCopy, StreamPumpProofs

\* The lemmas about a direction, for the inbound one.
InProofs == INSTANCE StreamPumpProofs WITH
              MaxTotal <- InTotal, stream <- inbound, accepted <- in_accepted,
              delivered <- in_delivered, source <- in_source, sink <- in_sink

-----------------------------------------------------------------------------
\* Whatever the event loop does is a step of the outbound direction, or leaves it
\* alone.
LEMMA OutboundStep == [CopyNext]_copyVars => [PumpNext]_pumpVars
<1> SUFFICES ASSUME [CopyNext]_copyVars PROVE [PumpNext]_pumpVars
  BY Zenon
<1>1. CASE Setup
  BY <1>1, Zenon DEF Setup, PumpNext
<1>2. CASE Poll \/ Loop \/ PollError \/ Interrupt
  BY <1>2, Zenon DEF Poll, Loop, PollError, Interrupt
<1>3. CASE Rule1
  BY <1>3, Zenon DEF Rule1, PumpNext
<1>4. CASE Rule2
  BY <1>4, Zenon DEF Rule2, PumpNext
<1>5. CASE Rule3 \/ Rule4
  BY <1>5, Zenon DEF Rule3, Rule4
<1>6. ASSUME NEW r \in {1, 2}, CancelDefunct(r) PROVE [PumpNext]_pumpVars
  BY <1>6, Zenon DEF CancelDefunct, PumpNext
<1>7. CASE Environment
  BY <1>7, Zenon DEF Environment, HangUp, PumpNext
<1>8. CASE UNCHANGED copyVars
  BY <1>8, Zenon DEF copyVars
<1> QED
  BY <1>1, <1>2, <1>3, <1>4, <1>5, <1>6, <1>7, <1>8, Zenon DEF CopyNext, Run

\* And of the inbound one.
LEMMA InboundStep == [CopyNext]_copyVars => [In!PumpNext]_inVars
<1> SUFFICES ASSUME [CopyNext]_copyVars PROVE [In!PumpNext]_inVars
  BY Zenon
<1>1. CASE Setup
  BY <1>1, Zenon DEF Setup, In!PumpNext
<1>2. CASE Poll \/ Loop \/ PollError \/ Interrupt
  BY <1>2, Zenon DEF Poll, Loop, PollError, Interrupt
<1>3. CASE Rule1 \/ Rule2
  BY <1>3, Zenon DEF Rule1, Rule2
<1>4. CASE Rule3
  BY <1>4, Zenon DEF Rule3, In!PumpNext
<1>5. CASE Rule4
  BY <1>5, Zenon DEF Rule4, In!PumpNext
<1>6. ASSUME NEW r \in {1, 2}, CancelDefunct(r) PROVE [In!PumpNext]_inVars
  BY <1>6, Zenon DEF CancelDefunct
<1>7. CASE Environment
  BY <1>7, Zenon DEF Environment, HangUp, In!PumpNext
<1>8. CASE UNCHANGED copyVars
  BY <1>8, Zenon DEF copyVars
<1> QED
  BY <1>1, <1>2, <1>3, <1>4, <1>5, <1>6, <1>7, <1>8, Zenon DEF CopyNext, Run

-----------------------------------------------------------------------------
\* The capacity, the order of the bytes and the counters of the outbound stream,
\* in every interleaving of the callbacks and of what happens at the descriptors.
THEOREM CopyStreamCorrect == CopySpec => []IInv
<1>1. CopyInit => PumpInit
  BY Zenon DEF CopyInit
<1>2. PumpInv => IInv
  BY Zenon DEF PumpInv
<1> QED
  BY <1>1, <1>2, OutboundStep, InitPump, NextPump, PTL DEF CopySpec

\* The definitions of the two instances of StreamPump are the same, one by one.
LEMMA SameInit == In!PumpInit => InProofs!PumpInit
  BY Zenon DEF In!PumpInit, InProofs!PumpInit, In!Init, InProofs!Init,
         In!NewByteStream, InProofs!NewByteStream, In!NewFileDescriptor,
         InProofs!NewFileDescriptor

\* Filling is the same.
LEMMA SameFill == In!Fill => InProofs!Fill
  BY Zenon DEF In!Fill, InProofs!Fill, In!EndInput, InProofs!EndInput, In!Write,
         InProofs!Write, In!Numbered, InProofs!Numbered, In!ReadCount,
         InProofs!ReadCount, In!fd_read, InProofs!fd_read, In!Fewer,
         InProofs!Fewer, In!Lesser, InProofs!Lesser, In!Prefix,
         InProofs!Prefix, In!remaining_capacity, InProofs!remaining_capacity,
         In!write_count, InProofs!write_count, In!write, InProofs!write,
         In!end_input, InProofs!end_input

\* Draining is the same.
LEMMA SameDrain ==
  ASSUME NEW closes PROVE In!Drain(closes) => InProofs!Drain(closes)
  BY Zenon DEF In!Drain, InProofs!Drain, In!Read, InProofs!Read, In!WriteCount,
         InProofs!WriteCount, In!Fewer, InProofs!Fewer, In!Lesser,
         InProofs!Lesser, In!Prefix, InProofs!Prefix, In!Suffix,
         InProofs!Suffix, In!buffer_size, InProofs!buffer_size,
         In!peek_output, InProofs!peek_output, In!pop_output,
         InProofs!pop_output, In!stream_eof, InProofs!stream_eof, In!fd_close,
         InProofs!fd_close

\* The other steps are the same.
LEMMA SameRest ==
  In!CancelRule \/ In!Come \/ In!EndSource \/ In!Take \/ In!Break
    => InProofs!PumpNext
  BY Zenon DEF In!CancelRule, InProofs!CancelRule, In!EndInput, InProofs!EndInput,
         In!end_input, InProofs!end_input, In!Come, InProofs!Come,
         In!EndSource, InProofs!EndSource, In!Take, InProofs!Take, In!Break,
         InProofs!Break, In!PumpNext, InProofs!PumpNext

\* So the steps are the same.
LEMMA SameNext == [In!PumpNext]_inVars => [InProofs!PumpNext]_(InProofs!pumpVars)
<1>1. UNCHANGED inVars => UNCHANGED InProofs!pumpVars
  BY Zenon DEF inVars, InProofs!pumpVars
<1>2. In!PumpNext => InProofs!PumpNext
  BY SameFill, SameDrain, SameRest, Zenon DEF In!PumpNext, InProofs!PumpNext
<1> QED
  BY <1>1, <1>2, Zenon

\* The two pipes are the same as well.
LEMMA SamePipe ==
  /\ InProofs!EndToEnd!Init => In!EndToEnd!Init
  /\ [InProofs!EndToEnd!Next]_(InProofs!EndToEnd!pipeVars)
       => [In!EndToEnd!Next]_(In!EndToEnd!pipeVars)
  BY Zenon DEF In!EndToEnd!Init, InProofs!EndToEnd!Init, In!EndToEnd!Next,
         InProofs!EndToEnd!Next, In!EndToEnd!pipeVars,
         InProofs!EndToEnd!pipeVars, In!EndToEnd!Accept,
         InProofs!EndToEnd!Accept, In!EndToEnd!Deliver,
         InProofs!EndToEnd!Deliver, In!EndToEnd!Close, InProofs!EndToEnd!Close,
         In!EndToEnd!Announce, InProofs!EndToEnd!Announce, In!input_ended,
         InProofs!input_ended

\* The lemmas about a direction, under the assumptions of the inbound one.
LEMMA InboundLemmas ==
  /\ InProofs!PumpInit => InProofs!PumpInv /\ InProofs!EndToEnd!Init
  /\ InProofs!PumpInv /\ [InProofs!PumpNext]_(InProofs!pumpVars)
       => InProofs!PumpInv'
  /\ InProofs!PumpInv /\ [InProofs!PumpNext]_(InProofs!pumpVars)
       => [InProofs!EndToEnd!Next]_(InProofs!EndToEnd!pipeVars)
<1> USE CopyAssumption, CapAssumption, BoundsAssumption, PumpAssumption
<1>1. InProofs!PumpInit => InProofs!PumpInv
  BY InProofs!InitPump, Zenon
<1>2. InProofs!PumpInit => InProofs!EndToEnd!Init
  BY InProofs!InitEndToEnd, Zenon
<1>3. InProofs!PumpInv /\ [InProofs!PumpNext]_(InProofs!pumpVars)
        => InProofs!PumpInv'
  BY InProofs!NextPump, Zenon
<1>4. InProofs!PumpInv /\ [InProofs!PumpNext]_(InProofs!pumpVars)
        => [InProofs!EndToEnd!Next]_(InProofs!EndToEnd!pipeVars)
  BY InProofs!NextEndToEnd, Zenon
<1> QED
  BY <1>1, <1>2, <1>3, <1>4, Zenon

\* For any sizes, the two directions that the event loop interleaves are byte
\* pipes: neither a hangup, nor a signal, nor the order in which poll(2) reports
\* makes one of them lose, repeat or reorder bytes, or shut down before the last.
THEOREM CopyIsTwoPipes == CopySpec => CopiesBothWays
<1>1. CopyInit => PumpInit /\ InProofs!PumpInit
  BY SameInit, Zenon DEF CopyInit
<1>2. CopySpec => EndToEnd!Spec
  BY <1>1, OutboundStep, InitPump, NextPump, InitEndToEnd, NextEndToEnd, PTL
     DEF CopySpec, EndToEnd!Spec
<1>3. CopySpec => In!EndToEnd!Spec
  BY <1>1, InboundStep, SameNext, InboundLemmas, SamePipe, PTL
     DEF CopySpec, In!EndToEnd!Spec
<1> QED
  BY <1>2, <1>3, PTL DEF CopiesBothWays

-----------------------------------------------------------------------------
(* The inductive invariant of the event loop and its four rules.           *)

\* The sets of the loop: a rule is called or cancelled only while it is there,
\* never both; nothing is left over when poll(2) is called, and no rule that the
\* loop should have cancelled.
LoopOK ==
  /\ loop \in [pc : {"setup", "poll", "serve", "done", "threw", "interrupted"},
               rules : SUBSET Rules, call : SUBSET Rules, cancel : SUBSET {1, 2},
               fail : SUBSET {4}]
  /\ loop.call \subseteq loop.rules /\ loop.call \cap loop.cancel = {}
  /\ loop.pc \in {"setup", "poll"} =>
       loop.call = {} /\ loop.cancel = {} /\ loop.fail = {}
  /\ loop.pc = "poll" => loop.rules \cap AtEnd = {}

\* The outbound direction: what is read is accepted, the end is noticed only
\* when all was read, and the stream ends only at that end or when the socket has
\* hung up, after which rule 1 reads no more.
OutOK ==
  /\ stream.error = FALSE
  /\ ~sink.broken => source.taken = Len(accepted)
  /\ source.fd.eof => /\ 1 \notin loop.call /\ stream.is_end
                      /\ source.ended /\ source.came = source.taken
  /\ 1 \in loop.call => source.came > source.taken \/ source.ended
  /\ 1 \in loop.cancel => source.ended /\ source.came = source.taken
  /\ 2 \in loop.cancel => sink.broken
  /\ stream.is_end /\ ~sink.broken => source.fd.eof \/ 1 \notin loop.rules
  /\ 1 \notin loop.rules => /\ stream.is_end
                            /\ source.ended /\ source.came = source.taken
  /\ 2 \notin loop.rules => sink.broken

\* The inbound one: the socket, once shut down, can be read to its end, and rule 4
\* goes only when the output is closed.
InOK ==
  /\ inbound.error = FALSE /\ in_source.hangs = FALSE
  /\ sink.broken => in_source.ended
  /\ in_source.taken = Len(in_accepted)
  /\ in_source.fd.eof => /\ 3 \notin loop.call /\ inbound.is_end
                         /\ in_source.ended /\ in_source.came = in_source.taken
  /\ 3 \in loop.call => in_source.came > in_source.taken \/ in_source.ended
  /\ inbound.is_end => in_source.fd.eof
  /\ in_sink.fd.closed => in_sink.shutdown
  /\ 3 \notin loop.rules => in_source.fd.eof
  /\ 4 \notin loop.rules => in_sink.fd.closed
  /\ loop.fail # {} => in_sink.broken

\* How the loop may end.
EndOK ==
  /\ loop.pc = "done" =>
       /\ in_sink.shutdown /\ in_source.fd.eof
       /\ sink.broken \/ (sink.shutdown /\ 1 \notin loop.rules)
  /\ loop.pc = "threw" => in_sink.broken \/ (sink.broken /\ stream.buf # << >>)

CInv == /\ PumpInv /\ InProofs!PumpInv
        /\ LoopOK /\ OutOK /\ InOK /\ EndOK

-----------------------------------------------------------------------------
(* What the steps of the inbound direction do: the lemmas about a          *)
(* direction, under the names that the copy gives its variables.           *)

\* Rule 3.
LEMMA InFill ==
  ASSUME InProofs!PumpInv, In!Fill
  PROVE  /\ in_sink' = in_sink
         /\ in_source'.ended = in_source.ended /\ in_source'.came = in_source.came
         /\ in_source'.hangs = in_source.hangs /\ inbound'.error = inbound.error
         /\ inbound.is_end => inbound'.is_end
         /\ ~in_source.fd.eof =>
              /\ in_source'.fd.eof =>
                   /\ inbound'.is_end /\ in_source'.taken = in_source.taken
                   /\ in_source.came = in_source.taken
              /\ inbound'.is_end => inbound.is_end \/ in_source'.fd.eof
              /\ ~inbound.is_end /\ in_source.taken = Len(in_accepted)
                   => in_source'.taken = Len(in_accepted')
<1> USE CopyAssumption, CapAssumption, BoundsAssumption, PumpAssumption
<1>1. InProofs!Fill
  BY SameFill, Zenon
<1> QED
  BY <1>1, InProofs!FillKeeps, Zenon

\* Rule 4.
LEMMA InDrain ==
  ASSUME InProofs!PumpInv, NEW closes \in BOOLEAN, In!Drain(closes)
  PROVE  /\ in_source' = in_source /\ in_accepted' = in_accepted
         /\ inbound'.is_end = inbound.is_end /\ inbound'.error = inbound.error
         /\ in_sink'.broken = in_sink.broken
         /\ in_sink'.fd.closed => in_sink.fd.closed \/ in_sink'.shutdown
         /\ in_sink.fd.closed => in_sink'.fd.closed
         /\ in_sink.shutdown => in_sink'.shutdown
<1> USE CopyAssumption, CapAssumption, BoundsAssumption, PumpAssumption
<1>1. InProofs!Drain(closes)
  BY SameDrain, Zenon
<1> QED
  BY <1>1, InProofs!DrainKeeps, Zenon

\* A rule of this direction is cancelled.
LEMMA InCancel ==
  ASSUME InProofs!PumpInv, In!CancelRule
  PROVE  /\ in_source' = in_source /\ in_sink' = in_sink
         /\ in_accepted' = in_accepted
         /\ inbound'.is_end = TRUE /\ inbound'.error = inbound.error
         /\ inbound'.buf = inbound.buf
<1> USE CopyAssumption, CapAssumption, BoundsAssumption, PumpAssumption
<1>1. InProofs!CancelRule
  BY Zenon DEF In!CancelRule, InProofs!CancelRule, In!EndInput, InProofs!EndInput,
         In!end_input, InProofs!end_input
<1> QED
  BY <1>1, InProofs!CancelKeeps, Zenon

\* What happens at the socket and at the output.
LEMMA InOutside ==
  ASSUME InProofs!PumpInv, In!Come \/ In!EndSource \/ In!Take \/ In!Break
  PROVE  /\ inbound' = inbound /\ in_accepted' = in_accepted
         /\ in_delivered' = in_delivered
         /\ in_source'.fd = in_source.fd /\ in_source'.taken = in_source.taken
         /\ in_source'.hangs = in_source.hangs
         /\ in_source'.came >= in_source.came
         /\ in_source.ended => in_source'.ended /\ in_source'.came = in_source.came
         /\ in_sink'.fd = in_sink.fd /\ in_sink'.shutdown = in_sink.shutdown
         /\ in_sink.broken => in_sink'.broken
<1> USE CopyAssumption, CapAssumption, BoundsAssumption, PumpAssumption
<1>1. InProofs!Come \/ InProofs!EndSource \/ InProofs!Take \/ InProofs!Break
  BY Zenon DEF In!Come, InProofs!Come, In!EndSource, InProofs!EndSource, In!Take,
         InProofs!Take, In!Break, InProofs!Break
<1> QED
  BY <1>1, InProofs!OutsideKeeps, Zenon

\* All that was accepted has left.
LEMMA InAllDelivered ==
  ASSUME InProofs!PumpInv, inbound.buf = << >>
  PROVE  Len(in_delivered) = Len(in_accepted)
<1> USE CopyAssumption, CapAssumption, BoundsAssumption, PumpAssumption
<1> QED
  BY InProofs!AllDelivered, Zenon

\* The types of the fields, of both directions.
LEMMA FieldTypes ==
  ASSUME PumpInv, InProofs!PumpInv
  PROVE  /\ source.came \in Nat /\ source.taken \in Nat
         /\ source.taken <= source.came
         /\ source.ended \in BOOLEAN /\ source.fd.eof \in BOOLEAN
         /\ sink.broken \in BOOLEAN /\ sink.shutdown \in BOOLEAN
         /\ stream.is_end \in BOOLEAN
         /\ sink.shutdown => stream.is_end /\ stream.buf = << >>
         /\ in_source.came \in Nat /\ in_source.taken \in Nat
         /\ in_source.taken <= in_source.came
         /\ in_source.ended \in BOOLEAN /\ in_source.fd.eof \in BOOLEAN
         /\ in_sink.broken \in BOOLEAN /\ in_sink.shutdown \in BOOLEAN
         /\ in_sink.fd.closed \in BOOLEAN /\ inbound.is_end \in BOOLEAN
         /\ in_sink.shutdown => inbound.is_end /\ inbound.buf = << >>
<1>1. /\ source.came \in Nat /\ source.taken \in Nat
      /\ source.taken <= source.came
      /\ source.ended \in BOOLEAN /\ source.fd.eof \in BOOLEAN
  BY Zenon DEF PumpInv, SourceOK, Descriptors
<1>2. /\ sink.broken \in BOOLEAN /\ sink.shutdown \in BOOLEAN
      /\ stream.is_end \in BOOLEAN
      /\ sink.shutdown => stream.is_end /\ stream.buf = << >>
  BY Zenon DEF PumpInv, SinkOK, IInv, TypeOK, ByteStreams
<1>3. /\ in_source.came \in Nat /\ in_source.taken \in Nat
      /\ in_source.taken <= in_source.came
      /\ in_source.ended \in BOOLEAN /\ in_source.fd.eof \in BOOLEAN
  BY Zenon DEF InProofs!PumpInv, InProofs!SourceOK, InProofs!Descriptors
<1>4. /\ in_sink.broken \in BOOLEAN /\ in_sink.shutdown \in BOOLEAN
      /\ in_sink.fd.closed \in BOOLEAN /\ inbound.is_end \in BOOLEAN
      /\ in_sink.shutdown => inbound.is_end /\ inbound.buf = << >>
  BY Zenon DEF InProofs!PumpInv, InProofs!SinkOK, InProofs!Descriptors,
         InProofs!IInv, InProofs!TypeOK, InProofs!ByteStreams
<1> QED
  BY <1>1, <1>2, <1>3, <1>4, Zenon

-----------------------------------------------------------------------------
\* The members of the sets of the loop.
LEMMA LoopFields ==
  ASSUME LoopOK
  PROVE  /\ loop.rules \subseteq Rules /\ loop.call \subseteq loop.rules
         /\ loop.cancel \subseteq {1, 2} /\ loop.fail \subseteq {4}
         /\ loop.call \cap loop.cancel = {}
  BY Zenon DEF LoopOK

\* Which rules are to be cancelled before polling.
LEMMA AtEndIs ==
  \A r \in Rules : r \in AtEnd <=> \/ r = 1 /\ source.fd.eof
                                   \/ r = 3 /\ in_source.fd.eof
                                   \/ r = 4 /\ in_sink.fd.closed
  BY Zenon DEF AtEnd

\* Before poll(2), a rule is cancelled only when its direction is over already, so
\* that nothing changes but the rules; and when no rule that is left wants
\* anything, both directions are over.
LEMMA SetupKeeps ==
  ASSUME CInv, Setup, PumpInv', InProofs!PumpInv'
  PROVE  LoopOK' /\ OutOK' /\ InOK' /\ EndOK'
<1> DEFINE rules == loop.rules \ AtEnd
           gone  == loop.rules \ rules
           pc    == IF rules \cap Interested' = {} THEN "done" ELSE "poll"
<1>1. /\ loop.pc = "setup"
      /\ IF 1 \in gone THEN CancelRule ELSE UNCHANGED pumpVars
      /\ IF gone \cap {3, 4} # {} THEN In!CancelRule ELSE UNCHANGED inVars
      /\ loop' = [loop EXCEPT !.rules = rules, !.pc = pc]
  BY Zenon DEF Setup, NotAtEof, Polled
<1>2. /\ PumpInv /\ InProofs!PumpInv /\ LoopOK /\ OutOK /\ InOK
  BY Zenon DEF CInv
<1>3. /\ sink.shutdown => stream.is_end /\ stream.buf = << >>
      /\ in_sink.shutdown => inbound.is_end /\ inbound.buf = << >>
      /\ stream.is_end \in BOOLEAN /\ inbound.is_end \in BOOLEAN
  BY <1>2, FieldTypes, Zenon
<1>4. /\ source' = source /\ sink' = sink /\ accepted' = accepted
      /\ stream'.is_end = stream.is_end /\ stream'.error = stream.error
      /\ stream'.buf = stream.buf
  <2>1. CASE 1 \in gone
    <3>1. source.fd.eof
      BY <2>1, AtEndIs DEF Rules
    <3>2. stream.is_end = TRUE
      BY <3>1, <1>2, <1>3, Zenon DEF OutOK
    <3> QED
      BY <2>1, <3>2, <1>1, <1>2, CancelKeeps, Zenon
  <2>2. CASE 1 \notin gone
    BY <2>2, <1>1, Zenon DEF pumpVars
  <2> QED
    BY <2>1, <2>2, Zenon
<1>5. /\ in_source' = in_source /\ in_sink' = in_sink /\ in_accepted' = in_accepted
      /\ inbound'.is_end = inbound.is_end /\ inbound'.error = inbound.error
      /\ inbound'.buf = inbound.buf
  <2>1. CASE gone \cap {3, 4} # {}
    <3>1. in_source.fd.eof \/ in_sink.fd.closed
      BY <2>1, AtEndIs DEF Rules
    <3>2. inbound.is_end = TRUE
      BY <3>1, <1>2, <1>3, Zenon DEF InOK
    <3> QED
      BY <2>1, <3>2, <1>1, <1>2, InCancel, Zenon
  <2>2. CASE gone \cap {3, 4} = {}
    BY <2>2, <1>1, Zenon DEF inVars
  <2> QED
    BY <2>1, <2>2, Zenon
<1>6. /\ loop'.rules = rules /\ loop'.pc = pc /\ loop'.call = {}
      /\ loop'.cancel = {} /\ loop'.fail = {}
      /\ loop' \in [pc : {"setup", "poll", "serve", "done", "threw", "interrupted"},
                    rules : SUBSET Rules, call : SUBSET Rules,
                    cancel : SUBSET {1, 2}, fail : SUBSET {4}]
  <2>1. pc \in {"done", "poll"} /\ rules \in SUBSET Rules
    BY <1>2, Zenon DEF LoopOK
  <2> HIDE DEF pc, rules
  <2> QED
    BY <1>1, <1>2, <2>1, Zenon DEF LoopOK
<1>7. \A r \in Rules : r \in rules <=>
        /\ r \in loop.rules
        /\ ~(r = 1 /\ source.fd.eof)
        /\ ~(r = 3 /\ in_source.fd.eof)
        /\ ~(r = 4 /\ in_sink.fd.closed)
  BY AtEndIs, Zenon
<1>8. pc \in {"done", "poll"} /\ (pc = "done" => rules \cap Interested' = {})
  BY Zenon
<1>9. AtEnd' = AtEnd
  BY <1>4, <1>5, Zenon DEF AtEnd
<1> HIDE DEF pc
<1>10. LoopOK'
  BY <1>6, <1>9, Zenon DEF LoopOK
<1> HIDE DEF rules
<1>11. OutOK'
  BY <1>2, <1>4, <1>6, <1>7 DEF OutOK, Rules
<1>12. InOK'
  BY <1>2, <1>4, <1>5, <1>6, <1>7 DEF InOK, Rules
<1>13. ASSUME pc = "done"
       PROVE  /\ in_sink'.shutdown /\ in_source'.fd.eof
              /\ sink'.broken \/ (sink'.shutdown /\ 1 \notin loop'.rules)
  <2>1. \A r \in Rules : r \in rules => r \notin Interested'
    BY <1>8, <1>13, Zenon
  <2>2. /\ 1 \in Interested' <=> Cap - Len(stream.buf) > 0
        /\ 2 \in Interested' <=> stream.buf # << >> \/ (stream.is_end /\ ~sink.shutdown)
        /\ 3 \in Interested' <=> Cap - Len(inbound.buf) > 0
        /\ 4 \in Interested' <=> inbound.buf # << >>
                                   \/ (inbound.is_end /\ ~in_sink.shutdown)
    <3>1. stream'.cap = Cap /\ inbound'.cap = Cap
      BY Zenon DEF PumpInv, IInv, TypeOK, ByteStreams, InProofs!PumpInv,
             InProofs!IInv, InProofs!TypeOK, InProofs!ByteStreams
    <3>2. stream'.error = FALSE /\ inbound'.error = FALSE
      BY <1>11, <1>12, Zenon DEF OutOK, InOK
    <3>3. /\ 1 \in Interested' <=> WantsToFill' /\ ~inbound'.error
          /\ 2 \in Interested' <=> WantsToDrain'
          /\ 3 \in Interested' <=> In!WantsToFill' /\ ~stream'.error
          /\ 4 \in Interested' <=> In!WantsToDrain'
      BY DEF Interested, Rules
    <3>4. /\ WantsToFill' <=> ~stream'.error /\ Cap - Len(stream.buf) > 0
          /\ WantsToDrain' <=> stream.buf # << >> \/ (stream.is_end /\ ~sink.shutdown)
      BY <3>1, <1>4, Zenon DEF WantsToFill, WantsToDrain, remaining_capacity, stream_eof
    <3>5. /\ In!WantsToFill' <=> ~inbound'.error /\ Cap - Len(inbound.buf) > 0
          /\ In!WantsToDrain' <=> inbound.buf # << >>
                                    \/ (inbound.is_end /\ ~in_sink.shutdown)
      BY <3>1, <1>5, Zenon DEF In!WantsToFill, In!WantsToDrain, In!remaining_capacity,
                        In!stream_eof
    <3> QED
      BY <3>2, <3>3, <3>4, <3>5, Zenon
  <2>3. /\ stream.buf = << >> => Cap - Len(stream.buf) > 0
        /\ inbound.buf = << >> => Cap - Len(inbound.buf) > 0
    <3>1. Len(<< >>) = 0 /\ Cap - 0 > 0
      BY CopyAssumption, CapAssumption
    <3> QED
      BY <3>1, Zenon
  <2>4. 3 \notin rules
    <3> SUFFICES ASSUME 3 \in rules PROVE FALSE
      BY Zenon
    <3>1. inbound.buf # << >> /\ 4 \in Interested'
      BY <2>1, <2>2, <2>3 DEF Rules
    <3>2. 4 \notin rules
      BY <3>1, <2>1 DEF Rules
    <3>3. in_sink.fd.closed
      BY <3>2, <1>2, <1>7 DEF InOK, Rules
    <3> QED
      BY <3>1, <3>3, <1>2, <1>3, Zenon DEF InOK
  <2>5. in_source.fd.eof /\ inbound.is_end
    BY <2>4, <1>2, <1>7 DEF InOK, Rules
  <2>6. in_sink.shutdown
    <3>1. CASE 4 \in rules
      BY <3>1, <2>1, <2>2, <2>5 DEF Rules
    <3>2. CASE 4 \notin rules
      BY <3>2, <1>2, <1>7 DEF InOK, Rules
    <3> QED
      BY <3>1, <3>2, Zenon
  <2>7. ASSUME ~sink.broken PROVE sink.shutdown /\ 1 \notin rules
    <3>1. 2 \in rules
      BY <2>7, <1>2, <1>7 DEF OutOK, Rules
    <3>2. 2 \notin Interested'
      BY <3>1, <2>1 DEF Rules
    <3>3. 1 \notin rules
      BY <3>2, <2>1, <2>2, <2>3 DEF Rules
    <3>4. stream.is_end
      BY <3>3, <1>2, <1>7 DEF OutOK, Rules
    <3> QED
      BY <3>2, <3>3, <3>4, <2>2, Zenon
  <2> QED
    BY <2>5, <2>6, <2>7, <1>4, <1>5, <1>6, Zenon
<1>14. EndOK'
  BY <1>6, <1>8, <1>13, Zenon DEF EndOK
<1> QED
  BY <1>10, <1>11, <1>12, <1>14, Zenon

\* What poll(2) reports of a rule is still true when its turn comes: bytes that
\* wait, an end, a hangup.  The socket never hangs up without an end to read, so
\* rule 3 is never cancelled, and no closed descriptor is polled.
LEMMA PollKeeps ==
  ASSUME CInv, Poll
  PROVE  LoopOK' /\ OutOK' /\ InOK' /\ EndOK'
<1> DEFINE polled == loop.rules \cap Interested
           call   == polled \cap Ready
           cancel == (polled \cap HungUp) \ Ready
           fail   == loop.rules \cap Erring
<1>1. /\ loop.pc = "poll"
      /\ loop' = [loop EXCEPT !.pc = "serve", !.call = call, !.cancel = cancel,
                              !.fail = fail]
      /\ UNCHANGED <<pumpVars, inVars>>
  BY Zenon DEF Poll, Polled, Triggered, Defunct
<1>2. /\ PumpInv /\ InProofs!PumpInv /\ LoopOK /\ OutOK /\ InOK
  BY Zenon DEF CInv
<1>3. /\ stream' = stream /\ accepted' = accepted /\ source' = source
      /\ sink' = sink /\ inbound' = inbound /\ in_accepted' = in_accepted
      /\ in_source' = in_source /\ in_sink' = in_sink
  BY <1>1, Zenon DEF pumpVars, inVars
<1>4. \A r \in Rules :
        /\ r \in Ready <=> \/ r = 1 /\ Readable
                           \/ r = 2 /\ Writable
                           \/ r = 3 /\ In!Readable
                           \/ r = 4 /\ In!Writable
        /\ r \in HungUp <=> \/ r = 1 /\ source.ended /\ source.hangs
                            \/ r \in {2, 3} /\ sink.broken
        /\ r \in Erring <=> r = 4 /\ (in_sink.broken \/ in_sink.fd.closed)
  BY Zenon DEF Ready, HungUp, Erring
<1>5. /\ Readable <=> source.came > source.taken \/ (source.ended /\ ~source.hangs)
      /\ In!Readable <=> in_source.came > in_source.taken
                           \/ (in_source.ended /\ ~in_source.hangs)
  BY Zenon DEF Readable, In!Readable
<1>6. /\ source.came \in Nat /\ source.taken \in Nat /\ source.taken <= source.came
  BY <1>2, FieldTypes, Zenon
<1>7. /\ 1 \in call => source.came > source.taken \/ source.ended
      /\ 3 \in call => in_source.came > in_source.taken \/ in_source.ended
      /\ 1 \in cancel => source.ended /\ source.came = source.taken
      /\ 2 \in cancel => sink.broken
      /\ 3 \notin cancel /\ 4 \notin cancel
  <2>1. sink.broken => in_source.ended /\ ~in_source.hangs
    BY <1>2, Zenon DEF InOK
  <2>2. /\ 1 \in call => Readable
        /\ 3 \in call => In!Readable
        /\ 1 \in cancel => source.ended /\ source.hangs /\ ~Readable
        /\ 2 \in cancel => sink.broken
        /\ 3 \in cancel => sink.broken /\ ~In!Readable
        /\ 4 \notin cancel
    BY <1>4 DEF Rules
  <2> HIDE DEF call, cancel
  <2> QED
    BY <2>1, <2>2, <1>5, <1>6
<1>8. loop.rules \cap AtEnd = {}
  BY <1>1, <1>2, Zenon DEF LoopOK
<1>9. /\ source.fd.eof => 1 \notin loop.rules
      /\ in_source.fd.eof => 3 \notin loop.rules
      /\ in_sink.fd.closed => 4 \notin loop.rules
  BY <1>8, AtEndIs DEF Rules
<1>10. /\ call \subseteq loop.rules /\ cancel \subseteq {1, 2} /\ fail \subseteq {4}
       /\ call \cap cancel = {} /\ (fail # {} => in_sink.broken)
  <2>1. loop.rules \subseteq Rules
    BY <1>2, LoopFields, Zenon
  <2>2. \A r \in fail : r = 4 /\ in_sink.broken
    BY <2>1, <1>4, <1>9, Zenon
  <2>3. \A r \in cancel : r \in Rules /\ r # 3 /\ r # 4
    BY <2>1, <1>7, Zenon
  <2> QED
    BY <2>2, <2>3 DEF Rules
<1> HIDE DEF call, cancel, fail
<1>11. /\ loop'.rules = loop.rules /\ loop'.pc = "serve" /\ loop'.call = call
       /\ loop'.cancel = cancel /\ loop'.fail = fail
       /\ loop' \in [pc : {"setup", "poll", "serve", "done", "threw", "interrupted"},
                     rules : SUBSET Rules, call : SUBSET Rules,
                     cancel : SUBSET {1, 2}, fail : SUBSET {4}]
  BY <1>1, <1>2, <1>10, Zenon DEF LoopOK
<1>12. LoopOK'
  BY <1>10, <1>11, Zenon DEF LoopOK
<1>13. OutOK'
  BY <1>2, <1>3, <1>7, <1>9, <1>10, <1>11, Zenon DEF OutOK
<1>14. InOK'
  BY <1>2, <1>3, <1>7, <1>9, <1>10, <1>11, Zenon DEF InOK
<1>15. EndOK'
  BY <1>11, Zenon DEF EndOK
<1> QED
  BY <1>12, <1>13, <1>14, <1>15, Zenon

\* A signal, the end of a round, and an error that poll(2) reported.
LEMMA LoopKeeps ==
  ASSUME CInv, Interrupt \/ Loop \/ PollError
  PROVE  LoopOK' /\ OutOK' /\ InOK' /\ EndOK'
<1>1. /\ PumpInv /\ InProofs!PumpInv /\ LoopOK /\ OutOK /\ InOK
  BY Zenon DEF CInv
<1>2. /\ stream' = stream /\ accepted' = accepted /\ source' = source
      /\ sink' = sink /\ inbound' = inbound /\ in_accepted' = in_accepted
      /\ in_source' = in_source /\ in_sink' = in_sink
  BY Zenon DEF Interrupt, Loop, PollError, pumpVars, inVars
<1>3. PICK pc : /\ loop' = [loop EXCEPT !.pc = pc]
                /\ \/ pc = "interrupted"
                   \/ pc = "setup" /\ loop.call = {} /\ loop.cancel = {} /\ loop.fail = {}
                   \/ pc = "threw" /\ loop.fail # {}
  BY Zenon DEF Interrupt, Loop, PollError, Throw, Todo
<1>4. /\ loop'.rules = loop.rules /\ loop'.pc = pc /\ loop'.call = loop.call
      /\ loop'.cancel = loop.cancel /\ loop'.fail = loop.fail
      /\ loop' \in [pc : {"setup", "poll", "serve", "done", "threw", "interrupted"},
                    rules : SUBSET Rules, call : SUBSET Rules,
                    cancel : SUBSET {1, 2}, fail : SUBSET {4}]
  BY <1>1, <1>3, Zenon DEF LoopOK
<1>5. LoopOK'
  BY <1>1, <1>3, <1>4, Zenon DEF LoopOK
<1>6. OutOK'
  BY <1>1, <1>2, <1>4, Zenon DEF OutOK
<1>7. InOK'
  BY <1>1, <1>2, <1>4, Zenon DEF InOK
<1>8. EndOK'
  BY <1>1, <1>2, <1>3, <1>4, Zenon DEF EndOK, InOK
<1> QED
  BY <1>5, <1>6, <1>7, <1>8, Zenon

\* The loop after a callback has been called.
LEMMA ServedIs ==
  ASSUME LoopOK, NEW r, Turn(r), Served(r)
  PROVE  /\ loop'.rules = loop.rules /\ loop'.pc = "serve"
         /\ loop'.call = loop.call \ {r}
         /\ loop'.cancel = loop.cancel /\ loop'.fail = loop.fail
         /\ LoopOK'
<1>1. /\ loop'.rules = loop.rules /\ loop'.pc = "serve"
      /\ loop'.call = loop.call \ {r}
      /\ loop'.cancel = loop.cancel /\ loop'.fail = loop.fail
      /\ loop' \in [pc : {"setup", "poll", "serve", "done", "threw", "interrupted"},
                    rules : SUBSET Rules, call : SUBSET Rules,
                    cancel : SUBSET {1, 2}, fail : SUBSET {4}]
  BY Zenon DEF Turn, Served, LoopOK
<1> QED
  BY <1>1, Zenon DEF LoopOK

\* And when it ends in an exception.
LEMMA ThrowIs ==
  ASSUME LoopOK, NEW r, Turn(r), Throw
  PROVE  /\ loop'.rules = loop.rules /\ loop'.pc = "threw"
         /\ loop'.call = loop.call
         /\ loop'.cancel = loop.cancel /\ loop'.fail = loop.fail
         /\ LoopOK'
<1>1. /\ loop'.rules = loop.rules /\ loop'.pc = "threw"
      /\ loop'.call = loop.call
      /\ loop'.cancel = loop.cancel /\ loop'.fail = loop.fail
      /\ loop' \in [pc : {"setup", "poll", "serve", "done", "threw", "interrupted"},
                    rules : SUBSET Rules, call : SUBSET Rules,
                    cancel : SUBSET {1, 2}, fail : SUBSET {4}]
  BY Zenon DEF Turn, Throw, LoopOK
<1> QED
  BY <1>1, Zenon DEF LoopOK

\* Rule 1 reads while there is something to read, or notices the end.
LEMMA Rule1Keeps ==
  ASSUME CInv, Rule1
  PROVE  LoopOK' /\ OutOK' /\ InOK' /\ EndOK'
<1>1. /\ PumpInv /\ InProofs!PumpInv /\ LoopOK /\ OutOK /\ InOK
  BY Zenon DEF CInv
<1>2. Turn(1) /\ 1 \in loop.call /\ Fill /\ Served(1) /\ UNCHANGED inVars
  BY Zenon DEF Rule1
<1>3. /\ loop'.rules = loop.rules /\ loop'.pc = "serve"
      /\ loop'.call = loop.call \ {1}
      /\ loop'.cancel = loop.cancel /\ loop'.fail = loop.fail
      /\ LoopOK'
  BY <1>1, <1>2, ServedIs, Zenon
<1>4. /\ inbound' = inbound /\ in_accepted' = in_accepted
      /\ in_source' = in_source /\ in_sink' = in_sink
  BY <1>2, Zenon DEF inVars
<1>5. /\ sink' = sink
      /\ source'.ended = source.ended /\ source'.came = source.came
      /\ stream'.error = stream.error
      /\ stream.is_end => stream'.is_end
      /\ ~source.fd.eof =>
           /\ source'.fd.eof => /\ stream'.is_end /\ source'.taken = source.taken
                                /\ source.came = source.taken
           /\ stream'.is_end => stream.is_end \/ source'.fd.eof
           /\ ~stream.is_end /\ source.taken = Len(accepted)
                => source'.taken = Len(accepted')
  BY <1>1, <1>2, FillKeeps, Zenon
<1>6. /\ ~source.fd.eof /\ 1 \in loop.rules /\ 1 \notin loop.cancel
      /\ source.came > source.taken \/ source.ended
      /\ stream.is_end => sink.broken
  BY <1>1, <1>2, Zenon DEF OutOK, LoopOK
<1>7. source.came = source.taken => source.ended
  BY <1>1, <1>6, FieldTypes
<1>8. OutOK'
  BY <1>1, <1>3, <1>5, <1>6, <1>7, Zenon DEF OutOK
<1>9. InOK'
  BY <1>1, <1>3, <1>4, <1>5, Zenon DEF InOK
<1>10. EndOK'
  BY <1>3, Zenon DEF EndOK
<1> QED
  BY <1>3, <1>8, <1>9, <1>10, Zenon

\* Rule 2 writes to the socket, or throws if the socket has hung up.
LEMMA Rule2Keeps ==
  ASSUME CInv, Rule2
  PROVE  LoopOK' /\ OutOK' /\ InOK' /\ EndOK'
<1>1. /\ PumpInv /\ InProofs!PumpInv /\ LoopOK /\ OutOK /\ InOK
  BY Zenon DEF CInv
<1>2. /\ inbound' = inbound /\ in_accepted' = in_accepted
      /\ in_source' = in_source /\ in_sink' = in_sink
  BY Zenon DEF Rule2, inVars
<1>3. CASE DrainFails
  <2>1. Turn(2) /\ Throw /\ UNCHANGED pumpVars /\ sink.broken /\ stream.buf # << >>
    BY <1>3, Zenon DEF Rule2, DrainFails
  <2>2. /\ loop'.rules = loop.rules /\ loop'.pc = "threw" /\ loop'.call = loop.call
        /\ loop'.cancel = loop.cancel /\ loop'.fail = loop.fail /\ LoopOK'
    BY <1>1, <2>1, ThrowIs, Zenon
  <2>3. /\ stream' = stream /\ accepted' = accepted /\ source' = source /\ sink' = sink
    BY <2>1, Zenon DEF pumpVars
  <2>4. OutOK'
    BY <1>1, <2>2, <2>3, Zenon DEF OutOK
  <2>5. InOK'
    BY <1>1, <1>2, <2>2, <2>3, Zenon DEF InOK
  <2> QED
    BY <2>1, <2>2, <2>3, <2>4, <2>5, Zenon DEF EndOK
<1>4. CASE ~DrainFails
  <2>1. Turn(2) /\ Drain(FALSE) /\ Served(2)
    BY <1>4, Zenon DEF Rule2
  <2>2. /\ loop'.rules = loop.rules /\ loop'.pc = "serve"
        /\ loop'.call = loop.call \ {2}
        /\ loop'.cancel = loop.cancel /\ loop'.fail = loop.fail /\ LoopOK'
    BY <1>1, <2>1, ServedIs, Zenon
  <2>3. /\ source' = source /\ accepted' = accepted
        /\ stream'.is_end = stream.is_end /\ stream'.error = stream.error
        /\ sink'.broken = sink.broken
    BY <1>1, <2>1, DrainKeeps, Zenon
  <2>4. OutOK'
    BY <1>1, <2>2, <2>3, Zenon DEF OutOK
  <2>5. InOK'
    BY <1>1, <1>2, <2>2, <2>3, Zenon DEF InOK
  <2> QED
    BY <2>2, <2>4, <2>5, Zenon DEF EndOK
<1> QED
  BY <1>3, <1>4, Zenon

\* Rule 3 reads from the socket, or notices its end.
LEMMA Rule3Keeps ==
  ASSUME CInv, Rule3
  PROVE  LoopOK' /\ OutOK' /\ InOK' /\ EndOK'
<1>1. /\ PumpInv /\ InProofs!PumpInv /\ LoopOK /\ OutOK /\ InOK
  BY Zenon DEF CInv
<1>2. Turn(3) /\ 3 \in loop.call /\ In!Fill /\ Served(3) /\ UNCHANGED pumpVars
  BY Zenon DEF Rule3
<1>3. /\ loop'.rules = loop.rules /\ loop'.pc = "serve"
      /\ loop'.call = loop.call \ {3}
      /\ loop'.cancel = loop.cancel /\ loop'.fail = loop.fail
      /\ LoopOK'
  BY <1>1, <1>2, ServedIs, Zenon
<1>4. /\ stream' = stream /\ accepted' = accepted /\ source' = source /\ sink' = sink
  BY <1>2, Zenon DEF pumpVars
<1>5. /\ in_sink' = in_sink
      /\ in_source'.ended = in_source.ended /\ in_source'.came = in_source.came
      /\ in_source'.hangs = in_source.hangs /\ inbound'.error = inbound.error
      /\ inbound.is_end => inbound'.is_end
      /\ ~in_source.fd.eof =>
           /\ in_source'.fd.eof =>
                /\ inbound'.is_end /\ in_source'.taken = in_source.taken
                /\ in_source.came = in_source.taken
           /\ inbound'.is_end => inbound.is_end \/ in_source'.fd.eof
           /\ ~inbound.is_end /\ in_source.taken = Len(in_accepted)
                => in_source'.taken = Len(in_accepted')
  BY <1>1, <1>2, InFill, Zenon
<1>6. /\ ~in_source.fd.eof /\ ~inbound.is_end /\ 3 \in loop.rules
      /\ in_source.came > in_source.taken \/ in_source.ended
  BY <1>1, <1>2, Zenon DEF InOK, LoopOK
<1>7. in_source.came = in_source.taken => in_source.ended
  BY <1>1, <1>6, FieldTypes
<1>8. OutOK'
  BY <1>1, <1>3, <1>4, Zenon DEF OutOK
<1>9. InOK'
  BY <1>1, <1>3, <1>4, <1>5, <1>6, <1>7, Zenon DEF InOK
<1>10. EndOK'
  BY <1>3, Zenon DEF EndOK
<1> QED
  BY <1>3, <1>8, <1>9, <1>10, Zenon

\* Rule 4 writes to the output, or throws if that is broken.
LEMMA Rule4Keeps ==
  ASSUME CInv, Rule4
  PROVE  LoopOK' /\ OutOK' /\ InOK' /\ EndOK'
<1>1. /\ PumpInv /\ InProofs!PumpInv /\ LoopOK /\ OutOK /\ InOK
  BY Zenon DEF CInv
<1>2. /\ stream' = stream /\ accepted' = accepted /\ source' = source /\ sink' = sink
  BY Zenon DEF Rule4, pumpVars
<1>3. CASE In!DrainFails
  <2>1. Turn(4) /\ Throw /\ UNCHANGED inVars /\ in_sink.broken
    BY <1>3, Zenon DEF Rule4, In!DrainFails
  <2>2. /\ loop'.rules = loop.rules /\ loop'.pc = "threw" /\ loop'.call = loop.call
        /\ loop'.cancel = loop.cancel /\ loop'.fail = loop.fail /\ LoopOK'
    BY <1>1, <2>1, ThrowIs, Zenon
  <2>3. /\ inbound' = inbound /\ in_accepted' = in_accepted
        /\ in_source' = in_source /\ in_sink' = in_sink
    BY <2>1, Zenon DEF inVars
  <2>4. OutOK'
    BY <1>1, <1>2, <2>2, Zenon DEF OutOK
  <2>5. InOK'
    BY <1>1, <1>2, <2>2, <2>3, Zenon DEF InOK
  <2> QED
    BY <2>1, <2>2, <2>3, <2>4, <2>5, Zenon DEF EndOK
<1>4. CASE ~In!DrainFails
  <2>1. Turn(4) /\ In!Drain(TRUE) /\ Served(4)
    BY <1>4, Zenon DEF Rule4
  <2>2. /\ loop'.rules = loop.rules /\ loop'.pc = "serve"
        /\ loop'.call = loop.call \ {4}
        /\ loop'.cancel = loop.cancel /\ loop'.fail = loop.fail /\ LoopOK'
    BY <1>1, <2>1, ServedIs, Zenon
  <2>3. /\ in_source' = in_source /\ in_accepted' = in_accepted
        /\ inbound'.is_end = inbound.is_end /\ inbound'.error = inbound.error
        /\ in_sink'.broken = in_sink.broken
        /\ in_sink'.fd.closed => in_sink.fd.closed \/ in_sink'.shutdown
        /\ in_sink.fd.closed => in_sink'.fd.closed
        /\ in_sink.shutdown => in_sink'.shutdown
    BY <1>1, <2>1, InDrain, Zenon
  <2>4. OutOK'
    BY <1>1, <1>2, <2>2, Zenon DEF OutOK
  <2>5. InOK'
    BY <1>1, <1>2, <2>2, <2>3, Zenon DEF InOK
  <2> QED
    BY <2>2, <2>4, <2>5, Zenon DEF EndOK
<1> QED
  BY <1>3, <1>4, Zenon

\* A rule whose descriptor only hung up: its direction is over, or the socket is.
LEMMA CancelDefunctKeeps ==
  ASSUME CInv, NEW r \in {1, 2}, CancelDefunct(r)
  PROVE  LoopOK' /\ OutOK' /\ InOK' /\ EndOK'
<1>1. /\ PumpInv /\ InProofs!PumpInv /\ LoopOK /\ OutOK /\ InOK
  BY Zenon DEF CInv
<1>2. /\ Turn(r) /\ r \in loop.cancel /\ CancelRule /\ UNCHANGED inVars
      /\ loop' = [loop EXCEPT !.cancel = @ \ {r}, !.rules = @ \ {r}]
  BY Zenon DEF CancelDefunct
<1>3. /\ loop'.rules = loop.rules \ {r} /\ loop'.pc = "serve"
      /\ loop'.call = loop.call /\ loop'.cancel = loop.cancel \ {r}
      /\ loop'.fail = loop.fail
      /\ loop' \in [pc : {"setup", "poll", "serve", "done", "threw", "interrupted"},
                    rules : SUBSET Rules, call : SUBSET Rules,
                    cancel : SUBSET {1, 2}, fail : SUBSET {4}]
  BY <1>1, <1>2, Zenon DEF Turn, LoopOK
<1>4. r \notin loop.call
  BY <1>1, <1>2, Zenon DEF LoopOK
<1>5. LoopOK'
  BY <1>1, <1>3, <1>4, Zenon DEF LoopOK
<1>6. /\ source' = source /\ sink' = sink /\ accepted' = accepted
      /\ stream'.is_end = TRUE /\ stream'.error = stream.error
  BY <1>1, <1>2, CancelKeeps, Zenon
<1>7. /\ inbound' = inbound /\ in_accepted' = in_accepted
      /\ in_source' = in_source /\ in_sink' = in_sink
  BY <1>2, Zenon DEF inVars
<1>8. OutOK'
  <2>1. CASE r = 1
    BY <2>1, <1>1, <1>2, <1>3, <1>4, <1>6, Zenon DEF OutOK
  <2>2. CASE r = 2
    BY <2>2, <1>1, <1>2, <1>3, <1>4, <1>6, Zenon DEF OutOK
  <2> QED
    BY <2>1, <2>2, Zenon
<1>9. InOK'
  BY <1>1, <1>3, <1>6, <1>7 DEF InOK
<1>10. EndOK'
  BY <1>3, Zenon DEF EndOK
<1> QED
  BY <1>5, <1>8, <1>9, <1>10, Zenon

\* What the user, the TCP thread and the reader of the output do in between.
LEMMA EnvironmentKeeps ==
  ASSUME CInv, Environment
  PROVE  LoopOK' /\ OutOK' /\ InOK' /\ EndOK'
<1>1. /\ PumpInv /\ InProofs!PumpInv /\ LoopOK /\ OutOK /\ InOK /\ EndOK
  BY Zenon DEF CInv
<1>2. loop' = loop
  BY Zenon DEF Environment
<1>3. /\ source.came \in Nat /\ source.taken \in Nat
      /\ in_source.came \in Nat /\ in_source.taken \in Nat
  BY <1>1, FieldTypes, Zenon
<1>4. ASSUME Come \/ EndSource \/ Take \/ Break
      PROVE  /\ stream' = stream /\ accepted' = accepted
             /\ source'.fd = source.fd /\ source'.taken = source.taken
             /\ source'.came >= source.came
             /\ source.ended => source'.ended /\ source'.came = source.came
             /\ sink'.shutdown = sink.shutdown
             /\ sink.broken => sink'.broken
             /\ source'.came \in Nat
  <2>1. source'.came \in Nat
    <3>1. PumpInv'
      BY <1>1, <1>4, NextPump, Zenon DEF PumpNext
    <3> QED
      BY <3>1, Zenon DEF PumpInv, SourceOK
  <2> QED
    BY <1>1, <1>4, <2>1, OutsideKeeps, Zenon
<1>5. ASSUME In!Come \/ In!EndSource \/ In!Take \/ In!Break
      PROVE  /\ inbound' = inbound /\ in_accepted' = in_accepted
             /\ in_source'.fd = in_source.fd /\ in_source'.taken = in_source.taken
             /\ in_source'.hangs = in_source.hangs
             /\ in_source'.came >= in_source.came
             /\ in_source.ended => /\ in_source'.ended
                                   /\ in_source'.came = in_source.came
             /\ in_sink'.fd = in_sink.fd /\ in_sink'.shutdown = in_sink.shutdown
             /\ in_sink.broken => in_sink'.broken
             /\ in_source'.came \in Nat
  <2>1. in_source'.came \in Nat
    <3>1. InProofs!PumpNext
      BY <1>5, SameRest, Zenon
    <3>2. InProofs!PumpInv'
      BY <1>1, <3>1, InboundLemmas, Zenon
    <3> QED
      BY <3>2, Zenon DEF InProofs!PumpInv, InProofs!SourceOK
  <2> QED
    BY <1>1, <1>5, <2>1, InOutside, Zenon
<1>6. UNCHANGED inVars => /\ inbound' = inbound /\ in_accepted' = in_accepted
                          /\ in_source' = in_source /\ in_sink' = in_sink
  BY Zenon DEF inVars
<1>7. LoopOK'
  <2>1. AtEnd' = AtEnd
    <3>1. source'.fd = source.fd /\ in_source'.fd = in_source.fd /\ in_sink'.fd = in_sink.fd
      BY <1>4, <1>5, Zenon DEF Environment, HangUp, inVars, pumpVars
    <3> QED
      BY <3>1, Zenon DEF AtEnd
  <2> QED
    BY <2>1, <1>1, <1>2, Zenon DEF LoopOK
<1>8. OutOK'
  <2>1. CASE Come \/ EndSource \/ Take \/ Break
    <3>1. /\ stream' = stream /\ accepted' = accepted
          /\ source'.fd = source.fd /\ source'.taken = source.taken
          /\ source.ended => source'.ended /\ source'.came = source.came
          /\ sink.broken => sink'.broken
      BY <2>1, <1>4, Zenon
    <3>2. source.came > source.taken => source'.came > source.taken
      BY <2>1, <1>3, <1>4
    <3> QED
      BY <3>1, <3>2, <1>1, <1>2, Zenon DEF OutOK
  <2>2. CASE UNCHANGED pumpVars
    BY <2>2, <1>1, <1>2, Zenon DEF OutOK, pumpVars
  <2> QED
    BY <2>1, <2>2, Zenon DEF Environment, HangUp
<1>9. sink'.broken => sink.broken \/ in_source'.ended
  <2>1. CASE Come \/ EndSource \/ Take
    BY <2>1, <1>1, Zenon DEF Come, EndSource, Take, PumpInv, SinkOK
  <2>2. CASE UNCHANGED pumpVars
    BY <2>2, Zenon DEF pumpVars
  <2>3. CASE HangUp
    <3>1. CASE in_source.ended
      BY <3>1, <2>3, Zenon DEF HangUp, inVars
    <3>2. CASE ~in_source.ended
      BY <3>2, <2>3, <1>1, Zenon DEF HangUp, In!EndSource, InProofs!PumpInv, InProofs!SourceOK
    <3> QED
      BY <3>1, <3>2, Zenon
  <2> QED
    BY <2>1, <2>2, <2>3, Zenon DEF Environment
<1>10. InOK'
  <2>1. CASE In!Come \/ In!EndSource \/ In!Take \/ In!Break
    <3>1. /\ inbound' = inbound /\ in_accepted' = in_accepted
          /\ in_source'.fd = in_source.fd /\ in_source'.taken = in_source.taken
          /\ in_source'.hangs = in_source.hangs
          /\ in_source.ended => /\ in_source'.ended
                                /\ in_source'.came = in_source.came
          /\ in_sink'.fd = in_sink.fd /\ in_sink'.shutdown = in_sink.shutdown
          /\ in_sink.broken => in_sink'.broken
      BY <2>1, <1>5, Zenon
    <3>2. in_source.came > in_source.taken => in_source'.came > in_source.taken
      BY <2>1, <1>3, <1>5
    <3> QED
      BY <3>1, <3>2, <1>1, <1>2, <1>9, Zenon DEF InOK
  <2>2. CASE UNCHANGED inVars
    BY <2>2, <1>1, <1>2, <1>6, <1>9, Zenon DEF InOK
  <2> QED
    BY <2>1, <2>2, Zenon DEF Environment, HangUp
<1>11. EndOK'
  <2>1. /\ stream' = stream /\ sink'.shutdown = sink.shutdown
        /\ sink.broken => sink'.broken
    BY <1>4, Zenon DEF Environment, HangUp, pumpVars
  <2>2. /\ in_source'.fd = in_source.fd /\ in_sink'.shutdown = in_sink.shutdown
        /\ in_sink.broken => in_sink'.broken
    BY <1>5, Zenon DEF Environment, HangUp, inVars
  <2> QED
    BY <2>1, <2>2, <1>1, <1>2, Zenon DEF EndOK
<1> QED
  BY <1>7, <1>8, <1>10, <1>11, Zenon

\* Every step keeps the invariant.
LEMMA StepCInv == CInv /\ [CopyNext]_copyVars => CInv'
<1> SUFFICES ASSUME CInv, [CopyNext]_copyVars PROVE CInv'
  BY Zenon
<1>1. PumpInv'
  BY OutboundStep, NextPump, Zenon DEF CInv
<1>2. InProofs!PumpInv'
  BY InboundStep, SameNext, InboundLemmas, Zenon DEF CInv
<1>3. CASE CopyNext
  <2>1. LoopOK' /\ OutOK' /\ InOK' /\ EndOK'
    BY <1>1, <1>2, <1>3, SetupKeeps, PollKeeps, LoopKeeps, Rule1Keeps, Rule2Keeps,
       Rule3Keeps, Rule4Keeps, CancelDefunctKeeps, EnvironmentKeeps, Zenon
       DEF CopyNext, Run
  <2> QED
    BY <2>1, <1>1, <1>2, Zenon DEF CInv
<1>4. CASE UNCHANGED copyVars
  <2>1. LoopOK' /\ OutOK' /\ InOK' /\ EndOK'
    BY <1>4 DEF CInv, copyVars, pumpVars, inVars, LoopOK, OutOK, InOK, EndOK, AtEnd
  <2> QED
    BY <2>1, <1>1, <1>2, Zenon DEF CInv
<1> QED
  BY <1>3, <1>4, Zenon

\* And it holds at the start.
LEMMA InitCInv == CopyInit => CInv
<1> SUFFICES ASSUME CopyInit PROVE CInv
  BY Zenon
<1>1. PumpInv
  BY InitPump, Zenon DEF CopyInit
<1>2. InProofs!PumpInv
  BY SameInit, InboundLemmas, Zenon DEF CopyInit
<1>3. loop = [pc |-> "setup", rules |-> Rules, call |-> {}, cancel |-> {}, fail |-> {}]
  BY Zenon DEF CopyInit
<1>4. /\ stream = NewByteStream(Cap) /\ accepted = << >> /\ source.fd = NewFileDescriptor
      /\ source.taken = 0 /\ sink.broken = FALSE
  BY Zenon DEF CopyInit, PumpInit, Init
<1>5. /\ inbound = In!NewByteStream(Cap) /\ in_accepted = << >>
      /\ in_source.fd = In!NewFileDescriptor
      /\ in_source.taken = 0 /\ in_sink.broken = FALSE /\ in_source.hangs = FALSE
      /\ in_sink.fd = In!NewFileDescriptor
  BY Zenon DEF CopyInit, In!PumpInit, In!Init
<1>6. /\ NewByteStream(Cap).error = FALSE /\ NewByteStream(Cap).is_end = FALSE
      /\ In!NewByteStream(Cap).error = FALSE /\ In!NewByteStream(Cap).is_end = FALSE
      /\ NewFileDescriptor.eof = FALSE /\ In!NewFileDescriptor.eof = FALSE
      /\ In!NewFileDescriptor.closed = FALSE
  BY Zenon DEF NewByteStream, In!NewByteStream, NewFileDescriptor, In!NewFileDescriptor
<1>7. Len(<< >>) = 0
  BY Zenon
<1>8. LoopOK
  BY <1>3, Zenon DEF LoopOK
<1>9. OutOK
  BY <1>3, <1>4, <1>6, <1>7 DEF OutOK, Rules
<1>10. InOK
  BY <1>3, <1>4, <1>5, <1>6, <1>7 DEF InOK, Rules
<1>11. EndOK
  BY <1>3, Zenon DEF EndOK
<1> QED
  BY <1>1, <1>2, <1>8, <1>9, <1>10, <1>11, Zenon DEF CInv

\* So it holds throughout.
LEMMA AlwaysCInv == CopySpec => []CInv
  BY InitCInv, StepCInv, PTL DEF CopySpec

\* For any sizes and in every order of events: no byte that was read is dropped
\* as long as the socket is there, and bidirectional_stream_copy() returns only
\* when both directions are over.
THEOREM NoByteDroppedCorrect == CopySpec => []NoByteDropped
<1>1. CInv => NoByteDropped
  <2> SUFFICES ASSUME CInv PROVE NoByteDropped
    BY Zenon
  <2>1. /\ PumpInv /\ InProofs!PumpInv /\ OutOK /\ InOK /\ EndOK
    BY Zenon DEF CInv
  <2>2. ASSUME in_sink.shutdown PROVE Len(in_delivered) = Len(in_accepted)
    BY <2>1, <2>2, FieldTypes, InAllDelivered, Zenon
  <2>3. ASSUME sink.shutdown PROVE Len(delivered) = Len(accepted)
    BY <2>1, <2>3, FieldTypes, AllDelivered, Zenon
  <2>4. ASSUME loop.pc = "done"
        PROVE  /\ in_sink.shutdown /\ in_source.ended
               /\ Len(in_delivered) = in_source.came
               /\ sink.broken \/ (sink.shutdown /\ Len(delivered) = source.came)
    BY <2>1, <2>2, <2>3, <2>4, Zenon DEF EndOK, InOK, OutOK
  <2> QED
    BY <2>1, <2>4, Zenon DEF NoByteDropped, OutOK, InOK
<1> QED
  BY <1>1, AlwaysCInv, PTL

\* The copy throws only when the socket hung up with bytes left for it, or when
\* the output broke.
THEOREM CopyThrowsCorrect == CopySpec => []CopyThrowsOnlyIf
<1>1. CInv => CopyThrowsOnlyIf
  BY Zenon DEF CInv, EndOK, CopyThrowsOnlyIf
<1> QED
  BY <1>1, AlwaysCInv, PTL
=============================================================================
