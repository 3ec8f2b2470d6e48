----------------------------- MODULE StreamPump -----------------------------
(***************************************************************************)
(* One direction of apps/bidirectional_stream_copy.cc: a callback that     *)
(* fills a ByteStream from a descriptor, and one that drains it into       *)
(* another.  The bytes at the source are numbered in order.                *)
(***************************************************************************)
EXTENDS ByteStreamSpec, FileDescriptor

CONSTANTS
  max_copy_length,   \* bound of one write: 65536 in the code
  Room               \* what the kernel holds for the reader of the sink

ASSUME PumpAssumption ==
  /\ max_copy_length \in Nat \ {0}
  /\ Room \in Nat \ {0}
  /\ 1 .. MaxTotal \subseteq Byte

VARIABLES
  source,   \* the descriptor read from, the bytes that came to it and that were
            \* read from it, whether its writer has ended, and whether poll(2)
            \* then reports a hangup (a pipe) or an end to read
  sink      \* the descriptor written to, the bytes it holds, whether it is
            \* broken, and _outbound_shutdown or _inbound_shutdown

pumpVars == <<stream, accepted, delivered, source, sink>>

PumpInit ==
  /\ Init
  /\ source \in [fd : {NewFileDescriptor}, came : {0}, taken : {0},
                 ended : {FALSE}, hangs : BOOLEAN]
  /\ sink = [fd |-> NewFileDescriptor, holds |-> 0, broken |-> FALSE,
             shutdown |-> FALSE]

Numbered(from, to) == [i \in 1 .. to - from |-> from + i]

-----------------------------------------------------------------------------
\* Interest of rules 1 and 3.
WantsToFill == ~stream.error /\ remaining_capacity(stream) > 0

\* Mutant: the end is not passed on when nothing is left to write.
WantsToDrain_bytes_only == stream.buf # << >>

\* Interest of rules 2 and 4.
WantsToDrain == stream.buf # << >> \/ (stream_eof(stream) /\ ~sink.shutdown)

\* Callback of rules 1 and 3.  Writing nothing leaves the stream as it is.
Fill ==
  LET limit == remaining_capacity(stream)
      n     == ReadCount(source.came - source.taken, limit)
      fd    == fd_read(source.fd, limit, n)
  IN  /\ IF fd.eof THEN EndInput
         ELSE Write(Numbered(source.taken, source.taken + n))
      /\ source' = [source EXCEPT !.fd = fd, !.taken = @ + n]
      /\ UNCHANGED sink

\* Mutant: all that was offered is popped, not only what was written.
Drain_pops_all(closes) ==
  LET bytes_to_write == Lesser(max_copy_length, buffer_size(stream))
      n              == WriteCount(bytes_to_write, Room - sink.holds)
      over           == stream_eof(pop_output(stream, bytes_to_write))
  IN  /\ stream' = pop_output(stream, bytes_to_write)
      /\ delivered' = delivered \o peek_output(stream, n)
      /\ sink' = [sink EXCEPT !.holds = @ + n, !.shutdown = @ \/ over,
                              !.fd = IF over /\ closes THEN fd_close(@) ELSE @]
      /\ UNCHANGED <<accepted, source>>

\* Callback of rules 2 and 4.  After the last byte the socket is shut down for
\* writing, or the descriptor is closed.
Drain(closes) ==
  LET bytes_to_write == Lesser(max_copy_length, buffer_size(stream))
      n              == WriteCount(bytes_to_write, Room - sink.holds)
      over           == stream_eof(pop_output(stream, n))
  IN  /\ Read(n)
      /\ sink' = [sink EXCEPT !.holds = @ + n, !.shutdown = @ \/ over,
                              !.fd = IF over /\ closes THEN fd_close(@) ELSE @]
      /\ UNCHANGED source

\* Writing to a broken descriptor fails, unless there is nothing to write.
DrainFails == sink.broken /\ stream.buf # << >>

\* The cancel function of all rules.
CancelRule ==
  /\ EndInput
  /\ UNCHANGED <<source, sink>>

-----------------------------------------------------------------------------
\* A byte comes to the source; its writer ends; the sink's reader takes what is
\* there.
Come ==
  /\ ~source.ended /\ source.came < MaxTotal
  /\ source' = [source EXCEPT !.came = @ + 1]
  /\ UNCHANGED <<stream, accepted, delivered, sink>>

EndSource ==
  /\ ~source.ended
  /\ source' = [source EXCEPT !.ended = TRUE]
  /\ UNCHANGED <<stream, accepted, delivered, sink>>

Take ==
  /\ sink.holds > 0 /\ ~sink.broken
  /\ sink' = [sink EXCEPT !.holds = 0]
  /\ UNCHANGED <<stream, accepted, delivered, source>>

Break ==
  /\ ~sink.broken
  /\ sink' = [sink EXCEPT !.broken = TRUE]
  /\ UNCHANGED <<stream, accepted, delivered, source>>

\* Whoever calls the callbacks, these are the steps of one direction.
PumpNext ==
  \/ Fill \/ CancelRule
  \/ \E closes \in BOOLEAN : Drain(closes)
  \/ Come \/ EndSource \/ Take \/ Break

PumpSpec == PumpInit /\ [][PumpNext]_pumpVars

-----------------------------------------------------------------------------
\* What poll(2) reports of the two descriptors.
Readable == source.came > source.taken \/ (source.ended /\ ~source.hangs)

Writable == sink.holds < Room

\* What the reader of the sink sees of the writer at the source is a byte pipe
\* whose end is the shutdown.
EndToEnd == INSTANCE BytePipe WITH closed <- input_ended(stream),
                                   ended <- sink.shutdown
=============================================================================
