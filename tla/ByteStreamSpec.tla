--------------------------- MODULE ByteStreamSpec ---------------------------
(***************************************************************************)
(* One ByteStream between a writer and a reader that call it in any order. *)
(* The two history variables record what crossed its interface.            *)
(***************************************************************************)
EXTENDS ByteStream

CONSTANTS Byte, Cap, MaxCall, MaxTotal

ASSUME CapAssumption == Cap \in Nat

\* MaxCall bounds the length of one call, MaxTotal the bytes ever offered.
ASSUME BoundsAssumption == MaxCall \in Nat /\ MaxTotal \in Nat

VARIABLES
  stream,      \* the ByteStream object
  accepted,    \* history: the bytes that write() reported as accepted
  delivered    \* history: the bytes that left through read() or pop_output()

vars == <<stream, accepted, delivered>>

Init ==
  /\ stream = NewByteStream(Cap)
  /\ accepted = << >>
  /\ delivered = << >>

Write(data) ==
  /\ Len(accepted) + Len(data) <= MaxTotal
  /\ stream' = write(stream, data)
  /\ accepted' = accepted \o Prefix(data, write_count(stream, data))
  /\ UNCHANGED delivered

\* read() returns what peek_output() shows and pops what pop_output() pops.
Read(len) ==
  /\ stream' = pop_output(stream, len)
  /\ delivered' = delivered \o peek_output(stream, len)
  /\ UNCHANGED accepted

EndInput ==
  /\ stream' = end_input(stream)
  /\ UNCHANGED <<accepted, delivered>>

SetError ==
  /\ stream' = set_error(stream)
  /\ UNCHANGED <<accepted, delivered>>

Data == UNION {[1 .. n -> Byte] : n \in 0 .. MaxCall}

Next ==
  \/ \E data \in Data : Write(data)
  \/ \E len \in 0 .. MaxCall : Read(len)
  \/ EndInput
  \/ SetError

Spec == Init /\ [][Next]_vars

-----------------------------------------------------------------------------
\* The members have the types of byte_stream.hh, and the buffer obeys the
\* capacity given to the constructor (the loop condition of write()).
TypeOK ==
  /\ stream \in ByteStreams(Byte, Cap)
  /\ Len(stream.buf) <= Cap
  /\ accepted \in Seq(Byte)
  /\ delivered \in Seq(Byte)

\* First in, first out: whatever partial writes and partial reads happened,
\* the bytes accepted are the bytes delivered followed by the bytes buffered.
Fifo == accepted = delivered \o stream.buf

\* bytes_written() and bytes_read() count exactly the bytes that crossed the
\* interface, so their difference is the occupancy bytes_not_read() reports,
\* on which the receiver's window rests.
Accounting ==
  /\ stream.total_bytes_written = Len(accepted)
  /\ stream.total_bytes_read = Len(delivered)
  /\ bytes_not_read(stream)
       = stream.total_bytes_written - stream.total_bytes_read

\* Through every sequence of partial writes and reads, the capacity is kept, no
\* byte is lost, repeated or reordered, and the counters are exact.  The three
\* depend on each other and are inductive together only.
IInv == TypeOK /\ Fifo /\ Accounting

\* The stream is a byte pipe whose end is announced by eof().
Pipe == INSTANCE BytePipe WITH closed <- input_ended(stream),
                               ended <- stream_eof(stream)

\* Whatever the order of the calls, the writer and the reader of a ByteStream
\* see a byte pipe: eof() is true only after end_input() and the last byte.
ImplementsPipe == Pipe!Spec
=============================================================================
