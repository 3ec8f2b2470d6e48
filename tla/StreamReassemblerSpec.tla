------------------------ MODULE StreamReassemblerSpec ------------------------
(***************************************************************************)
(* A StreamReassembler fed with substrings of one logical stream, in any   *)
(* order, overlapping and repeated, while a reader drains its output.      *)
(***************************************************************************)
EXTENDS StreamReassembler

CONSTANTS
  StreamLength,     \* the number of bytes the peer sends
  Capacity,        \* the capacity given to the constructor
  EmptyInside \* whether an empty substring may fall inside a stored one

ASSUME StreamLengthAssumption == StreamLength \in Nat
ASSUME CapacityAssumption == Capacity \in Nat \ {0}
ASSUME EmptyInsideAssumption == EmptyInside \in BOOLEAN

\* Bytes are named by their place, so that one out of place is seen.
Bytes == 1 .. StreamLength

LogicalStream == [i \in Bytes |-> i]

VARIABLES
  reassembler,       \* the StreamReassembler object
  bytes_read,   \* history: the bytes read from its output
  died      \* the process died in fixCap

reassemblerVars == <<reassembler, bytes_read, died>>

ReassemblerInit ==
  /\ reassembler = NewStreamReassembler(Capacity)
  /\ bytes_read = << >>
  /\ died = FALSE

\* Index lies strictly between the ends of a stored string.
FallsInside(index) ==
  \E k \in DOMAIN reassembler.unassemBuf :
    k < index /\ index < EndOf(reassembler.unassemBuf, k)

\* A substring of the stream arrives.  When fixCap runs off the front of the
\* map it reads and assigns a freed node: either that has no effect on the
\* map, or the heap detects it and the process aborts.
Push(index, len, last) ==
  LET data == SubSeq(LogicalStream, index + 1, index + len) IN
  /\ ~died
  /\ index + len <= Len(LogicalStream)
  /\ last => index + len = Len(LogicalStream)
  /\ len = 0 /\ FallsInside(index) => EmptyInside
  /\ reassembler' = push_substring(reassembler, data, index, last)
  /\ died' \in {FALSE, FixCapRunsOff(BeforeFixCap(reassembler, data, index, last))}
  /\ UNCHANGED bytes_read

PopOutput(len) ==
  /\ ~died
  /\ len <= buffer_size(reassembler.output)
  /\ reassembler' = [reassembler EXCEPT !.output = pop_output(@, len)]
  /\ bytes_read' = bytes_read \o peek_output(reassembler.output, len)
  /\ UNCHANGED died

ReassemblerNext ==
  \/ \E index, len \in 0 .. Len(LogicalStream), last \in BOOLEAN :
       Push(index, len, last)
  \/ \E len \in 1 .. Capacity : PopOutput(len)

ReassemblerSpec == ReassemblerInit /\ [][ReassemblerNext]_reassemblerVars

-----------------------------------------------------------------------------
WrittenBytes == bytes_read \o reassembler.output.buf

\* The indices of the stored bytes.
StoredIndices ==
  {x \in 0 .. Len(LogicalStream) - 1 :
     \E k \in DOMAIN reassembler.unassemBuf :
       k <= x /\ x < EndOf(reassembler.unassemBuf, k)}

\* The members have the types of stream_reassembler.hh, the stored strings hold
\* bytes only (no filler), and no index lies beyond the stream.
ReassemblerTypeOK ==
  /\ reassembler.output \in ByteStreams(Bytes, Capacity)
  /\ Len(reassembler.output.buf) <= Capacity
  /\ reassembler.capacity = Capacity
  /\ DOMAIN reassembler.unassemBuf \subseteq 0 .. Len(LogicalStream)
  /\ \A k \in DOMAIN reassembler.unassemBuf :
       reassembler.unassemBuf[k] \in Seq(Bytes)
  /\ reassembler.assemBuf \in Seq(Bytes)
  /\ reassembler.expectIdx \in 0 .. Len(LogicalStream)
  /\ reassembler.unassemSize \in Nat
  /\ reassembler.eofIndex \in {NoEof, Len(LogicalStream)}
  /\ bytes_read \in Seq(Bytes)
  /\ died \in BOOLEAN

\* Whatever the order, overlap and repetition of the substrings, and whatever
\* fixCap discards, the bytes read, the bytes in the output and the assembled
\* bytes waiting for room are together the first expectIdx bytes of the stream;
\* and the output is ended only when every byte has been written to it, although
\* the end may be pushed long before the bytes.
Integrity ==
  /\ WrittenBytes \o reassembler.assemBuf
       = Prefix(LogicalStream, reassembler.expectIdx)
  /\ reassembler.output.is_end => WrittenBytes = LogicalStream

\* "write any newly contiguous bytes into the stream": the byte that continues
\* the assembled ones is never left among the stored strings, whichever
\* substring closed the gap before it.
WritesContiguous == reassembler.expectIdx \notin StoredIndices

\* unassembled_bytes() counts each stored index once, however often it was pushed
\* and merged, and with the assembled bytes that fixCap promises to leave room for
\* they fit the capacity.
CountedOnce ==
  /\ unassembled_bytes(reassembler) = Cardinality(StoredIndices)
  /\ Len(reassembler.assemBuf) + Cardinality(StoredIndices) <= Capacity
=============================================================================
