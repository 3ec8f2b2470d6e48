----------------------------- MODULE ByteStream -----------------------------
(***************************************************************************)
(* The flow-controlled in-memory byte stream of libsponge/byte_stream.{hh, *)
(* cc}.  A ByteStream object is a record of its members, and a method is   *)
(* an operator from the record (and the arguments) to the new record or to *)
(* the returned value.  The classes that own streams (StreamReassembler,   *)
(* TCPSender) apply the same operators to the record they hold.            *)
(***************************************************************************)
EXTENDS Integers, Sequences

Lesser(a, b) == IF a <= b THEN a ELSE b

Prefix(s, n) == SubSeq(s, 1, n)

Suffix(s, n) == SubSeq(s, n + 1, Len(s))

-----------------------------------------------------------------------------
\* The members.  Counters are size_t in the code and grow without wrapping.
ByteStreams(Byte, Cap) ==
  [cap : {Cap}, is_end : BOOLEAN, total_bytes_written : Nat,
   total_bytes_read : Nat, buf : Seq(Byte), error : BOOLEAN]

NewByteStream(capacity) ==
  [cap |-> capacity, is_end |-> FALSE, total_bytes_written |-> 0,
   total_bytes_read |-> 0, buf |-> << >>, error |-> FALSE]

remaining_capacity(s) == s.cap - Len(s.buf)

buffer_size(s) == Len(s.buf)

bytes_not_read(s) == s.cap - remaining_capacity(s)

input_ended(s) == s.is_end

stream_eof(s) == s.buf = << >> /\ s.is_end

\* The value write() returns: none once the input has ended, else the bytes
\* that the copying loop moves before the buffer or the data is exhausted.
write_count(s, data) ==
  IF s.is_end THEN 0 ELSE Lesser(Len(data), remaining_capacity(s))

write(s, data) ==
  LET p == write_count(s, data) IN
  [s EXCEPT !.buf = @ \o Prefix(data, p), !.total_bytes_written = @ + p]

peek_output(s, len) == Prefix(s.buf, Lesser(len, Len(s.buf)))

pop_output(s, len) ==
  LET count == Lesser(len, Len(s.buf)) IN
  [s EXCEPT !.buf = Suffix(@, count), !.total_bytes_read = @ + count]

end_input(s) == [s EXCEPT !.is_end = TRUE]

set_error(s) == [s EXCEPT !.error = TRUE]
=============================================================================
