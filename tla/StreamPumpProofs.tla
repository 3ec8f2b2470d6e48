-------------------------- MODULE StreamPumpProofs --------------------------
(***************************************************************************)
(* For every alphabet and every capacity, a ByteStream is a bounded FIFO   *)
(* whose counters are exact, and a byte pipe to its writer and its reader. *)
(* One direction of the copy, which owns a ByteStream, is a byte pipe from *)
(* descriptor to descriptor, for every capacity, every bound of one write  *)
(* and every room in the kernel.                                           *)
(***************************************************************************)
EXTENDS StreamPump, TLAPS

-----------------------------------------------------------------------------
(* Facts about the two halves into which a call cuts a byte sequence.      *)

\* The first n bytes, and what Prefix keeps of them.
LEMMA PrefixProperties ==
  ASSUME NEW S, NEW s \in Seq(S), NEW n \in 0 .. Len(s)
  PROVE  /\ Prefix(s, n) \in Seq(S)
         /\ Len(Prefix(s, n)) = n
         /\ \A i \in 1 .. n : Prefix(s, n)[i] = s[i]
<1>1. \A i \in 1 .. n : s[i] \in S
  OBVIOUS
<1>2. /\ SubSeq(s, 1, n) \in Seq(S)
      /\ Len(SubSeq(s, 1, n)) = IF 1 <= n THEN n - 1 + 1 ELSE 0
      /\ \A i \in 1 .. n - 1 + 1 : SubSeq(s, 1, n)[i] = s[1 + i - 1]
  BY <1>1
<1> QED
  BY <1>2 DEF Prefix

\* What is left after the first n bytes.
LEMMA SuffixProperties ==
  ASSUME NEW S, NEW s \in Seq(S), NEW n \in 0 .. Len(s)
  PROVE  /\ Suffix(s, n) \in Seq(S)
         /\ Len(Suffix(s, n)) = Len(s) - n
         /\ \A i \in 1 .. Len(s) - n : Suffix(s, n)[i] = s[n + i]
<1>1. \A i \in n + 1 .. Len(s) : s[i] \in S
  OBVIOUS
<1>2. /\ SubSeq(s, n + 1, Len(s)) \in Seq(S)
      /\ Len(SubSeq(s, n + 1, Len(s)))
           = IF n + 1 <= Len(s) THEN Len(s) - (n + 1) + 1 ELSE 0
      /\ \A i \in 1 .. Len(s) - (n + 1) + 1 :
            SubSeq(s, n + 1, Len(s))[i] = s[(n + 1) + i - 1]
  BY <1>1
<1> QED
  BY <1>2 DEF Suffix

\* Two sequences joined.
LEMMA JoinProperties ==
  ASSUME NEW S, NEW s \in Seq(S), NEW t \in Seq(S)
  PROVE  /\ s \o t \in Seq(S)
         /\ Len(s \o t) = Len(s) + Len(t)
         /\ \A i \in 1 .. Len(s) + Len(t) :
              (s \o t)[i] = IF i <= Len(s) THEN s[i] ELSE t[i - Len(s)]
  OBVIOUS

\* Cutting and joining again gives back the whole.
LEMMA PrefixSuffix ==
  ASSUME NEW S, NEW s \in Seq(S), NEW n \in 0 .. Len(s)
  PROVE  Prefix(s, n) \o Suffix(s, n) = s
<1>1. /\ Prefix(s, n) \in Seq(S) /\ Len(Prefix(s, n)) = n
      /\ \A i \in 1 .. n : Prefix(s, n)[i] = s[i]
  BY PrefixProperties, Zenon
<1>2. /\ Suffix(s, n) \in Seq(S) /\ Len(Suffix(s, n)) = Len(s) - n
      /\ \A i \in 1 .. Len(s) - n : Suffix(s, n)[i] = s[n + i]
  BY SuffixProperties, Zenon
<1> DEFINE joined == Prefix(s, n) \o Suffix(s, n)
<1>3. /\ joined \in Seq(S) /\ Len(joined) = n + (Len(s) - n)
      /\ \A i \in 1 .. n + (Len(s) - n) :
           joined[i] = IF i <= n THEN Prefix(s, n)[i] ELSE Suffix(s, n)[i - n]
  BY <1>1, <1>2, JoinProperties
<1> HIDE DEF joined
<1>4. Len(joined) = Len(s) /\ \A i \in 1 .. Len(s) : joined[i] = s[i]
  <2>1. n \in Nat /\ Len(s) \in Nat /\ n + (Len(s) - n) = Len(s)
    OBVIOUS
  <2>2. ASSUME NEW i \in 1 .. Len(s) PROVE joined[i] = s[i]
    <3>1. CASE i <= n
      BY <1>1, <1>3, <2>1, <3>1
    <3>2. CASE ~(i <= n)
      <4>1. i - n \in 1 .. Len(s) - n /\ n + (i - n) = i
        BY <2>1, <3>2
      <4> QED
        BY <1>2, <1>3, <2>1, <3>2, <4>1, Zenon
    <3> QED
      BY <3>1, <3>2, Zenon
  <2> QED
    BY <1>3, <2>1, <2>2, Zenon
<1>5. joined = s
  BY <1>3, <1>4
<1> QED
  BY <1>5, Zenon DEF joined

\* Joining is associative, at the type of the bytes.
LEMMA JoinAssociative ==
  \A s, t, u \in Seq(Byte) : (s \o t) \o u = s \o (t \o u)
  OBVIOUS

\* The smaller of two lengths.
LEMMA LesserProperties ==
  ASSUME NEW a \in Nat, NEW b \in Nat
  PROVE  Lesser(a, b) \in 0 .. a /\ Lesser(a, b) <= b
  BY DEF Lesser

\* bytes_not_read() is the length of the buffer.
LEMMA NotReadIsBuffered ==
  ASSUME NEW s, s.cap \in Nat, Len(s.buf) \in Nat
  PROVE  bytes_not_read(s) = Len(s.buf)
<1>1. \A c, b \in Nat : c - (c - b) = b
  OBVIOUS
<1> QED
  BY <1>1, Zenon DEF bytes_not_read, remaining_capacity

-----------------------------------------------------------------------------
\* The arguments of write() are byte strings.
LEMMA DataType == Data \subseteq Seq(Byte)
  BY DEF Data

\* A new stream is empty and its counters are zero.
LEMMA InitIInv == Init => IInv
<1> SUFFICES ASSUME Init PROVE IInv
  BY Zenon
<1>1. << >> \in Seq(Byte) /\ Len(<< >>) = 0 /\ << >> \o << >> = << >>
  OBVIOUS
<1> QED
  BY <1>1, CapAssumption
     DEF Init, IInv, TypeOK, Fifo, Accounting, ByteStreams, NewByteStream,
         bytes_not_read, remaining_capacity

\* write() appends the bytes it accepts to the buffer and to the history.
LEMMA WriteIInv ==
  ASSUME IInv, NEW data \in Seq(Byte), Write(data)
  PROVE  IInv'
<1> DEFINE p == write_count(stream, data)
           head == Prefix(data, p)
<1>1. /\ stream \in ByteStreams(Byte, Cap)
      /\ stream.cap = Cap /\ stream.buf \in Seq(Byte)
      /\ accepted \in Seq(Byte) /\ delivered \in Seq(Byte)
  BY Zenon DEF IInv, TypeOK, ByteStreams
<1>a. /\ stream.cap = Cap /\ Len(stream.buf) \in Nat /\ Len(stream.buf) <= Cap
      /\ stream.total_bytes_written \in Nat /\ Len(data) \in Nat
  BY DEF IInv, TypeOK, ByteStreams
<1>2. p \in 0 .. Len(data) /\ p <= Cap - Len(stream.buf)
  <2>1. Cap - Len(stream.buf) \in Nat
    BY <1>a, CapAssumption
  <2>2. /\ Lesser(Len(data), Cap - Len(stream.buf)) \in 0 .. Len(data)
        /\ Lesser(Len(data), Cap - Len(stream.buf)) <= Cap - Len(stream.buf)
    BY <2>1, <1>a, LesserProperties, Zenon
  <2>3. p = 0 \/ p = Lesser(Len(data), Cap - Len(stream.buf))
    BY <1>a, Zenon DEF write_count, remaining_capacity
  <2> QED
    BY <2>1, <2>2, <2>3, <1>a
<1> HIDE DEF p
<1>3. head \in Seq(Byte) /\ Len(head) = p
  BY <1>2, PrefixProperties, Zenon
<1>4. /\ stream' = [stream EXCEPT !.buf = @ \o head,
                                  !.total_bytes_written = @ + p]
      /\ accepted' = accepted \o head
      /\ delivered' = delivered
  BY Zenon DEF Write, write, p
<1> HIDE DEF head
<1>5. /\ stream'.buf = stream.buf \o head
      /\ stream'.cap = Cap
      /\ stream'.total_bytes_written = stream.total_bytes_written + p
      /\ stream'.total_bytes_read = stream.total_bytes_read
  BY <1>1, <1>4, Zenon DEF ByteStreams
<1>6. /\ stream.buf \o head \in Seq(Byte)
      /\ Len(stream.buf \o head) = Len(stream.buf) + p
      /\ accepted \o head \in Seq(Byte)
      /\ Len(accepted \o head) = Len(accepted) + p
  BY <1>1, <1>3, JoinProperties, Zenon
<1>7. TypeOK'
  <2>1. /\ stream.total_bytes_written + p \in Nat
        /\ Len(stream.buf) + p <= Cap
    BY <1>a, <1>2, CapAssumption
  <2>2. stream' \in ByteStreams(Byte, Cap)
    BY <2>1, <1>1, <1>4, <1>6, Zenon DEF ByteStreams
  <2> QED
    BY <2>1, <2>2, <1>1, <1>4, <1>5, <1>6, Zenon DEF TypeOK
<1>8. Fifo'
  <2>1. (delivered \o stream.buf) \o head = delivered \o (stream.buf \o head)
    <3>1. delivered \in Seq(Byte) /\ stream.buf \in Seq(Byte) /\ head \in Seq(Byte)
      BY <1>1, <1>3, Zenon
    <3> QED
      BY <3>1, JoinAssociative, Zenon
  <2> QED
    BY <2>1, <1>4, <1>5, Zenon DEF IInv, Fifo
<1>9. Accounting'
  <2>1. /\ stream.total_bytes_written = Len(accepted)
        /\ stream.total_bytes_read = Len(delivered)
        /\ stream.total_bytes_read \in Nat
        /\ Len(stream.buf)
             = stream.total_bytes_written - stream.total_bytes_read
    BY <1>1, <1>a, CapAssumption, NotReadIsBuffered
       DEF IInv, Accounting
  <2>2. /\ Len(stream'.buf) = Len(stream.buf) + p
        /\ Len(accepted') = Len(accepted) + p
    BY <1>4, <1>5, <1>6, Zenon
  <2>3. Len(stream.buf) + p \in Nat
    BY <1>a, <1>2
  <2>4. bytes_not_read(stream') = Len(stream.buf) + p
    BY <2>2, <2>3, <1>5, CapAssumption, NotReadIsBuffered, Zenon
  <2>5. Len(stream.buf) + p
          = (stream.total_bytes_written + p) - stream.total_bytes_read
    BY <2>1, <1>a, <1>2
  <2> QED
    BY <2>1, <2>2, <2>4, <2>5, <1>4, <1>5, Zenon DEF Accounting
<1> QED
  BY <1>7, <1>8, <1>9, Zenon DEF IInv

\* read() moves bytes from the front of the buffer to the end of the history.
LEMMA ReadIInv ==
  ASSUME IInv, NEW len \in Nat, Read(len)
  PROVE  IInv'
<1> DEFINE n == Lesser(len, Len(stream.buf))
           head == Prefix(stream.buf, n)
           tail == Suffix(stream.buf, n)
<1>1. /\ stream \in ByteStreams(Byte, Cap)
      /\ stream.cap = Cap /\ stream.buf \in Seq(Byte)
      /\ accepted \in Seq(Byte) /\ delivered \in Seq(Byte)
  BY Zenon DEF IInv, TypeOK, ByteStreams
<1>a. /\ stream.cap = Cap /\ Len(stream.buf) \in Nat /\ Len(stream.buf) <= Cap
      /\ stream.total_bytes_read \in Nat
  BY DEF IInv, TypeOK, ByteStreams
<1>2. n \in 0 .. Len(stream.buf)
  BY <1>a DEF Lesser
<1> HIDE DEF n
<1>3. /\ head \in Seq(Byte) /\ Len(head) = n
      /\ tail \in Seq(Byte) /\ Len(tail) = Len(stream.buf) - n
      /\ head \o tail = stream.buf
  BY <1>1, <1>2, PrefixProperties, SuffixProperties, PrefixSuffix, Zenon
<1>4. /\ stream' = [stream EXCEPT !.buf = tail, !.total_bytes_read = @ + n]
      /\ delivered' = delivered \o head
      /\ accepted' = accepted
  BY <1>1, Zenon DEF Read, pop_output, peek_output, n, ByteStreams
<1> HIDE DEF head, tail
<1>5. /\ stream'.buf = tail
      /\ stream'.cap = Cap
      /\ stream'.total_bytes_written = stream.total_bytes_written
      /\ stream'.total_bytes_read = stream.total_bytes_read + n
  BY <1>1, <1>4, Zenon DEF ByteStreams
<1>6. /\ delivered \o head \in Seq(Byte)
      /\ Len(delivered \o head) = Len(delivered) + n
  BY <1>1, <1>3, JoinProperties, Zenon
<1>7. TypeOK'
  <2>1. stream.total_bytes_read + n \in Nat /\ Len(stream.buf) - n <= Cap
    BY <1>a, <1>2, CapAssumption
  <2>2. stream' \in ByteStreams(Byte, Cap)
    BY <2>1, <1>1, <1>3, <1>4, Zenon DEF ByteStreams
  <2> QED
    BY <2>1, <2>2, <1>1, <1>3, <1>4, <1>5, <1>6, Zenon DEF TypeOK
<1>8. Fifo'
  <2>1. (delivered \o head) \o tail = delivered \o (head \o tail)
    BY <1>1, <1>3, JoinAssociative, Zenon
  <2> QED
    BY <2>1, <1>3, <1>4, <1>5, Zenon DEF IInv, Fifo
<1>9. Accounting'
  <2>1. /\ stream.total_bytes_written = Len(accepted)
        /\ stream.total_bytes_read = Len(delivered)
        /\ stream.total_bytes_written \in Nat
        /\ Len(stream.buf)
             = stream.total_bytes_written - stream.total_bytes_read
    BY <1>1, <1>a, CapAssumption, NotReadIsBuffered
       DEF IInv, Accounting
  <2>2. /\ Len(stream'.buf) = Len(stream.buf) - n
        /\ Len(delivered') = Len(delivered) + n
    BY <1>3, <1>4, <1>5, <1>6, Zenon
  <2>3. Len(stream.buf) - n \in Nat
    BY <1>a, <1>2
  <2>4. bytes_not_read(stream') = Len(stream.buf) - n
    BY <2>2, <2>3, <1>5, CapAssumption, NotReadIsBuffered, Zenon
  <2>5. Len(stream.buf) - n
          = stream.total_bytes_written - (stream.total_bytes_read + n)
    BY <2>1, <1>a, <1>2
  <2> QED
    BY <2>1, <2>2, <2>4, <2>5, <1>4, <1>5, Zenon DEF Accounting
<1> QED
  BY <1>7, <1>8, <1>9, Zenon DEF IInv

\* Every step preserves the invariant.
LEMMA NextIInv == IInv /\ [Next]_vars => IInv'
<1> SUFFICES ASSUME IInv, [Next]_vars PROVE IInv'
  BY Zenon
<1>1. ASSUME NEW data \in Data, Write(data) PROVE IInv'
  BY <1>1, DataType, WriteIInv, Zenon
<1>2. ASSUME NEW len \in 0 .. MaxCall, Read(len) PROVE IInv'
  BY <1>2, BoundsAssumption, ReadIInv
<1>3. CASE EndInput
  BY <1>3, Zenon DEF EndInput, end_input, IInv, TypeOK, Fifo, Accounting,
              ByteStreams, bytes_not_read, remaining_capacity
<1>4. CASE SetError
  BY <1>4, Zenon DEF SetError, set_error, IInv, TypeOK, Fifo, Accounting,
              ByteStreams, bytes_not_read, remaining_capacity
<1>5. CASE UNCHANGED vars
  BY <1>5, Zenon DEF vars, IInv, TypeOK, Fifo, Accounting
<1> QED
  BY <1>1, <1>2, <1>3, <1>4, <1>5, Zenon DEF Next

-----------------------------------------------------------------------------
\* The capacity, the order of the bytes and the counters, in every reachable
\* state of a ByteStream of any capacity.
THEOREM StreamCorrect == Spec => []IInv
  BY InitIInv, NextIInv, PTL DEF Spec

\* The members keep their types and the buffer never exceeds its capacity.
THEOREM TypeCorrect == Spec => []TypeOK
<1>1. IInv => TypeOK
  BY Zenon DEF IInv
<1> QED
  BY <1>1, InitIInv, NextIInv, PTL DEF Spec

\* write(), read() and pop_output() neither lose, duplicate nor reorder bytes.
THEOREM FifoCorrect == Spec => []Fifo
<1>1. IInv => Fifo
  BY Zenon DEF IInv
<1> QED
  BY <1>1, InitIInv, NextIInv, PTL DEF Spec

\* bytes_written(), bytes_read() and bytes_not_read() are exact.
THEOREM AccountingCorrect == Spec => []Accounting
<1>1. IInv => Accounting
  BY Zenon DEF IInv
<1> QED
  BY <1>1, InitIInv, NextIInv, PTL DEF Spec

-----------------------------------------------------------------------------
(* The stream implements the abstract pipe.                                *)

\* The bytes delivered are a prefix of the bytes accepted, and all of them
\* exactly when the buffer is empty.
LEMMA DeliveredPrefix ==
  ASSUME NEW d \in Seq(Byte), NEW b \in Seq(Byte)
  PROVE  /\ SubSeq(d \o b, 1, Len(d)) = d
         /\ Len(d) \in 0 .. Len(d \o b)
         /\ d = d \o b <=> b = << >>
<1>1. Len(d) \in Nat /\ Len(b) \in Nat
  OBVIOUS
<1>2. /\ d \o b \in Seq(Byte)
      /\ Len(d \o b) = Len(d) + Len(b)
      /\ \A i \in 1 .. Len(d) + Len(b) :
           (d \o b)[i] = IF i <= Len(d) THEN d[i] ELSE b[i - Len(d)]
  OBVIOUS
<1>3. Len(d) \in 0 .. Len(d \o b)
  BY <1>1, <1>2
<1>4. /\ Prefix(d \o b, Len(d)) \in Seq(Byte)
      /\ Len(Prefix(d \o b, Len(d))) = Len(d)
      /\ \A i \in 1 .. Len(d) : Prefix(d \o b, Len(d))[i] = (d \o b)[i]
  BY <1>2, <1>3, PrefixProperties, Zenon
<1>5. \A i \in 1 .. Len(d) : Prefix(d \o b, Len(d))[i] = d[i]
  BY <1>1, <1>2, <1>4
<1>6. Prefix(d \o b, Len(d)) = d
  BY <1>4, <1>5
<1>7. d \o b = d <=> b = << >>
  BY <1>1, <1>2
<1> QED
  BY <1>3, <1>6, <1>7, Zenon DEF Prefix

\* A new stream is an empty pipe.
LEMMA InitPipe == Init => Pipe!Init
  BY DEF Init, Pipe!Init, NewByteStream, input_ended, stream_eof

\* write() is an Accept of the pipe, or no step of it.
LEMMA WritePipe ==
  ASSUME IInv, NEW data \in Seq(Byte), Write(data)
  PROVE  [Pipe!Next]_(Pipe!pipeVars)
<1> DEFINE head == Prefix(data, write_count(stream, data))
<1>1. /\ stream.is_end \in BOOLEAN /\ stream'.is_end = stream.is_end
      /\ accepted' = accepted \o head /\ delivered' = delivered
      /\ stream'.buf = stream.buf \o head
      /\ stream.buf \in Seq(Byte) /\ accepted \in Seq(Byte)
  BY Zenon DEF IInv, TypeOK, ByteStreams, Write, write
<1>2. IInv'
  BY WriteIInv, Zenon
<1>3. CASE stream.is_end
  <2>1. head = << >>
    BY <1>3 DEF write_count, Prefix
  <2>2. accepted' = accepted /\ stream'.buf = stream.buf
    BY <2>1, <1>1
  <2> QED
    BY <2>2, <1>1, Zenon DEF Pipe!pipeVars, input_ended, stream_eof
<1>4. CASE ~stream.is_end
  <2>1. head \in Seq(Byte)
    <3>1. write_count(stream, data) \in 0 .. Len(data)
      <4>1. Len(data) \in Nat /\ Cap - Len(stream.buf) \in Nat /\ stream.cap = Cap
        BY CapAssumption DEF IInv, TypeOK, ByteStreams
      <4> QED
        BY <4>1, <1>4, LesserProperties, Zenon DEF write_count, remaining_capacity
    <3> QED
      BY <3>1, PrefixProperties, Zenon
  <2>2. /\ SubSeq(accepted \o head, 1, Len(accepted)) = accepted
        /\ Len(accepted) \in 0 .. Len(accepted \o head)
    BY <2>1, <1>1, DeliveredPrefix, Zenon
  <2>3. Len(accepted) <= Len(accepted')
    BY <2>2, <1>1
  <2>4. accepted' \in Seq(Byte)
    BY <1>2, Zenon DEF IInv, TypeOK
  <2>5. /\ ~input_ended(stream)
        /\ input_ended(stream)' = input_ended(stream)
        /\ stream_eof(stream)' = stream_eof(stream)
    BY <1>1, <1>4, Zenon DEF input_ended, stream_eof
  <2>6. Pipe!Announce
    BY <2>5, Zenon DEF Pipe!Announce
  <2>7. SubSeq(accepted', 1, Len(accepted)) = accepted
    BY <2>2, <1>1, Zenon
  <2>8. Pipe!Accept
    BY <2>3, <2>4, <2>5, <2>6, <2>7, <1>1, Zenon DEF Pipe!Accept
  <2> QED
    BY <2>8, Zenon DEF Pipe!Next
<1> QED
  BY <1>1, <1>3, <1>4, Zenon

\* read() is a Deliver of the pipe, which announces the end with the last byte.
LEMMA ReadPipe ==
  ASSUME IInv, NEW len \in Nat, Read(len)
  PROVE  [Pipe!Next]_(Pipe!pipeVars)
<1>1. IInv'
  BY ReadIInv, Zenon
<1>2. /\ stream'.is_end = stream.is_end /\ stream.is_end \in BOOLEAN
      /\ accepted' = accepted
      /\ delivered' = delivered \o peek_output(stream, len)
  BY Zenon DEF Read, pop_output, IInv, TypeOK, ByteStreams
<1>3. /\ delivered' \in Seq(Byte) /\ stream'.buf \in Seq(Byte)
      /\ accepted = delivered' \o stream'.buf
  BY <1>1, <1>2, Zenon DEF IInv, TypeOK, ByteStreams, Fifo
<1>4. /\ SubSeq(accepted, 1, Len(delivered')) = delivered'
      /\ Len(delivered') \in 0 .. Len(accepted)
      /\ delivered' = accepted <=> stream'.buf = << >>
  BY <1>3, DeliveredPrefix, Zenon
<1>5. Len(delivered) <= Len(delivered')
  <2>1. delivered \in Seq(Byte) /\ peek_output(stream, len) \in Seq(Byte)
    <3>1. stream.buf \in Seq(Byte) /\ Len(stream.buf) \in Nat
      BY DEF IInv, TypeOK, ByteStreams
    <3>2. Lesser(len, Len(stream.buf)) \in 0 .. Len(stream.buf)
      BY <3>1 DEF Lesser
    <3> QED
      BY <3>1, <3>2, PrefixProperties, Zenon DEF peek_output, IInv, TypeOK
  <2>2. Len(delivered) \in 0 .. Len(delivered')
    BY <2>1, <1>2, DeliveredPrefix, Zenon
  <2> QED
    BY <2>2
<1>6. Len(delivered') \in Len(delivered) .. Len(accepted)
  <2>1. Len(delivered) \in Nat /\ Len(accepted) \in Nat
    BY DEF IInv, TypeOK
  <2> QED
    BY <2>1, <1>4, <1>5
<1>7. stream_eof(stream') = (input_ended(stream') /\ delivered' = accepted')
  BY <1>2, <1>4, Zenon DEF stream_eof, input_ended
<1>8. \E n \in Len(delivered) .. Len(accepted) : delivered' = SubSeq(accepted, 1, n)
  BY <1>4, <1>6, Zenon
<1>9. Pipe!Deliver
  BY <1>2, <1>7, <1>8, Zenon DEF Pipe!Deliver, Pipe!Announce, input_ended
<1> QED
  BY <1>9, Zenon DEF Pipe!Next

\* end_input() closes the pipe, and announces the end if nothing is buffered.
LEMMA EndPipe ==
  ASSUME IInv, EndInput
  PROVE  [Pipe!Next]_(Pipe!pipeVars)
<1>1. /\ stream'.is_end = TRUE /\ stream'.buf = stream.buf
      /\ accepted' = accepted /\ delivered' = delivered
      /\ accepted = delivered \o stream.buf
      /\ delivered \in Seq(Byte) /\ stream.buf \in Seq(Byte)
  BY Zenon DEF EndInput, end_input, IInv, TypeOK, ByteStreams, Fifo
<1>2. delivered = accepted <=> stream.buf = << >>
  BY <1>1, DeliveredPrefix, Zenon
<1>3. stream_eof(stream') = (input_ended(stream') /\ delivered' = accepted')
  BY <1>1, <1>2, Zenon DEF stream_eof, input_ended
<1>4. Pipe!Close
  BY <1>1, <1>3, Zenon DEF Pipe!Close, Pipe!Announce, input_ended
<1> QED
  BY <1>4, Zenon DEF Pipe!Next

\* Any sequence of write(), read(), end_input() and set_error() calls looks to
\* the writer and the reader like the abstract byte pipe, with eof() as the
\* announcement that everything accepted has been delivered.
THEOREM PipeRefinement == Spec => ImplementsPipe
<1>1. IInv /\ [Next]_vars => [Pipe!Next]_(Pipe!pipeVars)
  <2> SUFFICES ASSUME IInv, [Next]_vars PROVE [Pipe!Next]_(Pipe!pipeVars)
    BY Zenon
  <2>1. ASSUME NEW data \in Data, Write(data) PROVE [Pipe!Next]_(Pipe!pipeVars)
    BY <2>1, DataType, WritePipe, Zenon
  <2>2. ASSUME NEW len \in 0 .. MaxCall, Read(len)
        PROVE  [Pipe!Next]_(Pipe!pipeVars)
    BY <2>2, BoundsAssumption, ReadPipe
  <2>3. CASE EndInput
    BY <2>3, EndPipe, Zenon
  <2>4. CASE SetError
    BY <2>4, Zenon DEF SetError, set_error, Pipe!pipeVars, input_ended, stream_eof,
                IInv, TypeOK, ByteStreams
  <2>5. CASE UNCHANGED vars
    BY <2>5, Zenon DEF vars, Pipe!pipeVars, input_ended, stream_eof
  <2> QED
    BY <2>1, <2>2, <2>3, <2>4, <2>5, Zenon DEF Next
<1> QED
  BY <1>1, InitIInv, NextIInv, InitPipe, PTL DEF Spec, ImplementsPipe, Pipe!Spec

-----------------------------------------------------------------------------
\* What the descriptors add to the invariant of the stream: no more is read than
\* came, no more is held than there is room for, and the end is passed on only
\* when the stream is at its end.
Descriptors == [eof : BOOLEAN, closed : BOOLEAN]

SourceOK ==
  /\ source \in [fd : Descriptors, came : Nat, taken : Nat,
                 ended : BOOLEAN, hangs : BOOLEAN]
  /\ source.taken <= source.came /\ source.came <= MaxTotal

SinkOK ==
  /\ sink \in [fd : Descriptors, holds : Nat, broken : BOOLEAN,
               shutdown : BOOLEAN]
  /\ sink.holds <= Room
  /\ sink.shutdown => stream.is_end /\ stream.buf = << >>

PumpInv == IInv /\ SourceOK /\ SinkOK

\* The smaller of two counts.
LEMMA FewerProperties ==
  ASSUME NEW a \in Nat, NEW b \in Nat
  PROVE  Fewer(a, b) \in Nat /\ Fewer(a, b) <= a /\ Fewer(a, b) <= b
  BY DEF Fewer

\* The room left in the stream and the bytes in it are counts.
LEMMA StreamCounts ==
  ASSUME IInv
  PROVE  /\ Len(stream.buf) \in Nat /\ remaining_capacity(stream) \in Nat
         /\ stream.buf \in Seq(Byte) /\ stream.is_end \in BOOLEAN
<1>1. /\ stream.cap = Cap /\ stream.buf \in Seq(Byte) /\ Len(stream.buf) <= Cap
      /\ stream.is_end \in BOOLEAN
  BY Zenon DEF IInv, TypeOK, ByteStreams
<1>2. Len(stream.buf) \in Nat
  BY <1>1
<1> QED
  BY <1>1, <1>2, CapAssumption DEF remaining_capacity

\* Two new descriptors and an empty stream.
LEMMA InitPump == PumpInit => PumpInv
<1> SUFFICES ASSUME PumpInit PROVE PumpInv
  BY Zenon
<1>1. IInv
  BY InitIInv, Zenon DEF PumpInit
<1>2. SourceOK
  <2>1. NewFileDescriptor \in Descriptors
    BY Zenon DEF Descriptors, NewFileDescriptor
  <2>2. PICK hangs \in BOOLEAN :
          source = [fd |-> NewFileDescriptor, came |-> 0, taken |-> 0,
                    ended |-> FALSE, hangs |-> hangs]
    BY Zenon DEF PumpInit
  <2>3. source \in [fd : Descriptors, came : Nat, taken : Nat,
                    ended : BOOLEAN, hangs : BOOLEAN]
    BY <2>1, <2>2, Zenon
  <2>4. source.came = 0 /\ source.taken = 0
    BY <2>2, Zenon
  <2> QED
    BY <2>3, <2>4, BoundsAssumption DEF SourceOK
<1>3. SinkOK
  BY PumpAssumption DEF PumpInit, SinkOK, Descriptors, NewFileDescriptor
<1> QED
  BY <1>1, <1>2, <1>3, Zenon DEF PumpInv

-----------------------------------------------------------------------------
\* The count that a Fill reads, and the bytes it writes into the stream.
LEMMA FillCount ==
  ASSUME PumpInv,
         NEW n, n = ReadCount(source.came - source.taken, remaining_capacity(stream))
  PROVE  /\ n \in Nat /\ source.taken + n <= source.came
         /\ Numbered(source.taken, source.taken + n) \in Seq(Byte)
<1>1. /\ source.came \in Nat /\ source.taken \in Nat
      /\ source.taken <= source.came /\ source.came <= MaxTotal
      /\ remaining_capacity(stream) \in Nat
  BY StreamCounts, Zenon DEF PumpInv, SourceOK
<1>2. source.came - source.taken \in Nat
  BY <1>1
<1>3. n \in Nat /\ n <= source.came - source.taken
  BY <1>1, <1>2, FewerProperties, Zenon DEF ReadCount
<1>4. (source.taken + n) - source.taken = n /\ source.taken + n <= source.came
  BY <1>1, <1>3
<1>5. \A i \in 1 .. n : source.taken + i \in 1 .. MaxTotal
  BY <1>1, <1>3, BoundsAssumption
<1>6. [i \in 1 .. n |-> source.taken + i] \in [1 .. n -> Byte]
  BY <1>5, PumpAssumption, Zenon
<1> QED
  BY <1>3, <1>4, <1>6 DEF Numbered

\* A Fill that reads bytes appends them, one that reads the end ends the stream.
LEMMA FillPump ==
  ASSUME PumpInv, Fill
  PROVE  PumpInv'
<1> DEFINE n == ReadCount(source.came - source.taken, remaining_capacity(stream))
           fd == fd_read(source.fd, remaining_capacity(stream), n)
           data == Numbered(source.taken, source.taken + n)
<1>1. n \in Nat /\ source.taken + n <= source.came /\ data \in Seq(Byte)
  BY FillCount, Zenon
<1>2. /\ IF fd.eof THEN EndInput ELSE Write(data)
      /\ source' = [source EXCEPT !.fd = fd, !.taken = @ + n]
      /\ sink' = sink
  BY Zenon DEF Fill
<1>3. fd \in Descriptors
  BY Zenon DEF fd_read, PumpInv, SourceOK, Descriptors
<1> HIDE DEF n, fd, data
<1>4. SourceOK'
  <2>1. source.taken + n \in Nat
    BY <1>1 DEF PumpInv, SourceOK
  <2>2. /\ source' \in [fd : Descriptors, came : Nat, taken : Nat,
                        ended : BOOLEAN, hangs : BOOLEAN]
        /\ source'.taken = source.taken + n /\ source'.came = source.came
    BY <2>1, <1>2, <1>3, Zenon DEF PumpInv, SourceOK
  <2> QED
    BY <2>2, <1>1, Zenon DEF PumpInv, SourceOK
<1>5. IInv' /\ (stream.is_end /\ stream.buf = << >>
                 => stream'.is_end /\ stream'.buf = << >>)
  <2>1. CASE fd.eof
    <3>1. EndInput
      BY <1>2, <2>1, Zenon
    <3>2. IInv'
      BY <3>1, NextIInv, Zenon DEF Next, PumpInv
    <3> QED
      BY <3>1, <3>2, Zenon DEF EndInput, end_input, PumpInv, IInv, TypeOK, ByteStreams
  <2>2. CASE ~fd.eof
    <3>1. Write(data)
      BY <1>2, <2>2, Zenon
    <3>2. IInv'
      BY <3>1, <1>1, WriteIInv, Zenon DEF PumpInv
    <3>3. stream'.is_end = stream.is_end
          /\ stream'.buf = stream.buf \o Prefix(data, write_count(stream, data))
      BY <3>1, Zenon DEF Write, write, PumpInv, IInv, TypeOK, ByteStreams
    <3>4. stream.is_end => Prefix(data, write_count(stream, data)) = << >>
      BY DEF Prefix, write_count
    <3>5. << >> \in Seq(Byte) /\ << >> \o << >> = << >>
      OBVIOUS
    <3> QED
      BY <3>2, <3>3, <3>4, <3>5, Zenon
  <2> QED
    BY <2>1, <2>2, Zenon
<1>6. SinkOK'
  BY <1>2, <1>5, Zenon DEF PumpInv, SinkOK
<1> QED
  BY <1>4, <1>5, <1>6, Zenon DEF PumpInv

\* A Drain hands over the front of the stream, and passes the end on when it has
\* handed over the last byte of a stream that has ended.
LEMMA DrainCount ==
  ASSUME PumpInv, NEW n,
         n = WriteCount(Lesser(max_copy_length, buffer_size(stream)),
                        Room - sink.holds)
  PROVE  n \in Nat /\ sink.holds + n \in Nat /\ sink.holds + n <= Room
<1>1. Len(stream.buf) \in Nat
  BY StreamCounts, Zenon DEF PumpInv
<1>2. Lesser(max_copy_length, buffer_size(stream)) \in Nat
  BY <1>1, PumpAssumption, Zenon DEF Lesser, buffer_size
<1>3. sink.holds \in Nat /\ Room - sink.holds \in Nat
  BY PumpAssumption DEF PumpInv, SinkOK
<1>4. n \in Nat /\ n <= Room - sink.holds
  BY <1>2, <1>3, FewerProperties, Zenon DEF WriteCount
<1> QED
  BY <1>3, <1>4, PumpAssumption

\* What a Drain does to the stream and the sink.
LEMMA DrainPump ==
  ASSUME PumpInv, NEW closes \in BOOLEAN, Drain(closes)
  PROVE  /\ PumpInv'
         /\ \E n \in Nat : Read(n)
         /\ sink'.shutdown = (sink.shutdown \/ stream_eof(stream'))
<1> DEFINE n == WriteCount(Lesser(max_copy_length, buffer_size(stream)),
                           Room - sink.holds)
           over == stream_eof(pop_output(stream, n))
           fd == IF over /\ closes THEN fd_close(sink.fd) ELSE sink.fd
<1>1. n \in Nat /\ sink.holds + n \in Nat /\ sink.holds + n <= Room
  BY DrainCount, Zenon
<1>2. /\ Read(n) /\ source' = source
      /\ sink' = [sink EXCEPT !.holds = @ + n, !.shutdown = @ \/ over, !.fd = fd]
  BY Zenon DEF Drain
<1>3. fd \in Descriptors
  BY Zenon DEF fd_close, PumpInv, SinkOK, Descriptors
<1>4. over = stream_eof(stream') /\ over \in BOOLEAN
  BY <1>2, Zenon DEF Read, stream_eof
<1> HIDE DEF n, fd, over
<1>5. /\ sink' \in [fd : Descriptors, holds : Nat, broken : BOOLEAN,
                    shutdown : BOOLEAN]
      /\ sink'.holds = sink.holds + n
      /\ sink'.shutdown = (sink.shutdown \/ over)
  BY <1>1, <1>2, <1>3, <1>4, Zenon DEF PumpInv, SinkOK
<1>6. IInv'
  BY <1>1, <1>2, ReadIInv, Zenon DEF PumpInv
<1>7. stream.is_end /\ stream.buf = << >> => stream'.is_end /\ stream'.buf = << >>
  <2> SUFFICES ASSUME stream.is_end, stream.buf = << >>
               PROVE  stream'.is_end /\ stream'.buf = << >>
    BY Zenon
  <2>1. stream'.is_end /\ stream'.buf = Suffix(<< >>, Lesser(n, Len(<< >>)))
    BY <1>2, Zenon DEF Read, pop_output, PumpInv, IInv, TypeOK, ByteStreams
  <2>2. Lesser(n, Len(<< >>)) = 0
    BY <1>1 DEF Lesser
  <2>3. Suffix(<< >>, 0) = << >>
    BY DEF Suffix
  <2> QED
    BY <2>1, <2>2, <2>3
<1>8. SinkOK'
  BY <1>1, <1>4, <1>5, <1>7, Zenon DEF PumpInv, SinkOK, stream_eof
<1>9. SourceOK'
  BY <1>2, Zenon DEF PumpInv, SourceOK
<1> QED
  BY <1>1, <1>2, <1>4, <1>5, <1>6, <1>8, <1>9, Zenon DEF PumpInv

\* The two ends of the stream see a byte pipe, as before; a step that leaves the
\* stream alone, or moves bytes through it, is one of the pipe between the
\* descriptors, whose end is the shutdown.
LEMMA NextPump == PumpInv /\ [PumpNext]_pumpVars => PumpInv'
<1> SUFFICES ASSUME PumpInv, [PumpNext]_pumpVars PROVE PumpInv'
  BY Zenon
<1>1. CASE Fill
  BY <1>1, FillPump, Zenon
<1>2. CASE CancelRule
  <2>1. EndInput /\ source' = source /\ sink' = sink
    BY <1>2, Zenon DEF CancelRule
  <2>2. IInv'
    BY <2>1, NextIInv, Zenon DEF Next, PumpInv
  <2>3. stream'.is_end /\ stream'.buf = stream.buf
    BY <2>1, Zenon DEF EndInput, end_input, PumpInv, IInv, TypeOK, ByteStreams
  <2> QED
    BY <2>1, <2>2, <2>3, Zenon DEF PumpInv, SourceOK, SinkOK
<1>3. ASSUME NEW closes \in BOOLEAN, Drain(closes) PROVE PumpInv'
  BY <1>3, DrainPump, Zenon
<1>4. ASSUME UNCHANGED <<stream, accepted, delivered>> PROVE IInv'
  BY <1>4, Zenon DEF PumpInv, IInv, TypeOK, Fifo, Accounting
<1>5. CASE Come
  <2>1. /\ source.came + 1 \in Nat /\ source.taken <= source.came + 1
        /\ source.came + 1 <= MaxTotal
    BY <1>5, BoundsAssumption DEF Come, PumpInv, SourceOK
  <2>2. SourceOK'
    BY <2>1, <1>5, Zenon DEF Come, PumpInv, SourceOK
  <2> QED
    BY <2>2, <1>4, <1>5, Zenon DEF Come, PumpInv, SinkOK
<1>6. CASE EndSource
  BY <1>4, <1>6, Zenon DEF EndSource, PumpInv, SourceOK, SinkOK
<1>7. CASE Take
  <2>1. SinkOK'
    BY <1>7, PumpAssumption DEF Take, PumpInv, SinkOK
  <2> QED
    BY <2>1, <1>4, <1>7, Zenon DEF Take, PumpInv, SourceOK
<1>8. CASE Break
  BY <1>4, <1>8, Zenon DEF Break, PumpInv, SourceOK, SinkOK
<1>9. CASE UNCHANGED pumpVars
  BY <1>4, <1>9, Zenon DEF pumpVars, PumpInv, SourceOK, SinkOK
<1> QED
  BY <1>1, <1>2, <1>3, <1>5, <1>6, <1>7, <1>8, <1>9, Zenon DEF PumpNext

\* A pipe step of the stream is one of the direction, if the end is passed on
\* only at the end of the stream.
LEMMA PipeIsEndToEnd ==
  ASSUME IInv', [Pipe!Next]_(Pipe!pipeVars),
         \/ sink'.shutdown = sink.shutdown
         \/ sink'.shutdown = TRUE /\ stream_eof(stream')
  PROVE  [EndToEnd!Next]_(EndToEnd!pipeVars)
<1>1. stream_eof(stream') = (input_ended(stream') /\ delivered' = accepted')
  <2>1. /\ accepted' = delivered' \o stream'.buf /\ stream'.is_end \in BOOLEAN
        /\ delivered' \in Seq(Byte) /\ stream'.buf \in Seq(Byte)
    BY Zenon DEF IInv, TypeOK, Fifo, ByteStreams
  <2>2. delivered' = accepted' <=> stream'.buf = << >>
    BY <2>1, DeliveredPrefix, Zenon
  <2> QED
    BY <2>1, <2>2, Zenon DEF stream_eof, input_ended
<1>2. EndToEnd!Announce
  BY <1>1, Zenon DEF EndToEnd!Announce
<1>3. CASE Pipe!Accept
  BY <1>2, <1>3, Zenon DEF Pipe!Accept, EndToEnd!Accept, EndToEnd!Next
<1>4. CASE Pipe!Deliver
  BY <1>2, <1>4, Zenon DEF Pipe!Deliver, EndToEnd!Deliver, EndToEnd!Next
<1>5. CASE Pipe!Close
  BY <1>2, <1>5, Zenon DEF Pipe!Close, EndToEnd!Close, EndToEnd!Next
<1>6. CASE UNCHANGED Pipe!pipeVars
  <2>1. /\ UNCHANGED <<accepted, delivered>>
        /\ input_ended(stream') = input_ended(stream)
    BY <1>6, Zenon DEF Pipe!pipeVars
  <2>2. CASE sink'.shutdown = sink.shutdown
    BY <2>1, <2>2, Zenon DEF EndToEnd!pipeVars
  <2>3. CASE sink'.shutdown # sink.shutdown /\ input_ended(stream')
    BY <2>1, <2>3, <1>2, Zenon DEF EndToEnd!Close, EndToEnd!Next
  <2>4. CASE sink'.shutdown # sink.shutdown /\ ~input_ended(stream')
    BY <2>4, <1>1, Zenon
  <2> QED
    BY <2>2, <2>3, <2>4, Zenon
<1> QED
  BY <1>3, <1>4, <1>5, <1>6, Zenon DEF Pipe!Next

\* Every step of a direction is a step of the pipe between its descriptors.
LEMMA NextEndToEnd ==
  PumpInv /\ [PumpNext]_pumpVars => [EndToEnd!Next]_(EndToEnd!pipeVars)
<1> SUFFICES ASSUME PumpInv, [PumpNext]_pumpVars
             PROVE  [EndToEnd!Next]_(EndToEnd!pipeVars)
  BY Zenon
<1>1. IInv /\ IInv'
  BY NextPump, Zenon DEF PumpInv
<1>2. CASE Fill
  <2>1. PICK n : /\ n = ReadCount(source.came - source.taken,
                                  remaining_capacity(stream))
                 /\ EndInput \/ Write(Numbered(source.taken, source.taken + n))
                 /\ sink' = sink
    BY <1>2, Zenon DEF Fill
  <2>2. Numbered(source.taken, source.taken + n) \in Seq(Byte)
    BY <2>1, FillCount, Zenon
  <2>3. [Pipe!Next]_(Pipe!pipeVars)
    BY <2>1, <2>2, <1>1, EndPipe, WritePipe, Zenon
  <2> QED
    BY <2>1, <2>3, <1>1, PipeIsEndToEnd, Zenon
<1>3. CASE CancelRule
  <2>1. EndInput /\ sink' = sink
    BY <1>3, Zenon DEF CancelRule
  <2> QED
    BY <2>1, <1>1, EndPipe, PipeIsEndToEnd, Zenon
<1>4. ASSUME NEW closes \in BOOLEAN, Drain(closes)
      PROVE  [EndToEnd!Next]_(EndToEnd!pipeVars)
  <2>1. /\ \E n \in Nat : Read(n)
        /\ sink'.shutdown = (sink.shutdown \/ stream_eof(stream'))
    BY <1>4, DrainPump, Zenon
  <2>2. [Pipe!Next]_(Pipe!pipeVars)
    BY <2>1, <1>1, ReadPipe, Zenon
  <2>3. sink.shutdown \in BOOLEAN /\ stream_eof(stream') \in BOOLEAN
    BY Zenon DEF PumpInv, SinkOK, stream_eof
  <2>4. \/ sink'.shutdown = sink.shutdown
        \/ sink'.shutdown = TRUE /\ stream_eof(stream')
    BY <2>1, <2>3, Zenon
  <2> QED
    BY <2>2, <2>4, <1>1, PipeIsEndToEnd, Zenon
<1>5. ASSUME UNCHANGED <<stream, accepted, delivered>>,
             sink'.shutdown = sink.shutdown
      PROVE  [EndToEnd!Next]_(EndToEnd!pipeVars)
  BY <1>5, Zenon DEF EndToEnd!pipeVars, input_ended
<1>6. CASE Come \/ EndSource
  BY <1>5, <1>6, Zenon DEF Come, EndSource
<1>7. CASE Take \/ Break
  <2>1. UNCHANGED <<stream, accepted, delivered>>
    BY <1>7, Zenon DEF Take, Break
  <2>2. sink'.shutdown = sink.shutdown
    BY <1>7, Zenon DEF Take, Break, PumpInv, SinkOK
  <2> QED
    BY <2>1, <2>2, <1>5, Zenon
<1>8. CASE UNCHANGED pumpVars
  BY <1>5, <1>8, Zenon DEF pumpVars
<1> QED
  BY <1>2, <1>3, <1>4, <1>6, <1>7, <1>8, Zenon DEF PumpNext

\* From a new direction, the pipe is empty and open.
LEMMA InitEndToEnd == PumpInit => EndToEnd!Init
  BY DEF PumpInit, Init, EndToEnd!Init, NewByteStream, input_ended

\* Whatever the capacity of the stream, the bound of one write and the room in
\* the kernel, and in whatever order the callbacks run and the descriptors
\* become ready, one direction of the copy is a byte pipe from descriptor to
\* descriptor: the end is passed on only after the last byte.
THEOREM PumpIsPipe == PumpSpec => EndToEnd!Spec
  BY InitPump, NextPump, InitEndToEnd, NextEndToEnd, PTL
     DEF PumpSpec, EndToEnd!Spec

-----------------------------------------------------------------------------
(* What the steps of a direction do to the fields that the event loop and  *)
(* its rules depend on.                                                    *)

\* A Fill notices the end when nothing is left to read, and ends the stream then
\* and only then; as long as the stream takes bytes, it takes all that are read.
LEMMA FillKeeps ==
  ASSUME PumpInv, Fill
  PROVE  /\ sink' = sink
         /\ source'.ended = source.ended /\ source'.came = source.came
         /\ source'.hangs = source.hangs /\ stream'.error = stream.error
         /\ stream.is_end => stream'.is_end
         /\ ~source.fd.eof =>
              /\ source'.fd.eof => /\ stream'.is_end /\ source'.taken = source.taken
                                   /\ source.came = source.taken
              /\ stream'.is_end => stream.is_end \/ source'.fd.eof
              /\ ~stream.is_end /\ source.taken = Len(accepted)
                   => source'.taken = Len(accepted')
<1> DEFINE limit == remaining_capacity(stream)
           n == ReadCount(source.came - source.taken, limit)
           fd == fd_read(source.fd, limit, n)
           data == Numbered(source.taken, source.taken + n)
<1>1. n \in Nat /\ source.taken + n <= source.came /\ data \in Seq(Byte)
  BY FillCount, Zenon
<1>2. /\ IF fd.eof THEN EndInput ELSE Write(data)
      /\ source' = [source EXCEPT !.fd = fd, !.taken = @ + n]
      /\ sink' = sink
  BY Zenon DEF Fill
<1>3. /\ source.came \in Nat /\ source.taken \in Nat /\ limit \in Nat
      /\ source.taken <= source.came
  BY StreamCounts, Zenon DEF PumpInv, SourceOK
<1>4. /\ source'.ended = source.ended /\ source'.came = source.came
      /\ source'.hangs = source.hangs /\ source'.fd = fd
      /\ source'.taken = source.taken + n
  BY <1>2, Zenon DEF PumpInv, SourceOK
<1>5. n <= limit /\ (n = 0 /\ limit > 0 => source.came = source.taken)
  BY <1>3 DEF ReadCount, Fewer
<1>6. fd.eof = (source.fd.eof \/ (limit > 0 /\ n = 0))
  BY Zenon DEF fd_read, PumpInv, SourceOK, Descriptors
<1>7. Len(data) = n
  <2>1. (source.taken + n) - source.taken = n
    BY <1>1, <1>3
  <2>2. data = [i \in 1 .. n |-> source.taken + i]
    BY <2>1, Zenon DEF Numbered
  <2> HIDE DEF n
  <2> QED
    BY <2>2, <1>1
<1> HIDE DEF n, fd, data
<1>8. CASE fd.eof
  <2>1. /\ stream'.is_end /\ stream'.error = stream.error /\ accepted' = accepted
    BY <1>2, <1>8, Zenon DEF EndInput, end_input, PumpInv, IInv, TypeOK, ByteStreams
  <2>2. ~source.fd.eof => n = 0 /\ source.came = source.taken
    BY <1>5, <1>6, <1>8, Zenon
  <2>3. ~source.fd.eof => source'.taken = source.taken
    BY <2>2, <1>3, <1>4
  <2> QED
    BY <1>2, <1>4, <1>8, <2>1, <2>2, <2>3, Zenon
<1>9. CASE ~fd.eof
  <2> DEFINE p == write_count(stream, data)
  <2>1. /\ stream'.is_end = stream.is_end /\ stream'.error = stream.error
        /\ accepted' = accepted \o Prefix(data, p)
    BY <1>2, <1>9, Zenon DEF Write, write, PumpInv, IInv, TypeOK, ByteStreams
  <2>2. ASSUME ~stream.is_end, source.taken = Len(accepted)
        PROVE  source'.taken = Len(accepted')
    <3>1. p = n
      BY <2>2, <1>1, <1>3, <1>5, <1>7, Zenon DEF write_count, Lesser
    <3>2. Prefix(data, n) \in Seq(Byte) /\ Len(Prefix(data, n)) = n
      <4>1. n \in 0 .. Len(data)
        BY <1>1, <1>7
      <4> QED
        BY <1>1, <4>1, PrefixProperties, Zenon
    <3>3. accepted \in Seq(Byte)
      BY Zenon DEF PumpInv, IInv, TypeOK
    <3>4. Len(accepted') = Len(accepted) + n
      <4>1. Len(accepted \o Prefix(data, n)) = Len(accepted) + Len(Prefix(data, n))
        BY <3>2, <3>3, JoinProperties, Zenon
      <4>2. accepted' = accepted \o Prefix(data, n)
        BY <2>1, <3>1, Zenon
      <4> QED
        BY <3>2, <4>1, <4>2, Zenon
    <3> QED
      BY <2>2, <3>4, <1>4, Zenon
  <2> QED
    BY <1>2, <1>4, <1>9, <2>1, <2>2, Zenon
<1> QED
  BY <1>8, <1>9, Zenon

\* A Drain leaves the writer's side alone, and closes the descriptor only when it
\* passes the end on.
LEMMA DrainKeeps ==
  ASSUME PumpInv, NEW closes \in BOOLEAN, Drain(closes)
  PROVE  /\ source' = source /\ accepted' = accepted
         /\ stream'.is_end = stream.is_end /\ stream'.error = stream.error
         /\ sink'.broken = sink.broken
         /\ sink'.fd.closed => sink.fd.closed \/ sink'.shutdown
         /\ sink.fd.closed => sink'.fd.closed
         /\ sink.shutdown => sink'.shutdown
<1> DEFINE n == WriteCount(Lesser(max_copy_length, buffer_size(stream)),
                           Room - sink.holds)
           over == stream_eof(pop_output(stream, n))
           fd == IF over /\ closes THEN fd_close(sink.fd) ELSE sink.fd
<1>1. /\ Read(n) /\ source' = source
      /\ sink' = [sink EXCEPT !.holds = @ + n, !.shutdown = @ \/ over, !.fd = fd]
  BY Zenon DEF Drain
<1>2. (fd.closed => sink.fd.closed \/ over) /\ (sink.fd.closed => fd.closed)
  BY Zenon DEF fd_close, PumpInv, SinkOK, Descriptors
<1> HIDE DEF n, over, fd
<1>3. /\ accepted' = accepted /\ stream'.is_end = stream.is_end
      /\ stream'.error = stream.error
  BY <1>1, Zenon DEF Read, pop_output, PumpInv, IInv, TypeOK, ByteStreams
<1>4. /\ sink'.broken = sink.broken /\ sink'.fd = fd
      /\ sink'.shutdown = (sink.shutdown \/ over)
  BY <1>1, Zenon DEF PumpInv, SinkOK
<1> QED
  BY <1>1, <1>2, <1>3, <1>4, Zenon

\* Cancelling a rule ends the stream and does nothing else.
LEMMA CancelKeeps ==
  ASSUME PumpInv, CancelRule
  PROVE  /\ source' = source /\ sink' = sink /\ accepted' = accepted
         /\ stream'.is_end = TRUE /\ stream'.error = stream.error
         /\ stream'.buf = stream.buf
  BY Zenon DEF CancelRule, EndInput, end_input, PumpInv, IInv, TypeOK, ByteStreams

\* What happens outside the program.
LEMMA OutsideKeeps ==
  ASSUME PumpInv, Come \/ EndSource \/ Take \/ Break
  PROVE  /\ stream' = stream /\ accepted' = accepted /\ delivered' = delivered
         /\ source'.fd = source.fd /\ source'.taken = source.taken
         /\ source'.hangs = source.hangs /\ source'.came >= source.came
         /\ source.ended => source'.ended /\ source'.came = source.came
         /\ sink'.fd = sink.fd /\ sink'.shutdown = sink.shutdown
         /\ sink.broken => sink'.broken
<1>1. CASE Come
  BY <1>1 DEF Come, PumpInv, SourceOK
<1>2. CASE EndSource
  BY <1>2 DEF EndSource, PumpInv, SourceOK
<1>3. CASE Take
  BY <1>3 DEF Take, PumpInv, SourceOK, SinkOK
<1>4. CASE Break
  BY <1>4 DEF Break, PumpInv, SourceOK, SinkOK
<1> QED
  BY <1>1, <1>2, <1>3, <1>4, Zenon

\* When the stream is empty, all that it accepted has left it.
LEMMA AllDelivered ==
  ASSUME PumpInv, stream.buf = << >>
  PROVE  Len(delivered) = Len(accepted)
<1>1. accepted = delivered \o << >> /\ delivered \in Seq(Byte)
  BY Zenon DEF PumpInv, IInv, Fifo, TypeOK
<1> QED
  BY <1>1
=============================================================================
