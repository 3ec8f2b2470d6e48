--------------------------- MODULE TCPSenderProofs ---------------------------
(***************************************************************************)
(* What a TCPSender keeps, sends and resends, for every stream, capacity,  *)
(* modulus, payload size, timeout and sequence of writes, acknowledgments  *)
(* and ticks: the outstanding segments are exactly the unacknowledged part *)
(* of the stream, nothing is sent beyond the window, only a timeout sends  *)
(* again, and the timer runs exactly while something is outstanding.       *)
(***************************************************************************)
EXTENDS TCPSenderSpec, WellFoundedInduction, TLAPS

Segments ==
  [seqno : Raw, ackno : {0}, ack : {FALSE}, rst : {FALSE}, syn : BOOLEAN,
   fin : BOOLEAN, win : {0}, payload : Seq(Byte)]

TimerFields ==
  {"rto", "initial_rto", "time_pass", "fail_count", "running", "shift"}

SenderFields ==
  {"isn", "segments_out", "stream", "next_seqno", "acked_next", "timer",
   "outstanding_buffer", "peer_window_size", "received_window_size",
   "syn_sent", "fin_sent", "bytes_in_flight"}

\* The types on which the argument rests.
IsTimer(t) == DOMAIN t = TimerFields /\ t.running \in BOOLEAN

IsStream(b) == b \in ByteStreams(Byte, Cap) /\ Len(b.buf) <= Cap

IsSender(s) ==
  /\ DOMAIN s = SenderFields
  /\ s.isn \in Raw
  /\ IsStream(s.stream)
  /\ s.next_seqno \in Int /\ s.acked_next \in Int /\ s.bytes_in_flight \in Int
  /\ s.peer_window_size \in Nat
  /\ IsTimer(s.timer)
  /\ s.outstanding_buffer \in Seq(Segments)

\* TimerRuns, of any sender.
Timed(s) == s.timer.running = (s.outstanding_buffer # << >>)

Inv ==
  /\ IsSender(snd) /\ Timed(snd) /\ snd.isn = Isn
  /\ written \in Nat /\ written <= Len(Stream)

-----------------------------------------------------------------------------
(* Sequence numbers: the facts of OperatorProofs that the sender needs.    *)

\* Division with remainder by N.
LEMMA DivMod ==
  ASSUME NEW x \in Nat
  PROVE  /\ x % N \in 0 .. N - 1
         /\ x \div N \in Nat
         /\ x = (x \div N) * N + (x % N)
<1>1. x % N \in 0 .. N - 1 /\ x \div N \in Nat
  BY NAssumption
<1>2. x = (x \div N) * N + (x % N)
  BY NAssumption
<1> QED
  BY <1>1, <1>2, Zenon

\* N is twice its half, and the half is positive.
LEMMA Half == N \div 2 \in Nat /\ N = 2 * (N \div 2) /\ N \div 2 >= 1
  BY NAssumption

\* A higher turn starts at a higher number.
LEMMA Turns ==
  ASSUME NEW a \in Int, NEW b \in Int, a <= b
  PROVE  a * N <= b * N
  BY NAssumption

\* The quotient and the remainder are determined by the number.
LEMMA ModUnique ==
  ASSUME NEW q \in Nat, NEW r \in 0 .. N - 1
  PROVE  (q * N + r) % N = r /\ (q * N + r) \div N = q
  BY NAssumption

\* Subtracting the initial sequence number in 32 bits recovers the position
\* within the turn.
LEMMA DifferenceOfWrap ==
  ASSUME NEW s \in Nat, NEW i \in Raw
  PROVE  RawDifference(wrap(s, i), i) = s % N
<1> DEFINE q == s \div N
           r == s % N
<1>1. q \in Nat /\ r \in 0 .. N - 1 /\ s = q * N + r
  BY DivMod, Zenon
<1>2. i \in 0 .. N - 1
  BY Zenon DEF Raw
<1> HIDE DEF q, r
<1>3. CASE r + i < N
  <2>1. s + i = q * N + (r + i) /\ r + i \in 0 .. N - 1
    BY <1>1, <1>2, <1>3, NAssumption
  <2>2. wrap(s, i) = r + i
    BY <2>1, <1>1, ModUnique, Zenon DEF wrap
  <2> QED
    BY <2>2, <1>1, <1>2, NAssumption DEF RawDifference, r
<1>4. CASE r + i >= N
  <2>1. s + i = (q + 1) * N + (r + i - N) /\ r + i - N \in 0 .. N - 1
    BY <1>1, <1>2, <1>4, NAssumption
  <2>2. wrap(s, i) = r + i - N
    BY <2>1, <1>1, ModUnique DEF wrap
  <2> QED
    BY <2>2, <1>1, <1>2, NAssumption DEF RawDifference, r
<1> QED
  BY <1>1, <1>2, <1>3, <1>4, NAssumption

\* unwrap() inverts wrap() within half a turn of the checkpoint.
LEMMA UnwrapInverts ==
  ASSUME NEW s \in Nat, NEW i \in Raw, NEW c \in Nat,
         s - c < N \div 2, c - s < N \div 2
  PROVE  unwrap(wrap(s, i), i, c) = s
<1> DEFINE q == s \div N
           r == s % N
           b == c \div N
           o == c % N
           h == N \div 2
<1>1. q \in Nat /\ r \in 0 .. N - 1 /\ s = q * N + r
  BY DivMod, Zenon
<1>2. b \in Nat /\ o \in 0 .. N - 1 /\ c = b * N + o
  BY DivMod, Zenon
<1>3. h \in Nat /\ N = 2 * h /\ h >= 1
  BY Half, Zenon
<1>4. /\ s - c < h /\ c - s < h
      /\ unwrap(wrap(s, i), i, c)
           = (IF r >= o /\ r - o >= h /\ c >= N THEN b - 1
              ELSE IF r < o /\ o - r >= h THEN b + 1 ELSE b) * N + r
  BY DifferenceOfWrap, Zenon DEF unwrap
<1> HIDE DEF q, r, b, o, h
<1>n. N \in Nat
  BY NAssumption, Zenon
<1>5. q \in {b - 1, b, b + 1}
  <2>1. ASSUME q >= b + 2 PROVE FALSE
    <3>1. (b + 2) * N <= q * N
      BY <2>1, <1>1, <1>2, Turns
    <3>2. (b + 2) * N = b * N + N + N
      BY <1>2, <1>n
    <3> QED
      BY <3>1, <3>2, <1>1, <1>2, <1>3, <1>4, <1>n
  <2>2. ASSUME q + 2 <= b PROVE FALSE
    <3>1. (q + 2) * N <= b * N
      BY <2>2, <1>1, <1>2, Turns
    <3>2. (q + 2) * N = q * N + N + N
      BY <1>1, <1>n
    <3> QED
      BY <3>1, <3>2, <1>1, <1>2, <1>3, <1>4, <1>n
  <2> QED
    BY <2>1, <2>2, <1>1, <1>2
<1>6. CASE q = b - 1
  <2>1. b * N = q * N + N
    BY <1>6, <1>1, <1>2, <1>n
  <2>2. 0 * N <= q * N
    BY <1>1, Turns
  <2>3. r >= o /\ r - o >= h /\ c >= N
    BY <2>1, <2>2, <1>1, <1>2, <1>3, <1>4, <1>n
  <2> QED
    BY <2>3, <1>6, <1>4, <1>1, Zenon
<1>7. CASE q = b
  <2>1. q * N = b * N
    BY <1>7, Zenon
  <2>2. ~(r >= o /\ r - o >= h) /\ ~(r < o /\ o - r >= h)
    BY <2>1, <1>1, <1>2, <1>3, <1>4, <1>n
  <2> QED
    BY <2>2, <1>7, <1>4, <1>1, Zenon
<1>8. CASE q = b + 1
  <2>1. q * N = b * N + N
    BY <1>8, <1>1, <1>2, <1>n
  <2>2. r < o /\ o - r >= h
    BY <2>1, <1>1, <1>2, <1>3, <1>4, <1>n
  <2>3. ~(r >= o)
    BY <2>2, <1>1, <1>2
  <2> QED
    BY <2>2, <2>3, <1>8, <1>4, <1>1, Zenon
<1> QED
  BY <1>5, <1>6, <1>7, <1>8, Zenon

\* A set of counts that is not empty has a least member.
LEMMA LeastOfSet ==
  ASSUME NEW S \in SUBSET Nat, S # {}
  PROVE  \E i \in S : \A j \in S : i <= j
<1> DEFINE R == {p \in Nat \X Nat : p[1] < p[2]}
<1>1. IsWellFoundedOn(R, Nat)
  BY NatLessThanWellFounded, Zenon DEF OpToRel
<1>2. PICK i \in S : \A j \in S : ~(<<j, i>> \in R)
  BY <1>1, WFMin, Zenon
<1>3. \A j \in Nat, k \in Nat : j < k => <<j, k>> \in R
  BY Zenon
<1> HIDE DEF R
<1>4. \A j \in S : ~(j < i)
  BY <1>2, <1>3, Zenon
<1>5. \A j \in S : i <= j
  BY <1>4
<1> QED
  BY <1>5, Zenon

-----------------------------------------------------------------------------
(* The timer.                                                              *)

\* Only start() and stop() change whether the timer runs.
LEMMA TimerOps ==
  ASSUME NEW t, IsTimer(t), NEW ms
  PROVE  /\ IsTimer(start(t)) /\ start(t).running = TRUE
         /\ IsTimer(reset(t)) /\ reset(t).running = t.running
         /\ IsTimer(stop(t)) /\ stop(t).running = FALSE
         /\ IsTimer(pass(t, ms)) /\ pass(t, ms).running = t.running
         /\ IsTimer(double_rto(t)) /\ double_rto(t).running = t.running
         /\ IsTimer(reset_rto(t)) /\ reset_rto(t).running = t.running
<1>1. IsTimer(start(t)) /\ start(t).running = TRUE
  BY Zenon DEF IsTimer, TimerFields, start
<1>2. IsTimer(reset(t)) /\ reset(t).running = t.running
  BY Zenon DEF IsTimer, TimerFields, reset
<1>3. IsTimer(stop(t)) /\ stop(t).running = FALSE
  BY <1>2, Zenon DEF IsTimer, TimerFields, stop
<1>4. IsTimer(pass(t, ms)) /\ pass(t, ms).running = t.running
  BY Zenon DEF IsTimer, TimerFields, pass
<1>5. IsTimer(double_rto(t)) /\ double_rto(t).running = t.running
  BY Zenon DEF IsTimer, TimerFields, double_rto
<1>6. IsTimer(reset_rto(t)) /\ reset_rto(t).running = t.running
  BY Zenon DEF IsTimer, TimerFields, reset_rto
<1> QED
  BY <1>1, <1>2, <1>3, <1>4, <1>5, <1>6, Zenon

-----------------------------------------------------------------------------
(* The numbers and the outgoing stream.                                    *)

\* A wrapped number is a raw one, and unwrapping gives an integer.
LEMMA WrapTypes ==
  ASSUME NEW n \in Int, NEW i \in Raw, NEW r \in Raw
  PROVE  wrap(n, i) \in Raw /\ unwrap(r, i, n) \in Int
<1>1. wrap(n, i) \in Raw
  BY NAssumption DEF wrap, Raw
<1>2. RawDifference(r, i) \in Int
  BY NAssumption DEF RawDifference, Raw
<1>3. n % N \in Int /\ n \div N \in Int
  BY NAssumption
<1>4. \A q \in Int : q * N + RawDifference(r, i) \in Int
  BY <1>2, NAssumption
<1>5. n \div N - 1 \in Int /\ n \div N + 1 \in Int
  BY <1>3
<1>6. unwrap(r, i, n) \in Int
  BY <1>3, <1>4, <1>5, Zenon DEF unwrap
<1> QED
  BY <1>1, <1>6, Zenon

\* A piece of a byte string is a byte string.
LEMMA PieceType ==
  ASSUME NEW s \in Seq(Byte), NEW a \in Nat \ {0}, NEW b \in Int, b <= Len(s)
  PROVE  SubSeq(s, a, b) \in Seq(Byte)
<1>1. Len(s) \in Nat /\ \A j \in a .. b : s[j] \in Byte
  OBVIOUS
<1> QED
  BY <1>1

\* The calls that a sender makes on its stream, and those of the application.
LEMMA StreamOps ==
  ASSUME NEW b, IsStream(b)
  PROVE  /\ b.buf \in Seq(Byte) /\ Len(b.buf) \in Nat /\ b.is_end \in BOOLEAN
         /\ IsStream(end_input(b))
         /\ \A n \in Nat : n <= Len(b.buf) => IsStream(pop_output(b, n))
         /\ \A data \in Seq(Byte) :
              /\ IsStream(write(b, data))
              /\ write_count(b, data) \in Nat
              /\ write_count(b, data) <= Len(data)
<1>1. /\ b \in ByteStreams(Byte, Cap) /\ Len(b.buf) <= Cap
      /\ b.buf \in Seq(Byte) /\ b.is_end \in BOOLEAN /\ b.cap = Cap
      /\ b.total_bytes_written \in Nat /\ b.total_bytes_read \in Nat
  BY Zenon DEF IsStream, ByteStreams
<1>2. Len(b.buf) \in Nat
  BY <1>1
<1>3. IsStream(end_input(b))
  BY <1>1, Zenon DEF IsStream, ByteStreams, end_input
<1>4. ASSUME NEW n \in Nat, n <= Len(b.buf) PROVE IsStream(pop_output(b, n))
  <2>1. Lesser(n, Len(b.buf)) = n
    BY <1>4, Zenon DEF Lesser
  <2>2. SubSeq(b.buf, n + 1, Len(b.buf)) \in Seq(Byte)
    BY <1>1, <1>2, PieceType
  <2>3. Len(SubSeq(b.buf, n + 1, Len(b.buf))) <= Cap
    BY <1>1, <1>2, <1>4, CapAssumption
  <2>4. b.total_bytes_read + n \in Nat
    BY <1>1
  <2> QED
    BY <2>1, <2>2, <2>3, <2>4, <1>1, Zenon DEF IsStream, ByteStreams, pop_output, Suffix
<1>5. ASSUME NEW data \in Seq(Byte)
      PROVE  /\ IsStream(write(b, data))
             /\ write_count(b, data) \in Nat
             /\ write_count(b, data) <= Len(data)
  <2> DEFINE p == write_count(b, data)
  <2>1. Len(data) \in Nat /\ Cap - Len(b.buf) \in Nat
    BY <1>1, <1>2, CapAssumption
  <2>2. p \in Nat /\ p <= Len(data) /\ p <= Cap - Len(b.buf)
    BY <2>1, <1>1 DEF write_count, remaining_capacity, Lesser
  <2> HIDE DEF p
  <2>3. SubSeq(data, 1, p) \in Seq(Byte)
    BY <2>2, PieceType
  <2>4. Len(SubSeq(data, 1, p)) = p
    BY <2>1, <2>2
  <2>5. /\ b.buf \o SubSeq(data, 1, p) \in Seq(Byte)
        /\ Len(b.buf \o SubSeq(data, 1, p)) = Len(b.buf) + p
    BY <2>3, <2>4, <1>1
  <2>6. Len(b.buf) + p <= Cap /\ b.total_bytes_written + p \in Nat
    BY <2>2, <1>1, <1>2, CapAssumption
  <2>7. write(b, data) = [b EXCEPT !.buf = @ \o SubSeq(data, 1, p),
                                   !.total_bytes_written = @ + p]
    BY Zenon DEF write, p, Prefix
  <2> QED
    BY <2>2, <2>5, <2>6, <2>7, <1>1, Zenon DEF IsStream, ByteStreams, p
<1> QED
  BY <1>1, <1>2, <1>3, <1>4, <1>5, Zenon

-----------------------------------------------------------------------------
(* fill_window.                                                            *)

\* What is sent is kept, and the timer started.
LEMMA SendTimed ==
  ASSUME NEW s, IsSender(s), Timed(s), NEW segs \in Seq(Segments), NEW len \in Int
  PROVE  /\ IsSender(Send(s, segs, len)) /\ Timed(Send(s, segs, len))
         /\ Send(s, segs, len).stream = s.stream
         /\ Send(s, segs, len).isn = s.isn
<1>1. CASE segs = << >>
  BY <1>1, Zenon DEF Send
<1>2. CASE segs # << >>
  <2> DEFINE u == Send(s, segs, len)
  <2>1. u = [s EXCEPT !.segments_out = @ \o segs,
                      !.outstanding_buffer = @ \o segs,
                      !.next_seqno = @ + len,
                      !.bytes_in_flight = @ + len,
                      !.peer_window_size = @ - Lesser(@, len),
                      !.timer = start(@)]
    BY <1>2, Zenon DEF Send
  <2> HIDE DEF u
  <2>2. /\ s.outstanding_buffer \o segs \in Seq(Segments)
        /\ s.outstanding_buffer \o segs # << >>
    BY <1>2 DEF IsSender
  <2>3. s.peer_window_size - Lesser(s.peer_window_size, len) \in Nat
    BY DEF IsSender, Lesser
  <2>4. s.next_seqno + len \in Int /\ s.bytes_in_flight + len \in Int
    BY DEF IsSender
  <2>5. IsTimer(start(s.timer)) /\ start(s.timer).running = TRUE
    BY TimerOps, Zenon DEF IsSender
  <2>6. /\ DOMAIN u = SenderFields /\ u.isn = s.isn /\ u.stream = s.stream
        /\ u.next_seqno = s.next_seqno + len /\ u.acked_next = s.acked_next
        /\ u.bytes_in_flight = s.bytes_in_flight + len
        /\ u.peer_window_size
             = s.peer_window_size - Lesser(s.peer_window_size, len)
        /\ u.timer = start(s.timer)
        /\ u.outstanding_buffer = s.outstanding_buffer \o segs
    BY <2>1, Zenon DEF IsSender, SenderFields
  <2> QED
    BY <2>2, <2>3, <2>4, <2>5, <2>6, Zenon DEF IsSender, Timed, u
<1> QED
  BY <1>1, <1>2, Zenon

\* The SYN, if it was not sent yet.
LEMMA SynTimed ==
  ASSUME NEW s, IsSender(s), Timed(s)
  PROVE  IsSender(SendSyn(s)) /\ Timed(SendSyn(s)) /\ SendSyn(s).isn = s.isn
<1>1. CASE s.syn_sent
  BY <1>1, Zenon DEF SendSyn
<1>2. CASE ~s.syn_sent
  <2> DEFINE seg == SynSegment(s)
             u == Send(s, <<seg>>, length_in_sequence_space(seg))
  <2>1. seg \in Segments
    <3>1. wrap(s.next_seqno, s.isn) \in Raw
      BY WrapTypes, Zenon DEF IsSender
    <3>2. << >> \in Seq(Byte)
      OBVIOUS
    <3> QED
      BY <3>1, <3>2, Zenon DEF SynSegment, EmptySegment, Segments, stream_eof
  <2>2. length_in_sequence_space(seg) \in Int
    BY <2>1 DEF length_in_sequence_space, Segments
  <2>3. <<seg>> \in Seq(Segments)
    BY <2>1
  <2> HIDE DEF seg
  <2>4. IsSender(u) /\ Timed(u) /\ u.isn = s.isn
    BY <2>2, <2>3, SendTimed, Zenon
  <2>5. SendSyn(s) = [u EXCEPT !.syn_sent = TRUE, !.fin_sent = seg.fin]
    BY <1>2, Zenon DEF SendSyn, seg
  <2> HIDE DEF u
  <2> QED
    BY <2>4, <2>5, Zenon DEF IsSender, Timed, SenderFields
<1> QED
  BY <1>1, <1>2, Zenon

\* The pieces are segments; there are none only if nothing is sent.
LEMMA DataSegmentsType ==
  ASSUME NEW s, IsSender(s), NEW n \in Nat, n <= Len(s.stream.buf),
         NEW fin \in BOOLEAN
  PROVE  DataSegments(s, n, fin) \in Seq(Segments)
<1> DEFINE pieces == (n + MAX_PAYLOAD_SIZE - 1) \div MAX_PAYLOAD_SIZE
           count  == IF pieces = 0 /\ fin THEN 1 ELSE pieces
           from(i) == (i - 1) * MAX_PAYLOAD_SIZE
           seg(i) == [EmptySegment EXCEPT
                        !.seqno = wrap(s.next_seqno + from(i), s.isn),
                        !.fin = fin /\ i = count,
                        !.payload = SubSeq(s.stream.buf, from(i) + 1,
                                     Lesser(from(i) + MAX_PAYLOAD_SIZE, n))]
<1>1. pieces \in Nat
  BY PayloadAssumption
<1> HIDE DEF pieces
<1>2. count \in Nat
  BY <1>1, Zenon
<1> HIDE DEF count
<1>3. ASSUME NEW i \in 1 .. count PROVE seg(i) \in Segments
  <2>1. from(i) \in Nat
    BY <1>2, PayloadAssumption
  <2> HIDE DEF from
  <2>2. wrap(s.next_seqno + from(i), s.isn) \in Raw
    BY <2>1, WrapTypes DEF IsSender
  <2>3. SubSeq(s.stream.buf, from(i) + 1, Lesser(from(i) + MAX_PAYLOAD_SIZE, n))
          \in Seq(Byte)
    <3>1. s.stream.buf \in Seq(Byte) /\ Len(s.stream.buf) \in Nat
      BY StreamOps, Zenon DEF IsSender
    <3>2. /\ Lesser(from(i) + MAX_PAYLOAD_SIZE, n) \in Int
          /\ Lesser(from(i) + MAX_PAYLOAD_SIZE, n) <= Len(s.stream.buf)
      BY <2>1, <3>1, PayloadAssumption DEF Lesser
    <3> QED
      BY <2>1, <3>1, <3>2, PieceType
  <2> QED
    BY <2>2, <2>3, Zenon DEF Segments, EmptySegment
<1>4. DataSegments(s, n, fin) = [i \in 1 .. count |-> seg(i)]
  BY Zenon DEF DataSegments, count, pieces
<1> HIDE DEF seg
<1>5. [i \in 1 .. count |-> seg(i)] \in [1 .. count -> Segments]
  BY <1>3, Zenon
<1> QED
  BY <1>2, <1>4, <1>5

\* fill_window() keeps the timer in step with the buffer.
LEMMA FillTimed ==
  ASSUME NEW s, IsSender(s), Timed(s)
  PROVE  /\ IsSender(fill_window(s)) /\ Timed(fill_window(s))
         /\ fill_window(s).isn = s.isn
<1> DEFINE a == SendSyn(s)
           n == Lesser(Len(a.stream.buf), a.peer_window_size)
           fin == FinFits(a, n)
           u == Send(a, DataSegments(a, n, fin), n + (IF fin THEN 1 ELSE 0))
<1>1. IsSender(a) /\ Timed(a) /\ a.isn = s.isn
  BY SynTimed, Zenon
<1> HIDE DEF a
<1>2. n \in Nat /\ n <= Len(a.stream.buf)
  BY <1>1, StreamOps, SMTT(30) DEF IsSender, Lesser
<1>3. fin \in BOOLEAN
  BY <1>1, StreamOps, Zenon DEF FinFits, IsSender
<1> HIDE DEF n, fin
<1>4. DataSegments(a, n, fin) \in Seq(Segments)
  BY <1>1, <1>2, <1>3, DataSegmentsType, Zenon
<1>5. n + (IF fin THEN 1 ELSE 0) \in Int
  BY <1>2
<1>6. IsSender(u) /\ Timed(u) /\ u.stream = a.stream /\ u.isn = a.isn
  BY <1>1, <1>4, <1>5, SendTimed, SMTT(30)
<1>7. fill_window(s) = [u EXCEPT !.stream = pop_output(@, n), !.fin_sent = @ \/ fin]
  BY Zenon DEF fill_window, SendData, a, n, fin
<1>8. IsStream(pop_output(u.stream, n))
  BY <1>2, <1>6, StreamOps, Zenon DEF IsSender
<1> HIDE DEF u
<1> QED
  BY <1>1, <1>6, <1>7, <1>8, Zenon DEF IsSender, Timed, SenderFields

-----------------------------------------------------------------------------
(* ack_received and tick.                                                  *)

\* The loop of ack_received pops no more segments than there are.
LEMMA AckedCountType ==
  ASSUME NEW s, IsSender(s), NEW ackno
  PROVE  AckedCount(s, ackno) \in 0 .. Len(s.outstanding_buffer)
<1> DEFINE buf == s.outstanding_buffer
           open == {i \in 1 .. Len(buf) : ~FullyAcked(s, buf[i], ackno)}
           least == CHOOSE i \in open : \A j \in open : i <= j
<1>1. Len(buf) \in Nat
  BY DEF IsSender
<1>2. AckedCount(s, ackno) = IF open = {} THEN Len(buf) ELSE least - 1
  BY Zenon DEF AckedCount
<1>3. open # {} => \E i \in open : \A j \in open : i <= j
  <2>1. open \subseteq Nat
    BY <1>1
  <2> HIDE DEF open
  <2> QED
    BY <2>1, LeastOfSet, Zenon
<1>4. open # {} => least \in 1 .. Len(buf)
  BY <1>3, Zenon
<1> QED
  BY <1>1, <1>2, <1>4

\* Removing what is acknowledged leaves a sender with the same timer.
LEMMA RemoveType ==
  ASSUME NEW s, IsSender(s), NEW ackno
  PROVE  /\ IsSender(RemoveAcked(s, ackno))
         /\ RemoveAcked(s, ackno).isn = s.isn
<1> DEFINE buf   == s.outstanding_buffer
           k     == AckedCount(s, ackno)
           freed == IF k = 0 THEN 0
                    ELSE Position(s, buf[k]) + length_in_sequence_space(buf[k])
                           - s.acked_next
<1>1. k \in 0 .. Len(buf) /\ Len(buf) \in Nat
  BY AckedCountType DEF IsSender
<1> HIDE DEF k
<1>2. freed \in Int
  <2>1. CASE k # 0
    <3>1. buf[k] \in Segments
      BY <1>1, <2>1 DEF IsSender
    <3>2. length_in_sequence_space(buf[k]) \in Int
      BY <3>1 DEF length_in_sequence_space, Segments
    <3>3. Position(s, buf[k]) \in Int
      BY <3>1, WrapTypes, Zenon DEF Position, IsSender, Segments
    <3> QED
      BY <3>2, <3>3 DEF IsSender
  <2> QED
    BY <2>1
<1> HIDE DEF freed
<1>3. Suffix(buf, k) \in Seq(Segments)
  <2>1. \A j \in k + 1 .. Len(buf) : buf[j] \in Segments
    BY <1>1 DEF IsSender
  <2> QED
    BY <2>1, <1>1 DEF Suffix, IsSender
<1>4. s.bytes_in_flight - freed \in Int /\ s.acked_next + freed \in Int
  BY <1>2 DEF IsSender
<1>5. RemoveAcked(s, ackno) = [s EXCEPT !.outstanding_buffer = Suffix(@, k),
                                        !.bytes_in_flight = @ - freed,
                                        !.acked_next = @ + freed]
  BY Zenon DEF RemoveAcked, k, freed
<1> QED
  BY <1>3, <1>4, <1>5, Zenon DEF IsSender, SenderFields

\* The timer is stopped if the buffer was emptied.  If it runs on, the buffer
\* held something before.
LEMMA AdjustTimed ==
  ASSUME NEW s, IsSender(s), NEW new_data,
         s.outstanding_buffer # << >> => s.timer.running
  PROVE  /\ IsSender(AdjustTimer(s, new_data)) /\ Timed(AdjustTimer(s, new_data))
         /\ AdjustTimer(s, new_data).isn = s.isn
<1> DEFINE stopped == IF s.outstanding_buffer = << >> THEN stop(s.timer) ELSE s.timer
           t == IF new_data THEN reset(stopped) ELSE stopped
<1>1. IsTimer(stopped) /\ stopped.running = (s.outstanding_buffer # << >>)
  BY TimerOps, Zenon DEF IsSender, IsTimer
<1> HIDE DEF stopped
<1>2. IsTimer(t) /\ t.running = (s.outstanding_buffer # << >>)
  BY <1>1, TimerOps, Zenon
<1>3. AdjustTimer(s, new_data) = [s EXCEPT !.timer = t]
  BY Zenon DEF AdjustTimer, stopped
<1> HIDE DEF t
<1> QED
  BY <1>2, <1>3, Zenon DEF IsSender, Timed, SenderFields

\* An acknowledgment, of anything, with any window.
LEMMA AckTimed ==
  ASSUME NEW s, IsSender(s), Timed(s), NEW ackno \in Raw, NEW win \in Nat
  PROVE  /\ IsSender(ack_received(s, ackno, win))
         /\ Timed(ack_received(s, ackno, win))
         /\ ack_received(s, ackno, win).isn = s.isn
<1> DEFINE heard == [s EXCEPT !.received_window_size = win]
           abs_ackno == unwrap(ackno, s.isn, s.acked_next)
           removed == RemoveAcked(heard, abs_ackno)
           opened == OpenWindow(removed, win)
<1>1. IsSender(heard) /\ Timed(heard) /\ heard.isn = s.isn
  BY Zenon DEF IsSender, Timed, SenderFields
<1> HIDE DEF heard, abs_ackno
<1>2. IsSender(removed) /\ removed.isn = s.isn
  BY <1>1, RemoveType, Zenon
<1>3. removed.outstanding_buffer # << >> => removed.timer.running
  <2>1. /\ removed.timer = heard.timer
        /\ removed.outstanding_buffer
             = Suffix(heard.outstanding_buffer, AckedCount(heard, abs_ackno))
    BY <1>1, Zenon DEF RemoveAcked, IsSender, SenderFields
  <2>2. ASSUME heard.outstanding_buffer = << >>
        PROVE  removed.outstanding_buffer = << >>
    <3>1. AckedCount(heard, abs_ackno) = 0
      BY <2>2, <1>1, AckedCountType
    <3> QED
      BY <2>1, <2>2, <3>1 DEF Suffix
  <2> QED
    BY <2>1, <2>2, <1>1, Zenon DEF Timed
<1> HIDE DEF removed
<1>4. /\ IsSender(opened) /\ opened.isn = s.isn
      /\ opened.outstanding_buffer # << >> => opened.timer.running
  <2> DEFINE w == IF Usable(win) > removed.bytes_in_flight
                  THEN Usable(win) - removed.bytes_in_flight ELSE 0
  <2>1. w \in Nat
    BY <1>2 DEF IsSender, Usable
  <2>2. opened = [removed EXCEPT !.peer_window_size = w]
    BY Zenon DEF OpenWindow
  <2> HIDE DEF w
  <2> QED
    BY <2>1, <2>2, <1>2, <1>3, Zenon DEF IsSender, SenderFields
<1> HIDE DEF opened
<1>5. ack_received(s, ackno, win)
        = IF abs_ackno > s.next_seqno THEN heard
          ELSE fill_window(AdjustTimer(opened, NewData(s, abs_ackno)))
  BY Zenon DEF ack_received, heard, abs_ackno, opened, removed
<1>6. LET u == AdjustTimer(opened, NewData(s, abs_ackno))
      IN  /\ IsSender(fill_window(u)) /\ Timed(fill_window(u))
          /\ fill_window(u).isn = s.isn
  BY <1>4, AdjustTimed, FillTimed, Zenon
<1> QED
  BY <1>1, <1>5, <1>6, Zenon

\* A tick neither stops the timer nor forgets a segment.
LEMMA TickTimed ==
  ASSUME NEW s, IsSender(s), Timed(s), NEW ms
  PROVE  /\ IsSender(sender_tick(s, ms)) /\ Timed(sender_tick(s, ms))
         /\ sender_tick(s, ms).isn = s.isn
<1>1. /\ IsTimer(pass(s.timer, ms)) /\ pass(s.timer, ms).running = s.timer.running
  BY TimerOps, Zenon DEF IsSender
<1>2. \E t, segs : /\ IsTimer(t) /\ t.running = s.timer.running
                   /\ sender_tick(s, ms)
                        = [s EXCEPT !.timer = t, !.segments_out = segs]
  <2>1. CASE is_expire(pass(s.timer, ms)) /\ s.received_window_size # 0
    BY <2>1, <1>1, TimerOps, Zenon DEF sender_tick
  <2>2. CASE is_expire(pass(s.timer, ms)) /\ s.received_window_size = 0
    BY <2>2, <1>1, TimerOps, Zenon DEF sender_tick
  <2>3. CASE ~is_expire(pass(s.timer, ms))
    <3>1. [s EXCEPT !.timer = pass(s.timer, ms)]
            = [s EXCEPT !.timer = pass(s.timer, ms), !.segments_out = s.segments_out]
      BY Zenon DEF IsSender, SenderFields
    <3> QED
      BY <2>3, <3>1, <1>1, Zenon DEF sender_tick
  <2> QED
    BY <2>1, <2>2, <2>3, Zenon
<1> QED
  BY <1>2, Zenon DEF IsSender, Timed, SenderFields

-----------------------------------------------------------------------------
\* A new sender has nothing outstanding and its timer does not run.
LEMMA InitInv == Init => Inv
<1> SUFFICES ASSUME Init PROVE Inv
  BY Zenon
<1>1. IsStream(NewByteStream(Cap))
  <2>1. << >> \in Seq(Byte) /\ Len(<< >>) = 0
    OBVIOUS
  <2> QED
    BY <2>1, CapAssumption DEF IsStream, ByteStreams, NewByteStream
<1>2. IsTimer(NewTimer(Rto)) /\ NewTimer(Rto).running = FALSE
  BY Zenon DEF IsTimer, TimerFields, NewTimer
<1>3. << >> \in Seq(Segments)
  OBVIOUS
<1>4. Len(Stream) \in Nat
  BY StreamAssumption
<1>5. /\ DOMAIN snd = SenderFields /\ snd.isn = Isn
      /\ snd.stream = NewByteStream(Cap) /\ snd.timer = NewTimer(Rto)
      /\ snd.next_seqno = 0 /\ snd.acked_next = 0 /\ snd.bytes_in_flight = 0
      /\ snd.peer_window_size = 1 /\ snd.outstanding_buffer = << >>
      /\ written = 0
  BY Zenon DEF Init, NewTCPSender, SenderFields
<1>6. IsSender(snd)
  BY <1>1, <1>2, <1>3, <1>5, IsnAssumption DEF IsSender
<1>7. Timed(snd)
  BY <1>2, <1>5, Zenon DEF Timed
<1> QED
  BY <1>4, <1>5, <1>6, <1>7 DEF Inv

\* Handing the queue to the connection changes neither buffer nor timer.
LEMMA QueueInv ==
  ASSUME NEW s, IsSender(s), Timed(s), s.isn = Isn, Queue(s),
         written' \in Nat, written' <= Len(Stream)
  PROVE  Inv'
<1>1. snd' = [s EXCEPT !.segments_out = << >>]
  BY Zenon DEF Queue
<1>2. IsSender(snd') /\ Timed(snd') /\ snd'.isn = Isn
  BY <1>1, Zenon DEF IsSender, Timed, SenderFields
<1> QED
  BY <1>2, Zenon DEF Inv

\* The application's calls touch the stream only.
LEMMA StreamInv ==
  ASSUME NEW s, IsSender(s), Timed(s), NEW b, IsStream(b)
  PROVE  /\ IsSender([s EXCEPT !.stream = b]) /\ Timed([s EXCEPT !.stream = b])
         /\ [s EXCEPT !.stream = b].isn = s.isn
  BY Zenon DEF IsSender, Timed, SenderFields

\* Every step preserves the invariant.
LEMMA NextInv == Inv /\ [Next]_vars => Inv'
<1> SUFFICES ASSUME Inv, [Next]_vars PROVE Inv'
  BY Zenon
<1>0. /\ IsSender(snd) /\ Timed(snd) /\ snd.isn = Isn
      /\ written \in Nat /\ written <= Len(Stream) /\ Len(Stream) \in Nat
  BY StreamAssumption DEF Inv
<1>1. ASSUME NEW n \in 1 .. Len(Stream), Write(n) PROVE Inv'
  <2> DEFINE data == SubSeq(Stream, written + 1, written + n)
             s == [snd EXCEPT !.stream = write(@, data)]
  <2>1. /\ written + n <= Len(Stream) /\ Queue(s)
        /\ written' = written + write_count(snd.stream, data)
    BY <1>1, Zenon DEF Write
  <2>2. data \in Seq(Byte)
    BY <2>1, <1>0, StreamAssumption, PieceType
  <2>3. Len(data) = n
    BY <2>1, <1>0, SMTT(30)
  <2> HIDE DEF data
  <2>4. /\ IsStream(write(snd.stream, data))
        /\ write_count(snd.stream, data) \in Nat
        /\ write_count(snd.stream, data) <= n
    BY <2>2, <2>3, <1>0, StreamOps, Zenon DEF IsSender
  <2>5. IsSender(s) /\ Timed(s) /\ s.isn = Isn
    BY <2>4, <1>0, StreamInv, Zenon
  <2>6. written' \in Nat /\ written' <= Len(Stream)
    BY <2>1, <2>4, <1>0
  <2> HIDE DEF s
  <2> QED
    BY <2>1, <2>5, <2>6, QueueInv, Zenon
<1>2. CASE Close
  <2> DEFINE s == [snd EXCEPT !.stream = end_input(@)]
  <2>1. Queue(s) /\ written' = written
    BY <1>2, Zenon DEF Close
  <2>2. IsStream(end_input(snd.stream))
    BY <1>0, StreamOps, Zenon DEF IsSender
  <2>3. IsSender(s) /\ Timed(s) /\ s.isn = Isn
    BY <2>2, <1>0, StreamInv, Zenon
  <2> HIDE DEF s
  <2> QED
    BY <2>1, <2>3, <1>0, QueueInv, Zenon
<1>3. CASE FillWindow
  <2>1. Queue(fill_window(snd)) /\ written' = written
    BY <1>3, Zenon DEF FillWindow
  <2> QED
    BY <2>1, <1>0, FillTimed, QueueInv, Zenon
<1>4. ASSUME NEW a \in 1 .. Len(Stream) + 2, NEW win \in 0 .. MaxWin,
             AckReceived(a, win) \/ StaleAckReceived(a, win)
      PROVE  Inv'
  <2>1. Queue(ack_received(snd, wrap(a, Isn), win)) /\ written' = written
    BY <1>4, Zenon DEF AckReceived, StaleAckReceived
  <2>2. wrap(a, Isn) \in Raw /\ win \in Nat
    BY <1>0, IsnAssumption, BoundsAssumption, WrapTypes
  <2> QED
    BY <2>1, <2>2, <1>0, AckTimed, QueueInv, Zenon
<1>5. CASE Tick(1)
  <2>1. Queue(sender_tick(snd, 1)) /\ written' = written
    BY <1>5, Zenon DEF Tick
  <2> QED
    BY <2>1, <1>0, TickTimed, QueueInv, Zenon
<1>6. CASE UNCHANGED vars
  BY <1>6, Zenon DEF vars, Inv
<1> QED
  BY <1>1, <1>2, <1>3, <1>4, <1>5, <1>6, Zenon DEF Next

\* Nothing that is outstanding is ever left without a timer, and the timer never
\* fires for nothing: through any acknowledgments, stale ones and closed windows
\* included, any writes and any ticks, for every size and timeout.
THEOREM TimerCorrect == Spec => []TimerRuns
<1>1. Inv => TimerRuns
  BY Zenon DEF Inv, IsSender, IsTimer, Timed, TimerRuns, out
<1> QED
  BY <1>1, InitInv, NextInv, PTL DEF Spec

-----------------------------------------------------------------------------
(* What the outstanding segments hold.                                     *)

\* The segment that carries the positions from p to before e.
Carries(seg, p, e) ==
  /\ seg.seqno = wrap(p, Isn)
  /\ length_in_sequence_space(seg) = e - p
  /\ seg.syn <=> p = 0
  /\ seg.fin <=> e = FinPosition + 1
  /\ seg.payload = SubSeq(Stream, IF p = 0 THEN 1 ELSE p,
                          Lesser(e - 1, Len(Stream)))

\* The positions at which the segments of o begin, and the last one ends.
Cuts(o, lo, hi, p) ==
  /\ p \in [1 .. Len(o) + 1 -> Nat]
  /\ p[1] = lo /\ p[Len(o) + 1] = hi
  /\ \A i, j \in 1 .. Len(o) + 1 : i < j => p[i] < p[j]
  /\ \A i \in 1 .. Len(o) : Carries(o[i], p[i], p[i + 1])

\* The segments lie end to end from position lo to position hi.
Chain(o, lo, hi) == \E p : Cuts(o, lo, hi, p)

\* No segment, no position.
LEMMA ChainEmpty ==
  ASSUME NEW lo \in Nat
  PROVE  Chain(<< >>, lo, lo)
<1> DEFINE p == [i \in 1 .. 1 |-> lo]
<1>1. Len(<< >>) = 0
  BY Zenon
<1>2. Cuts(<< >>, lo, lo, p)
  BY <1>1 DEF Cuts
<1> QED
  BY <1>2, Zenon DEF Chain

\* One segment.
LEMMA ChainOne ==
  ASSUME NEW seg \in Segments, NEW lo \in Nat, NEW hi \in Nat, lo < hi,
         Carries(seg, lo, hi)
  PROVE  Chain(<<seg>>, lo, hi)
<1> DEFINE p == [i \in 1 .. 2 |-> IF i = 1 THEN lo ELSE hi]
           o == <<seg>>
<1>1. Len(o) = 1 /\ o[1] = seg
  BY Zenon
<1> HIDE DEF o
<1>2. p \in [1 .. 2 -> Nat] /\ p[1] = lo /\ p[2] = hi
  OBVIOUS
<1> HIDE DEF p
<1>3. \A i, j \in 1 .. 2 : i < j => p[i] < p[j]
  <2>1. \A i, j \in 1 .. 2 : i < j => i = 1 /\ j = 2
    OBVIOUS
  <2> QED
    BY <2>1, <1>2, Zenon
<1>4. \A i \in 1 .. 1 : Carries(o[i], p[i], p[i + 1])
  BY <1>1, <1>2
<1>5. Cuts(o, lo, hi, p)
  BY <1>1, <1>2, <1>3, <1>4 DEF Cuts
<1> QED
  BY <1>5, Zenon DEF Chain, o

\* Two chains that meet are one.
LEMMA ChainJoin ==
  ASSUME NEW o \in Seq(Segments), NEW u \in Seq(Segments), NEW lo, NEW mid, NEW hi,
         Chain(o, lo, mid), Chain(u, mid, hi)
  PROVE  Chain(o \o u, lo, hi)
<1>1. PICK p : Cuts(o, lo, mid, p)
  BY Zenon DEF Chain
<1>2. PICK q : Cuts(u, mid, hi, q)
  BY Zenon DEF Chain
<1> DEFINE m == Len(o)
           n == Len(u)
           x == o \o u
           r == [i \in 1 .. m + n + 1 |-> IF i <= m THEN p[i] ELSE q[i - m]]
<1>3. m \in Nat /\ n \in Nat
  OBVIOUS
<1>4. /\ Len(x) = m + n
      /\ \A i \in 1 .. m + n : x[i] = IF i <= m THEN o[i] ELSE u[i - m]
  BY <1>3
<1> HIDE DEF x
<1>5. /\ p \in [1 .. m + 1 -> Nat] /\ p[1] = lo /\ p[m + 1] = mid
      /\ \A i, j \in 1 .. m + 1 : i < j => p[i] < p[j]
      /\ \A i \in 1 .. m : Carries(o[i], p[i], p[i + 1])
  BY <1>1, Zenon DEF Cuts
<1>6. /\ q \in [1 .. n + 1 -> Nat] /\ q[1] = mid /\ q[n + 1] = hi
      /\ \A i, j \in 1 .. n + 1 : i < j => q[i] < q[j]
      /\ \A i \in 1 .. n : Carries(u[i], q[i], q[i + 1])
  BY <1>2, Zenon DEF Cuts
<1> HIDE DEF m, n
<1>7. /\ \A i \in 1 .. m + 1 : r[i] = p[i]
      /\ \A i \in m + 1 .. m + n + 1 : r[i] = q[i - m]
  <2>1. ASSUME NEW i \in 1 .. m + 1 PROVE r[i] = p[i]
    <3>1. CASE i <= m
      BY <3>1, <1>3
    <3>2. CASE i = m + 1
      BY <3>2, <1>3, <1>5, <1>6
    <3> QED
      BY <3>1, <3>2, <1>3
  <2>2. ASSUME NEW i \in m + 1 .. m + n + 1 PROVE r[i] = q[i - m]
    BY <1>3
  <2> QED
    BY <2>1, <2>2, Zenon
<1>8. r \in [1 .. m + n + 1 -> Nat]
  <2>1. ASSUME NEW i \in 1 .. m + n + 1
        PROVE  (IF i <= m THEN p[i] ELSE q[i - m]) \in Nat
    <3>1. CASE i <= m
      BY <3>1, <1>3, <1>5
    <3>2. CASE i > m
      <4>1. i - m \in 1 .. n + 1
        BY <3>2, <1>3
      <4> QED
        BY <4>1, <3>2, <1>3, <1>6
    <3> QED
      BY <3>1, <3>2, <1>3
  <2> QED
    BY <2>1, Zenon
<1> HIDE DEF r
<1>9. r[1] = lo /\ r[m + n + 1] = hi
  BY <1>3, <1>5, <1>6, <1>7
<1>10. ASSUME NEW i \in 1 .. m + n + 1, NEW j \in 1 .. m + n + 1, i < j
       PROVE  r[i] < r[j]
  <2>1. CASE j <= m + 1
    BY <2>1, <1>10, <1>3, <1>5, <1>7
  <2>2. CASE i > m
    <3>1. /\ i \in m + 1 .. m + n + 1 /\ j \in m + 1 .. m + n + 1
          /\ i - m \in 1 .. n + 1 /\ j - m \in 1 .. n + 1 /\ i - m < j - m
      BY <2>2, <1>10, <1>3
    <3> QED
      BY <3>1, <1>6, <1>7, Zenon
  <2>3. CASE i <= m /\ j > m + 1
    <3>1. r[i] = p[i] /\ p[i] < mid
      BY <2>3, <1>3, <1>5, <1>7
    <3>2. /\ j \in m + 1 .. m + n + 1 /\ j - m \in 1 .. n + 1 /\ 1 < j - m
          /\ 1 \in 1 .. n + 1
      BY <2>3, <1>3
    <3>3. r[j] = q[j - m] /\ mid < q[j - m]
      BY <3>2, <1>6, <1>7, Zenon
    <3>4. p[i] \in Nat /\ mid \in Nat /\ q[j - m] \in Nat
      BY <2>3, <3>2, <1>3, <1>5, <1>6
    <3> QED
      BY <3>1, <3>3, <3>4
  <2> QED
    BY <2>1, <2>2, <2>3, <1>3
<1>11. ASSUME NEW i \in 1 .. m + n PROVE Carries(x[i], r[i], r[i + 1])
  <2>1. CASE i <= m
    <3>1. i \in 1 .. m /\ i \in 1 .. m + 1 /\ i + 1 \in 1 .. m + 1
      BY <2>1, <1>3
    <3>2. x[i] = o[i]
      BY <2>1, <1>4, Zenon
    <3>3. r[i] = p[i] /\ r[i + 1] = p[i + 1]
      BY <3>1, <1>7, Zenon
    <3> QED
      BY <3>1, <3>2, <3>3, <1>5, Zenon
  <2>2. CASE i > m
    <3>1. /\ i - m \in 1 .. n /\ i \in m + 1 .. m + n + 1
          /\ i + 1 \in m + 1 .. m + n + 1 /\ (i + 1) - m = (i - m) + 1
      BY <2>2, <1>3
    <3>2. x[i] = u[i - m]
      <4>1. ~(i <= m)
        BY <2>2, <1>3
      <4> QED
        BY <4>1, <1>4, Zenon
    <3>3. r[i] = q[i - m] /\ r[i + 1] = q[(i - m) + 1]
      BY <3>1, <1>7
    <3> QED
      BY <3>1, <3>2, <3>3, <1>6, Zenon
  <2> QED
    BY <2>1, <2>2, <1>3
<1>12. Cuts(x, lo, hi, r)
  BY <1>4, <1>8, <1>9, <1>10, <1>11, Zenon DEF Cuts
<1> QED
  BY <1>12, Zenon DEF Chain, x

\* What is left of a chain when its first k segments are taken off.
LEMMA ChainDrop ==
  ASSUME NEW o \in Seq(Segments), NEW lo, NEW hi, NEW p, Cuts(o, lo, hi, p),
         NEW k \in 0 .. Len(o)
  PROVE  Chain(Suffix(o, k), p[k + 1], hi)
<1> DEFINE n == Len(o)
           x == Suffix(o, k)
           r == [i \in 1 .. n - k + 1 |-> p[k + i]]
<1>1. n \in Nat
  OBVIOUS
<1>2. /\ Len(x) = n - k /\ \A i \in 1 .. n - k : x[i] = o[k + i]
  <2>1. \A j \in k + 1 .. n : o[j] \in Segments
    BY <1>1
  <2>2. CASE k = n
    BY <2>2, <1>1 DEF Suffix
  <2>3. CASE k < n
    BY <2>1, <2>3, <1>1 DEF Suffix
  <2> QED
    BY <2>2, <2>3, <1>1
<1> HIDE DEF x
<1>3. /\ p \in [1 .. n + 1 -> Nat] /\ p[n + 1] = hi
      /\ \A i, j \in 1 .. n + 1 : i < j => p[i] < p[j]
      /\ \A i \in 1 .. n : Carries(o[i], p[i], p[i + 1])
  BY Zenon DEF Cuts
<1> HIDE DEF n
<1>4. /\ k \in Nat /\ k <= n
  BY <1>1 DEF n
<1>5. /\ r \in [1 .. n - k + 1 -> Nat]
      /\ \A i \in 1 .. n - k + 1 : r[i] = p[k + i] /\ k + i \in 1 .. n + 1
  BY <1>1, <1>3, <1>4
<1> HIDE DEF r
<1>6. r[1] = p[k + 1] /\ r[n - k + 1] = hi
  <2>1. k + (n - k + 1) = n + 1
    BY <1>1, <1>4
  <2> QED
    BY <2>1, <1>1, <1>3, <1>4, <1>5
<1>7. ASSUME NEW i \in 1 .. n - k + 1, NEW j \in 1 .. n - k + 1, i < j
      PROVE  r[i] < r[j]
  BY <1>7, <1>1, <1>3, <1>4, <1>5
<1>8. ASSUME NEW i \in 1 .. n - k PROVE Carries(x[i], r[i], r[i + 1])
  <2>1. /\ k + i \in 1 .. n /\ i \in 1 .. n - k + 1 /\ i + 1 \in 1 .. n - k + 1
        /\ k + (i + 1) = (k + i) + 1
    BY <1>1, <1>4
  <2> QED
    BY <2>1, <1>2, <1>3, <1>5, Zenon
<1>9. Cuts(x, p[k + 1], hi, r)
  BY <1>2, <1>5, <1>6, <1>7, <1>8, Zenon DEF Cuts
<1> QED
  BY <1>9, Zenon DEF Chain, x

-----------------------------------------------------------------------------
(* The segments that fill_window makes.                                    *)

\* A piece of what follows the first r bytes of the stream is a piece of the
\* stream.
LEMMA PieceOfStream ==
  ASSUME NEW b \in Seq(Byte), NEW r \in Nat, r + Len(b) <= Len(Stream),
         \A j \in 1 .. Len(b) : b[j] = Stream[r + j],
         NEW f \in Nat, NEW g \in Nat, f <= g, g <= Len(b)
  PROVE  SubSeq(b, f + 1, g) = SubSeq(Stream, r + f + 1, r + g)
<1> DEFINE x == SubSeq(b, f + 1, g)
           y == SubSeq(Stream, r + f + 1, r + g)
<1>1. Len(b) \in Nat /\ Len(Stream) \in Nat
  BY StreamAssumption
<1>2. \A j \in f + 1 .. g : b[j] \in Byte
  BY <1>1
<1>3. /\ x \in Seq(Byte) /\ Len(x) = g - f
      /\ \A i \in 1 .. g - f : x[i] = b[f + i]
  <2>1. /\ x \in Seq(Byte) /\ Len(x) = (IF f + 1 <= g THEN g - (f + 1) + 1 ELSE 0)
        /\ \A i \in 1 .. g - (f + 1) + 1 : x[i] = b[(f + 1) + i - 1]
    BY <1>2
  <2> HIDE DEF x
  <2>2. /\ (IF f + 1 <= g THEN g - (f + 1) + 1 ELSE 0) = g - f
        /\ g - (f + 1) + 1 = g - f
        /\ \A i \in 1 .. g - f : (f + 1) + i - 1 = f + i
    OBVIOUS
  <2> QED
    BY <2>1, <2>2, Zenon
<1>4. \A j \in r + f + 1 .. r + g : Stream[j] \in Byte
  BY <1>1, StreamAssumption
<1>5. /\ y \in Seq(Byte) /\ Len(y) = g - f
      /\ \A i \in 1 .. g - f : y[i] = Stream[r + (f + i)]
  <2>1. /\ y \in Seq(Byte)
        /\ Len(y) = (IF r + f + 1 <= r + g THEN (r + g) - (r + f + 1) + 1 ELSE 0)
        /\ \A i \in 1 .. (r + g) - (r + f + 1) + 1 : y[i] = Stream[(r + f + 1) + i - 1]
    BY <1>4
  <2> HIDE DEF y
  <2>2. /\ (IF r + f + 1 <= r + g THEN (r + g) - (r + f + 1) + 1 ELSE 0) = g - f
        /\ (r + g) - (r + f + 1) + 1 = g - f
        /\ \A i \in 1 .. g - f : (r + f + 1) + i - 1 = r + (f + i)
    OBVIOUS
  <2> QED
    BY <2>1, <2>2, Zenon
<1>6. \A i \in 1 .. g - f : b[f + i] = Stream[r + (f + i)]
  BY <1>1
<1> HIDE DEF x, y
<1>7. \A i \in 1 .. Len(x) : x[i] = y[i]
  BY <1>3, <1>5, <1>6, Zenon
<1>8. x = y
  BY <1>3, <1>5, <1>7
<1> QED
  BY <1>8, Zenon DEF x, y

\* A segment of the bytes from r + f + 1 to r + g of the stream, and of the FIN.
LEMMA DataCarries ==
  ASSUME NEW seg \in Segments, NEW r \in Nat, NEW f \in Nat, NEW g \in Nat,
         f <= g, r + g <= Len(Stream), NEW fin \in BOOLEAN,
         fin => r + g = Len(Stream),
         seg.seqno = wrap(1 + r + f, Isn), seg.syn = FALSE, seg.fin = fin,
         seg.payload = SubSeq(Stream, r + f + 1, r + g)
  PROVE  Carries(seg, 1 + r + f, 1 + r + g + (IF fin THEN 1 ELSE 0))
<1> DEFINE p == 1 + r + f
           i == IF fin THEN 1 ELSE 0
           e == 1 + r + g + i
<1>1. Len(Stream) \in Nat
  BY StreamAssumption
<1>2. Len(SubSeq(Stream, r + f + 1, r + g)) = g - f
  <2>1. \A j \in r + f + 1 .. r + g : Stream[j] \in Byte
    BY <1>1, StreamAssumption
  <2>2. Len(SubSeq(Stream, r + f + 1, r + g))
          = (IF r + f + 1 <= r + g THEN (r + g) - (r + f + 1) + 1 ELSE 0)
    BY <2>1
  <2> QED
    BY <2>2
<1>3. i \in Nat /\ (i = 1 <=> fin) /\ i <= 1
  OBVIOUS
<1>4. length_in_sequence_space(seg) = Len(seg.payload) + 0 + i
  BY Zenon DEF length_in_sequence_space
<1> HIDE DEF i
<1>5. length_in_sequence_space(seg) = e - p
  BY <1>2, <1>3, <1>4
<1>6. fin <=> e = FinPosition + 1
  BY <1>1, <1>3 DEF FinPosition
<1>7. /\ p # 0 /\ p = r + f + 1
      /\ Lesser(e - 1, Len(Stream)) = r + g
  BY <1>1, <1>3 DEF Lesser
<1>8. seg.payload = SubSeq(Stream, IF p = 0 THEN 1 ELSE p,
                           Lesser(e - 1, Len(Stream)))
  BY <1>7, Zenon
<1>9. Carries(seg, p, e)
  <2> HIDE DEF e
  <2> QED
    BY <1>5, <1>6, <1>7, <1>8, Zenon DEF Carries
<1> QED
  BY <1>9, Zenon DEF i

\* How many pieces of MAX_PAYLOAD_SIZE bytes n bytes take.
LEMMA Pieces ==
  ASSUME NEW n \in Nat, NEW k, k = (n + MAX_PAYLOAD_SIZE - 1) \div MAX_PAYLOAD_SIZE
  PROVE  /\ k \in Nat /\ n <= k * MAX_PAYLOAD_SIZE
         /\ k * MAX_PAYLOAD_SIZE < n + MAX_PAYLOAD_SIZE
<1> DEFINE x == n + MAX_PAYLOAD_SIZE - 1
<1>1. x \in Nat
  BY PayloadAssumption
<1> HIDE DEF x
<1>2. /\ x \div MAX_PAYLOAD_SIZE \in Nat
      /\ x % MAX_PAYLOAD_SIZE \in 0 .. MAX_PAYLOAD_SIZE - 1
      /\ x = (x \div MAX_PAYLOAD_SIZE) * MAX_PAYLOAD_SIZE + (x % MAX_PAYLOAD_SIZE)
  BY <1>1, PayloadAssumption
<1>3. k = x \div MAX_PAYLOAD_SIZE
  BY Zenon DEF x
<1> HIDE DEF x
<1>4. x = n + MAX_PAYLOAD_SIZE - 1
  BY Zenon DEF x
<1> DEFINE y == k * MAX_PAYLOAD_SIZE
           z == x % MAX_PAYLOAD_SIZE
<1>5. y \in Nat /\ z \in 0 .. MAX_PAYLOAD_SIZE - 1 /\ x = y + z /\ k \in Nat
  <2>1. k \in Nat
    BY <1>2, <1>3, Zenon
  <2>2. y \in Nat
    BY <2>1, PayloadAssumption
  <2> QED
    BY <2>1, <2>2, <1>2, <1>3, Zenon
<1> HIDE DEF y, z
<1>6. n <= y /\ y < n + MAX_PAYLOAD_SIZE
  BY <1>4, <1>5, PayloadAssumption
<1> QED
  BY <1>5, <1>6, Zenon DEF y

\* Where the pieces begin.
LEMMA PieceStarts ==
  ASSUME NEW i \in Nat, NEW j \in Nat, i < j
  PROVE  /\ i * MAX_PAYLOAD_SIZE \in Nat /\ j * MAX_PAYLOAD_SIZE \in Nat
         /\ i * MAX_PAYLOAD_SIZE + MAX_PAYLOAD_SIZE <= j * MAX_PAYLOAD_SIZE
         /\ (i + 1) * MAX_PAYLOAD_SIZE = i * MAX_PAYLOAD_SIZE + MAX_PAYLOAD_SIZE
<1>1. /\ i * MAX_PAYLOAD_SIZE \in Nat /\ j * MAX_PAYLOAD_SIZE \in Nat
      /\ (i + 1) * MAX_PAYLOAD_SIZE = i * MAX_PAYLOAD_SIZE + MAX_PAYLOAD_SIZE
  BY PayloadAssumption
<1>2. (i + 1) * MAX_PAYLOAD_SIZE <= j * MAX_PAYLOAD_SIZE
  BY PayloadAssumption
<1> QED
  BY <1>1, <1>2, Zenon

\* What the outgoing stream still holds when w bytes of Stream were accepted.
Holds(b, w) ==
  /\ w \in Nat /\ w <= Len(Stream)
  /\ b.total_bytes_read \in Nat
  /\ b.total_bytes_read + Len(b.buf) = w
  /\ \A j \in 1 .. Len(b.buf) : b.buf[j] = Stream[b.total_bytes_read + j]
  /\ b.is_end => w = Len(Stream)

\* The pieces that are sent now lie end to end from next_seqno.
LEMMA DataChain ==
  ASSUME NEW s, IsSender(s), s.isn = Isn, NEW w, Holds(s.stream, w),
         s.next_seqno = 1 + s.stream.total_bytes_read,
         NEW n \in Nat, n <= Len(s.stream.buf), NEW fin \in BOOLEAN,
         fin => n = Len(s.stream.buf) /\ s.stream.is_end
  PROVE  Chain(DataSegments(s, n, fin), s.next_seqno,
               s.next_seqno + (n + (IF fin THEN 1 ELSE 0)))
<1> DEFINE M == MAX_PAYLOAD_SIZE
           pieces == (n + M - 1) \div M
           count  == IF pieces = 0 /\ fin THEN 1 ELSE pieces
           d == DataSegments(s, n, fin)
           fr == [i \in 1 .. count |-> (i - 1) * M]
           to == [i \in 1 .. count |-> Lesser(fr[i] + M, n)]
           r == s.stream.total_bytes_read
           b == s.stream.buf
           one == IF fin THEN 1 ELSE 0
           hi == s.next_seqno + (n + one)
           p == [i \in 1 .. count + 1 |-> IF i <= count THEN 1 + r + fr[i] ELSE hi]
<1>1. /\ r \in Nat /\ b \in Seq(Byte) /\ Len(b) \in Nat /\ Len(Stream) \in Nat
      /\ w \in Nat /\ w <= Len(Stream) /\ r + Len(b) = w
      /\ \A j \in 1 .. Len(b) : b[j] = Stream[r + j]
      /\ s.stream.is_end => w = Len(Stream)
      /\ s.next_seqno = 1 + r
  BY StreamAssumption, StreamOps DEF Holds, IsSender
<1>2. pieces \in Nat /\ n <= pieces * M /\ pieces * M < n + M /\ M \in Nat \ {0}
  BY Pieces, PayloadAssumption, Zenon
<1>3. one \in Nat /\ one <= 1 /\ (fin <=> one = 1)
  OBVIOUS
<1>4. d \in Seq(Segments)
  BY DataSegmentsType, Zenon
<1>5. /\ Len(d) = count
      /\ \A i \in 1 .. count :
           d[i] = [EmptySegment EXCEPT
                     !.seqno = wrap(s.next_seqno + fr[i], s.isn),
                     !.fin = fin /\ i = count,
                     !.payload = SubSeq(s.stream.buf, fr[i] + 1, to[i])]
  <2>1. DataSegments(s, n, fin)
          = [i \in 1 .. count |->
               [EmptySegment EXCEPT
                  !.seqno = wrap(s.next_seqno + (i - 1) * M, s.isn),
                  !.fin = fin /\ i = count,
                  !.payload = SubSeq(s.stream.buf, (i - 1) * M + 1,
                                     Lesser((i - 1) * M + M, n))]]
    BY Zenon DEF DataSegments
  <2>2. count \in Nat
    BY <1>2, Zenon
  <2>3. \A i \in 1 .. count : fr[i] = (i - 1) * M /\ to[i] = Lesser((i - 1) * M + M, n)
    BY Zenon
  <2> HIDE DEF pieces, fr, to, M
  <2>4. DOMAIN d = 1 .. count
    BY <2>1, Zenon
  <2>5. Len(d) = count
    BY <2>2, <2>4, <1>4
  <2>6. ASSUME NEW i \in 1 .. count
        PROVE  d[i] = [EmptySegment EXCEPT
                     !.seqno = wrap(s.next_seqno + fr[i], s.isn),
                     !.fin = fin /\ i = count,
                     !.payload = SubSeq(s.stream.buf, fr[i] + 1, to[i])]
    <3>1. d[i] = [EmptySegment EXCEPT
                  !.seqno = wrap(s.next_seqno + (i - 1) * M, s.isn),
                  !.fin = fin /\ i = count,
                  !.payload = SubSeq(s.stream.buf, (i - 1) * M + 1,
                                     Lesser((i - 1) * M + M, n))]
      BY <2>1, Zenon
    <3> HIDE DEF d, count
    <3> QED
      BY <2>3, <3>1, Zenon
  <2> QED
    BY <2>5, <2>6, Zenon
<1>6. /\ count \in Nat /\ (count = 0 => n = 0 /\ ~fin)
      /\ \A i \in 1 .. count : fr[i] \in Nat /\ fr[i] <= n
      /\ \A i \in 1 .. count : fr[i] < n \/ (count = 1 /\ fin)
      /\ count > 0 => fr[1] = 0 /\ n <= fr[count] + M
      /\ \A i, j \in 1 .. count : i < j => fr[i] + M <= fr[j]
      /\ \A i \in 1 .. count - 1 : fr[i + 1] = fr[i] + M
  <2>1. CASE pieces = 0
    <3>1. n = 0
      BY <2>1, <1>2
    <3>2. count = one
      BY <2>1, Zenon
    <3>3. \A i \in 1 .. count : i = 1 /\ fr[i] = 0 /\ fin /\ count = 1
      BY <1>2, <1>3, <3>2
    <3> HIDE DEF fr, count, M, one
    <3>4. count > 0 => fr[1] = 0
      <4>1. count > 0 => 1 \in 1 .. count
        BY <1>3, <3>2
      <4> QED
        BY <4>1, <3>3, Zenon
    <3>5. \A i, j \in 1 .. count : ~(i < j)
      BY <3>3
    <3>6. \A i \in 1 .. count - 1 : FALSE
      BY <3>2, <1>3
    <3>7. count > 0 => count = 1
      BY <3>2, <1>3
    <3>8. count \in Nat /\ (count = 0 => n = 0 /\ ~fin)
      BY <3>1, <3>2, <1>3
    <3>9. \A i \in 1 .. count : fr[i] \in Nat /\ fr[i] <= n
      BY <3>1, <3>3, Zenon
    <3>10. count > 0 => n <= fr[count] + M
      BY <3>1, <3>4, <3>7, <1>2
    <3> QED
      BY <3>3, <3>4, <3>5, <3>6, <3>8, <3>9, <3>10, Zenon
  <2>2. CASE pieces # 0
    <3>1. count = pieces
      BY <2>2, Zenon
    <3>2. \A i \in 1 .. count : fr[i] = (i - 1) * M
      BY Zenon
    <3> HIDE DEF fr, count, pieces
    <3>3. ASSUME NEW i \in Nat, NEW j \in Nat, i < j
          PROVE  /\ i * M \in Nat /\ j * M \in Nat /\ i * M + M <= j * M
                 /\ (i + 1) * M = i * M + M
      BY <3>3, PieceStarts, Zenon
    <3>4. ASSUME NEW i \in 1 .. count, NEW j \in 1 .. count, i < j
          PROVE  fr[i] \in Nat /\ fr[j] \in Nat /\ fr[i] + M <= fr[j]
      <4>1. i - 1 \in Nat /\ j - 1 \in Nat /\ i - 1 < j - 1
        BY <3>4
      <4> QED
        BY <4>1, <3>2, <3>3, Zenon
    <3>5. ASSUME NEW i \in 1 .. count
          PROVE  fr[i] \in Nat /\ fr[i] + M <= pieces * M
      <4>1. i - 1 \in Nat /\ i - 1 < pieces
        BY <3>1, <1>2
      <4> QED
        BY <4>1, <3>2, <3>3, <1>2, Zenon
    <3>6. \A i \in 1 .. count : fr[i] \in Nat /\ fr[i] < n
      <4> DEFINE x == pieces * M
      <4>1. x < n + M /\ x \in Int
        BY <1>2
      <4>2. \A i \in 1 .. count : fr[i] \in Nat /\ fr[i] + M <= x
        BY <3>5, Zenon
      <4> HIDE DEF x
      <4> QED
        BY <4>1, <4>2, <1>2
    <3>7. \A i \in 1 .. count - 1 : fr[i + 1] = fr[i] + M
      <4>1. ASSUME NEW i \in 1 .. count - 1 PROVE fr[i + 1] = fr[i] + M
        <5>1. /\ i - 1 \in Nat /\ i \in Nat /\ i - 1 < i /\ (i - 1) + 1 = i
              /\ i \in 1 .. count /\ i + 1 \in 1 .. count /\ (i + 1) - 1 = i
          BY <3>1, <1>2
        <5>2. i * M = (i - 1) * M + M
          BY <5>1, <3>3, Zenon
        <5> QED
          BY <5>1, <5>2, <3>2, Zenon
      <4> QED
        BY <4>1, Zenon
    <3>8. fr[1] = 0 /\ n <= fr[count] + M
      <4>1. 1 \in 1 .. count /\ count \in 1 .. count /\ count - 1 \in Nat
        BY <2>2, <3>1, <1>2
      <4>2. fr[1] = 0
        BY <4>1, <3>2, <1>2
      <4>3. fr[count] = (count - 1) * M /\ count - 1 < count
        BY <4>1, <3>2
      <4>4. ((count - 1) + 1) * M = (count - 1) * M + M
        BY <4>1, <4>3, <3>1, <3>3, <1>2, Zenon
      <4>5. (count - 1) + 1 = pieces
        BY <3>1, <1>2
      <4> QED
        BY <4>2, <4>3, <4>4, <4>5, <1>2, Zenon
    <3> QED
      BY <2>2, <3>1, <3>4, <3>6, <3>7, <3>8, <1>2
  <2> QED
    BY <2>1, <2>2, Zenon
<1>7. \A i \in 1 .. count : to[i] = Lesser(fr[i] + M, n)
  BY Zenon
<1>8. \A i \in 1 .. count + 1 : p[i] = IF i <= count THEN 1 + r + fr[i] ELSE hi
  BY Zenon
<1>9. DOMAIN p = 1 .. count + 1 /\ p \in [1 .. count + 1 -> Nat]
  <2>1. \A i \in 1 .. count + 1 : (IF i <= count THEN 1 + r + fr[i] ELSE hi) \in Nat
    <3>1. hi \in Nat
      <4> HIDE DEF r, one
      <4> QED
        BY <1>1, <1>3
    <3> HIDE DEF count, fr, r, hi
    <3>2. ASSUME NEW i \in 1 .. count + 1, i <= count PROVE 1 + r + fr[i] \in Nat
      <4>1. i \in 1 .. count
        BY <3>2, <1>6
      <4> QED
        BY <4>1, <1>1, <1>6
    <3> QED
      BY <3>1, <3>2, Zenon
  <2> HIDE DEF count, fr, r, hi
  <2> QED
    BY <2>1, Zenon
<1>10. hi = 1 + r + (n + one)
  BY <1>1, Zenon
<1> HIDE DEF pieces, count, d, fr, to, r, b, one, hi, p, M
<1>11. p[1] = s.next_seqno /\ p[count + 1] = hi
  <2>1. CASE count = 0
    <3>1. p[1] = hi /\ p[count + 1] = hi
      BY <2>1, <1>8
    <3> QED
      BY <2>1, <3>1, <1>1, <1>3, <1>6, <1>10
  <2>2. CASE count # 0
    <3>1. 1 \in 1 .. count + 1 /\ 1 <= count /\ fr[1] = 0
      BY <2>2, <1>6
    <3>2. count + 1 \in 1 .. count + 1 /\ ~(count + 1 <= count)
      BY <1>6
    <3>3. p[1] = 1 + r + fr[1] /\ p[count + 1] = hi
      BY <3>1, <3>2, <1>8, Zenon
    <3> QED
      BY <3>1, <3>3, <1>1
  <2> QED
    BY <2>1, <2>2, Zenon
<1>12. ASSUME NEW i \in 1 .. count
       PROVE  /\ to[i] \in Nat /\ fr[i] <= to[i] /\ to[i] <= n
              /\ i < count => to[i] = fr[i] + M
              /\ i = count => to[i] = n
  <2>1. fr[i] \in Nat /\ fr[i] <= n /\ to[i] = Lesser(fr[i] + M, n)
    BY <1>6, <1>7, Zenon
  <2>2. ASSUME i < count PROVE fr[i] + M <= n
    <3>1. i + 1 \in 1 .. count /\ i \in 1 .. count - 1
      BY <2>2, <1>6
    <3> QED
      BY <3>1, <1>6, Zenon
  <2>3. i = count => n <= fr[i] + M
    BY <1>6
  <2> DEFINE f == fr[i]
             g == to[i]
  <2>4. /\ f \in Nat /\ f <= n /\ g = Lesser(f + M, n)
        /\ i < count => f + M <= n
        /\ i = count => n <= f + M
    BY <2>1, <2>2, <2>3, Zenon
  <2> HIDE DEF f, g
  <2>5. /\ g \in Nat /\ f <= g /\ g <= n
        /\ f + M <= n => g = f + M
        /\ n <= f + M => g = n
    BY <2>4, <1>2 DEF Lesser
  <2> QED
    BY <2>4, <2>5, Zenon DEF f, g
<1>13. ASSUME NEW i \in 1 .. count
       PROVE  p[i + 1] = 1 + r + to[i] + (IF fin /\ i = count THEN 1 ELSE 0)
  <2>1. CASE i < count
    <3>1. i + 1 \in 1 .. count + 1 /\ i + 1 <= count /\ i \in 1 .. count - 1
      BY <2>1, <1>6
    <3>2. p[i + 1] = 1 + r + fr[i + 1] /\ fr[i + 1] = fr[i] + M
      BY <3>1, <1>6, <1>8, Zenon
    <3>3. to[i] = fr[i] + M /\ i # count
      BY <2>1, <1>6, <1>12
    <3>4. (IF fin /\ i = count THEN 1 ELSE 0) = 0
      BY <3>3, Zenon
    <3>5. p[i + 1] = 1 + r + to[i]
      BY <3>2, <3>3, Zenon
    <3>6. r \in Nat /\ to[i] \in Nat
      BY <1>1, <1>12, Zenon
    <3>7. 1 + r + to[i] + 0 = 1 + r + to[i]
      BY <3>6
    <3> QED
      BY <3>4, <3>5, <3>7, Zenon
  <2>2. CASE i = count
    <3>1. p[i + 1] = hi
      BY <2>2, <1>11, Zenon
    <3>2. (IF fin /\ i = count THEN 1 ELSE 0) = one
      BY <2>2, Zenon DEF one
    <3>3. to[i] = n
      BY <2>2, <1>12, Zenon
    <3> QED
      BY <3>1, <3>2, <3>3, <1>1, <1>3, <1>10
  <2> QED
    BY <2>1, <2>2, <1>6
<1>14. ASSUME NEW i \in 1 .. count PROVE Carries(d[i], p[i], p[i + 1])
  <2> DEFINE last == fin /\ i = count
             f == fr[i]
             g == to[i]
             seg == d[i]
  <2>1. /\ f \in Nat /\ g \in Nat /\ f <= g /\ g <= n
    BY <1>6, <1>12, Zenon
  <2>2. last \in BOOLEAN /\ (last => fin /\ g = n)
    BY <1>12, Zenon
  <2>3. /\ d[i] \in Segments
        /\ d[i].seqno = wrap(s.next_seqno + f, s.isn)
        /\ d[i].syn = FALSE /\ d[i].fin = last
        /\ d[i].payload = SubSeq(b, f + 1, g)
    <3>1. d[i] \in Segments
      <4>1. d \in Seq(Segments) /\ i \in 1 .. Len(d)
        BY <1>4, <1>5, Zenon
      <4> QED
        BY <4>1
    <3>2. d[i] = [EmptySegment EXCEPT
                    !.seqno = wrap(s.next_seqno + f, s.isn),
                    !.fin = last,
                    !.payload = SubSeq(s.stream.buf, f + 1, g)]
      BY <1>5, Zenon
    <3> HIDE DEF f, g, last
    <3>3. /\ d[i].seqno = wrap(s.next_seqno + f, s.isn)
          /\ d[i].syn = FALSE /\ d[i].fin = last
          /\ d[i].payload = SubSeq(s.stream.buf, f + 1, g)
      BY <3>2, Zenon DEF EmptySegment
    <3> QED
      BY <3>1, <3>3, Zenon DEF b
  <2>4. p[i] = 1 + r + f
    <3>1. i \in 1 .. count + 1 /\ i <= count
      BY <1>6
    <3> QED
      BY <3>1, <1>8, Zenon
  <2>5. p[i + 1] = 1 + r + g + (IF last THEN 1 ELSE 0)
    BY <1>13, Zenon
  <2> HIDE DEF f, g, last, seg
  <2>6. n <= Len(b)
    BY Zenon DEF b
  <2>7. SubSeq(b, f + 1, g) = SubSeq(Stream, r + f + 1, r + g)
    BY <2>1, <2>6, <1>1, PieceOfStream
  <2>8. r + g <= Len(Stream) /\ (last => r + g = Len(Stream))
    <3>1. last => n = Len(b) /\ s.stream.is_end
      BY <2>2, Zenon DEF b
    <3> QED
      BY <2>1, <2>2, <2>6, <3>1, <1>1
  <2>9. /\ seg \in Segments /\ seg.seqno = wrap(1 + r + f, Isn)
        /\ seg.syn = FALSE /\ seg.fin = last
        /\ seg.payload = SubSeq(Stream, r + f + 1, r + g)
    BY <2>3, <2>7, <1>1, Zenon DEF seg
  <2>10. Carries(seg, 1 + r + f, 1 + r + g + (IF last THEN 1 ELSE 0))
    BY <2>1, <2>2, <2>8, <2>9, <1>1, DataCarries, Zenon
  <2> QED
    BY <2>4, <2>5, <2>10, Zenon DEF seg
<1>15. ASSUME NEW i \in 1 .. count + 1, NEW j \in 1 .. count + 1, i < j
       PROVE  p[i] < p[j]
  <2>1. i \in 1 .. count /\ p[i] = 1 + r + fr[i] /\ fr[i] \in Nat /\ fr[i] <= n
    BY <1>15, <1>6, <1>8
  <2>2. CASE j <= count
    <3>1. j \in 1 .. count
      BY <2>2, <1>6
    <3>2. fr[j] \in Nat /\ fr[i] + M <= fr[j]
      BY <2>1, <3>1, <1>15, <1>6, Zenon
    <3>3. p[j] = 1 + r + fr[j]
      BY <2>2, <1>8, Zenon
    <3>4. M \in Nat /\ M > 0 /\ r \in Nat
      BY <1>1, <1>2
    <3>5. \A x, y \in Nat : x + M <= y => 1 + r + x < 1 + r + y
      BY <3>4
    <3> QED
      BY <2>1, <3>2, <3>3, <3>5, Zenon
  <2>3. CASE j = count + 1
    <3>1. p[j] = 1 + r + (n + one)
      BY <2>3, <1>10, <1>11, Zenon
    <3>2. fr[i] < n \/ fin
      BY <2>1, <1>6, Zenon
    <3> QED
      BY <2>1, <3>1, <3>2, <1>1, <1>3
  <2> QED
    BY <2>2, <2>3, <1>6
<1>16. Cuts(d, s.next_seqno, hi, p)
  BY <1>5, <1>9, <1>11, <1>14, <1>15, Zenon DEF Cuts
<1> QED
  BY <1>16, Zenon DEF Chain, d, hi, one

-----------------------------------------------------------------------------
(* What a sender is, between any two calls.                                *)

\* The widest window that ack_received() acts on: one of zero counts as one.
Limit == IF MaxWin = 0 THEN 1 ELSE MaxWin

\* A sender that accepted the first w bytes of the stream.  Its numbers follow
\* from how much it took off the stream and which of the SYN and the FIN it sent;
\* what is outstanding lies end to end from acked_next to next_seqno; and what
\* is in flight and what may still be sent fit in one window together.
Good(s, w) ==
  /\ IsSender(s) /\ Timed(s) /\ s.isn = Isn
  /\ s.segments_out \in Seq(Segments)
  /\ Holds(s.stream, w)
  /\ s.syn_sent \in BOOLEAN /\ s.fin_sent \in BOOLEAN
  /\ s.acked_next \in Nat /\ s.next_seqno \in Nat /\ s.acked_next <= s.next_seqno
  /\ Chain(s.outstanding_buffer, s.acked_next, s.next_seqno)
  /\ s.bytes_in_flight = s.next_seqno - s.acked_next
  /\ s.bytes_in_flight + s.peer_window_size <= Limit
  /\ ~s.syn_sent => /\ s.next_seqno = 0 /\ s.peer_window_size = 1
                    /\ s.stream.total_bytes_read = 0 /\ ~s.fin_sent
  /\ s.syn_sent => s.next_seqno = 1 + s.stream.total_bytes_read
                                    + (IF s.fin_sent THEN 1 ELSE 0)
  /\ s.fin_sent => s.stream.total_bytes_read = Len(Stream)

\* From s to f, the positions that follow next_seqno were sent, within the
\* window, and nothing else was.
Advances(s, f) ==
  /\ f.acked_next = s.acked_next
  /\ s.next_seqno <= f.next_seqno
  /\ f.next_seqno + f.peer_window_size = s.next_seqno + s.peer_window_size
  /\ \E segs \in Seq(Segments) :
       /\ f.segments_out = s.segments_out \o segs
       /\ Chain(segs, s.next_seqno, f.next_seqno)

\* The ends of a chain are in order.
LEMMA ChainEnds ==
  ASSUME NEW o \in Seq(Segments), NEW lo, NEW hi, Chain(o, lo, hi)
  PROVE  /\ lo \in Nat /\ hi \in Nat /\ lo <= hi
         /\ o = << >> => lo = hi
<1>1. PICK p : Cuts(o, lo, hi, p)
  BY Zenon DEF Chain
<1> DEFINE n == Len(o)
<1>2. n \in Nat /\ (o = << >> => n = 0)
  OBVIOUS
<1>3. /\ p \in [1 .. n + 1 -> Nat] /\ p[1] = lo /\ p[n + 1] = hi
      /\ \A i, j \in 1 .. n + 1 : i < j => p[i] < p[j]
  BY <1>1, Zenon DEF Cuts
<1> HIDE DEF n
<1>4. 1 \in 1 .. n + 1 /\ n + 1 \in 1 .. n + 1
  BY <1>2
<1>5. lo \in Nat /\ hi \in Nat
  BY <1>3, <1>4, Zenon
<1>6. CASE n = 0
  BY <1>2, <1>3, <1>5, <1>6
<1>7. CASE n # 0
  BY <1>2, <1>3, <1>4, <1>5, <1>7
<1> QED
  BY <1>6, <1>7, Zenon

\* What the bookkeeping of fill_window() leaves.
LEMMA SendIs ==
  ASSUME NEW s, IsSender(s), s.segments_out \in Seq(Segments),
         NEW segs \in Seq(Segments), NEW len \in Nat, segs = << >> => len = 0
  PROVE  LET u == Send(s, segs, len) IN
         /\ u.segments_out = s.segments_out \o segs
         /\ u.outstanding_buffer = s.outstanding_buffer \o segs
         /\ u.next_seqno = s.next_seqno + len
         /\ u.bytes_in_flight = s.bytes_in_flight + len
         /\ u.peer_window_size = s.peer_window_size - Lesser(s.peer_window_size, len)
         /\ u.acked_next = s.acked_next
         /\ u.syn_sent = s.syn_sent /\ u.fin_sent = s.fin_sent
<1>1. CASE segs = << >>
  <2>1. Send(s, segs, len) = s /\ len = 0
    BY <1>1, Zenon DEF Send
  <2>2. /\ s.segments_out \o segs = s.segments_out
        /\ s.outstanding_buffer \o segs = s.outstanding_buffer
    BY <1>1 DEF IsSender
  <2>3. /\ s.next_seqno \in Int /\ s.bytes_in_flight \in Int
        /\ s.peer_window_size \in Nat
    BY Zenon DEF IsSender
  <2> QED
    BY <2>1, <2>2, <2>3 DEF Lesser
<1>2. CASE segs # << >>
  BY <1>2, Zenon DEF Send, IsSender, SenderFields
<1> QED
  BY <1>1, <1>2, Zenon

\* The SYN is position 0.
LEMMA SynCarries ==
  ASSUME NEW seg \in Segments, seg.seqno = wrap(0, Isn), seg.syn = TRUE,
         seg.fin = FALSE, seg.payload = << >>
  PROVE  Carries(seg, 0, 1) /\ length_in_sequence_space(seg) = 1
<1>1. Len(Stream) \in Nat /\ Len(<< >>) = 0
  BY StreamAssumption
<1>2. length_in_sequence_space(seg) = 1
  BY <1>1 DEF length_in_sequence_space
<1>3. Lesser(1 - 1, Len(Stream)) = 0
  BY <1>1 DEF Lesser
<1>4. SubSeq(Stream, 1, 0) = << >>
  OBVIOUS
<1>5. 1 # FinPosition + 1
  BY <1>1 DEF FinPosition
<1> QED
  BY <1>2, <1>3, <1>4, <1>5 DEF Carries

\* Sending the SYN, if it was not sent yet.
LEMMA SynGood ==
  ASSUME NEW s, NEW w, Good(s, w)
  PROVE  /\ Good(SendSyn(s), w) /\ SendSyn(s).syn_sent
         /\ Advances(s, SendSyn(s))
<1>0. /\ IsSender(s) /\ Timed(s) /\ s.isn = Isn /\ s.segments_out \in Seq(Segments)
      /\ s.outstanding_buffer \in Seq(Segments) /\ s.next_seqno \in Nat
      /\ s.peer_window_size \in Nat
  BY Zenon DEF Good, IsSender
<1>1. CASE s.syn_sent
  <2>1. SendSyn(s) = s
    BY <1>1, Zenon DEF SendSyn
  <2>2. << >> \in Seq(Segments) /\ s.segments_out \o << >> = s.segments_out
    BY <1>0
  <2>3. Chain(<< >>, s.next_seqno, s.next_seqno)
    BY <1>0, ChainEmpty, Zenon
  <2>4. \E segs \in Seq(Segments) :
          /\ s.segments_out = s.segments_out \o segs
          /\ Chain(segs, s.next_seqno, s.next_seqno)
    BY <2>2, <2>3, Zenon
  <2>5. s.next_seqno <= s.next_seqno
    BY <1>0
  <2>6. Advances(s, s)
    BY <2>4, <2>5, Zenon DEF Advances
  <2> QED
    BY <2>1, <2>6, <1>1, Zenon
<1>2. CASE ~s.syn_sent
  <2> DEFINE seg == SynSegment(s)
             one == <<seg>>
             u == Send(s, one, 1)
             a == SendSyn(s)
  <2>1. /\ s.next_seqno = 0 /\ s.peer_window_size = 1 /\ s.fin_sent = FALSE
        /\ s.stream.total_bytes_read = 0 /\ s.acked_next \in Nat /\ s.acked_next <= 0
        /\ Chain(s.outstanding_buffer, s.acked_next, 0)
        /\ s.bytes_in_flight = 0 - s.acked_next
        /\ s.bytes_in_flight + 1 <= Limit
        /\ Holds(s.stream, w)
    BY <1>2, Zenon DEF Good
  <2>2. /\ seg \in Segments /\ seg.seqno = wrap(0, Isn) /\ seg.syn = TRUE
        /\ seg.fin = FALSE /\ seg.payload = << >>
    <3>1. wrap(0, Isn) \in Raw
      BY WrapTypes, IsnAssumption
    <3>2. << >> \in Seq(Byte)
      OBVIOUS
    <3>3. ~(s.peer_window_size >= 2)
      BY <2>1
    <3>4. seg = [EmptySegment EXCEPT !.seqno = wrap(0, Isn), !.syn = TRUE,
                                     !.fin = FALSE]
      BY <2>1, <3>3, <1>0, Zenon DEF SynSegment
    <3> HIDE DEF seg
    <3> QED
      BY <3>1, <3>2, <3>4, Zenon DEF EmptySegment, Segments
  <2> HIDE DEF seg
  <2>3. Carries(seg, 0, 1) /\ length_in_sequence_space(seg) = 1
    BY <2>2, SynCarries, Zenon
  <2>4. one \in Seq(Segments) /\ one # << >>
    BY <2>2
  <2>5. Chain(one, 0, 1)
    BY <2>2, <2>3, ChainOne
  <2>6. a = [u EXCEPT !.syn_sent = TRUE, !.fin_sent = FALSE]
    BY <1>2, <2>2, <2>3, Zenon DEF SendSyn, seg
  <2> HIDE DEF one
  <2>7. IsSender(u) /\ Timed(u) /\ u.isn = Isn /\ u.stream = s.stream
    <3>1. IsSender(s) /\ Timed(s) /\ one \in Seq(Segments) /\ 1 \in Int
      BY <2>4, <1>0
    <3>2. /\ IsSender(u) /\ Timed(u)
          /\ u.stream = s.stream /\ u.isn = s.isn
      BY <3>1, SendTimed, Zenon
    <3> QED
      BY <3>2, <1>0, Zenon
  <2>8. /\ u.segments_out = s.segments_out \o one
        /\ u.outstanding_buffer = s.outstanding_buffer \o one
        /\ u.next_seqno = s.next_seqno + 1
        /\ u.bytes_in_flight = s.bytes_in_flight + 1
        /\ u.peer_window_size = s.peer_window_size - Lesser(s.peer_window_size, 1)
        /\ u.acked_next = s.acked_next
    <3>1. /\ IsSender(s) /\ s.segments_out \in Seq(Segments)
          /\ one \in Seq(Segments) /\ 1 \in Nat /\ (one = << >> => 1 = 0)
      BY <2>4, <1>0, Zenon
    <3> QED
      BY <3>1, SendIs, Zenon
  <2> HIDE DEF u, a
  <2>9. /\ a.segments_out = s.segments_out \o one
        /\ a.outstanding_buffer = s.outstanding_buffer \o one
        /\ a.next_seqno = 1 /\ a.bytes_in_flight = 0 - s.acked_next + 1
        /\ a.peer_window_size = 0 /\ a.acked_next = s.acked_next
        /\ a.syn_sent = TRUE /\ a.fin_sent = FALSE
        /\ a.stream = s.stream /\ a.isn = Isn
    <3>1. 1 - Lesser(1, 1) = 0
      BY DEF Lesser
    <3> QED
      BY <2>1, <2>6, <2>7, <2>8, <3>1 DEF IsSender, SenderFields
  <2>10. IsSender(a) /\ Timed(a)
    BY <2>6, <2>7, Zenon DEF IsSender, Timed, SenderFields
  <2>11. Chain(s.outstanding_buffer \o one, s.acked_next, 1)
    BY <2>1, <2>4, <2>5, <1>0, ChainJoin, Zenon
  <2>12. s.segments_out \o one \in Seq(Segments)
    BY <2>4, <1>0
  <2>13. Good(a, w)
    <3>1. Limit \in Nat
      BY BoundsAssumption, Zenon DEF Limit
    <3>2. /\ a.bytes_in_flight = a.next_seqno - a.acked_next
          /\ a.bytes_in_flight + a.peer_window_size <= Limit
          /\ a.acked_next <= a.next_seqno
      BY <2>1, <2>9, <3>1
    <3>3. a.next_seqno = 1 + a.stream.total_bytes_read + (IF a.fin_sent THEN 1 ELSE 0)
      BY <2>1, <2>9
    <3>4. /\ Chain(a.outstanding_buffer, a.acked_next, a.next_seqno)
          /\ a.segments_out \in Seq(Segments) /\ Holds(a.stream, w)
          /\ a.acked_next \in Nat /\ a.next_seqno \in Nat
      BY <2>1, <2>9, <2>11, <2>12
    <3> QED
      BY <2>9, <2>10, <3>2, <3>3, <3>4, Zenon DEF Good
  <2>14. Advances(s, a)
    <3>1. a.next_seqno + a.peer_window_size = s.next_seqno + s.peer_window_size
      BY <2>1, <2>9
    <3>2. \E segs \in Seq(Segments) :
            /\ a.segments_out = s.segments_out \o segs
            /\ Chain(segs, s.next_seqno, a.next_seqno)
      BY <2>1, <2>4, <2>5, <2>9, Zenon
    <3>3. a.acked_next = s.acked_next /\ s.next_seqno <= a.next_seqno
      BY <2>1, <2>9
    <3> QED
      BY <3>1, <3>2, <3>3, Zenon DEF Advances
  <2> QED
    BY <2>9, <2>13, <2>14, Zenon DEF a
<1> QED
  BY <1>1, <1>2, Zenon

\* The stream after its first n bytes were taken off.
LEMMA PopHolds ==
  ASSUME NEW b, IsStream(b), NEW w, Holds(b, w), NEW n \in Nat, n <= Len(b.buf)
  PROVE  /\ Holds(pop_output(b, n), w)
         /\ pop_output(b, n).total_bytes_read = b.total_bytes_read + n
<1> DEFINE r == b.total_bytes_read
           o == b.buf
           x == Suffix(o, n)
           c == pop_output(b, n)
<1>1. /\ o \in Seq(Byte) /\ Len(o) \in Nat /\ r \in Nat /\ w \in Nat
      /\ w <= Len(Stream) /\ r + Len(o) = w
      /\ \A j \in 1 .. Len(o) : o[j] = Stream[r + j]
      /\ b.is_end => w = Len(Stream)
  BY StreamOps, Zenon DEF Holds
<1>0. Len(o) \in Nat /\ r \in Nat /\ w \in Nat /\ r + Len(o) = w
  BY <1>1, Zenon
<1>2. /\ Len(x) = Len(o) - n /\ \A j \in 1 .. Len(o) - n : x[j] = o[n + j]
  <2>1. \A j \in n + 1 .. Len(o) : o[j] \in Byte
    BY <1>1
  <2>2. n + 1 \in Int /\ Len(o) \in Int
    BY <1>1
  <2>3. /\ Len(x) = (IF n + 1 <= Len(o) THEN Len(o) - (n + 1) + 1 ELSE 0)
        /\ \A j \in 1 .. Len(o) - (n + 1) + 1 : x[j] = o[(n + 1) + j - 1]
    <3> DEFINE y == SubSeq(o, n + 1, Len(o))
    <3>1. x = y
      BY Zenon DEF Suffix
    <3> HIDE DEF o, x
    <3>2. /\ Len(y) = (IF n + 1 <= Len(o) THEN Len(o) - (n + 1) + 1 ELSE 0)
          /\ \A j \in 1 .. Len(o) - (n + 1) + 1 : y[j] = o[(n + 1) + j - 1]
      BY <2>1, <2>2
    <3> HIDE DEF y
    <3> QED
      BY <3>1, <3>2, Zenon
  <2> HIDE DEF x, o
  <2>4. n <= Len(o)
    BY Zenon DEF o
  <2>5. /\ (IF n + 1 <= Len(o) THEN Len(o) - (n + 1) + 1 ELSE 0) = Len(o) - n
        /\ Len(o) - (n + 1) + 1 = Len(o) - n
    BY <2>4, <1>0
  <2>6. \A j \in 1 .. Len(o) - n : (n + 1) + j - 1 = n + j
    BY <1>0
  <2> QED
    BY <2>3, <2>5, <2>6, Zenon
<1>3. c.buf = x /\ c.total_bytes_read = r + n /\ c.is_end = b.is_end
  <2>1. Lesser(n, Len(b.buf)) = n
    BY <1>1, Zenon DEF Lesser
  <2>2. b \in ByteStreams(Byte, Cap)
    BY Zenon DEF IsStream
  <2> QED
    BY <2>1, <2>2, Zenon DEF pop_output, ByteStreams
<1> HIDE DEF c, x, o, r
<1>4. n <= Len(o)
  BY Zenon DEF o
<1>5. ASSUME NEW j \in 1 .. Len(x) PROVE x[j] = Stream[(r + n) + j]
  <2>1. x[j] = o[n + j] /\ n + j \in 1 .. Len(o) /\ r + (n + j) = (r + n) + j
    BY <1>1, <1>2, <1>4
  <2> QED
    BY <2>1, <1>1, Zenon
<1>6. (r + n) + Len(x) = w
  <2>1. Len(x) = Len(o) - n
    BY <1>2, Zenon
  <2> QED
    BY <2>1, <1>0
<1>7. Holds(c, w)
  BY <1>1, <1>3, <1>5, <1>6 DEF Holds
<1> QED
  BY <1>3, <1>7, Zenon DEF c, r

\* Sending what the stream holds and the window allows.
LEMMA DataGood ==
  ASSUME NEW s, NEW w, Good(s, w), s.syn_sent
  PROVE  Good(SendData(s), w) /\ Advances(s, SendData(s))
<1> DEFINE r == s.stream.total_bytes_read
           n == Lesser(Len(s.stream.buf), s.peer_window_size)
           fin == FinFits(s, n)
           one == IF fin THEN 1 ELSE 0
           d == DataSegments(s, n, fin)
           len == n + one
           u == Send(s, d, len)
           a == SendData(s)
<1>1. /\ IsSender(s) /\ Timed(s) /\ s.isn = Isn /\ s.segments_out \in Seq(Segments)
      /\ s.outstanding_buffer \in Seq(Segments) /\ s.next_seqno \in Nat
      /\ s.peer_window_size \in Nat /\ IsStream(s.stream) /\ Holds(s.stream, w)
      /\ s.acked_next \in Nat /\ s.acked_next <= s.next_seqno
      /\ Chain(s.outstanding_buffer, s.acked_next, s.next_seqno)
      /\ s.bytes_in_flight = s.next_seqno - s.acked_next
      /\ s.bytes_in_flight + s.peer_window_size <= Limit
      /\ s.next_seqno = 1 + r + (IF s.fin_sent THEN 1 ELSE 0)
      /\ s.fin_sent \in BOOLEAN /\ s.syn_sent = TRUE
      /\ s.fin_sent => r = Len(Stream)
  BY Zenon DEF Good, IsSender
<1>2. Len(s.stream.buf) \in Nat /\ s.stream.is_end \in BOOLEAN /\ Len(Stream) \in Nat
  BY <1>1, StreamOps, StreamAssumption, SMTT(30)
<1>3. n \in Nat /\ n <= Len(s.stream.buf) /\ n <= s.peer_window_size
  BY <1>1, <1>2 DEF Lesser
<1>4. /\ fin \in BOOLEAN
      /\ fin => /\ s.stream.is_end /\ n = Len(s.stream.buf) /\ ~s.fin_sent
                /\ n < s.peer_window_size
  BY <1>1, <1>2, Zenon DEF FinFits
<1> HIDE DEF n, fin
<1>5. one \in Nat /\ one <= 1 /\ (fin => one = 1) /\ (~fin => one = 0)
  BY <1>4
<1>6. len \in Nat /\ len <= s.peer_window_size
  BY <1>1, <1>3, <1>4, <1>5
<1>7. r \in Nat /\ w \in Nat /\ w <= Len(Stream) /\ r + Len(s.stream.buf) = w
      /\ (s.stream.is_end => w = Len(Stream))
  BY <1>1, Zenon DEF Holds
<1>8. d \in Seq(Segments)
  BY <1>1, <1>3, <1>4, DataSegmentsType, Zenon
<1>9. Chain(d, s.next_seqno, s.next_seqno + len)
  <2>1. CASE ~s.fin_sent
    <3>1. s.next_seqno = 1 + r
      BY <2>1, <1>1, <1>7
    <3> QED
      BY <3>1, <1>1, <1>3, <1>4, DataChain, Zenon
  <2>2. CASE s.fin_sent
    <3>1. n = 0 /\ ~fin
      BY <2>2, <1>1, <1>2, <1>3, <1>4, <1>7
    <3>2. len = 0
      BY <3>1, <1>5
    <3>3. d = << >>
      <4>1. (n + MAX_PAYLOAD_SIZE - 1) \div MAX_PAYLOAD_SIZE = 0
        BY <3>1, PayloadAssumption
      <4>2. DOMAIN d = 1 .. 0
        BY <3>1, <4>1, Zenon DEF DataSegments
      <4>3. Len(d) = 0
        BY <4>2, <1>8
      <4> QED
        BY <4>3, <1>8
    <3> HIDE DEF d, len
    <3> QED
      BY <3>2, <3>3, <1>1, ChainEmpty
  <2> QED
    BY <2>1, <2>2, <1>1, Zenon
<1> HIDE DEF d, len
<1>10. d = << >> => len = 0
  <2>1. d = << >> => s.next_seqno = s.next_seqno + len
    BY <1>8, <1>9, ChainEnds, Zenon
  <2> QED
    BY <2>1, <1>1, <1>6
<1>11. IsSender(u) /\ Timed(u) /\ u.isn = Isn /\ u.stream = s.stream
  <2>1. IsSender(s) /\ Timed(s) /\ d \in Seq(Segments) /\ len \in Int
    BY <1>1, <1>6, <1>8
  <2>2. /\ IsSender(u) /\ Timed(u)
        /\ u.stream = s.stream /\ u.isn = s.isn
    BY <2>1, SendTimed, Zenon
  <2> QED
    BY <2>2, <1>1, Zenon
<1>12. /\ u.segments_out = s.segments_out \o d
       /\ u.outstanding_buffer = s.outstanding_buffer \o d
       /\ u.next_seqno = s.next_seqno + len
       /\ u.bytes_in_flight = s.bytes_in_flight + len
       /\ u.peer_window_size = s.peer_window_size - Lesser(s.peer_window_size, len)
       /\ u.acked_next = s.acked_next
       /\ u.syn_sent = s.syn_sent /\ u.fin_sent = s.fin_sent
  BY <1>1, <1>6, <1>8, <1>10, SendIs, Zenon
<1>13. a = [u EXCEPT !.stream = pop_output(@, n), !.fin_sent = @ \/ fin]
  BY Zenon DEF SendData, n, fin, d, len
<1>14. /\ Holds(pop_output(s.stream, n), w)
       /\ pop_output(s.stream, n).total_bytes_read = r + n
       /\ IsStream(pop_output(s.stream, n))
  BY <1>1, <1>3, PopHolds, StreamOps, Zenon
<1> HIDE DEF u, a, r, one
<1>15. /\ a.segments_out = s.segments_out \o d
       /\ a.outstanding_buffer = s.outstanding_buffer \o d
       /\ a.next_seqno = s.next_seqno + len
       /\ a.bytes_in_flight = s.bytes_in_flight + len
       /\ a.peer_window_size = s.peer_window_size - Lesser(s.peer_window_size, len)
       /\ a.acked_next = s.acked_next /\ a.isn = Isn
       /\ a.syn_sent = TRUE /\ a.fin_sent = (s.fin_sent \/ fin)
       /\ a.stream = pop_output(s.stream, n)
  BY <1>1, <1>11, <1>12, <1>13, Zenon DEF IsSender, SenderFields
<1>16. IsSender(a) /\ Timed(a)
  BY <1>11, <1>13, <1>14, Zenon DEF IsSender, Timed, SenderFields
<1>17. Chain(s.outstanding_buffer \o d, s.acked_next, s.next_seqno + len)
  BY <1>1, <1>8, <1>9, ChainJoin, Zenon
<1>18. s.segments_out \o d \in Seq(Segments)
  <2>1. \A t \in Seq(Segments), v \in Seq(Segments) : t \o v \in Seq(Segments)
    OBVIOUS
  <2> QED
    BY <2>1, <1>1, <1>8, Zenon
<1>19. a.peer_window_size = s.peer_window_size - len
  BY <1>1, <1>6, <1>15 DEF Lesser
<1>20. Limit \in Nat
  BY BoundsAssumption, Zenon DEF Limit
<1>21. /\ a.acked_next \in Nat /\ a.next_seqno \in Nat /\ a.acked_next <= a.next_seqno
       /\ a.bytes_in_flight = a.next_seqno - a.acked_next
       /\ a.bytes_in_flight + a.peer_window_size <= Limit
       /\ a.next_seqno + a.peer_window_size = s.next_seqno + s.peer_window_size
       /\ s.next_seqno <= a.next_seqno
  <2>1. /\ s.next_seqno \in Nat /\ s.peer_window_size \in Nat
        /\ s.acked_next \in Nat /\ s.acked_next <= s.next_seqno
        /\ s.bytes_in_flight = s.next_seqno - s.acked_next
        /\ s.bytes_in_flight + s.peer_window_size <= Limit
    BY <1>1, Zenon
  <2>2. /\ a.next_seqno = s.next_seqno + len
        /\ a.bytes_in_flight = s.bytes_in_flight + len
        /\ a.acked_next = s.acked_next
    BY <1>15, Zenon
  <2> QED
    BY <2>1, <2>2, <1>6, <1>19, <1>20
<1>22. a.next_seqno = 1 + (r + n) + (IF a.fin_sent THEN 1 ELSE 0)
  <2>1. len = n + one
    BY Zenon DEF len, one
  <2>2. CASE s.fin_sent
    <3>1. ~fin /\ one = 0 /\ a.fin_sent = TRUE
      BY <2>2, <1>4, <1>5, <1>15, Zenon
    <3> QED
      BY <2>1, <2>2, <3>1, <1>1, <1>3, <1>7, <1>15
  <2>3. CASE ~s.fin_sent
    <3>1. a.fin_sent = fin
      BY <2>3, <1>1, <1>4, <1>15, Zenon
    <3>2. (IF a.fin_sent THEN 1 ELSE 0) = one
      BY <3>1, Zenon DEF one
    <3>3. s.next_seqno = 1 + r
      BY <2>3, <1>1, <1>7
    <3> QED
      BY <2>1, <3>2, <3>3, <1>3, <1>5, <1>7, <1>15
  <2> QED
    BY <2>2, <2>3, <1>1, Zenon
<1>23. a.fin_sent => r + n = Len(Stream)
  <2>1. CASE fin
    BY <2>1, <1>4, <1>7, Zenon
  <2>2. CASE s.fin_sent
    <3>1. n = 0
      BY <2>2, <1>1, <1>2, <1>3, <1>7
    <3> QED
      BY <2>2, <3>1, <1>1, <1>7
  <2> QED
    BY <2>1, <2>2, <1>15, Zenon
<1>24. a.fin_sent \in BOOLEAN
  BY <1>1, <1>4, <1>15, Zenon
<1>25. Good(a, w)
  BY <1>14, <1>15, <1>16, <1>17, <1>18, <1>21, <1>22, <1>23, <1>24, Zenon DEF Good
<1>26. Advances(s, a)
  BY <1>8, <1>9, <1>15, <1>21, Zenon DEF Advances
<1> QED
  BY <1>25, <1>26, Zenon DEF a

\* One stretch after another is one stretch.
LEMMA AdvancesOn ==
  ASSUME NEW s, NEW w, Good(s, w), NEW a, Good(a, w), NEW f, Good(f, w),
         Advances(s, a), Advances(a, f)
  PROVE  Advances(s, f)
<1>1. PICK x \in Seq(Segments) :
        a.segments_out = s.segments_out \o x /\ Chain(x, s.next_seqno, a.next_seqno)
  BY Zenon DEF Advances
<1>2. PICK y \in Seq(Segments) :
        f.segments_out = a.segments_out \o y /\ Chain(y, a.next_seqno, f.next_seqno)
  BY Zenon DEF Advances
<1>3. x \o y \in Seq(Segments) /\ s.segments_out \in Seq(Segments)
  <2>1. x \o y \in Seq(Segments)
    OBVIOUS
  <2> QED
    BY <2>1, Zenon DEF Good
<1>4. Chain(x \o y, s.next_seqno, f.next_seqno)
  BY <1>1, <1>2, ChainJoin, Zenon
<1>5. f.segments_out = s.segments_out \o (x \o y)
  <2>1. (s.segments_out \o x) \o y = s.segments_out \o (x \o y)
    <3>1. /\ x \in Seq(Segments) /\ y \in Seq(Segments)
          /\ s.segments_out \in Seq(Segments)
      BY <1>1, <1>2, <1>3, Zenon
    <3>2. \A t \in Seq(Segments) : (t \o x) \o y = t \o (x \o y)
      BY <3>1, SMT
    <3> QED
      BY <3>1, <3>2, Zenon
  <2> QED
    BY <2>1, <1>1, <1>2, Zenon
<1>6. \E segs \in Seq(Segments) :
        /\ f.segments_out = s.segments_out \o segs
        /\ Chain(segs, s.next_seqno, f.next_seqno)
  BY <1>3, <1>4, <1>5, Zenon
<1>7. /\ s.next_seqno \in Nat /\ a.next_seqno \in Nat /\ f.next_seqno \in Nat
      /\ s.next_seqno <= a.next_seqno /\ a.next_seqno <= f.next_seqno
      /\ a.next_seqno + a.peer_window_size = s.next_seqno + s.peer_window_size
      /\ f.next_seqno + f.peer_window_size = a.next_seqno + a.peer_window_size
      /\ a.acked_next = s.acked_next /\ f.acked_next = a.acked_next
  BY Zenon DEF Advances, Good
<1>8. /\ s.next_seqno <= f.next_seqno /\ f.acked_next = s.acked_next
      /\ f.next_seqno + f.peer_window_size = s.next_seqno + s.peer_window_size
  BY <1>7
<1> QED
  BY <1>6, <1>8, Zenon DEF Advances

\* fill_window() sends the positions that follow, within the window.
LEMMA FillGood ==
  ASSUME NEW s, NEW w, Good(s, w)
  PROVE  Good(fill_window(s), w) /\ Advances(s, fill_window(s))
<1> DEFINE a == SendSyn(s)
           f == SendData(a)
<1>1. Good(a, w) /\ a.syn_sent /\ Advances(s, a)
  BY SynGood, Zenon
<1> HIDE DEF a
<1>2. Good(f, w) /\ Advances(a, f)
  BY <1>1, DataGood, Zenon
<1> HIDE DEF f
<1>3. Advances(s, f)
  BY <1>1, <1>2, AdvancesOn, Zenon
<1>4. fill_window(s) = f
  BY Zenon DEF fill_window, f, a
<1> QED
  BY <1>2, <1>3, <1>4, Zenon

-----------------------------------------------------------------------------
(* ack_received.                                                           *)

\* What may be in flight is less than half a turn of the numbers.
LEMMA LimitSmall == Limit \in Nat /\ Limit >= 1 /\ Limit < N \div 2 /\ N \div 2 \in Nat
<1>1. N \div 2 \in Nat
  BY Half, Zenon
<1> DEFINE h == N \div 2
<1>2. h \in Nat /\ 2 * MaxWin + 1 < h /\ MaxWin \in Nat
  BY <1>1, BoundsAssumption, Zenon
<1> HIDE DEF h
<1>3. Limit \in Nat /\ Limit >= 1 /\ Limit < h
  BY <1>2 DEF Limit
<1> QED
  BY <1>2, <1>3, Zenon DEF h

\* The sender decodes the position of each outstanding segment from its seqno.
LEMMA PositionIs ==
  ASSUME NEW s, NEW w, Good(s, w), NEW p,
         Cuts(s.outstanding_buffer, s.acked_next, s.next_seqno, p),
         NEW i \in 1 .. Len(s.outstanding_buffer)
  PROVE  /\ p[i] \in Nat /\ p[i + 1] \in Nat
         /\ s.acked_next <= p[i] /\ p[i] < p[i + 1] /\ p[i + 1] <= s.next_seqno
         /\ Position(s, s.outstanding_buffer[i]) = p[i]
         /\ length_in_sequence_space(s.outstanding_buffer[i]) = p[i + 1] - p[i]
         /\ Carries(s.outstanding_buffer[i], p[i], p[i + 1])
<1> DEFINE o == s.outstanding_buffer
           n == Len(o)
           seg == o[i]
           x == p[i]
           y == p[i + 1]
           lo == s.acked_next
           hi == s.next_seqno
<1>1. n \in Nat
  BY DEF Good, IsSender
<1>2. /\ p \in [1 .. n + 1 -> Nat] /\ p[1] = lo /\ p[n + 1] = hi
      /\ \A j, k \in 1 .. n + 1 : j < k => p[j] < p[k]
      /\ Carries(seg, x, y)
  BY Zenon DEF Cuts
<1>3. /\ i \in 1 .. n + 1 /\ i + 1 \in 1 .. n + 1 /\ 1 \in 1 .. n + 1
      /\ n + 1 \in 1 .. n + 1 /\ i < i + 1
      /\ (i = 1 \/ 1 < i) /\ (i + 1 = n + 1 \/ i + 1 < n + 1)
  BY <1>1
<1>4. x \in Nat /\ y \in Nat /\ x < y /\ (x = lo \/ lo < x) /\ (y = hi \/ y < hi)
  <2> HIDE DEF n, lo, hi, seg
  <2> QED
    BY <1>2, <1>3, Zenon
<1>5. /\ lo \in Nat /\ hi \in Nat /\ hi - lo <= Limit /\ s.isn = Isn
  <2>1. /\ lo \in Nat /\ hi \in Nat /\ s.bytes_in_flight = hi - lo /\ s.isn = Isn
        /\ s.bytes_in_flight + s.peer_window_size <= Limit
        /\ s.peer_window_size \in Nat
    BY Zenon DEF Good, IsSender
  <2> QED
    BY <2>1, LimitSmall
<1>6. seg.seqno = wrap(x, Isn) /\ length_in_sequence_space(seg) = y - x
  BY <1>2, Zenon DEF Carries
<1> HIDE DEF n, seg, x, y, lo, hi
<1>7. lo <= x /\ y <= hi /\ x - lo < N \div 2 /\ lo - x < N \div 2
  BY <1>4, <1>5, LimitSmall
<1>8. unwrap(wrap(x, Isn), Isn, lo) = x
  BY <1>4, <1>5, <1>7, IsnAssumption, UnwrapInverts, Zenon
<1>9. Position(s, seg) = x
  BY <1>5, <1>6, <1>8, Zenon DEF Position, lo
<1> QED
  BY <1>2, <1>4, <1>6, <1>7, <1>9, Zenon DEF seg, x, y, lo, hi

\* What the loop of ack_received() leaves is what follows some position that is
\* not beyond the acknowledgment.
Removed(r, s, a) ==
  /\ IsSender(r) /\ r.isn = Isn
  /\ r.segments_out = s.segments_out /\ r.stream = s.stream /\ r.timer = s.timer
  /\ r.syn_sent = s.syn_sent /\ r.fin_sent = s.fin_sent
  /\ r.next_seqno = s.next_seqno
  /\ Chain(r.outstanding_buffer, r.acked_next, s.next_seqno)
  /\ r.bytes_in_flight = s.next_seqno - r.acked_next
  /\ s.acked_next <= r.acked_next
  /\ r.acked_next = s.acked_next \/ r.acked_next <= a
  /\ r.outstanding_buffer # << >> => s.outstanding_buffer # << >>

\* The loop pops whole segments that are acknowledged, from the front.
LEMMA RemoveIs ==
  ASSUME NEW s, NEW w, Good(s, w), NEW a \in Nat
  PROVE  Removed(RemoveAcked(s, a), s, a)
<1> DEFINE o    == s.outstanding_buffer
           n    == Len(o)
           open == {i \in 1 .. n : ~FullyAcked(s, o[i], a)}
           k    == AckedCount(s, a)
           freed == IF k = 0 THEN 0
                    ELSE Position(s, o[k]) + length_in_sequence_space(o[k])
                           - s.acked_next
           r    == RemoveAcked(s, a)
<1>1. /\ IsSender(s) /\ s.isn = Isn /\ o \in Seq(Segments)
      /\ s.acked_next \in Nat /\ s.next_seqno \in Nat
      /\ s.bytes_in_flight = s.next_seqno - s.acked_next
  BY Zenon DEF Good, IsSender
<1>2. n \in Nat /\ k \in 0 .. n
  BY <1>1, AckedCountType
<1>3. PICK p : Cuts(o, s.acked_next, s.next_seqno, p)
  BY Zenon DEF Good, Chain
<1>4. k # 0 => FullyAcked(s, o[k], a)
  <2>1. k = IF open = {} THEN n ELSE (CHOOSE i \in open : \A j \in open : i <= j) - 1
    BY Zenon DEF AckedCount
  <2>2. CASE open = {}
    <3>1. k # 0 => k \in 1 .. n
      BY <2>1, <2>2, <1>2
    <3> HIDE DEF k
    <3> QED
      BY <2>2, <3>1, Zenon
  <2>3. CASE open # {}
    <3> DEFINE m == CHOOSE i \in open : \A j \in open : i <= j
    <3>1. open \in SUBSET Nat
      BY <1>2
    <3>2. \E i \in open : \A j \in open : i <= j
      <4> HIDE DEF open
      <4> QED
        BY <2>3, <3>1, LeastOfSet, Zenon
    <3>3. m \in open /\ \A j \in open : m <= j
      <4> HIDE DEF open
      <4> QED
        BY <3>2, Zenon
    <3>4. k = m - 1
      BY <2>1, <2>3, Zenon
    <3> HIDE DEF m, k
    <3>5. m \in 1 .. n
      BY <3>3, Zenon
    <3>6. ~(k \in open)
      <4>1. ~(m <= k)
        BY <3>4, <3>5, <1>2
      <4> HIDE DEF open
      <4> QED
        BY <4>1, <3>3, Zenon
    <3>7. k # 0 => k \in 1 .. n
      BY <3>4, <3>5, <1>2
    <3> QED
      BY <3>6, <3>7, Zenon
  <2> QED
    BY <2>2, <2>3, Zenon
<1>5. k # 0 => k \in 1 .. n
  BY <1>2
<1>6. p[1] = s.acked_next
  BY <1>3, Zenon DEF Cuts
<1> HIDE DEF k
<1>7. /\ freed \in Int /\ p[k + 1] = s.acked_next + freed
      /\ freed >= 0 /\ (freed = 0 \/ p[k + 1] <= a)
  <2>1. CASE k = 0
    BY <2>1, <1>1, <1>6
  <2>2. CASE k # 0
    <3> DEFINE x == p[k]
               y == p[k + 1]
               q == Position(s, o[k])
               l == length_in_sequence_space(o[k])
               lo == s.acked_next
    <3>1. x \in Nat /\ y \in Nat /\ lo <= x /\ x < y /\ q = x /\ l = y - x
      BY <2>2, <1>3, <1>5, PositionIs, Zenon
    <3>2. freed = q + l - lo
      BY <2>2, Zenon
    <3>3. a > q /\ a - q >= l
      BY <2>2, <1>4, Zenon DEF FullyAcked
    <3>4. lo \in Nat
      BY <1>1, Zenon
    <3> HIDE DEF x, y, q, l, lo, freed
    <3>5. freed \in Int /\ y = lo + freed /\ freed >= 0 /\ y <= a
      BY <3>1, <3>2, <3>3, <3>4
    <3> QED
      BY <3>5, Zenon DEF y, lo
  <2> QED
    BY <2>1, <2>2, Zenon
<1> HIDE DEF freed
<1>8. r = [s EXCEPT !.outstanding_buffer = Suffix(@, k),
                    !.bytes_in_flight = @ - freed,
                    !.acked_next = @ + freed]
  BY Zenon DEF RemoveAcked, k, freed
<1>9. Chain(Suffix(o, k), s.acked_next + freed, s.next_seqno)
  <2>1. Chain(Suffix(o, k), p[k + 1], s.next_seqno)
    BY <1>1, <1>2, <1>3, ChainDrop, Zenon
  <2> QED
    BY <2>1, <1>7, Zenon
<1>10. IsSender(r) /\ r.isn = Isn
  BY <1>1, RemoveType, Zenon
<1> HIDE DEF r
<1>11. /\ r.segments_out = s.segments_out /\ r.stream = s.stream /\ r.timer = s.timer
       /\ r.syn_sent = s.syn_sent /\ r.fin_sent = s.fin_sent
       /\ r.next_seqno = s.next_seqno /\ r.acked_next = s.acked_next + freed
       /\ r.bytes_in_flight = s.bytes_in_flight - freed
       /\ r.outstanding_buffer = Suffix(o, k)
  BY <1>1, <1>8, Zenon DEF IsSender, SenderFields
<1>12. r.outstanding_buffer # << >> => o # << >>
  <2> SUFFICES ASSUME o = << >> PROVE r.outstanding_buffer = << >>
    BY Zenon
  <2>1. n = 0
    OBVIOUS
  <2>2. k = 0
    BY <2>1, <1>2
  <2>3. Suffix(o, k) = SubSeq(o, 1, 0)
    BY <2>1, <2>2 DEF Suffix
  <2> QED
    BY <2>3, <1>11
<1>13. /\ r.bytes_in_flight = s.next_seqno - r.acked_next
       /\ s.acked_next <= r.acked_next
       /\ r.acked_next = s.acked_next \/ r.acked_next <= a
  BY <1>1, <1>7, <1>11
<1>14. Chain(r.outstanding_buffer, r.acked_next, s.next_seqno)
  BY <1>9, <1>11, Zenon
<1>15. Removed(r, s, a)
  BY <1>10, <1>11, <1>12, <1>13, <1>14, Zenon DEF Removed
<1> QED
  BY <1>15, Zenon DEF r

\* What an acknowledgment of the positions before a does: acked_next does not go
\* back nor beyond a, what is sent follows next_seqno, and the window is the
\* one advertised, counted from acked_next, unless it is already overrun.
Answered(t, s, w, a, win) ==
  /\ Good(t, w)
  /\ s.acked_next <= t.acked_next
  /\ t.acked_next = s.acked_next \/ t.acked_next <= a
  /\ s.next_seqno <= t.next_seqno
  /\ \/ t.next_seqno + t.peer_window_size <= t.acked_next + Usable(win)
     \/ t.next_seqno + t.peer_window_size = s.next_seqno
  /\ \E segs \in Seq(Segments) :
       /\ t.segments_out = s.segments_out \o segs
       /\ Chain(segs, s.next_seqno, t.next_seqno)

\* Remembering the window that was received.
LEMMA HeardGood ==
  ASSUME NEW s, NEW w, Good(s, w), NEW win
  PROVE  LET h == [s EXCEPT !.received_window_size = win] IN
         /\ Good(h, w)
         /\ h.acked_next = s.acked_next /\ h.next_seqno = s.next_seqno
         /\ h.isn = s.isn /\ h.outstanding_buffer = s.outstanding_buffer
         /\ h.segments_out = s.segments_out /\ h.syn_sent = s.syn_sent
<1> DEFINE h == [s EXCEPT !.received_window_size = win]
<1>1. DOMAIN s = SenderFields
  BY Zenon DEF Good, IsSender
<1>2. /\ DOMAIN h = SenderFields
      /\ h.isn = s.isn /\ h.segments_out = s.segments_out /\ h.stream = s.stream
      /\ h.next_seqno = s.next_seqno /\ h.acked_next = s.acked_next
      /\ h.timer = s.timer /\ h.outstanding_buffer = s.outstanding_buffer
      /\ h.peer_window_size = s.peer_window_size /\ h.syn_sent = s.syn_sent
      /\ h.fin_sent = s.fin_sent /\ h.bytes_in_flight = s.bytes_in_flight
  BY <1>1, Zenon DEF SenderFields
<1> HIDE DEF h
<1>3. Good(h, w)
  BY <1>2, Zenon DEF Good, IsSender, Timed
<1> QED
  BY <1>2, <1>3, Zenon DEF h

\* An acknowledgment of something that was sent, with any window.
LEMMA AckGood ==
  ASSUME NEW s, NEW w, Good(s, w), s.syn_sent, NEW a \in Nat, a <= s.next_seqno,
         s.acked_next - a < N \div 2, NEW win \in 0 .. MaxWin
  PROVE  Answered(ack_received(s, wrap(a, Isn), win), s, w, a, win)
<1> DEFINE heard == [s EXCEPT !.received_window_size = win]
           abs == unwrap(wrap(a, Isn), s.isn, s.acked_next)
           r == RemoveAcked(heard, abs)
           pw == IF Usable(win) > r.bytes_in_flight
                 THEN Usable(win) - r.bytes_in_flight ELSE 0
           opened == [r EXCEPT !.peer_window_size = pw]
           new == NewData(s, abs)
           u == AdjustTimer(opened, new)
           t == fill_window(u)
<1>1. /\ Good(heard, w) /\ heard.acked_next = s.acked_next
      /\ heard.next_seqno = s.next_seqno /\ heard.segments_out = s.segments_out
      /\ heard.syn_sent = s.syn_sent
  BY HeardGood, Zenon
<1>2. /\ s.acked_next \in Nat /\ s.next_seqno \in Nat /\ s.isn = Isn
      /\ s.next_seqno - s.acked_next <= Limit
  <2>1. /\ s.acked_next \in Nat /\ s.next_seqno \in Nat /\ s.isn = Isn
        /\ s.bytes_in_flight = s.next_seqno - s.acked_next
        /\ s.bytes_in_flight + s.peer_window_size <= Limit
        /\ s.peer_window_size \in Nat
    BY Zenon DEF Good, IsSender
  <2> QED
    BY <2>1, LimitSmall
<1>3. abs = a
  <2>1. a - s.acked_next < N \div 2
    BY <1>2, LimitSmall
  <2> QED
    BY <2>1, <1>2, IsnAssumption, UnwrapInverts, Zenon
<1>4. ack_received(s, wrap(a, Isn), win) = t
  <2>1. ~(abs > s.next_seqno)
    BY <1>2, <1>3
  <2>2. opened = OpenWindow(r, win)
    BY Zenon DEF OpenWindow
  <2> HIDE DEF heard, abs, opened, new
  <2>3. ack_received(s, wrap(a, Isn), win)
          = IF abs > s.next_seqno THEN heard ELSE fill_window(AdjustTimer(opened, new))
    BY <2>2, Zenon DEF ack_received, heard, abs, new
  <2> QED
    BY <2>1, <2>3, Zenon
<1> HIDE DEF heard, abs, new
<1>5. Removed(r, heard, a)
  BY <1>1, <1>3, RemoveIs, Zenon
<1> HIDE DEF r
<1>6. /\ IsSender(r) /\ r.isn = Isn
      /\ r.segments_out = s.segments_out /\ r.stream = heard.stream
      /\ r.syn_sent = TRUE /\ r.fin_sent = heard.fin_sent
      /\ r.next_seqno = s.next_seqno
      /\ Chain(r.outstanding_buffer, r.acked_next, s.next_seqno)
      /\ r.bytes_in_flight = s.next_seqno - r.acked_next
      /\ s.acked_next <= r.acked_next
      /\ r.acked_next = s.acked_next \/ r.acked_next <= a
  <2>1. heard.syn_sent = TRUE
    BY <1>1, Zenon DEF Good
  <2> QED
    BY <2>1, <1>1, <1>5, Zenon DEF Removed
<1>7. r.outstanding_buffer # << >> => r.timer.running
  BY <1>1, <1>5, Zenon DEF Removed, Good, Timed
<1>8. r.acked_next \in Nat /\ r.acked_next <= s.next_seqno
  <2>1. r.outstanding_buffer \in Seq(Segments)
    BY <1>6, Zenon DEF IsSender
  <2> QED
    BY <2>1, <1>6, ChainEnds, Zenon
<1>9. /\ Usable(win) \in Nat /\ Usable(win) <= Limit
  BY BoundsAssumption DEF Usable, Limit
<1>10. /\ pw \in Nat
       /\ r.bytes_in_flight + pw <= Limit
       /\ s.next_seqno + pw <= r.acked_next + Usable(win) \/ pw = 0
  <2> DEFINE v == Usable(win)
             b == r.bytes_in_flight
             x == r.acked_next
             y == s.next_seqno
  <2>1. /\ v \in Nat /\ v <= Limit /\ b = y - x /\ x \in Nat /\ y \in Nat /\ x <= y
        /\ y - s.acked_next <= Limit /\ s.acked_next \in Nat /\ s.acked_next <= x
    BY <1>2, <1>6, <1>8, <1>9, Zenon
  <2> HIDE DEF v, b, x, y
  <2>2. b \in Nat /\ b <= Limit /\ Limit \in Nat
    BY <2>1, LimitSmall
  <2> DEFINE q == IF v > b THEN v - b ELSE 0
  <2>3. q \in Nat /\ b + q <= Limit /\ (y + q <= x + v \/ q = 0)
    BY <2>1, <2>2
  <2>4. pw = q
    BY Zenon DEF v, b
  <2> HIDE DEF q, pw
  <2> QED
    BY <2>3, <2>4, Zenon DEF v, b, x, y
<1> HIDE DEF pw
<1>11. /\ DOMAIN opened = SenderFields /\ IsSender(opened) /\ opened.isn = Isn
       /\ opened.segments_out = s.segments_out /\ opened.stream = heard.stream
       /\ opened.syn_sent = TRUE /\ opened.fin_sent = heard.fin_sent
       /\ opened.next_seqno = s.next_seqno /\ opened.acked_next = r.acked_next
       /\ opened.outstanding_buffer = r.outstanding_buffer
       /\ opened.bytes_in_flight = r.bytes_in_flight
       /\ opened.peer_window_size = pw /\ opened.timer = r.timer
  BY <1>6, <1>10, Zenon DEF IsSender, SenderFields
<1> HIDE DEF opened
<1>12. IsSender(u) /\ Timed(u) /\ u.isn = Isn
  <2>1. opened.outstanding_buffer # << >> => opened.timer.running
    BY <1>7, <1>11, Zenon
  <2> QED
    BY <2>1, <1>11, AdjustTimed, Zenon
<1>13. /\ u.segments_out = s.segments_out /\ u.stream = heard.stream
       /\ u.syn_sent = TRUE /\ u.fin_sent = heard.fin_sent
       /\ u.next_seqno = s.next_seqno /\ u.acked_next = r.acked_next
       /\ u.outstanding_buffer = r.outstanding_buffer
       /\ u.bytes_in_flight = r.bytes_in_flight
       /\ u.peer_window_size = pw
  BY <1>11, Zenon DEF AdjustTimer, SenderFields
<1> HIDE DEF u
<1>14. Good(u, w)
  <2>1. /\ heard.fin_sent \in BOOLEAN /\ Holds(heard.stream, w)
        /\ s.next_seqno = 1 + heard.stream.total_bytes_read
                            + (IF heard.fin_sent THEN 1 ELSE 0)
        /\ heard.fin_sent => heard.stream.total_bytes_read = Len(Stream)
        /\ s.segments_out \in Seq(Segments)
    BY <1>1, Zenon DEF Good
  <2>2. /\ u.acked_next \in Nat /\ u.next_seqno \in Nat /\ u.acked_next <= u.next_seqno
        /\ Chain(u.outstanding_buffer, u.acked_next, u.next_seqno)
        /\ u.bytes_in_flight = u.next_seqno - u.acked_next
        /\ u.bytes_in_flight + u.peer_window_size <= Limit
    BY <1>2, <1>6, <1>8, <1>10, <1>13, Zenon
  <2>3. u.next_seqno = 1 + u.stream.total_bytes_read + (IF u.fin_sent THEN 1 ELSE 0)
    BY <2>1, <1>13, Zenon
  <2> QED
    BY <2>1, <2>2, <2>3, <1>12, <1>13, Zenon DEF Good
<1>15. Good(t, w) /\ Advances(u, t)
  BY <1>14, FillGood, Zenon
<1> HIDE DEF t
<1>16. /\ t.acked_next = r.acked_next /\ s.next_seqno <= t.next_seqno
       /\ t.next_seqno + t.peer_window_size = s.next_seqno + pw
       /\ \E segs \in Seq(Segments) :
            /\ t.segments_out = s.segments_out \o segs
            /\ Chain(segs, s.next_seqno, t.next_seqno)
  BY <1>13, <1>15, Zenon DEF Advances
<1>17. \/ t.next_seqno + t.peer_window_size <= t.acked_next + Usable(win)
       \/ t.next_seqno + t.peer_window_size = s.next_seqno
  <2>1. CASE pw = 0
    BY <2>1, <1>2, <1>16
  <2>2. CASE s.next_seqno + pw <= r.acked_next + Usable(win)
    BY <2>2, <1>16, Zenon
  <2> QED
    BY <2>1, <2>2, <1>10, Zenon
<1>18. /\ s.acked_next <= t.acked_next
       /\ t.acked_next = s.acked_next \/ t.acked_next <= a
  BY <1>6, <1>16, Zenon
<1>19. Answered(t, s, w, a, win)
  BY <1>15, <1>16, <1>17, <1>18, Zenon DEF Answered
<1> QED
  BY <1>4, <1>19, Zenon

-----------------------------------------------------------------------------
(* The other calls, and the queue.                                         *)

\* The application's calls change the stream only.
LEMMA StreamGood ==
  ASSUME NEW s, NEW w, Good(s, w), NEW b, IsStream(b), NEW v, Holds(b, v),
         b.total_bytes_read = s.stream.total_bytes_read
  PROVE  LET t == [s EXCEPT !.stream = b] IN
         /\ Good(t, v) /\ t.segments_out = s.segments_out
         /\ t.acked_next = s.acked_next /\ t.next_seqno = s.next_seqno
         /\ t.peer_window_size = s.peer_window_size
<1> DEFINE t == [s EXCEPT !.stream = b]
<1>1. IsSender(s) /\ Timed(s)
  BY Zenon DEF Good
<1>2. IsSender(t) /\ Timed(t) /\ t.isn = s.isn
  BY <1>1, StreamInv, Zenon
<1>3. DOMAIN s = SenderFields
  BY <1>1, Zenon DEF IsSender
<1>4. /\ t.segments_out = s.segments_out /\ t.stream = b
      /\ t.next_seqno = s.next_seqno /\ t.acked_next = s.acked_next
      /\ t.outstanding_buffer = s.outstanding_buffer
      /\ t.peer_window_size = s.peer_window_size /\ t.syn_sent = s.syn_sent
      /\ t.fin_sent = s.fin_sent /\ t.bytes_in_flight = s.bytes_in_flight
  BY <1>3, Zenon DEF SenderFields
<1> HIDE DEF t
<1>5. Good(t, v)
  BY <1>2, <1>4, Zenon DEF Good
<1> QED
  BY <1>4, <1>5, Zenon DEF t

\* The bytes that the application offers next.
LEMMA NextBytes ==
  ASSUME NEW w \in Nat, NEW n \in Nat, w + n <= Len(Stream)
  PROVE  LET data == SubSeq(Stream, w + 1, w + n) IN
         /\ data \in Seq(Byte) /\ Len(data) = n
         /\ \A j \in 1 .. n : data[j] = Stream[w + j]
<1> DEFINE data == SubSeq(Stream, w + 1, w + n)
<1>1. Len(Stream) \in Nat
  BY StreamAssumption
<1>2. \A j \in w + 1 .. w + n : Stream[j] \in Byte
  BY <1>1, StreamAssumption
<1>3. /\ data \in Seq(Byte)
      /\ Len(data) = (IF w + 1 <= w + n THEN (w + n) - (w + 1) + 1 ELSE 0)
      /\ \A j \in 1 .. (w + n) - (w + 1) + 1 : data[j] = Stream[(w + 1) + j - 1]
  BY <1>2, SMTT(30)
<1> HIDE DEF data
<1>4. /\ Len(data) = n /\ \A j \in 1 .. n : data[j] = Stream[w + j]
  BY <1>3
<1> QED
  BY <1>3, <1>4, Zenon DEF data

\* What write() accepts continues what the stream held.
LEMMA WriteHolds ==
  ASSUME NEW b, IsStream(b), NEW w, Holds(b, w), NEW n \in Nat,
         w + n <= Len(Stream), NEW data \in Seq(Byte), Len(data) = n,
         \A j \in 1 .. n : data[j] = Stream[w + j]
  PROVE  /\ Holds(write(b, data), w + write_count(b, data))
         /\ write(b, data).total_bytes_read = b.total_bytes_read
<1> DEFINE r == b.total_bytes_read
           o == b.buf
           c == write_count(b, data)
           d == Prefix(data, c)
           t == write(b, data)
<1>1. /\ o \in Seq(Byte) /\ Len(o) \in Nat /\ r \in Nat /\ w \in Nat
      /\ w <= Len(Stream) /\ r + Len(o) = w /\ b.is_end \in BOOLEAN
      /\ \A j \in 1 .. Len(o) : o[j] = Stream[r + j]
      /\ b.is_end => w = Len(Stream)
      /\ Len(Stream) \in Nat
  BY StreamOps, StreamAssumption DEF Holds
<1>3. c \in Nat /\ c <= n /\ (b.is_end => c = 0)
  <2>1. c \in Nat /\ c <= Len(data)
    BY StreamOps, Zenon
  <2>2. b.is_end => c = 0
    BY Zenon DEF write_count
  <2> QED
    BY <2>1, <2>2, Zenon
<1>4. /\ t.buf = o \o d /\ t.total_bytes_read = r /\ t.is_end = b.is_end
  <2>1. b \in ByteStreams(Byte, Cap)
    BY Zenon DEF IsStream
  <2> QED
    BY <2>1, Zenon DEF write, ByteStreams
<1> HIDE DEF c
<1>5. /\ d \in Seq(Byte) /\ Len(d) = c /\ \A j \in 1 .. c : d[j] = data[j]
  <2>1. \A j \in 1 .. c : data[j] \in Byte
    BY <1>3
  <2>2. /\ SubSeq(data, 1, c) \in Seq(Byte)
        /\ Len(SubSeq(data, 1, c)) = (IF 1 <= c THEN c - 1 + 1 ELSE 0)
        /\ \A j \in 1 .. c - 1 + 1 : SubSeq(data, 1, c)[j] = data[1 + j - 1]
    BY <2>1, <1>3
  <2>3. d = SubSeq(data, 1, c)
    BY Zenon DEF Prefix
  <2> HIDE DEF d
  <2> QED
    BY <2>2, <2>3, <1>3
<1> HIDE DEF d, t, o, r
<1>6. /\ Len(o \o d) = Len(o) + c
      /\ \A j \in 1 .. Len(o) + c :
           (o \o d)[j] = IF j <= Len(o) THEN o[j] ELSE d[j - Len(o)]
  <2>1. o \in Seq(Byte) /\ d \in Seq(Byte)
    BY <1>1, <1>5, Zenon
  <2>2. /\ Len(o \o d) = Len(o) + Len(d)
        /\ \A j \in 1 .. Len(o) + Len(d) :
             (o \o d)[j] = IF j <= Len(o) THEN o[j] ELSE d[j - Len(o)]
    BY <2>1
  <2> QED
    BY <2>2, <1>5, Zenon
<1> DEFINE x == o \o d
           len == Len(o)
<1>0. len \in Nat /\ r \in Nat /\ w \in Nat /\ r + len = w
  BY <1>1, Zenon
<1>7. ASSUME NEW j \in 1 .. Len(o) + c PROVE x[j] = Stream[r + j]
  <2>1. CASE j <= Len(o)
    <3>1. j \in 1 .. Len(o) /\ x[j] = o[j]
      BY <2>1, <1>1, <1>6
    <3> QED
      BY <3>1, <1>1, Zenon
  <2>2. CASE ~(j <= Len(o))
    <3>1. x[j] = d[j - Len(o)]
      BY <2>2, <1>6, Zenon
    <3>2. j - Len(o) \in 1 .. c /\ j - Len(o) \in 1 .. n /\ w + (j - Len(o)) = r + j
      <4>1. j \in 1 .. len + c /\ ~(j <= len)
        BY <2>2, Zenon
      <4> HIDE DEF len
      <4>2. j - len \in 1 .. c /\ j - len \in 1 .. n /\ w + (j - len) = r + j
        BY <4>1, <1>0, <1>3
      <4> QED
        BY <4>2, Zenon DEF len
    <3>3. d[j - Len(o)] = data[j - Len(o)]
      BY <3>2, <1>5, Zenon
    <3>4. data[j - Len(o)] = Stream[w + (j - Len(o))]
      BY <3>2, Zenon
    <3> QED
      BY <3>1, <3>2, <3>3, <3>4, Zenon
  <2> QED
    BY <2>1, <2>2, Zenon
<1>8. Len(x) = Len(o) + c
  BY <1>6, Zenon
<1> HIDE DEF x
<1>9. /\ w + c \in Nat /\ w + c <= Len(Stream) /\ r + Len(x) = w + c
      /\ b.is_end => w + c = Len(Stream)
  <2>1. Len(x) = len + c /\ (b.is_end => w = Len(Stream) /\ c = 0)
    BY <1>1, <1>3, <1>8, Zenon
  <2>2. Len(Stream) \in Nat
    BY <1>1, Zenon
  <2> HIDE DEF len
  <2> QED
    BY <2>1, <2>2, <1>0, <1>3
<1>10. \A j \in 1 .. Len(x) : x[j] = Stream[r + j]
  BY <1>7, <1>8, Zenon
<1>11. t.buf = x
  BY <1>4, Zenon DEF x
<1>12. Holds(t, w + c)
  BY <1>1, <1>4, <1>9, <1>10, <1>11, Zenon DEF Holds
<1> QED
  BY <1>4, <1>12, Zenon DEF t, r, c

\* From s to t, the oldest outstanding segment was sent again or nothing was, and
\* nothing else changed but the timer.
Ticked(t, s, w, ms) ==
  /\ Good(t, w)
  /\ t.acked_next = s.acked_next /\ t.next_seqno = s.next_seqno
  /\ t.peer_window_size = s.peer_window_size
  /\ \/ t.segments_out = s.segments_out
     \/ /\ t.segments_out = s.segments_out \o <<s.outstanding_buffer[1]>>
        /\ s.outstanding_buffer # << >>
        /\ t.timer = IF s.received_window_size # 0
                     THEN double_rto(pass(s.timer, ms))
                     ELSE reset_rto(pass(s.timer, ms))

\* This is what a tick does.
LEMMA TickGood ==
  ASSUME NEW s, NEW w, Good(s, w), NEW ms
  PROVE  Ticked(sender_tick(s, ms), s, w, ms)
<1> DEFINE t == sender_tick(s, ms)
           o == s.outstanding_buffer
           p == pass(s.timer, ms)
           oldest == Prefix(o, Lesser(1, Len(o)))
           m == IF s.received_window_size # 0 THEN double_rto(p) ELSE reset_rto(p)
<1>1. /\ IsSender(s) /\ Timed(s) /\ s.isn = Isn /\ o \in Seq(Segments)
      /\ s.segments_out \in Seq(Segments)
  BY Zenon DEF Good, IsSender
<1>2. IsSender(t) /\ Timed(t) /\ t.isn = Isn
  BY <1>1, TickTimed, Zenon
<1>3. Len(o) \in Nat
  BY <1>1
<1>4. /\ DOMAIN s = SenderFields
      /\ t = IF is_expire(p)
             THEN [s EXCEPT !.timer = m, !.segments_out = @ \o oldest]
             ELSE [s EXCEPT !.timer = p]
  BY <1>1, Zenon DEF sender_tick, IsSender
<1>5. \/ oldest = << >>
      \/ oldest = <<o[1]>> /\ o # << >> /\ o[1] \in Segments
  <2>1. CASE o = << >>
    <3>1. Lesser(1, Len(o)) = 0
      BY <2>1 DEF Lesser
    <3> QED
      BY <3>1 DEF Prefix
  <2>2. CASE o # << >>
    <3>1. Len(o) # 0
      BY <2>2, <1>1
    <3>2. Lesser(1, Len(o)) = 1 /\ 1 \in 1 .. Len(o)
      BY <3>1, <1>3 DEF Lesser
    <3>3. o[1] \in Segments
      BY <3>2, <1>1
    <3>4. \A j \in 1 .. 1 : o[j] \in Segments
      BY <3>3
    <3>5. /\ SubSeq(o, 1, 1) \in Seq(Segments)
          /\ Len(SubSeq(o, 1, 1)) = (IF 1 <= 1 THEN 1 - 1 + 1 ELSE 0)
          /\ \A i \in 1 .. 1 - 1 + 1 : SubSeq(o, 1, 1)[i] = o[1 + i - 1]
      BY <3>4
    <3>6. oldest = SubSeq(o, 1, 1)
      BY <3>2, Zenon DEF Prefix
    <3> DEFINE y == SubSeq(o, 1, 1)
               z == <<o[1]>>
    <3>7. z \in Seq(Segments) /\ Len(z) = 1 /\ z[1] = o[1]
      BY <3>3
    <3>8. y \in Seq(Segments) /\ Len(y) = 1 /\ y[1] = o[1]
      <4>1. Len(y) = 1 /\ 1 \in 1 .. 1 - 1 + 1 /\ 1 + 1 - 1 = 1
        BY <3>5
      <4> QED
        BY <3>5, <4>1
    <3> HIDE DEF y, z
    <3>9. \A i \in 1 .. Len(y) : y[i] = z[i]
      BY <3>7, <3>8
    <3>10. y = z
      BY <3>7, <3>8, <3>9
    <3> QED
      BY <2>2, <3>3, <3>6, <3>10, Zenon DEF y, z
  <2> QED
    BY <2>1, <2>2, Zenon
<1> HIDE DEF p, m, oldest, t
<1>6. /\ t.stream = s.stream /\ t.next_seqno = s.next_seqno
      /\ t.acked_next = s.acked_next /\ t.outstanding_buffer = s.outstanding_buffer
      /\ t.peer_window_size = s.peer_window_size /\ t.syn_sent = s.syn_sent
      /\ t.fin_sent = s.fin_sent /\ t.bytes_in_flight = s.bytes_in_flight
  BY <1>4, Zenon DEF SenderFields
<1>7. \/ t.segments_out = s.segments_out
      \/ t.segments_out = s.segments_out \o oldest /\ t.timer = m
  BY <1>4, Zenon DEF SenderFields
<1>8. \/ t.segments_out = s.segments_out
      \/ /\ t.segments_out = s.segments_out \o <<o[1]>> /\ o # << >>
         /\ o[1] \in Segments /\ t.timer = m
  <2>1. s.segments_out \o << >> = s.segments_out
    BY <1>1
  <2> QED
    BY <2>1, <1>5, <1>7, Zenon
<1>9. t.segments_out \in Seq(Segments)
  <2>1. CASE t.segments_out = s.segments_out
    BY <2>1, <1>1, Zenon
  <2>2. CASE t.segments_out = s.segments_out \o <<o[1]>> /\ o[1] \in Segments
    <3>1. <<o[1]>> \in Seq(Segments)
      BY <2>2
    <3> QED
      BY <2>2, <3>1, <1>1
  <2> QED
    BY <2>1, <2>2, <1>8, Zenon
<1>10. Good(t, w)
  BY <1>2, <1>6, <1>9, Zenon DEF Good
<1>11. Ticked(t, s, w, ms)
  BY <1>6, <1>8, <1>10, Zenon DEF Ticked, m, p
<1> QED
  BY <1>11, Zenon DEF t

-----------------------------------------------------------------------------
(* The inductive invariant.                                                *)

\* The sender is as it should be; the peer's latest acknowledgment lies between
\* acked_next and next_seqno; and what is sent and may still be sent stays
\* within the window, or is the one position that probes a closed one.
SInv ==
  /\ Good(snd, written) /\ snd.segments_out = << >>
  /\ ackedTo \in Nat /\ edge \in Nat /\ overtaken \in BOOLEAN
  /\ snd.acked_next <= ackedTo /\ ackedTo <= snd.next_seqno
  /\ \/ overtaken
     \/ snd.next_seqno + snd.peer_window_size <= edge
     \/ snd.next_seqno + snd.peer_window_size <= ackedTo + 1

\* A new sender.
LEMMA InitSInv == Init => SInv
<1> SUFFICES ASSUME Init PROVE SInv
  BY Zenon
<1>1. IsSender(snd) /\ Timed(snd) /\ snd.isn = Isn
  BY InitInv, Zenon DEF Inv
<1>2. /\ snd.stream = NewByteStream(Cap) /\ snd.next_seqno = 0
      /\ snd.acked_next = 0 /\ snd.bytes_in_flight = 0 /\ snd.peer_window_size = 1
      /\ snd.outstanding_buffer = << >> /\ snd.segments_out = << >>
      /\ snd.syn_sent = FALSE /\ snd.fin_sent = FALSE
      /\ written = 0 /\ ackedTo = 0 /\ edge = 1 /\ overtaken = FALSE
  BY Zenon DEF Init, NewTCPSender
<1>3. Len(Stream) \in Nat /\ Len(<< >>) = 0 /\ << >> \in Seq(Segments)
  BY StreamAssumption
<1>4. /\ NewByteStream(Cap).buf = << >> /\ NewByteStream(Cap).total_bytes_read = 0
      /\ NewByteStream(Cap).is_end = FALSE
  BY Zenon DEF NewByteStream
<1>5. Holds(NewByteStream(Cap), 0)
  BY <1>3, <1>4 DEF Holds
<1>6. Chain(<< >>, 0, 0)
  BY ChainEmpty, Zenon
<1>7. Good(snd, written)
  <2>1. /\ snd.bytes_in_flight = snd.next_seqno - snd.acked_next
        /\ snd.bytes_in_flight + snd.peer_window_size <= Limit
        /\ snd.acked_next \in Nat /\ snd.next_seqno \in Nat
        /\ snd.acked_next <= snd.next_seqno
    BY <1>2, LimitSmall
  <2>2. /\ Holds(snd.stream, written) /\ snd.stream.total_bytes_read = 0
        /\ Chain(snd.outstanding_buffer, snd.acked_next, snd.next_seqno)
        /\ snd.segments_out \in Seq(Segments)
    BY <1>2, <1>3, <1>4, <1>5, <1>6, Zenon
  <2>3. /\ snd.next_seqno = 0 /\ snd.peer_window_size = 1
        /\ snd.syn_sent = FALSE /\ snd.fin_sent = FALSE
    BY <1>2, Zenon
  <2> QED
    BY <2>1, <2>2, <2>3, <1>1, Zenon DEF Good
<1>8. /\ ackedTo \in Nat /\ edge \in Nat /\ overtaken \in BOOLEAN
      /\ snd.acked_next <= ackedTo /\ ackedTo <= snd.next_seqno
      /\ snd.next_seqno + snd.peer_window_size <= edge
      /\ snd.segments_out = << >>
  <2>1. /\ ackedTo = 0 /\ edge = 1 /\ overtaken = FALSE /\ snd.acked_next = 0
        /\ snd.next_seqno = 0 /\ snd.peer_window_size = 1
    BY <1>2, Zenon
  <2>2. snd.segments_out = << >>
    BY <1>2, Zenon
  <2>3. /\ ackedTo \in Nat /\ edge \in Nat
        /\ snd.acked_next <= ackedTo /\ ackedTo <= snd.next_seqno
        /\ snd.next_seqno + snd.peer_window_size <= edge
    BY <2>1
  <2> QED
    BY <2>1, <2>2, <2>3, Zenon
<1> QED
  BY <1>7, <1>8, Zenon DEF SInv

\* The queue goes to the connection; the sender stays as it is.
LEMMA QueueGood ==
  ASSUME NEW s, NEW w, Good(s, w), Queue(s)
  PROVE  /\ Good(snd', w) /\ snd'.segments_out = << >>
         /\ sent' = s.segments_out
         /\ snd'.acked_next = s.acked_next /\ snd'.next_seqno = s.next_seqno
         /\ snd'.peer_window_size = s.peer_window_size /\ snd'.timer = s.timer
<1> DEFINE t == [s EXCEPT !.segments_out = << >>]
<1>1. snd' = t /\ sent' = s.segments_out
  BY Zenon DEF Queue
<1>2. DOMAIN s = SenderFields
  BY Zenon DEF Good, IsSender
<1>3. /\ DOMAIN t = SenderFields
      /\ t.isn = s.isn /\ t.segments_out = << >> /\ t.stream = s.stream
      /\ t.next_seqno = s.next_seqno /\ t.acked_next = s.acked_next
      /\ t.timer = s.timer /\ t.outstanding_buffer = s.outstanding_buffer
      /\ t.peer_window_size = s.peer_window_size /\ t.syn_sent = s.syn_sent
      /\ t.fin_sent = s.fin_sent /\ t.bytes_in_flight = s.bytes_in_flight
  BY <1>2, Zenon DEF SenderFields
<1> HIDE DEF t
<1>4. << >> \in Seq(Segments)
  OBVIOUS
<1>5. Good(t, w)
  BY <1>3, <1>4, Zenon DEF Good, IsSender, Timed
<1> QED
  BY <1>1, <1>3, <1>5, Zenon

\* A call that sends no more than the window left keeps the invariant.
LEMMA QuietSInv ==
  ASSUME SInv, NEW s, Good(s, written'), Queue(s), UNCHANGED peerVars,
         s.acked_next = snd.acked_next, snd.next_seqno <= s.next_seqno,
         s.next_seqno + s.peer_window_size = snd.next_seqno + snd.peer_window_size
  PROVE  SInv'
<1>1. /\ Good(snd', written') /\ snd'.segments_out = << >>
      /\ snd'.acked_next = s.acked_next /\ snd'.next_seqno = s.next_seqno
      /\ snd'.peer_window_size = s.peer_window_size
  BY QueueGood, Zenon
<1>2. ackedTo' = ackedTo /\ edge' = edge /\ overtaken' = overtaken
  BY Zenon DEF peerVars
<1>3. snd.next_seqno \in Nat /\ s.next_seqno \in Nat
  BY Zenon DEF SInv, Good
<1>4. snd'.acked_next <= ackedTo' /\ ackedTo' <= snd'.next_seqno
  <2>1. ackedTo \in Nat /\ snd.acked_next <= ackedTo /\ ackedTo <= snd.next_seqno
    BY Zenon DEF SInv
  <2> QED
    BY <2>1, <1>1, <1>2, <1>3
<1>5. \/ overtaken'
      \/ snd'.next_seqno + snd'.peer_window_size <= edge'
      \/ snd'.next_seqno + snd'.peer_window_size <= ackedTo' + 1
  BY <1>1, <1>2, Zenon DEF SInv
<1>6. ackedTo' \in Nat /\ edge' \in Nat /\ overtaken' \in BOOLEAN
  BY <1>2, Zenon DEF SInv
<1> QED
  BY <1>1, <1>4, <1>5, <1>6, Zenon DEF SInv

\* What an acknowledgment from the peer does to the sender.
LEMMA AckStep ==
  ASSUME SInv, NEW a \in 1 .. Len(Stream) + 2, NEW win \in 0 .. MaxWin,
         AckReceived(a, win) \/ StaleAckReceived(a, win)
  PROVE  LET t == ack_received(snd, wrap(a, Isn), win) IN
         Queue(t) /\ Answered(t, snd, written, a, win)
<1>1. /\ Good(snd, written) /\ ackedTo \in Nat
      /\ snd.acked_next <= ackedTo /\ ackedTo <= snd.next_seqno
      /\ snd.next_seqno \in Nat /\ snd.acked_next \in Nat
  BY Zenon DEF SInv, Good
<1>2. a \in Nat /\ a >= 1
  BY StreamAssumption
<1>3. Queue(ack_received(snd, wrap(a, Isn), win))
  BY Zenon DEF AckReceived, StaleAckReceived
<1>4. a <= snd.next_seqno /\ snd.acked_next - a < N \div 2
  <2>1. CASE AckReceived(a, win)
    <3>1. a <= snd.next_seqno /\ a >= ackedTo
      BY <2>1, <1>1, <1>2 DEF AckReceived
    <3> QED
      BY <3>1, <1>1, <1>2, LimitSmall
  <2>2. CASE StaleAckReceived(a, win)
    <3>1. a <= ackedTo /\ snd.acked_next - a < N \div 2
      BY <2>2, Zenon DEF StaleAckReceived
    <3> QED
      BY <3>1, <1>1, <1>2
  <2> QED
    BY <2>1, <2>2, Zenon
<1>5. snd.syn_sent
  <2>1. snd.next_seqno # 0
    BY <1>1, <1>2, <1>4
  <2> QED
    BY <2>1, <1>1, Zenon DEF Good
<1> QED
  BY <1>1, <1>2, <1>3, <1>4, <1>5, AckGood, Zenon

\* The invariant after the latest acknowledgment, and after an earlier one.
LEMMA AckSInv ==
  ASSUME SInv, NEW a \in 1 .. Len(Stream) + 2, NEW win \in 0 .. MaxWin,
         AckReceived(a, win) \/ StaleAckReceived(a, win)
  PROVE  SInv'
<1> DEFINE t == ack_received(snd, wrap(a, Isn), win)
<1>1. Queue(t) /\ Answered(t, snd, written, a, win)
  BY AckStep, Zenon
<1> HIDE DEF t
<1>2. /\ Good(t, written)
      /\ snd.acked_next <= t.acked_next
      /\ t.acked_next = snd.acked_next \/ t.acked_next <= a
      /\ snd.next_seqno <= t.next_seqno
      /\ \/ t.next_seqno + t.peer_window_size <= t.acked_next + Usable(win)
         \/ t.next_seqno + t.peer_window_size = snd.next_seqno
  BY <1>1, Zenon DEF Answered
<1>3. /\ Good(snd', written) /\ snd'.segments_out = << >>
      /\ snd'.acked_next = t.acked_next /\ snd'.next_seqno = t.next_seqno
      /\ snd'.peer_window_size = t.peer_window_size
  BY <1>1, <1>2, QueueGood, Zenon
<1>4. written' = written
  BY Zenon DEF AckReceived, StaleAckReceived
<1>5. /\ ackedTo \in Nat /\ edge \in Nat /\ overtaken \in BOOLEAN
      /\ snd.acked_next <= ackedTo /\ ackedTo <= snd.next_seqno
      /\ snd.next_seqno \in Nat /\ snd.acked_next \in Nat
      /\ snd.peer_window_size \in Nat
  BY Zenon DEF SInv, Good, IsSender
<1>6. /\ t.next_seqno \in Nat /\ t.acked_next \in Nat /\ t.peer_window_size \in Nat
  BY <1>2, Zenon DEF Good, IsSender
<1>7. a \in Nat /\ a >= 1 /\ win \in Nat
  BY StreamAssumption, BoundsAssumption
<1>8. CASE AckReceived(a, win)
  <2>1. /\ a <= snd.next_seqno /\ a >= ackedTo /\ a + win >= edge
        /\ ackedTo' = a /\ edge' = a + win /\ overtaken' = overtaken
    BY <1>8, <1>5, <1>7 DEF AckReceived
  <2>2. snd'.acked_next <= ackedTo' /\ ackedTo' <= snd'.next_seqno
    BY <2>1, <1>2, <1>3, <1>5, <1>6, <1>7
  <2>3. CASE t.next_seqno + t.peer_window_size <= t.acked_next + Usable(win)
    <3>1. Usable(win) = win \/ Usable(win) = 1
      BY Zenon DEF Usable
    <3>2. t.acked_next <= a
      BY <2>1, <1>2, <1>5, <1>6, <1>7
    <3>3. \/ t.next_seqno + t.peer_window_size <= a + win
          \/ t.next_seqno + t.peer_window_size <= a + 1
      BY <2>3, <3>1, <3>2, <1>6, <1>7
    <3> QED
      BY <2>1, <2>2, <3>3, <1>3, <1>4, <1>5, <1>7 DEF SInv
  <2>4. CASE t.next_seqno + t.peer_window_size = snd.next_seqno
    <3>1. \/ overtaken
          \/ snd.next_seqno + snd.peer_window_size <= edge
          \/ snd.next_seqno + snd.peer_window_size <= ackedTo + 1
      BY Zenon DEF SInv
    <3>2. \/ overtaken'
          \/ snd'.next_seqno + snd'.peer_window_size <= edge'
          \/ snd'.next_seqno + snd'.peer_window_size <= ackedTo' + 1
      BY <2>1, <2>4, <3>1, <1>3, <1>5, <1>7
    <3> QED
      BY <2>1, <2>2, <3>2, <1>3, <1>4, <1>5, <1>7 DEF SInv
  <2> QED
    BY <2>3, <2>4, <1>2, Zenon
<1>9. CASE StaleAckReceived(a, win)
  <2>1. a <= ackedTo /\ ackedTo' = ackedTo /\ edge' = edge /\ overtaken' = TRUE
    BY <1>9, Zenon DEF StaleAckReceived
  <2>2. snd'.acked_next <= ackedTo' /\ ackedTo' <= snd'.next_seqno
    BY <2>1, <1>2, <1>3, <1>5, <1>6, <1>7
  <2> QED
    BY <2>1, <2>2, <1>3, <1>4, <1>5, Zenon DEF SInv
<1> QED
  BY <1>8, <1>9, Zenon

\* Every step preserves the invariant.
LEMMA NextSInv == SInv /\ [Next]_vars => SInv'
<1> SUFFICES ASSUME SInv, [Next]_vars PROVE SInv'
  BY Zenon
<1>0. /\ Good(snd, written) /\ IsSender(snd) /\ IsStream(snd.stream)
      /\ Holds(snd.stream, written) /\ written \in Nat
      /\ snd.next_seqno \in Nat
  BY Zenon DEF SInv, Good, IsSender, Holds
<1>1. ASSUME NEW n \in 1 .. Len(Stream), Write(n) PROVE SInv'
  <2> DEFINE data == SubSeq(Stream, written + 1, written + n)
             b == write(snd.stream, data)
             s == [snd EXCEPT !.stream = write(@, data)]
             v == written + write_count(snd.stream, data)
  <2>1. /\ written + n <= Len(Stream) /\ Queue(s) /\ written' = v
        /\ UNCHANGED peerVars /\ n \in Nat
    BY <1>1 DEF Write
  <2>2. /\ data \in Seq(Byte) /\ Len(data) = n
        /\ \A j \in 1 .. n : data[j] = Stream[written + j]
    BY <2>1, <1>0, NextBytes, Zenon
  <2> HIDE DEF data
  <2>3. /\ Holds(b, v) /\ b.total_bytes_read = snd.stream.total_bytes_read
    BY <2>1, <2>2, <1>0, WriteHolds
  <2>4. IsStream(b)
    BY <2>2, <1>0, StreamOps, Zenon
  <2>5. s = [snd EXCEPT !.stream = b]
    BY Zenon
  <2> HIDE DEF b, v
  <2>6. /\ Good(s, v) /\ s.acked_next = snd.acked_next
        /\ s.next_seqno = snd.next_seqno
        /\ s.peer_window_size = snd.peer_window_size
    BY <2>3, <2>4, <2>5, <1>0, StreamGood
  <2> HIDE DEF s
  <2>7. snd.next_seqno <= s.next_seqno
    BY <2>6, <1>0
  <2> QED
    BY <2>1, <2>6, <2>7, QuietSInv, Zenon
<1>2. CASE Close
  <2> DEFINE b == end_input(snd.stream)
             s == [snd EXCEPT !.stream = end_input(@)]
  <2>1. /\ written = Len(Stream) /\ Queue(s) /\ written' = written
        /\ UNCHANGED peerVars
    BY <1>2, Zenon DEF Close
  <2>2. IsStream(b)
    BY <1>0, StreamOps, Zenon
  <2>3. /\ b.buf = snd.stream.buf
        /\ b.total_bytes_read = snd.stream.total_bytes_read
    <3>1. snd.stream \in ByteStreams(Byte, Cap)
      BY <1>0, Zenon DEF IsStream
    <3> QED
      BY <3>1, Zenon DEF end_input, ByteStreams
  <2>4. s = [snd EXCEPT !.stream = b]
    BY Zenon
  <2> HIDE DEF b
  <2>5. Holds(b, written)
    BY <2>1, <2>3, <1>0, Zenon DEF Holds
  <2>6. /\ Good(s, written) /\ s.acked_next = snd.acked_next
        /\ s.next_seqno = snd.next_seqno
        /\ s.peer_window_size = snd.peer_window_size
    BY <2>2, <2>3, <2>4, <2>5, <1>0, StreamGood
  <2> HIDE DEF s
  <2>7. snd.next_seqno <= s.next_seqno
    BY <2>6, <1>0
  <2> QED
    BY <2>1, <2>6, <2>7, QuietSInv, Zenon
<1>3. CASE FillWindow
  <2> DEFINE s == fill_window(snd)
  <2>1. Queue(s) /\ written' = written /\ UNCHANGED peerVars
    BY <1>3, Zenon DEF FillWindow
  <2>2. Good(s, written) /\ Advances(snd, s)
    BY <1>0, FillGood, Zenon
  <2> HIDE DEF s
  <2>3. /\ s.acked_next = snd.acked_next /\ snd.next_seqno <= s.next_seqno
        /\ s.next_seqno + s.peer_window_size = snd.next_seqno + snd.peer_window_size
    BY <2>2, Zenon DEF Advances
  <2> QED
    BY <2>1, <2>2, <2>3, QuietSInv, Zenon
<1>4. ASSUME NEW a \in 1 .. Len(Stream) + 2, NEW win \in 0 .. MaxWin,
             AckReceived(a, win) \/ StaleAckReceived(a, win)
      PROVE  SInv'
  BY <1>4, AckSInv, Zenon
<1>5. CASE Tick(1)
  <2> DEFINE s == sender_tick(snd, 1)
  <2>1. Queue(s) /\ written' = written /\ UNCHANGED peerVars
    BY <1>5, Zenon DEF Tick
  <2>2. /\ Good(s, written) /\ s.acked_next = snd.acked_next
        /\ s.next_seqno = snd.next_seqno
        /\ s.peer_window_size = snd.peer_window_size
    BY <1>0, TickGood, Zenon DEF Ticked
  <2> HIDE DEF s
  <2>3. snd.next_seqno <= s.next_seqno
    BY <2>2, <1>0
  <2> QED
    BY <2>1, <2>2, <2>3, QuietSInv, Zenon
<1>6. CASE UNCHANGED vars
  BY <1>6, Zenon DEF vars, SInv
<1> QED
  BY <1>1, <1>2, <1>3, <1>4, <1>5, <1>6, Zenon DEF Next

\* The invariant says of every outstanding segment what KeepsUnacked does.
LEMMA SInvKeeps == SInv => KeepsUnacked
<1> SUFFICES ASSUME SInv PROVE KeepsUnacked
  BY Zenon
<1> DEFINE o == snd.outstanding_buffer
           n == Len(o)
<1>1. /\ Good(snd, written) /\ o \in Seq(Segments)
      /\ snd.acked_next <= ackedTo
      /\ snd.bytes_in_flight = snd.next_seqno - snd.acked_next
      /\ Chain(o, snd.acked_next, snd.next_seqno)
  BY Zenon DEF SInv, Good, IsSender
<1>2. PICK p : Cuts(o, snd.acked_next, snd.next_seqno, p)
  BY <1>1, Zenon DEF Chain
<1>3. n \in Nat /\ (o = << >> <=> n = 0)
  BY <1>1
<1>4. p[1] = snd.acked_next /\ p[n + 1] = snd.next_seqno
  BY <1>2, Zenon DEF Cuts
<1>5. ASSUME NEW i \in 1 .. n
      PROVE  /\ PositionOf(i) = p[i] /\ EndOfSegment(i) = p[i + 1]
             /\ p[i] \in Nat /\ p[i + 1] \in Nat /\ p[i] < p[i + 1]
             /\ Carries(o[i], p[i], p[i + 1])
  <2> DEFINE x == p[i]
             y == p[i + 1]
             l == length_in_sequence_space(o[i])
  <2>1. /\ x \in Nat /\ y \in Nat /\ x < y /\ Position(snd, o[i]) = x
        /\ l = y - x /\ Carries(o[i], x, y)
    BY <1>1, <1>2, PositionIs, Zenon
  <2>2. PositionOf(i) = x
    BY <2>1, Zenon DEF PositionOf, out
  <2>3. EndOfSegment(i) = x + l
    BY <2>2, Zenon DEF EndOfSegment, out
  <2> HIDE DEF x, y, l
  <2>4. EndOfSegment(i) = y
    BY <2>1, <2>3
  <2> QED
    BY <2>1, <2>2, <2>4, Zenon DEF x, y
<1>6. snd.next_seqno = IF out = << >> THEN snd.acked_next ELSE EndOfSegment(Len(out))
  <2>1. CASE n = 0
    <3>1. out = << >> /\ n + 1 = 1
      BY <2>1, <1>3 DEF out
    <3> QED
      BY <3>1, <1>4, Zenon
  <2>2. CASE n # 0
    <3>1. n \in 1 .. n /\ out # << >> /\ Len(out) = n
      BY <2>2, <1>3 DEF out
    <3> QED
      BY <3>1, <1>4, <1>5, Zenon
  <2> QED
    BY <2>1, <2>2, Zenon
<1>7. ASSUME NEW i \in 1 .. n
      PROVE  LET pos == PositionOf(i)
                 end == EndOfSegment(i)
             IN  /\ pos = IF i = 1 THEN snd.acked_next ELSE EndOfSegment(i - 1)
                 /\ end > pos
                 /\ o[i].syn <=> pos = 0
                 /\ o[i].fin <=> end = FinPosition + 1
                 /\ o[i].payload = SubSeq(Stream, IF pos = 0 THEN 1 ELSE pos,
                                          Lesser(end - 1, Len(Stream)))
  <2>1. /\ PositionOf(i) = p[i] /\ EndOfSegment(i) = p[i + 1]
        /\ p[i] \in Nat /\ p[i + 1] \in Nat /\ p[i] < p[i + 1]
        /\ Carries(o[i], p[i], p[i + 1])
    BY <1>5, Zenon
  <2>2. p[i] = IF i = 1 THEN snd.acked_next ELSE EndOfSegment(i - 1)
    <3>1. CASE i = 1
      BY <3>1, <1>4, Zenon
    <3>2. CASE i # 1
      <4>1. i - 1 \in 1 .. n /\ (i - 1) + 1 = i
        BY <3>2, <1>3
      <4> QED
        BY <3>2, <4>1, <1>5, Zenon
    <3> QED
      BY <3>1, <3>2, Zenon
  <2>3. p[i + 1] > p[i]
    BY <2>1, Zenon
  <2>4. /\ o[i].syn <=> p[i] = 0
        /\ o[i].fin <=> p[i + 1] = FinPosition + 1
        /\ o[i].payload = SubSeq(Stream, IF p[i] = 0 THEN 1 ELSE p[i],
                                 Lesser(p[i + 1] - 1, Len(Stream)))
    BY <2>1, Zenon DEF Carries
  <2> QED
    BY <2>1, <2>2, <2>3, <2>4, Zenon
<1> QED
  BY <1>1, <1>6, <1>7, Zenon DEF KeepsUnacked, out

\* For every stream, sizes, window and modulus, through any acknowledgments,
\* old ones and closed windows included: what is kept for retransmission is
\* exactly what the peer has not acknowledged, segment by segment and byte by
\* byte, and bytes_in_flight() is its length.
THEOREM KeepsUnackedCorrect == Spec => []KeepsUnacked
  BY InitSInv, NextSInv, SInvKeeps, PTL DEF Spec

\* Nothing goes beyond the right edge that the peer advertised, but for the one
\* position that probes a closed window.
THEOREM WithinWindowCorrect == Spec => []WithinWindow
<1>1. SInv => WithinWindow
  <2> SUFFICES ASSUME SInv PROVE WithinWindow
    BY Zenon
  <2>1. /\ snd.next_seqno \in Nat /\ snd.peer_window_size \in Nat
        /\ edge \in Nat /\ ackedTo \in Nat
    BY Zenon DEF SInv, Good, IsSender
  <2>2. \/ overtaken
        \/ snd.next_seqno + snd.peer_window_size <= edge
        \/ snd.next_seqno + snd.peer_window_size <= ackedTo + 1
    BY Zenon DEF SInv
  <2> QED
    BY <2>1, <2>2 DEF WithinWindow
<1> QED
  BY <1>1, InitSInv, NextSInv, PTL DEF Spec

-----------------------------------------------------------------------------
(* What is sent again.                                                     *)

\* Segments that follow next_seqno are not taken for earlier ones.
LEMMA FreshPositions ==
  ASSUME SInv, NEW segs \in Seq(Segments), NEW hi,
         Chain(segs, snd.next_seqno, hi), hi <= snd.next_seqno + Limit,
         NEW i \in 1 .. Len(segs)
  PROVE  ~(Position(snd, segs[i]) < snd.next_seqno)
<1> DEFINE n == Len(segs)
           lo == snd.acked_next
           nx == snd.next_seqno
           seg == segs[i]
<1>1. PICK p : Cuts(segs, nx, hi, p)
  BY Zenon DEF Chain
<1> DEFINE x == p[i]
           y == p[i + 1]
<1>2. n \in Nat
  OBVIOUS
<1>3. /\ p \in [1 .. n + 1 -> Nat] /\ p[1] = nx /\ p[n + 1] = hi
      /\ \A j, k \in 1 .. n + 1 : j < k => p[j] < p[k]
      /\ Carries(seg, x, y)
  BY <1>1, Zenon DEF Cuts
<1>4. /\ i \in 1 .. n + 1 /\ i + 1 \in 1 .. n + 1 /\ 1 \in 1 .. n + 1
      /\ n + 1 \in 1 .. n + 1 /\ i < i + 1
      /\ (i = 1 \/ 1 < i) /\ (i + 1 = n + 1 \/ i + 1 < n + 1)
  BY <1>2
<1>5. /\ lo \in Nat /\ nx \in Nat /\ lo <= nx /\ nx - lo <= Limit /\ snd.isn = Isn
  <2>1. /\ lo \in Nat /\ nx \in Nat /\ lo <= nx /\ snd.isn = Isn
        /\ snd.bytes_in_flight = nx - lo
        /\ snd.bytes_in_flight + snd.peer_window_size <= Limit
        /\ snd.peer_window_size \in Nat
    BY Zenon DEF SInv, Good, IsSender
  <2> QED
    BY <2>1, LimitSmall
<1>6. seg.seqno = wrap(x, Isn)
  BY <1>3, Zenon DEF Carries
<1>7. hi \in Nat /\ hi <= nx + Limit
  BY <1>3, <1>4, Zenon
<1> HIDE DEF n, lo, nx, seg
<1>8. x \in Nat /\ y \in Nat /\ x < y /\ (x = nx \/ nx < x) /\ (y = hi \/ y < hi)
  BY <1>3, <1>4, Zenon
<1> HIDE DEF x, y
<1>9. 2 * Limit <= N \div 2
  <2> DEFINE h == N \div 2
  <2>1. h \in Nat /\ 2 * MaxWin + 1 < h /\ MaxWin \in Nat
    BY LimitSmall, BoundsAssumption, Zenon
  <2> HIDE DEF h
  <2>2. 2 * Limit <= h
    BY <2>1 DEF Limit
  <2> QED
    BY <2>2, Zenon DEF h
<1>10. nx <= x /\ x - lo < N \div 2 /\ lo - x < N \div 2
  BY <1>5, <1>7, <1>8, <1>9, LimitSmall
<1>11. unwrap(wrap(x, Isn), Isn, lo) = x
  BY <1>5, <1>8, <1>10, IsnAssumption, UnwrapInverts, Zenon
<1>12. Position(snd, seg) = x
  BY <1>5, <1>6, <1>11, Zenon DEF Position, lo
<1>13. ~(x < nx)
  BY <1>5, <1>8, <1>10
<1> QED
  BY <1>12, <1>13, Zenon DEF seg, nx

\* A timeout: the oldest outstanding segment is sent again, alone, and the timer
\* is set anew.
ResendsOldest ==
  /\ sent' = <<out[1]>> /\ Tick(1)
  /\ snd'.timer = IF snd.received_window_size # 0
                  THEN double_rto(pass(snd.timer, 1))
                  ELSE reset_rto(pass(snd.timer, 1))

\* Nothing but a timeout sends a position again.
LEMMA ResendStep ==
  ASSUME SInv, Next, NEW i \in 1 .. Len(sent'),
         Position(snd, sent'[i]) < snd.next_seqno
  PROVE  ResendsOldest
<1>0. /\ Good(snd, written) /\ snd.segments_out = << >>
      /\ snd.next_seqno \in Nat /\ snd.acked_next \in Nat
      /\ snd.acked_next <= snd.next_seqno
      /\ snd.outstanding_buffer \in Seq(Segments)
  BY Zenon DEF SInv, Good, IsSender
<1>1. Len(<< >>) = 0
  BY Zenon
<1>2. sent' # << >>
  BY <1>1
<1>3. ASSUME NEW t, Good(t, written), Queue(t), NEW segs \in Seq(Segments),
             t.segments_out = snd.segments_out \o segs,
             Chain(segs, snd.next_seqno, t.next_seqno),
             t.acked_next <= snd.next_seqno
      PROVE  FALSE
  <2>1. sent' = segs
    <3>1. << >> \o segs = segs
      OBVIOUS
    <3>2. sent' = t.segments_out
      BY <1>3, Zenon DEF Queue
    <3> QED
      BY <3>1, <3>2, <1>0, <1>3, Zenon
  <2>2. t.next_seqno <= snd.next_seqno + Limit
    <3>1. /\ t.next_seqno \in Nat /\ t.acked_next \in Nat
          /\ t.bytes_in_flight = t.next_seqno - t.acked_next
          /\ t.bytes_in_flight + t.peer_window_size <= Limit
          /\ t.peer_window_size \in Nat
      BY <1>3, Zenon DEF Good, IsSender
    <3> QED
      <4> DEFINE x == t.next_seqno
                 y == t.acked_next
                 z == snd.next_seqno
      <4>1. /\ x \in Nat /\ y \in Nat /\ z \in Nat /\ y <= z
            /\ x - y + t.peer_window_size <= Limit /\ t.peer_window_size \in Nat
        BY <3>1, <1>0, <1>3, Zenon
      <4> HIDE DEF x, y, z
      <4>2. x <= z + Limit
        BY <4>1, LimitSmall
      <4> QED
        BY <4>2, Zenon DEF x, z
  <2>3. i \in 1 .. Len(segs) /\ Position(snd, segs[i]) < snd.next_seqno
    BY <2>1, Zenon
  <2> QED
    BY <2>2, <2>3, <1>3, FreshPositions, Zenon
<1>4. ASSUME NEW n \in 1 .. Len(Stream), Write(n) PROVE FALSE
  <2>1. sent' = << >>
    BY <1>4, <1>0, Zenon DEF Write, Queue, Good, IsSender, SenderFields
  <2> QED
    BY <2>1, <1>2, Zenon
<1>5. CASE Close
  <2>1. sent' = << >>
    BY <1>5, <1>0, Zenon DEF Close, Queue, Good, IsSender, SenderFields
  <2> QED
    BY <2>1, <1>2, Zenon
<1>6. CASE FillWindow
  <2> DEFINE t == fill_window(snd)
  <2>1. Queue(t)
    BY <1>6, Zenon DEF FillWindow
  <2>2. Good(t, written) /\ Advances(snd, t)
    BY <1>0, FillGood, Zenon
  <2> HIDE DEF t
  <2>3. PICK segs \in Seq(Segments) :
          /\ t.segments_out = snd.segments_out \o segs
          /\ Chain(segs, snd.next_seqno, t.next_seqno)
    BY <2>2, Zenon DEF Advances
  <2>4. t.acked_next <= snd.next_seqno
    BY <2>2, <1>0, Zenon DEF Advances
  <2> QED
    BY <2>1, <2>2, <2>3, <2>4, <1>3, Zenon
<1>7. ASSUME NEW a \in 1 .. Len(Stream) + 2, NEW win \in 0 .. MaxWin,
             AckReceived(a, win) \/ StaleAckReceived(a, win)
      PROVE  FALSE
  <2> DEFINE t == ack_received(snd, wrap(a, Isn), win)
  <2>1. Queue(t) /\ Answered(t, snd, written, a, win)
    BY <1>7, AckStep, Zenon
  <2> HIDE DEF t
  <2>2. PICK segs \in Seq(Segments) :
          /\ t.segments_out = snd.segments_out \o segs
          /\ Chain(segs, snd.next_seqno, t.next_seqno)
    BY <2>1, Zenon DEF Answered
  <2>3. a \in Nat /\ a <= snd.next_seqno
    <3>1. a \in Nat
      BY StreamAssumption
    <3>2. a <= snd.next_seqno \/ a <= ackedTo
      BY <1>7, <3>1, <1>0 DEF AckReceived, StaleAckReceived
    <3>3. ackedTo \in Nat /\ ackedTo <= snd.next_seqno
      BY Zenon DEF SInv
    <3> QED
      BY <3>1, <3>2, <3>3, <1>0
  <2>4. Good(t, written) /\ (t.acked_next = snd.acked_next \/ t.acked_next <= a)
    BY <2>1, Zenon DEF Answered
  <2>5. t.acked_next \in Nat
    BY <2>4, Zenon DEF Good
  <2>6. t.acked_next <= snd.next_seqno
    BY <2>3, <2>4, <2>5, <1>0
  <2> QED
    BY <2>1, <2>2, <2>4, <2>6, <1>3, SMTT(30)
<1>8. CASE Tick(1)
  <2> DEFINE t == sender_tick(snd, 1)
             o == snd.outstanding_buffer
             m == IF snd.received_window_size # 0
                  THEN double_rto(pass(snd.timer, 1))
                  ELSE reset_rto(pass(snd.timer, 1))
  <2>1. Queue(t)
    BY <1>8, Zenon DEF Tick
  <2>2. /\ Good(t, written)
        /\ \/ t.segments_out = snd.segments_out
           \/ /\ t.segments_out = snd.segments_out \o <<o[1]>>
              /\ o # << >> /\ t.timer = m
    <3>1. Ticked(t, snd, written, 1)
      BY <1>0, TickGood, Zenon
    <3> HIDE DEF t
    <3> QED
      BY <3>1, Zenon DEF Ticked
  <2> HIDE DEF t, m
  <2>3. sent' = t.segments_out /\ snd'.timer = t.timer
    BY <2>1, <2>2, QueueGood, Zenon
  <2>4. t.segments_out = << >> \o <<o[1]>> /\ o # << >> /\ t.timer = m
    BY <2>2, <2>3, <1>0, <1>2, Zenon
  <2>5. << >> \o <<o[1]>> = <<o[1]>>
    <3>1. Len(o) \in Nat /\ Len(o) # 0
      BY <2>4, <1>0
    <3>2. o[1] \in Segments
      BY <3>1, <1>0
    <3>3. <<o[1]>> \in Seq(Segments)
      BY <3>2
    <3> QED
      BY <3>3
  <2> QED
    BY <2>3, <2>4, <2>5, <1>8, Zenon DEF ResendsOldest, out, m
<1> QED
  BY <1>4, <1>5, <1>6, <1>7, <1>8, Zenon DEF Next

\* Segments are sent again only by a timeout, and then the oldest alone: neither
\* an acknowledgment, however old, nor a wider window repeats a position.
THEOREM ResendsOldestCorrect ==
  Spec => [][\A i \in 1 .. Len(sent') :
               Position(snd, sent'[i]) < snd.next_seqno => ResendsOldest]_vars
<1>1. SInv /\ [Next]_vars
        => [\A i \in 1 .. Len(sent') :
              Position(snd, sent'[i]) < snd.next_seqno => ResendsOldest]_vars
  BY ResendStep, Zenon
<1> QED
  BY <1>1, InitSInv, NextSInv, PTL DEF Spec

-----------------------------------------------------------------------------
(* How the timeout grows.                                                  *)

\* The powers of two, as Naturals defines them; no prover here knows them.
Powers == 2 ^ 0 = 1 /\ \A n \in Nat : 2 ^ n \in Nat /\ 2 ^ (n + 1) = 2 * 2 ^ n

\* The timeout is the initial one, shifted.
Backs(t) ==
  /\ IsTimer(t)
  /\ t.initial_rto \in Nat /\ t.shift \in Nat /\ t.rto \in Nat
  /\ t.rto = t.initial_rto * 2 ^ t.shift
  /\ t.initial_rto <= t.rto

\* double_rto() doubles the timeout, reset() and reset_rto() set it back, and
\* nothing else changes it.
LEMMA TimerBacks ==
  ASSUME Powers, NEW t, Backs(t)
  PROVE  /\ Backs(start(t)) /\ Backs(reset(t)) /\ Backs(stop(t))
         /\ Backs(pass(t, 1)) /\ pass(t, 1).rto = t.rto
         /\ Backs(double_rto(t)) /\ double_rto(t).rto = 2 * t.rto
         /\ Backs(reset_rto(t)) /\ reset_rto(t).rto <= t.rto
<1> DEFINE i == t.initial_rto
           k == t.shift
           e == 2 ^ k
           r == t.rto
<1>1. /\ IsTimer(t) /\ DOMAIN t = TimerFields
      /\ i \in Nat /\ k \in Nat /\ r \in Nat /\ r = i * e /\ i <= r
  BY Zenon DEF Backs, IsTimer
<1>2. e \in Nat /\ 2 ^ (k + 1) = 2 * e /\ 2 ^ 0 = 1
  BY <1>1, Zenon DEF Powers
<1>3. i * 1 = i /\ i <= i /\ 0 \in Nat
  BY <1>1
<1>4. Backs(start(t))
  BY <1>1, TimerOps, Zenon DEF Backs, start, TimerFields
<1>5. /\ reset(t).initial_rto = i /\ reset(t).shift = 0 /\ reset(t).rto = i
      /\ DOMAIN reset(t) = TimerFields
  BY <1>1, Zenon DEF reset, TimerFields
<1>6. Backs(reset(t))
  BY <1>1, <1>2, <1>3, <1>5, TimerOps, Zenon DEF Backs
<1>7. Backs(stop(t))
  <2>1. /\ stop(t).initial_rto = i /\ stop(t).shift = 0 /\ stop(t).rto = i
    BY <1>5, Zenon DEF stop, TimerFields
  <2> QED
    BY <2>1, <1>1, <1>2, <1>3, TimerOps, Zenon DEF Backs
<1>8. Backs(pass(t, 1)) /\ pass(t, 1).rto = t.rto
  <2>1. /\ pass(t, 1).initial_rto = i /\ pass(t, 1).shift = k
        /\ pass(t, 1).rto = r
    BY <1>1, Zenon DEF pass, TimerFields
  <2> QED
    BY <2>1, <1>1, TimerOps, Zenon DEF Backs
<1>9. Backs(double_rto(t)) /\ double_rto(t).rto = 2 * t.rto
  <2>1. /\ double_rto(t).initial_rto = i /\ double_rto(t).shift = k + 1
        /\ double_rto(t).rto = i * 2 ^ (k + 1)
    BY <1>1, Zenon DEF double_rto, TimerFields
  <2>2. i * 2 ^ (k + 1) = i * (2 * e)
    BY <1>2, Zenon
  <2> HIDE DEF i, e, r, k
  <2>3. i * (2 * e) = 2 * r /\ 2 * r \in Nat /\ i <= 2 * r /\ k + 1 \in Nat
    <3>1. i * (2 * e) = 2 * (i * e)
      BY <1>1, <1>2
    <3> QED
      BY <3>1, <1>1
  <2>4. double_rto(t).rto = 2 * r
    BY <2>1, <2>2, <2>3, Zenon
  <2>5. IsTimer(double_rto(t))
    BY <1>1, TimerOps, Zenon
  <2>6. Backs(double_rto(t))
    BY <2>1, <2>3, <2>4, <2>5, <1>1, Zenon DEF Backs
  <2> QED
    BY <2>4, <2>6, Zenon DEF r
<1>10. Backs(reset_rto(t)) /\ reset_rto(t).rto <= t.rto
  <2>1. /\ reset_rto(t).initial_rto = i /\ reset_rto(t).shift = 0
        /\ reset_rto(t).rto = i
    BY <1>1, Zenon DEF reset_rto, TimerFields
  <2> QED
    BY <2>1, <1>1, <1>2, <1>3, TimerOps, Zenon DEF Backs
<1> QED
  BY <1>4, <1>6, <1>7, <1>8, <1>9, <1>10, Zenon

\* Sending starts the timer or leaves it.
LEMMA FillBacks ==
  ASSUME Powers, NEW s, IsSender(s), Timed(s), Backs(s.timer)
  PROVE  Backs(fill_window(s).timer)
<1> DEFINE a == SendSyn(s)
           n == Lesser(Len(a.stream.buf), a.peer_window_size)
           fin == FinFits(a, n)
           d == DataSegments(a, n, fin)
           len == n + (IF fin THEN 1 ELSE 0)
           u == Send(a, d, len)
<1>1. ASSUME NEW v, IsSender(v), Backs(v.timer), NEW segs, NEW l
      PROVE  /\ Backs(Send(v, segs, l).timer)
             /\ DOMAIN Send(v, segs, l) = SenderFields
  <2>1. Backs(start(v.timer)) /\ DOMAIN v = SenderFields
    BY <1>1, TimerBacks, Zenon DEF IsSender
  <2>2. CASE segs = << >>
    BY <2>1, <2>2, <1>1, Zenon DEF Send
  <2>3. CASE segs # << >>
    <3>1. /\ Send(v, segs, l).timer = start(v.timer)
          /\ DOMAIN Send(v, segs, l) = SenderFields
      BY <2>1, <2>3, Zenon DEF Send, SenderFields
    <3> QED
      BY <3>1, <2>1, Zenon
  <2> QED
    BY <2>2, <2>3, Zenon
<1>2. IsSender(a)
  BY SynTimed, Zenon
<1>3. Backs(a.timer)
  <2>1. CASE s.syn_sent
    BY <2>1, Zenon DEF SendSyn
  <2>2. CASE ~s.syn_sent
    <3> DEFINE seg == SynSegment(s)
               v == Send(s, <<seg>>, length_in_sequence_space(seg))
    <3>1. a = [v EXCEPT !.syn_sent = TRUE, !.fin_sent = seg.fin]
      BY <2>2, Zenon DEF SendSyn
    <3> HIDE DEF seg, a
    <3>2. Backs(v.timer) /\ DOMAIN v = SenderFields
      BY <1>1, Zenon
    <3> HIDE DEF v
    <3>3. a.timer = v.timer
      BY <3>1, <3>2, Zenon DEF SenderFields
    <3> QED
      BY <3>2, <3>3, Zenon
  <2> QED
    BY <2>1, <2>2, Zenon
<1> HIDE DEF a
<1>4. fill_window(s) = [u EXCEPT !.stream = pop_output(@, n), !.fin_sent = @ \/ fin]
  BY Zenon DEF fill_window, SendData, a
<1> HIDE DEF n, fin, d, len
<1>5. Backs(u.timer) /\ DOMAIN u = SenderFields
  BY <1>1, <1>2, <1>3, Zenon
<1> HIDE DEF u
<1>6. fill_window(s).timer = u.timer
  BY <1>4, <1>5, Zenon DEF SenderFields
<1> QED
  BY <1>5, <1>6, Zenon

\* An acknowledgment resets the timer, stops it or leaves it, and may start it.
LEMMA AckBacks ==
  ASSUME Powers, NEW s, IsSender(s), Timed(s), Backs(s.timer),
         NEW ackno \in Raw, NEW win \in Nat
  PROVE  Backs(ack_received(s, ackno, win).timer)
<1> DEFINE heard == [s EXCEPT !.received_window_size = win]
           abs_ackno == unwrap(ackno, s.isn, s.acked_next)
           removed == RemoveAcked(heard, abs_ackno)
           opened == OpenWindow(removed, win)
           new == NewData(s, abs_ackno)
           u == AdjustTimer(opened, new)
<1>1. IsSender(heard) /\ Timed(heard) /\ heard.timer = s.timer
  BY Zenon DEF IsSender, Timed, SenderFields
<1> HIDE DEF heard, abs_ackno, new
<1>2. IsSender(removed)
  BY <1>1, RemoveType, Zenon
<1>3. /\ removed.timer = s.timer
      /\ removed.outstanding_buffer # << >> => removed.timer.running
  <2>1. /\ removed.timer = heard.timer
        /\ removed.outstanding_buffer
             = Suffix(heard.outstanding_buffer, AckedCount(heard, abs_ackno))
    BY <1>1, Zenon DEF RemoveAcked, IsSender, SenderFields
  <2>2. ASSUME heard.outstanding_buffer = << >>
        PROVE  removed.outstanding_buffer = << >>
    <3>1. AckedCount(heard, abs_ackno) = 0
      BY <2>2, <1>1, AckedCountType
    <3> QED
      BY <2>1, <2>2, <3>1 DEF Suffix
  <2> QED
    BY <2>1, <2>2, <1>1, Zenon DEF Timed
<1> HIDE DEF removed
<1>4. /\ IsSender(opened) /\ opened.timer = s.timer
      /\ opened.outstanding_buffer # << >> => opened.timer.running
  <2> DEFINE w == IF Usable(win) > removed.bytes_in_flight
                  THEN Usable(win) - removed.bytes_in_flight ELSE 0
  <2>1. w \in Nat
    BY <1>2 DEF IsSender, Usable
  <2>2. opened = [removed EXCEPT !.peer_window_size = w]
    BY Zenon DEF OpenWindow
  <2> HIDE DEF w, opened
  <2> QED
    BY <2>1, <2>2, <1>2, <1>3, Zenon DEF IsSender, SenderFields
<1> HIDE DEF opened
<1>5. IsSender(u) /\ Timed(u)
  BY <1>4, AdjustTimed, Zenon
<1>6. Backs(u.timer)
  <2> DEFINE stopped == IF opened.outstanding_buffer = << >> THEN stop(opened.timer)
                        ELSE opened.timer
             t == IF new THEN reset(stopped) ELSE stopped
  <2>1. Backs(stopped)
    BY <1>4, TimerBacks, Zenon
  <2> HIDE DEF stopped
  <2>2. Backs(t)
    BY <2>1, TimerBacks, Zenon
  <2>3. u = [opened EXCEPT !.timer = t]
    BY Zenon DEF AdjustTimer, stopped
  <2>4. DOMAIN opened = SenderFields
    BY <1>4, Zenon DEF IsSender
  <2> HIDE DEF t, u
  <2>5. u.timer = t
    BY <2>3, <2>4, Zenon DEF SenderFields
  <2> QED
    BY <2>2, <2>5, Zenon
<1> HIDE DEF u
<1>7. Backs(fill_window(u).timer)
  BY <1>5, <1>6, FillBacks, Zenon
<1>8. ack_received(s, ackno, win)
        = IF abs_ackno > s.next_seqno THEN heard ELSE fill_window(u)
  BY Zenon DEF ack_received, heard, abs_ackno, opened, removed, new, u
<1> QED
  BY <1>1, <1>7, <1>8, Zenon

\* A tick doubles the timeout, sets it back or leaves it.
LEMMA TickBacks ==
  ASSUME Powers, NEW s, IsSender(s), Backs(s.timer)
  PROVE  Backs(sender_tick(s, 1).timer)
<1> DEFINE p == pass(s.timer, 1)
<1>1. Backs(p) /\ DOMAIN s = SenderFields
  BY TimerBacks, Zenon DEF IsSender
<1>2. sender_tick(s, 1).timer
        = IF is_expire(p)
          THEN IF s.received_window_size # 0 THEN double_rto(p) ELSE reset_rto(p)
          ELSE p
  <2> HIDE DEF p
  <2> QED
    BY <1>1, Zenon DEF sender_tick, p, SenderFields
<1> HIDE DEF p
<1>3. Backs(double_rto(p)) /\ Backs(reset_rto(p))
  BY <1>1, TimerBacks, Zenon
<1> QED
  BY <1>1, <1>2, <1>3, Zenon

\* The timer of a new sender.
LEMMA InitBacks == ASSUME Powers PROVE Init => Backs(snd.timer)
<1> SUFFICES ASSUME Init PROVE Backs(snd.timer)
  BY Zenon
<1>1. snd.timer = NewTimer(Rto)
  BY Zenon DEF Init, NewTCPSender
<1>2. Rto \in Nat /\ Rto * 1 = Rto /\ Rto <= Rto /\ 2 ^ 0 = 1
  BY RtoAssumption DEF Powers
<1>3. /\ NewTimer(Rto).rto = Rto /\ NewTimer(Rto).initial_rto = Rto
      /\ NewTimer(Rto).shift = 0 /\ IsTimer(NewTimer(Rto))
  BY Zenon DEF NewTimer, IsTimer, TimerFields
<1>4. Backs(NewTimer(Rto))
  BY <1>2, <1>3 DEF Backs
<1> QED
  BY <1>1, <1>4, Zenon

\* Every step keeps the timeout a shift of the initial one.
LEMMA NextBacks ==
  ASSUME Powers
  PROVE  SInv /\ Backs(snd.timer) /\ [Next]_vars => Backs(snd.timer)'
<1> SUFFICES ASSUME SInv, Backs(snd.timer), [Next]_vars PROVE Backs(snd'.timer)
  BY Zenon
<1>0. /\ Good(snd, written) /\ IsSender(snd) /\ Timed(snd) /\ DOMAIN snd = SenderFields
  BY Zenon DEF SInv, Good, IsSender
<1>1. ASSUME NEW s, DOMAIN s = SenderFields, Queue(s), Backs(s.timer)
      PROVE  Backs(snd'.timer)
  <2>1. snd'.timer = s.timer
    BY <1>1, Zenon DEF Queue, SenderFields
  <2> QED
    BY <2>1, <1>1, Zenon
<1>2. ASSUME NEW b, Queue([snd EXCEPT !.stream = b]) PROVE Backs(snd'.timer)
  <2> DEFINE s == [snd EXCEPT !.stream = b]
  <2>1. DOMAIN s = SenderFields /\ s.timer = snd.timer
    BY <1>0, Zenon DEF SenderFields
  <2>2. Queue(s)
    BY <1>2, Zenon
  <2> HIDE DEF s
  <2> QED
    BY <2>1, <2>2, <1>1, Zenon
<1>3. ASSUME NEW n \in 1 .. Len(Stream), Write(n) PROVE Backs(snd'.timer)
  BY <1>2, <1>3, Zenon DEF Write
<1>4. CASE Close
  BY <1>2, <1>4, Zenon DEF Close
<1>5. CASE FillWindow
  <2> DEFINE s == fill_window(snd)
  <2>1. Queue(s)
    BY <1>5, Zenon DEF FillWindow
  <2>2. Backs(s.timer) /\ DOMAIN s = SenderFields
    BY <1>0, FillBacks, FillTimed, Zenon DEF IsSender
  <2> HIDE DEF s
  <2> QED
    BY <2>1, <2>2, <1>1, Zenon
<1>6. ASSUME NEW a \in 1 .. Len(Stream) + 2, NEW win \in 0 .. MaxWin,
             AckReceived(a, win) \/ StaleAckReceived(a, win)
      PROVE  Backs(snd'.timer)
  <2> DEFINE s == ack_received(snd, wrap(a, Isn), win)
  <2>1. Queue(s)
    BY <1>6, Zenon DEF AckReceived, StaleAckReceived
  <2>2. wrap(a, Isn) \in Raw /\ win \in Nat
    BY StreamAssumption, IsnAssumption, BoundsAssumption, WrapTypes
  <2>3. Backs(s.timer)
    BY <2>2, <1>0, AckBacks, Zenon
  <2>4. DOMAIN s = SenderFields
    BY <2>2, <1>0, AckTimed, SMTT(30) DEF IsSender
  <2> HIDE DEF s
  <2> QED
    BY <2>1, <2>3, <2>4, <1>1, Zenon
<1>7. CASE Tick(1)
  <2> DEFINE s == sender_tick(snd, 1)
  <2>1. Queue(s)
    BY <1>7, Zenon DEF Tick
  <2>2. Backs(s.timer)
    BY <1>0, TickBacks, Zenon
  <2>3. DOMAIN s = SenderFields
    BY <1>0, TickTimed, Zenon DEF IsSender
  <2> HIDE DEF s
  <2> QED
    BY <2>1, <2>2, <2>3, <1>1, Zenon
<1>8. CASE UNCHANGED vars
  BY <1>8, Zenon DEF vars
<1> QED
  BY <1>3, <1>4, <1>5, <1>6, <1>7, <1>8, Zenon DEF Next

\* What was sent before is sent again only by a timeout, the oldest segment
\* alone, and the timeout then doubles unless the peer's window is closed.  The
\* hypothesis is the definition of the powers of two.
THEOREM RetransmitsOldestCorrect == ASSUME Powers PROVE Spec => RetransmitsOldest
<1> DEFINE Step == \A i \in 1 .. Len(sent') :
             Position(snd, sent'[i]) < snd.next_seqno =>
               /\ sent' = <<out[1]>> /\ Tick(1)
               /\ IF snd.received_window_size = 0
                  THEN snd'.timer.rto <= snd.timer.rto
                  ELSE snd'.timer.rto = 2 * snd.timer.rto
<1>1. SInv /\ Backs(snd.timer) /\ [Next]_vars => [Step]_vars
  <2> SUFFICES ASSUME SInv, Backs(snd.timer), Next, NEW i \in 1 .. Len(sent'),
                      Position(snd, sent'[i]) < snd.next_seqno
               PROVE  /\ sent' = <<out[1]>> /\ Tick(1)
                      /\ IF snd.received_window_size = 0
                         THEN snd'.timer.rto <= snd.timer.rto
                         ELSE snd'.timer.rto = 2 * snd.timer.rto
    BY Zenon
  <2> DEFINE p == pass(snd.timer, 1)
  <2>1. /\ sent' = <<out[1]>> /\ Tick(1)
        /\ snd'.timer = IF snd.received_window_size # 0 THEN double_rto(p)
                        ELSE reset_rto(p)
    BY ResendStep, Zenon DEF ResendsOldest
  <2>2. Backs(p) /\ p.rto = snd.timer.rto
    BY TimerBacks, Zenon
  <2> HIDE DEF p
  <2>3. double_rto(p).rto = 2 * p.rto /\ reset_rto(p).rto <= p.rto
    BY <2>2, TimerBacks, Zenon
  <2> QED
    BY <2>1, <2>2, <2>3, Zenon
<1>2. Init => SInv /\ Backs(snd.timer)
  BY InitSInv, InitBacks, Zenon
<1>3. SInv /\ Backs(snd.timer) /\ [Next]_vars => (SInv /\ Backs(snd.timer))'
  BY NextSInv, NextBacks, Zenon
<1>4. Spec => [][Step]_vars
  BY <1>1, <1>2, <1>3, PTL DEF Spec
<1> QED
  BY <1>4, Zenon DEF RetransmitsOldest
=============================================================================
