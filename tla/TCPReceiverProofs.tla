-------------------------- MODULE TCPReceiverProofs --------------------------
(***************************************************************************)
(* The invariants of a TCPReceiver whose peer keeps to the window, for     *)
(* every length of the stream, every capacity, every initial sequence      *)
(* number and every modulus N.                                             *)
(***************************************************************************)
EXTENDS TCPReceiverSpec, OperatorProofs

ReceiverFields ==
  {"reassembler", "capacity", "state", "isn", "ack_no_64", "last_no",
   "received_syn", "received_fin"}

\* A receiver that has had the SYN, when d bytes have been read: everything it
\* assembled is in the output, it stores nothing beyond the window, its
\* acknowledgment is exact, and it knows the end of the stream exactly when a FIN
\* has arrived.
Running(r, d) ==
  LET q == r.reassembler IN
  /\ DOMAIN r = ReceiverFields
  /\ r.received_syn = TRUE /\ r.received_fin \in BOOLEAN
  /\ r.isn = Isn /\ r.capacity = Cap /\ r.state \in {1, 2}
  /\ Sound(q, Length, Cap, d) /\ Tidy(q)
  /\ Len(q.assemBuf) = 0
  /\ \A x \in CoveredBy(q.unassemBuf) : x < d + Cap
  /\ r.ack_no_64 = 1 + q.expectIdx + (IF q.output.is_end THEN 1 ELSE 0)
  /\ r.received_fin => r.last_no = Length + 2
  /\ q.output.is_end <=> r.received_fin /\ q.expectIdx = Length
  /\ q.eofIndex = Length => r.received_fin

\* What this says in numbers.
LEMMA RunningTypes ==
  ASSUME NEW d \in Nat, NEW r, Running(r, d)
  PROVE  LET q == r.reassembler IN
         /\ Len(q.output.buf) \in Nat /\ Len(q.output.buf) <= Cap
         /\ q.expectIdx = d + Len(q.output.buf) /\ q.expectIdx <= Length
         /\ q.expectIdx \in Nat /\ r.ack_no_64 \in Nat
         /\ q.output.is_end \in BOOLEAN
         /\ window_size(r) = Cap - Len(q.output.buf)
         /\ r.ack_no_64 <= Length + 2
<1> DEFINE q == r.reassembler
           lb == Len(q.output.buf)
           la == Len(q.assemBuf)
           e  == q.expectIdx
<1>0. Length \in Nat /\ Cap \in Nat
  BY LengthAssumption, CapAssumption, Zenon
<1>1. Sound(q, Length, Cap, d) /\ la = 0 /\ r.capacity = Cap
  BY Zenon DEF Running
<1>2. lb \in Nat /\ e \in 0 .. Length /\ q.output.is_end \in BOOLEAN
  BY <1>0, <1>1, SoundTypes, Zenon
<1>3. e = d + lb + la /\ lb <= Cap /\ q.output.cap = Cap
  BY <1>1, Zenon DEF Sound, ByteStreams
<1>4. r.ack_no_64 = 1 + e + (IF q.output.is_end THEN 1 ELSE 0)
  BY Zenon DEF Running
<1>5. window_size(r) = Cap - lb
  <2>1. window_size(r) = Cap - (Cap - (Cap - lb))
    BY <1>1, <1>3, Zenon DEF window_size, bytes_not_read, remaining_capacity
  <2> HIDE DEF lb
  <2> QED
    BY <2>1, <1>0, <1>2
<1> HIDE DEF lb, la, e
<1>6. e = d + lb /\ e <= Length /\ e \in Nat
  BY <1>0, <1>1, <1>2, <1>3
<1>7. r.ack_no_64 \in Nat /\ r.ack_no_64 <= Length + 2
  <2>1. CASE q.output.is_end
    BY <2>1, <1>0, <1>4, <1>6
  <2>2. CASE ~q.output.is_end
    BY <2>2, <1>0, <1>4, <1>6
  <2> QED
    BY <2>1, <2>2, <1>2, Zenon
<1> QED
  BY <1>2, <1>3, <1>5, <1>6, <1>7, Zenon DEF lb, e

-----------------------------------------------------------------------------
(* The segments of the peer.                                               *)

\* The stream index of the first byte that a segment from position first on
\* can carry.
IndexOf(first) == IF first = 0 THEN 0 ELSE first - 1

\* The segment for positions first .. last - 1.
Piece(seg, first, last) ==
  /\ first \in Nat /\ last \in Nat /\ first < last /\ last <= Length + 2
  /\ seg.seqno = wrap(first, Isn)
  /\ seg.syn \in BOOLEAN /\ (seg.syn <=> first = 0)
  /\ seg.fin \in BOOLEAN /\ (seg.fin <=> last = Length + 2)
  /\ SpeltAt(seg.payload, IndexOf(first), Length)
  /\ IndexOf(first) + Len(seg.payload) = Lesser(last - 1, Length)
  /\ length_in_sequence_space(seg) = last - first

\* PeerSegment makes it.
LEMMA PeerSegmentIs ==
  ASSUME NEW first \in 0 .. FinPosition, NEW last \in 1 .. FinPosition + 1,
         first < last
  PROVE  Piece(PeerSegment(first, last), first, last)
<1> DEFINE seg == PeerSegment(first, last)
           i   == IndexOf(first)
           b   == Lesser(last - 1, Length)
<1>0. Length \in Nat
  BY LengthAssumption, Zenon
<1>1. Stream = [j \in 1 .. Length |-> j] /\ Len(Stream) = Length
  <2>1. Stream = [j \in 1 .. Length |-> j]
    BY Zenon DEF Stream, Byte
  <2> QED
    BY <1>0, <2>1, StreamSpelt, Zenon
<1>2. FinPosition = Length + 1
  BY <1>1, Zenon DEF FinPosition
<1>3. first \in Nat /\ last \in Nat /\ first <= Length + 1 /\ last <= Length + 2
  BY <1>0, <1>2
<1>4. /\ seg.seqno = wrap(first, Isn)
      /\ seg.syn = (first = 0 /\ last > 0)
      /\ seg.fin = (first <= FinPosition /\ last = FinPosition + 1)
      /\ seg.payload = SubSeq(Stream, IF first = 0 THEN 1 ELSE first,
                              Lesser(last - 1, Len(Stream)))
  BY Zenon DEF PeerSegment, EmptySegment
<1>5. /\ i \in Nat /\ b \in Nat /\ i <= b /\ b <= Length
      /\ (IF first = 0 THEN 1 ELSE first) = i + 1
      /\ b = IF last = Length + 2 THEN Length ELSE last - 1
      /\ i = IF first = 0 THEN 0 ELSE first - 1
  BY <1>0, <1>3 DEF IndexOf, Lesser
<1>6. seg.syn \in BOOLEAN /\ (seg.syn <=> first = 0)
  BY <1>3, <1>4, Zenon
<1>7. seg.fin \in BOOLEAN /\ (seg.fin <=> last = Length + 2)
  <2>1. seg.fin = (first <= Length + 1 /\ last = (Length + 1) + 1)
    BY <1>2, <1>4, Zenon
  <2>2. (Length + 1) + 1 = Length + 2
    BY <1>0
  <2> HIDE DEF seg
  <2> QED
    BY <2>1, <2>2, <1>3, Zenon
<1> HIDE DEF i, b, seg
<1>8. /\ SpeltAt(seg.payload, i, Length) /\ Len(seg.payload) = b - i
  <2> DEFINE n == b - i
  <2>1. n \in Nat /\ i + n = b /\ i + n <= Length
    BY <1>0, <1>5
  <2>2. seg.payload = SubSeq(Stream, i + 1, i + n)
    BY <2>1, <1>1, <1>4, <1>5, SMTT(30) DEF b
  <2> HIDE DEF n
  <2>3. /\ SpeltAt(SubSeq([j \in 1 .. Length |-> j], i + 1, i + n), i, Length)
        /\ Len(SubSeq([j \in 1 .. Length |-> j], i + 1, i + n)) = n
    <3>1. i \in Nat
      BY <1>5, Zenon
    <3> QED
      BY <1>0, <2>1, <3>1, SliceSpelt, Zenon
  <2> QED
    BY <2>2, <2>3, <1>1, Zenon DEF n
<1>9. i + Len(seg.payload) = b
  BY <1>5, <1>8
<1>10. length_in_sequence_space(seg) = last - first
  <2>1. length_in_sequence_space(seg)
          = (b - i) + (IF first = 0 THEN 1 ELSE 0)
                    + (IF last = Length + 2 THEN 1 ELSE 0)
    BY <1>6, <1>7, <1>8, Zenon DEF length_in_sequence_space
  <2> QED
    BY <2>1, <1>0, <1>3, <1>5
<1> QED
  BY <1>3, <1>4, <1>6, <1>7, <1>8, <1>9, <1>10, Zenon DEF Piece, seg, i, b

\* The segment may arrive at r.
Fits(r, first, last) ==
  /\ first = 0 => last <= 1 + Cap
  /\ first > 0 => /\ last <= r.ack_no_64
                             + (IF window_size(r) = 0 THEN 1 ELSE window_size(r))
                  /\ last <= first + Cap
  /\ r.ack_no_64 - first < N \div 2

\* It is less than half a turn ahead, so its number is decoded exactly.
LEMMA DecodesFirst ==
  ASSUME NEW d \in Nat, NEW r, Running(r, d), NEW first \in Nat, NEW last \in Nat,
         first < last, Fits(r, first, last)
  PROVE  /\ unwrap(wrap(first, Isn), r.isn, r.ack_no_64) = first
         /\ first - r.ack_no_64 < N \div 2
<1> DEFINE h == N \div 2
           a == r.ack_no_64
           lb == Len(r.reassembler.output.buf)
<1>1. /\ h \in Nat /\ Cap < h /\ Cap \in Nat /\ Cap >= 1
  BY Half, CapAssumption
<1>2. lb \in Nat /\ window_size(r) = Cap - lb /\ lb <= Cap /\ a \in Nat
  BY RunningTypes, Zenon
<1>3. /\ first > 0 => last <= a + (IF window_size(r) = 0 THEN 1 ELSE window_size(r))
      /\ a - first < h
  BY Zenon DEF Fits
<1> HIDE DEF h, a, lb
<1>4. first - a < h
  <2>1. CASE first = 0
    BY <2>1, <1>1, <1>2
  <2>2. CASE first > 0
    <3>1. last <= a + Cap
      BY <2>2, <1>1, <1>2, <1>3
    <3> QED
      BY <3>1, <1>1, <1>2
  <2> QED
    BY <2>1, <2>2
<1>5. unwrap(wrap(first, Isn), Isn, a) = first
  BY <1>2, <1>3, <1>4, IsnAssumption, UnwrapInverts, Zenon DEF h
<1> QED
  BY <1>4, <1>5, Zenon DEF a, h, Running

\* What CutData leaves of the payload: still a string of the stream at its index,
\* within the window, the whole of it when it carries the end; and if nothing is
\* left, the segment started no later than the next byte expected.
WellCut(r, d, seg, first) ==
  LET cut == CutData(r, seg) IN
  /\ DataIndex(r, seg) = IndexOf(first)
  /\ IndexOf(first) \in Nat
  /\ SpeltAt(cut, IndexOf(first), Length)
  /\ seg.fin => IndexOf(first) + Len(cut) = Length
  /\ IndexOf(first) + Len(cut) <= d + Cap
  /\ Len(seg.payload) > 0 /\ Len(cut) = 0 => IndexOf(first) <= r.reassembler.expectIdx

\* It is so cut in every state of a running receiver.
LEMMA CutIs ==
  ASSUME NEW d \in Nat, NEW r, Running(r, d), NEW seg, NEW first, NEW last,
         Piece(seg, first, last), Fits(r, first, last)
  PROVE  WellCut(r, d, seg, first)
<1> DEFINE i   == IndexOf(first)
           p   == seg.payload
           lp  == Len(p)
           e   == r.reassembler.expectIdx
           en  == r.reassembler.output.is_end
           lb  == Len(r.reassembler.output.buf)
           a   == r.ack_no_64
           W   == window_size(r)
           cut == CutData(r, seg)
           lc  == Len(cut)
           right == a + W
           room  == right - first
           n     == Lesser(room, lp)
<1>0. Length \in Nat /\ Cap \in Nat
  BY LengthAssumption, CapAssumption, Zenon
<1>1. /\ first \in Nat /\ last \in Nat /\ first < last /\ last <= Length + 2
      /\ seg.seqno = wrap(first, Isn) /\ seg.syn \in BOOLEAN /\ (seg.syn <=> first = 0)
      /\ seg.fin \in BOOLEAN /\ (seg.fin <=> last = Length + 2)
      /\ SpeltAt(p, i, Length) /\ i + lp = Lesser(last - 1, Length)
      /\ length_in_sequence_space(seg) = last - first
  BY Zenon DEF Piece
<1>2. /\ lb \in Nat /\ lb <= Cap /\ e = d + lb /\ e <= Length /\ e \in Nat
      /\ a \in Nat /\ en \in BOOLEAN /\ W = Cap - lb
  BY RunningTypes, Zenon
<1>3. a = 1 + e + (IF en THEN 1 ELSE 0) /\ (en => e = Length)
  BY Zenon DEF Running
<1>4. unwrap(seg.seqno, r.isn, a) = first
  BY <1>1, DecodesFirst, Zenon
<1>5. i = (IF first = 0 THEN 0 ELSE first - 1) /\ i \in Nat
  BY <1>1 DEF IndexOf
<1>6. DataIndex(r, seg) = i
  BY <1>1, <1>4, <1>5, Zenon DEF DataIndex
<1>7. lp \in Nat
  BY <1>0, <1>1, <1>5, SpeltUnique, Zenon
<1>8. cut = IF first + (last - first) > right /\ room >= 0 THEN Prefix(p, n) ELSE p
  BY <1>1, <1>4, Zenon DEF CutData
<1>9. /\ first = 0 => last <= 1 + Cap
      /\ first > 0 => last <= a + (IF W = 0 THEN 1 ELSE W)
  BY Zenon DEF Fits
<1>10. i + lp = IF last - 1 <= Length THEN last - 1 ELSE Length
  BY <1>1, Zenon DEF Lesser
<1> HIDE DEF i, p, lp, e, en, lb, a, W, cut, lc
<1>11. CASE last <= right
  <2>1. cut = p
    BY <1>1, <1>2, <1>8, <1>11
  <2>2. lc = lp /\ SpeltAt(cut, i, Length)
    BY <2>1, <1>1, Zenon DEF lc, lp, p
  <2>3. i + lp <= d + Cap
    <3>1. CASE en
      BY <3>1, <1>0, <1>1, <1>2, <1>3, <1>10
    <3>2. CASE ~en
      <4>1. right = 1 + (d + Cap)
        BY <3>2, <1>0, <1>2, <1>3
      <4> HIDE DEF right
      <4> QED
        BY <4>1, <1>0, <1>1, <1>2, <1>10, <1>11
    <3> QED
      BY <3>1, <3>2, Zenon
  <2>4. last = Length + 2 => i + lp = Length
    BY <1>0, <1>1, <1>10
  <2>5. ~(lp > 0 /\ lc = 0)
    BY <2>2, <1>7
  <2>6. /\ i + lc <= d + Cap
        /\ seg.fin => i + lc = Length
    BY <2>2, <2>3, <2>4, <1>1, Zenon
  <2> QED
    BY <2>2, <2>5, <2>6, <1>5, <1>6, Zenon DEF WellCut, i, lp, p, lc, cut
<1>12. CASE ~(last <= right)
  <2>1. first > 0
    <3>1. CASE first = 0
      <4>1. right >= 1 + Cap /\ right \in Int
        BY <1>0, <1>2, <1>3
      <4> HIDE DEF right
      <4> QED
        BY <3>1, <4>1, <1>0, <1>1, <1>2, <1>9, <1>12
    <3> QED
      BY <3>1, <1>1
  <2>2. W = 0 /\ last = a + 1 /\ right = a
    BY <2>1, <1>0, <1>1, <1>2, <1>9, <1>12
  <2>3. /\ room = last - 1 - first /\ room \in Nat /\ i = first - 1 /\ i + room = last - 2
    BY <2>1, <2>2, <1>1, <1>2, <1>5
  <2>4. first + (last - first) > right /\ room >= 0
    BY <2>2, <2>3, <1>1, <1>2
  <2>5. cut = Prefix(p, n)
    BY <2>4, <1>8, Zenon
  <2>6. n \in Nat /\ n <= lp /\ n <= room /\ (n = room \/ n = lp)
    <3> HIDE DEF room
    <3> QED
      BY <2>3, <1>7 DEF Lesser
  <2> HIDE DEF n, room, right
  <2>7. SpeltAt(cut, i, Length) /\ lc = n
    <3>1. SpeltAt(p, i, Length) /\ n <= Len(p)
      BY <1>1, <2>6, Zenon DEF lp
    <3>2. SpeltAt(Prefix(p, n), i, Length) /\ Len(Prefix(p, n)) = n
      BY <3>1, <1>0, <1>5, <2>6, PrefixSpelt
    <3> QED
      BY <3>2, <2>5, Zenon DEF lc
  <2>8. e = d + Cap
    BY <2>2, <1>0, <1>2
  <2>9. last = Length + 2 => i + n = Length
    BY <2>3, <2>6, <1>0, <1>1, <1>5, <1>7, <1>10
  <2>10. i + n <= d + Cap
    <3>1. CASE en
      BY <3>1, <2>6, <2>8, <1>0, <1>2, <1>3, <1>5, <1>7, <1>10, <1>1
    <3>2. CASE ~en
      BY <3>2, <2>2, <2>3, <2>6, <2>8, <1>0, <1>1, <1>2, <1>3, <1>5
    <3> QED
      BY <3>1, <3>2, Zenon
  <2>11. lp > 0 /\ n = 0 => i <= e
    <3>1. CASE en
      BY <3>1, <1>0, <1>1, <1>2, <1>3, <1>5, <1>7, <1>10
    <3>2. CASE ~en
      BY <3>2, <2>2, <2>3, <2>6, <1>1, <1>2, <1>3, <1>5, <1>7
    <3> QED
      BY <3>1, <3>2, Zenon
  <2> QED
    BY <2>7, <2>9, <2>10, <2>11, <1>1, <1>5, <1>6, Zenon DEF WellCut, i, lp, p, lc, cut, e
<1> QED
  BY <1>11, <1>12, Zenon

-----------------------------------------------------------------------------
(* The blocks of segment_received.                                         *)

\* What ReceiveData makes of r: everything new is in the output, the
\* acknowledgment counts it, nothing that was received is dropped.
DataTaken(t, r, d, seg) ==
  LET q == r.reassembler
      w == t.reassembler
  IN  /\ DOMAIN t = ReceiverFields
      /\ t.received_syn = TRUE /\ t.received_fin = r.received_fin
      /\ t.isn = Isn /\ t.capacity = Cap /\ t.state = r.state /\ t.last_no = r.last_no
      /\ Sound(w, Length, Cap, d) /\ Tidy(w) /\ Len(w.assemBuf) = 0
      /\ \A x \in CoveredBy(w.unassemBuf) : x < d + Cap
      /\ t.ack_no_64 = 1 + w.expectIdx + (IF q.output.is_end THEN 1 ELSE 0)
      /\ q.output.is_end => w.output.is_end /\ w.expectIdx = q.expectIdx
      /\ w.output.is_end =>
           q.output.is_end \/ (w.expectIdx = Length /\ w.eofIndex = Length)
      /\ w.eofIndex = Length => q.eofIndex = Length \/ seg.fin
      /\ q.expectIdx <= w.expectIdx
      /\ \A x \in Nat :
           x \in CoveredBy(q.unassemBuf) \/ x < q.expectIdx
           => x \in CoveredBy(w.unassemBuf) \/ x < w.expectIdx

\* The reassembler after the payload of the segment.
LEMMA PushedData ==
  ASSUME NEW d \in Nat, NEW r, Running(r, d), NEW seg, NEW first, NEW last,
         Piece(seg, first, last), Fits(r, first, last), Len(seg.payload) > 0
  PROVE  LET q == r.reassembler
             cut == CutData(r, seg)
             i == DataIndex(r, seg)
             w == push_substring(q, cut, i, seg.fin)
         IN  /\ Pushed(w, q, Length, Cap, d, cut, i, seg.fin)
             /\ Tidy(w)
             /\ Overflow(BeforeFixCap(q, cut, i, seg.fin)) <= 0
             /\ \A x \in Nat : i <= x /\ x < i + Len(cut) => x < d + Cap
             /\ seg.fin \in BOOLEAN
<1> DEFINE q   == r.reassembler
           cut == CutData(r, seg)
           i   == DataIndex(r, seg)
           w   == push_substring(q, cut, i, seg.fin)
           e   == q.expectIdx
           lim == d + Cap
<1>0. Length \in Nat /\ Cap \in Nat
  BY LengthAssumption, CapAssumption, Zenon
<1>1. WellCut(r, d, seg, first)
  BY CutIs, Zenon
<1>2. /\ i \in Nat /\ SpeltAt(cut, i, Length) /\ (seg.fin => i + Len(cut) = Length)
      /\ i + Len(cut) <= lim /\ (Len(cut) = 0 => i <= e)
  BY <1>1, Zenon DEF WellCut
<1>3. Sound(q, Length, Cap, d) /\ Tidy(q) /\ \A x \in CoveredBy(q.unassemBuf) : x < lim
  BY Zenon DEF Running
<1>4. seg.fin \in BOOLEAN
  BY Zenon DEF Piece
<1>5. /\ e = d + Len(q.output.buf) /\ Len(q.output.buf) \in Nat
      /\ Len(q.output.buf) <= Cap /\ e \in Nat
  BY RunningTypes, Zenon
<1>6. Len(q.assemBuf) = 0
  BY Zenon DEF Running
<1> HIDE DEF cut, i, q, w
<1>7. NotInside(q.unassemBuf, cut, i)
  <2>1. \A k \in DOMAIN q.unassemBuf : e < k /\ k \in Nat
    <3>1. DOMAIN q.unassemBuf \subseteq 0 .. Length
      BY <1>3, Zenon DEF Sound, Spelt
    <3> QED
      BY <3>1, <1>0, <1>3 DEF Tidy
  <2> HIDE DEF e
  <2> QED
    BY <2>1, <1>2, <1>5 DEF NotInside
<1>8. Pushed(w, q, Length, Cap, d, cut, i, seg.fin)
  BY <1>0, <1>2, <1>3, <1>4, PushSound, Zenon DEF w
<1>9. Tidy(w)
  BY <1>3, <1>7, <1>8, Zenon DEF Pushed
<1>10. Len(cut) \in Nat
  BY <1>0, <1>2, SpeltUnique, Zenon
<1>11. lim \in Nat /\ e <= lim
  BY <1>0, <1>5
<1>12. \A x \in Nat : i <= x /\ x < i + Len(cut) => x < lim
  <2> HIDE DEF lim
  <2> QED
    BY <1>2, <1>10, <1>11
<1>13. Overflow(BeforeFixCap(q, cut, i, seg.fin)) <= Len(q.assemBuf) + (lim - e) - Cap
  <2> HIDE DEF lim
  <2> QED
    BY <1>0, <1>2, <1>3, <1>4, <1>7, <1>11, <1>12, OverflowBound, Zenon
<1>14. Overflow(BeforeFixCap(q, cut, i, seg.fin)) <= 0
  <2> DEFINE o == Overflow(BeforeFixCap(q, cut, i, seg.fin))
             lb == Len(q.output.buf)
  <2>1. o \in Int
    <3> DEFINE b == BeforeFixCap(q, cut, i, seg.fin)
    <3>1. Prepared(b, q, Length, cut, i, seg.fin)
      BY <1>0, <1>2, <1>3, <1>4, BeforeFixCapIs, Zenon
    <3> HIDE DEF b
    <3>2. /\ Spelt(b.unassemBuf, Length) /\ b.assemBuf = q.assemBuf
          /\ b.capacity = q.capacity
      BY <3>1, Zenon DEF Prepared
    <3>3. StoredBytes(b.unassemBuf, DOMAIN b.unassemBuf) \in Nat
      <4>1. DOMAIN b.unassemBuf \in SUBSET DOMAIN b.unassemBuf
        BY Zenon
      <4> QED
        BY <3>2, <4>1, <1>0, CellsFinite, Zenon
    <3>4. q.capacity = Cap
      BY <1>3, Zenon DEF Sound
    <3>5. Overflow(b) = 0 + StoredBytes(b.unassemBuf, DOMAIN b.unassemBuf) - Cap
      BY <3>2, <3>4, <1>6, Zenon DEF Overflow
    <3>6. Overflow(b) \in Int
      <4> DEFINE T == StoredBytes(b.unassemBuf, DOMAIN b.unassemBuf)
      <4>1. T \in Nat /\ Overflow(b) = 0 + T - Cap
        BY <3>3, <3>5, Zenon
      <4> HIDE DEF T
      <4> QED
        BY <4>1, <1>0
    <3> QED
      BY <3>6, Zenon DEF b
  <2>2. o <= 0 + (lim - e) - Cap
    BY <1>6, <1>13, Zenon
  <2>3. e = d + lb /\ lb \in Nat
    BY <1>5, Zenon
  <2> HIDE DEF o, lb, e
  <2>4. o <= 0
    BY <1>0, <2>1, <2>2, <2>3
  <2> QED
    BY <2>4, Zenon DEF o
<1> QED
  BY <1>4, <1>8, <1>9, <1>12, <1>14, Zenon DEF cut, i, q, w

\* ReceiveData hands it to the reassembler and counts what that could write.
LEMMA ReceiveDataIs ==
  ASSUME NEW d \in Nat, NEW r, Running(r, d), NEW seg, NEW first, NEW last,
         Piece(seg, first, last), Fits(r, first, last)
  PROVE  DataTaken(ReceiveData(r, seg), r, d, seg)
<1> DEFINE q  == r.reassembler
           t  == ReceiveData(r, seg)
           en == q.output.is_end
           e  == q.expectIdx
<1>0. Length \in Nat /\ Cap \in Nat
  BY LengthAssumption, CapAssumption, Zenon
<1>1. /\ DOMAIN r = ReceiverFields /\ r.received_syn = TRUE
      /\ r.isn = Isn /\ r.capacity = Cap /\ r.state \in {1, 2}
      /\ Sound(q, Length, Cap, d) /\ Tidy(q) /\ Len(q.assemBuf) = 0
      /\ \A x \in CoveredBy(q.unassemBuf) : x < d + Cap
      /\ r.ack_no_64 = 1 + e + (IF en THEN 1 ELSE 0)
      /\ en => r.received_fin /\ e = Length
      /\ q.eofIndex = Length => r.received_fin
  BY Zenon DEF Running
<1>2. e \in Nat /\ e <= Length /\ en \in BOOLEAN /\ e = d + Len(q.output.buf)
      /\ Len(q.output.buf) \in Nat /\ Len(q.output.buf) <= Cap
  BY RunningTypes, Zenon
<1>3. seg.payload \in Seq(1 .. Length) /\ IndexOf(first) \in Nat
  BY DEF Piece, SpeltAt, IndexOf
<1>4. Len(seg.payload) \in Nat /\ (seg.payload = << >> <=> Len(seg.payload) = 0)
  BY <1>3
<1>5. CASE seg.payload = << >>
  <2>1. t = r
    BY <1>5, Zenon DEF ReceiveData, HasDataToPush
  <2>2. e <= e
    BY <1>2
  <2>3. en => e = Length /\ q.output.is_end
    BY <1>1, Zenon
  <2> HIDE DEF t
  <2> QED
    BY <1>1, <2>1, <2>2, <2>3, Zenon DEF DataTaken, t
<1>6. CASE seg.payload # << >>
  <2> DEFINE cut == CutData(r, seg)
             i   == DataIndex(r, seg)
             w   == push_substring(q, cut, i, seg.fin)
             f   == w.expectIdx
  <2>1. /\ Pushed(w, q, Length, Cap, d, cut, i, seg.fin)
        /\ Tidy(w)
        /\ Overflow(BeforeFixCap(q, cut, i, seg.fin)) <= 0
        /\ \A x \in Nat : i <= x /\ x < i + Len(cut) => x < d + Cap
        /\ seg.fin \in BOOLEAN
    BY <1>4, <1>6, PushedData
  <2>2. t = [r EXCEPT !.reassembler = w,
                      !.ack_no_64 = r.ack_no_64 + w.output.total_bytes_written
                                      - q.output.total_bytes_written]
    BY <1>1, <1>6, Zenon DEF ReceiveData, HasDataToPush
  <2> HIDE DEF w, cut, i, t
  <2>3. /\ Sound(w, Length, Cap, d) /\ e <= f
        /\ w.eofIndex = IF seg.fin THEN Length ELSE q.eofIndex
        /\ w.output.is_end <=> en \/ (Len(w.assemBuf) = 0 /\ f = w.eofIndex)
        /\ Len(w.assemBuf) > 0 => Len(w.output.buf) = Cap
        /\ \A x \in CoveredBy(w.unassemBuf) :
             x \in CoveredBy(q.unassemBuf)
               \/ (i <= x /\ x < i + Len(cut) /\ e <= x)
        /\ \A x \in Nat : e <= x /\ x < f =>
             x \in CoveredBy(q.unassemBuf) \/ (i <= x /\ x < i + Len(cut))
        /\ \A x \in Nat :
             (x \in CoveredBy(q.unassemBuf)
                \/ (i <= x /\ x < i + Len(cut) /\ e <= x))
             => x \in CoveredBy(w.unassemBuf) \/ x < f
    BY <2>1, Zenon DEF Pushed
  <2>4. /\ DOMAIN t = ReceiverFields /\ t.reassembler = w
        /\ t.received_syn = TRUE /\ t.received_fin = r.received_fin
        /\ t.isn = Isn /\ t.capacity = Cap /\ t.state = r.state /\ t.last_no = r.last_no
        /\ t.ack_no_64 = r.ack_no_64 + w.output.total_bytes_written
                           - q.output.total_bytes_written
    BY <1>1, <2>2, Zenon DEF ReceiverFields
  <2> DEFINE lb == Len(w.output.buf)
             la == Len(w.assemBuf)
             lq == Len(q.output.buf)
  <2>5. lb \in Nat /\ la \in Nat /\ f \in 0 .. Length /\ lq \in Nat
    BY <1>0, <1>2, <2>3, SoundTypes, Zenon
  <2>6. /\ f = d + lb + la /\ w.output.total_bytes_written = d + lb
        /\ lb <= Cap
    BY <2>3, Zenon DEF Sound
  <2>7. q.output.total_bytes_written = d + lq
    BY <1>1, Zenon DEF Sound
  <2>8. \A x \in CoveredBy(w.unassemBuf) : x < d + Cap /\ x \in Nat
    <3>1. \A x \in CoveredBy(w.unassemBuf) : x \in Nat
      BY Zenon DEF CoveredBy
    <3> QED
      BY <3>1, <1>1, <2>1, <2>3, Zenon
  <2>9. f <= d + Cap
    <3>1. CASE f = e
      BY <3>1, <1>0, <1>2
    <3>2. CASE f # e
      <4>0. e \in Nat /\ e <= f /\ f \in Nat
        BY <1>2, <2>3, <2>5
      <4>1. f - 1 \in Nat /\ e <= f - 1 /\ f - 1 < f
        <5> HIDE DEF e, f
        <5> QED
          BY <3>2, <4>0
      <4>2. f - 1 < d + Cap
        BY <4>1, <1>1, <2>1, <2>3, Zenon
      <4> HIDE DEF f
      <4> QED
        BY <4>0, <4>2, <1>0
    <3> QED
      BY <3>1, <3>2, Zenon
  <2>10. la = 0
    <3>1. la > 0 => lb = Cap
      BY <2>3, Zenon
    <3> HIDE DEF la, lb, f
    <3> QED
      BY <3>1, <1>0, <2>5, <2>6, <2>9
  <2>11. t.ack_no_64 = 1 + f + (IF en THEN 1 ELSE 0)
    <3> DEFINE a == r.ack_no_64
               z == IF en THEN 1 ELSE 0
    <3>1. a = 1 + e + z /\ z \in Nat
      BY <1>1, Zenon
    <3>2. t.ack_no_64 = a + (d + lb) - (d + lq)
      BY <2>4, <2>6, <2>7, Zenon
    <3>3. e = d + lq /\ f = d + lb + la
      BY <1>2, <2>6, Zenon
    <3> HIDE DEF a, z, lb, la, lq, e, f
    <3>4. a + (d + lb) - (d + lq) = 1 + f + z
      BY <3>1, <3>3, <2>5, <2>10
    <3> QED
      BY <3>2, <3>4, Zenon DEF z
  <2>12. /\ en => w.output.is_end /\ f = e
         /\ w.output.is_end => en \/ (f = Length /\ w.eofIndex = Length)
    <3>1. en => f = e
      <4> HIDE DEF f, e
      <4> QED
        BY <1>0, <1>1, <1>2, <2>3, <2>5
    <3>2. f = w.eofIndex => f = Length /\ w.eofIndex = Length
      <4>1. w.eofIndex \in {NoEof, Length}
        BY <2>3, Zenon DEF Sound
      <4> QED
        BY <4>1, <2>5 DEF NoEof
    <3> QED
      BY <3>1, <3>2, <2>3, Zenon
  <2>13. w.eofIndex = Length => q.eofIndex = Length \/ seg.fin
    BY <2>1, <2>3, Zenon
  <2>14. \A x \in Nat :
           x \in CoveredBy(q.unassemBuf) \/ x < e
           => x \in CoveredBy(w.unassemBuf) \/ x < f
    <3>1. \A x \in Nat : x < e => x < f
      BY <1>2, <2>3, <2>5
    <3> QED
      BY <3>1, <2>3, Zenon
  <2> QED
    BY <2>1, <2>3, <2>4, <2>8, <2>10, <2>11, <2>12, <2>13, <2>14, Zenon DEF DataTaken, t
<1> QED
  BY <1>5, <1>6, Zenon

\* Ending the output when every byte is written.
LEMMA EndSound ==
  ASSUME NEW d \in Nat, NEW q, Sound(q, Length, Cap, d),
         d + Len(q.output.buf) = Length
  PROVE  LET s == [q EXCEPT !.output = end_input(q.output)] IN
         /\ Sound(s, Length, Cap, d)
         /\ s.unassemBuf = q.unassemBuf /\ s.assemBuf = q.assemBuf
         /\ s.expectIdx = q.expectIdx /\ s.eofIndex = q.eofIndex
         /\ s.output.is_end = TRUE
<1> DEFINE o == end_input(q.output)
           s == [q EXCEPT !.output = o]
<1>1. DOMAIN q = ReassemblerFields /\ q.output \in ByteStreams(1 .. Length, Cap)
  BY Zenon DEF Sound
<1>2. o = [q.output EXCEPT !.is_end = TRUE]
  BY Zenon DEF end_input
<1>3. /\ o \in ByteStreams(1 .. Length, Cap) /\ o.buf = q.output.buf
      /\ o.total_bytes_read = q.output.total_bytes_read
      /\ o.total_bytes_written = q.output.total_bytes_written /\ o.is_end = TRUE
  BY <1>1, <1>2, Zenon DEF ByteStreams
<1> HIDE DEF o
<1>4. /\ DOMAIN s = ReassemblerFields /\ s.output = o /\ s.capacity = q.capacity
      /\ s.unassemBuf = q.unassemBuf /\ s.assemBuf = q.assemBuf
      /\ s.expectIdx = q.expectIdx /\ s.eofIndex = q.eofIndex
      /\ s.unassemSize = q.unassemSize
  BY <1>1, Zenon DEF ReassemblerFields
<1> HIDE DEF s
<1>5. Sound(s, Length, Cap, d)
  BY <1>3, <1>4, Zenon DEF Sound
<1> QED
  BY <1>3, <1>4, <1>5, Zenon DEF s, o

\* Nothing that was received before is lost.
Keeps(v, r) ==
  LET q == r.reassembler
      w == v.reassembler
  IN  /\ q.output.is_end => w.output.is_end
      /\ \A x \in Nat :
           x \in CoveredBy(q.unassemBuf) \/ x < q.expectIdx
           => x \in CoveredBy(w.unassemBuf) \/ x < w.expectIdx

\* ReceiveFin records the position after the FIN.
LEMMA ReceiveFinIs ==
  ASSUME NEW d \in Nat, NEW r, Running(r, d), NEW seg, NEW first, NEW last,
         Piece(seg, first, last), Fits(r, first, last),
         NEW t, DataTaken(t, r, d, seg)
  PROVE  LET u == ReceiveFin(t, seg) IN
         /\ DOMAIN u = ReceiverFields /\ u.reassembler = t.reassembler
         /\ u.received_syn = TRUE /\ u.isn = Isn /\ u.capacity = Cap
         /\ u.state \in {1, 2} /\ u.ack_no_64 = t.ack_no_64
         /\ u.received_fin \in BOOLEAN
         /\ (u.received_fin <=> r.received_fin \/ seg.fin)
         /\ u.received_fin => u.last_no = Length + 2
<1> DEFINE q  == r.reassembler
           w  == t.reassembler
           en == q.output.is_end
           u  == ReceiveFin(t, seg)
           a  == t.ack_no_64
           h  == N \div 2
<1>0. Length \in Nat /\ Cap \in Nat /\ h \in Nat /\ Cap < h
  BY LengthAssumption, CapAssumption, Half, Zenon
<1>1. /\ DOMAIN t = ReceiverFields
      /\ t.received_syn = TRUE /\ t.received_fin = r.received_fin
      /\ t.isn = Isn /\ t.capacity = Cap /\ t.state = r.state /\ t.last_no = r.last_no
      /\ a = 1 + w.expectIdx + (IF en THEN 1 ELSE 0)
      /\ en => w.expectIdx = q.expectIdx
      /\ q.expectIdx <= w.expectIdx
      /\ Sound(w, Length, Cap, d)
  BY Zenon DEF DataTaken
<1>2. /\ r.received_fin \in BOOLEAN /\ r.state \in {1, 2}
      /\ r.received_fin => r.last_no = Length + 2
      /\ r.ack_no_64 = 1 + q.expectIdx + (IF en THEN 1 ELSE 0)
  BY Zenon DEF Running
<1>3. q.expectIdx \in Nat /\ en \in BOOLEAN /\ r.ack_no_64 \in Nat
  BY RunningTypes, Zenon
<1>4. w.expectIdx \in 0 .. Length
  BY <1>0, <1>1, SoundTypes, Zenon
<1>5. /\ first \in Nat /\ last \in Nat /\ first < last
      /\ seg.fin \in BOOLEAN /\ (seg.fin => last = Length + 2)
      /\ seg.seqno = wrap(first, Isn)
      /\ length_in_sequence_space(seg) = last - first
  BY Zenon DEF Piece
<1>6. CASE ~seg.fin
  <2>1. u = t
    BY <1>6, Zenon DEF ReceiveFin
  <2> QED
    BY <2>1, <1>1, <1>2, <1>6, Zenon
<1>7. CASE seg.fin
  <2>1. first - r.ack_no_64 < h
    BY <1>5, DecodesFirst, Zenon
  <2>2. /\ first = 0 => last <= 1 + Cap
        /\ first > 0 => last <= first + Cap
        /\ r.ack_no_64 - first < h
    BY Zenon DEF Fits
  <2> DEFINE ew == w.expectIdx
             eq == q.expectIdx
             ar == r.ack_no_64
  <2>3. /\ ew \in Nat /\ ew <= Length /\ eq \in Nat /\ ar \in Nat /\ eq <= ew
        /\ last = Length + 2
    BY <1>0, <1>1, <1>3, <1>4, <1>5, <1>7
  <2>4. a \in Nat /\ ar <= a /\ a - first < h
    <3>1. CASE en
      <4>1. a = ar /\ a \in Nat
        BY <3>1, <1>1, <1>2, <1>3, Zenon
      <4> QED
        BY <4>1, <2>2
    <3>2. CASE ~en
      <4>0. a = 1 + ew + 0 /\ ar = 1 + eq + 0
        BY <3>2, <1>1, <1>2, Zenon
      <4> HIDE DEF ew, eq, ar, a, h
      <4>1. a = 1 + ew /\ ar = 1 + eq
        BY <4>0, <2>3
      <4>2. last <= first + Cap + 1
        BY <2>2, <1>5, <1>0
      <4> QED
        BY <4>1, <4>2, <2>3, <1>0, <1>5
    <3> QED
      BY <3>1, <3>2, Zenon
  <2>5. first - a < h
    <3>1. first - ar < h
      BY <2>1, Zenon
    <3> HIDE DEF ew, eq, ar, a, h
    <3> QED
      BY <3>1, <2>3, <2>4, <1>0, <1>5
  <2>6. unwrap(seg.seqno, t.isn, a) = first
    BY <2>4, <2>5, <1>1, <1>5, IsnAssumption, UnwrapInverts
  <2>7. u = [t EXCEPT !.state = 2, !.last_no = first + (last - first),
                      !.received_fin = TRUE]
    BY <2>6, <1>5, <1>7, Zenon DEF ReceiveFin
  <2>8. first + (last - first) = Length + 2
    BY <2>3, <1>5
  <2> HIDE DEF u
  <2> QED
    BY <2>7, <2>8, <1>1, <1>7, Zenon DEF ReceiverFields, u
<1> QED
  BY <1>5, <1>6, <1>7, Zenon

\* AcknowledgeFin acknowledges the FIN, and ends the output, exactly when every
\* byte before it has been written.
LEMMA AcknowledgeFinIs ==
  ASSUME NEW d \in Nat, NEW r, Running(r, d), NEW seg, NEW first, NEW last,
         Piece(seg, first, last), Fits(r, first, last),
         NEW t, DataTaken(t, r, d, seg)
  PROVE  LET v == AcknowledgeFin(ReceiveFin(t, seg)) IN Running(v, d) /\ Keeps(v, r)
<1> DEFINE q  == r.reassembler
           w  == t.reassembler
           en == q.output.is_end
           ew == w.expectIdx
           u  == ReceiveFin(t, seg)
           v  == AcknowledgeFin(u)
           a  == t.ack_no_64
<1>0. Length \in Nat /\ Cap \in Nat
  BY LengthAssumption, CapAssumption, Zenon
<1>1. /\ Sound(w, Length, Cap, d) /\ Tidy(w) /\ Len(w.assemBuf) = 0
      /\ \A x \in CoveredBy(w.unassemBuf) : x < d + Cap
      /\ a = 1 + ew + (IF en THEN 1 ELSE 0)
      /\ en => w.output.is_end /\ ew = q.expectIdx
      /\ w.output.is_end => en \/ (ew = Length /\ w.eofIndex = Length)
      /\ w.eofIndex = Length => q.eofIndex = Length \/ seg.fin
      /\ \A x \in Nat :
           x \in CoveredBy(q.unassemBuf) \/ x < q.expectIdx
           => x \in CoveredBy(w.unassemBuf) \/ x < ew
  BY Zenon DEF DataTaken
<1>2. /\ DOMAIN u = ReceiverFields /\ u.reassembler = w
      /\ u.received_syn = TRUE /\ u.isn = Isn /\ u.capacity = Cap
      /\ u.state \in {1, 2} /\ u.ack_no_64 = a
      /\ u.received_fin \in BOOLEAN
      /\ (u.received_fin <=> r.received_fin \/ seg.fin)
      /\ u.received_fin => u.last_no = Length + 2
  BY ReceiveFinIs, Zenon
<1>3. /\ en => r.received_fin /\ q.expectIdx = Length
      /\ q.eofIndex = Length => r.received_fin
  BY Zenon DEF Running
<1>4. /\ ew \in Nat /\ ew <= Length
      /\ w.output.is_end \in BOOLEAN /\ Len(w.output.buf) \in Nat
  BY <1>0, <1>1, SoundTypes
<1>5. en \in BOOLEAN
  BY RunningTypes, Zenon
<1>6. w.output.is_end => u.received_fin /\ ew = Length
  BY <1>1, <1>2, <1>3, Zenon
<1>7. w.eofIndex = Length => u.received_fin
  BY <1>1, <1>2, <1>3, Zenon
<1> DEFINE reached == u.received_fin /\ a + 1 = u.last_no
           ack     == IF reached THEN u.last_no ELSE a
           ended   == u.received_fin /\ ack = u.last_no
<1>8. v = [u EXCEPT !.ack_no_64 = ack,
                    !.reassembler.output = IF ended THEN end_input(@) ELSE @]
  BY <1>2, Zenon DEF AcknowledgeFin
<1> HIDE DEF u, v
<1>9. CASE u.received_fin /\ ew = Length
  <2>1. ack = Length + 2 /\ ended
    <3>1. CASE en
      <4>1. a = 1 + Length + 1
        BY <3>1, <1>1, <1>9, Zenon
      <4>2. a = Length + 2
        BY <4>1, <1>0
      <4> HIDE DEF a
      <4> QED
        BY <4>2, <1>0, <1>2, <1>9, Zenon
    <3>2. CASE ~en
      <4>1. a = 1 + Length + 0
        BY <3>2, <1>1, <1>9, Zenon
      <4>2. a + 1 = Length + 2
        BY <4>1, <1>0
      <4> HIDE DEF a
      <4> QED
        BY <4>2, <1>0, <1>2, <1>9, Zenon
    <3> QED
      BY <3>1, <3>2, <1>5, Zenon
  <2> DEFINE s == [w EXCEPT !.output = end_input(w.output)]
  <2>2. DOMAIN w = ReassemblerFields
    BY <1>1, Zenon DEF Sound
  <2>3. v = [u EXCEPT !.ack_no_64 = Length + 2, !.reassembler = s]
    BY <1>8, <2>1, <1>2, <2>2, Zenon DEF ReceiverFields, ReassemblerFields
  <2>4. d + Len(w.output.buf) = Length
    <3>1. ew = d + Len(w.output.buf) + Len(w.assemBuf)
      BY <1>1, Zenon DEF Sound
    <3>2. ew = d + Len(w.output.buf) + 0
      BY <3>1, <1>1, Zenon
    <3> DEFINE lb == Len(w.output.buf)
    <3>3. Length = d + lb + 0 /\ lb \in Nat
      BY <3>2, <1>4, <1>9, Zenon
    <3> HIDE DEF lb
    <3>4. d + lb = Length
      BY <3>3
    <3> QED
      BY <3>4, Zenon DEF lb
  <2>5. /\ Sound(s, Length, Cap, d)
        /\ s.unassemBuf = w.unassemBuf /\ s.assemBuf = w.assemBuf
        /\ s.expectIdx = ew /\ s.eofIndex = w.eofIndex
        /\ s.output.is_end = TRUE
    BY <1>1, <2>4, EndSound, Zenon
  <2> HIDE DEF s
  <2>6. /\ DOMAIN v = ReceiverFields /\ v.reassembler = s /\ v.ack_no_64 = Length + 2
        /\ v.received_syn = TRUE /\ v.isn = Isn /\ v.capacity = Cap
        /\ v.state \in {1, 2} /\ v.received_fin = TRUE /\ v.last_no = Length + 2
    BY <2>3, <1>2, <1>9, Zenon DEF ReceiverFields
  <2>7. Length + 2 = 1 + s.expectIdx + (IF s.output.is_end THEN 1 ELSE 0)
    <3>1. 1 + s.expectIdx + (IF s.output.is_end THEN 1 ELSE 0) = 1 + Length + 1
      BY <2>5, <1>9, Zenon
    <3> QED
      BY <3>1, <1>0
  <2>8. Tidy(s) /\ Len(s.assemBuf) = 0 /\ \A x \in CoveredBy(s.unassemBuf) : x < d + Cap
    BY <1>1, <2>5, Zenon DEF Tidy
  <2>9. Running(v, d)
    BY <2>5, <2>6, <2>7, <2>8, <1>9, Zenon DEF Running
  <2>10. Keeps(v, r)
    BY <2>5, <2>6, <1>1, Zenon DEF Keeps
  <2> QED
    BY <2>9, <2>10, Zenon DEF v, u
<1>10. CASE ~(u.received_fin /\ ew = Length)
  <2>1. ~w.output.is_end /\ ~en
    BY <1>1, <1>6, <1>10, Zenon
  <2>2. a = 1 + ew + 0
    BY <2>1, <1>1, Zenon
  <2>3. ack = a /\ ~ended
    <3>1. CASE ~u.received_fin
      BY <3>1, Zenon
    <3>2. CASE u.received_fin
      <4>1. ew # Length /\ u.last_no = Length + 2
        BY <3>2, <1>2, <1>10, Zenon
      <4>2. a # Length + 2 /\ a + 1 # Length + 2
        <5> HIDE DEF a, ew
        <5> QED
          BY <4>1, <2>2, <1>0, <1>4
      <4> QED
        BY <4>1, <4>2, Zenon
    <3> QED
      BY <3>1, <3>2, Zenon
  <2> DEFINE s == [w EXCEPT !.output = w.output]
  <2>4. DOMAIN w = ReassemblerFields
    BY <1>1, Zenon DEF Sound
  <2>5. v = [u EXCEPT !.ack_no_64 = a, !.reassembler = s]
    BY <1>8, <2>3, <2>4, <1>2, Zenon DEF ReceiverFields, ReassemblerFields
  <2>6. /\ DOMAIN s = ReassemblerFields /\ s.output = w.output
        /\ s.capacity = w.capacity /\ s.unassemBuf = w.unassemBuf
        /\ s.assemBuf = w.assemBuf /\ s.expectIdx = ew /\ s.eofIndex = w.eofIndex
        /\ s.unassemSize = w.unassemSize
    BY <2>4, Zenon DEF ReassemblerFields
  <2> HIDE DEF s
  <2>7. Sound(s, Length, Cap, d) /\ Tidy(s)
    BY <2>6, <1>1, Zenon DEF Sound, Tidy
  <2>8. /\ DOMAIN v = ReceiverFields /\ v.reassembler = s /\ v.ack_no_64 = a
        /\ v.received_syn = TRUE /\ v.isn = Isn /\ v.capacity = Cap
        /\ v.state \in {1, 2} /\ v.received_fin = u.received_fin
        /\ v.last_no = u.last_no
    BY <2>5, <1>2, Zenon DEF ReceiverFields
  <2>9. a = 1 + ew + (IF w.output.is_end THEN 1 ELSE 0)
    BY <2>1, <2>2, Zenon
  <2>10. Running(v, d)
    BY <2>1, <2>6, <2>7, <2>8, <2>9, <1>1, <1>2, <1>7, <1>10, Zenon DEF Running
  <2>11. Keeps(v, r)
    BY <2>1, <2>6, <2>8, <1>1, Zenon DEF Keeps
  <2> QED
    BY <2>10, <2>11, Zenon DEF v, u
<1> QED
  BY <1>9, <1>10, Zenon

-----------------------------------------------------------------------------
(* The inductive invariant.                                                *)

RInv ==
  /\ delivered \in Seq(Byte)
  /\ SpeltAt(delivered, 0, Length)
  /\ aborted = FALSE
  /\ \/ rcv = NewTCPReceiver(Cap) /\ delivered = << >>
     \/ Running(rcv, Len(delivered))

\* Nothing is lost where nothing changes.
LEMMA KeepsItself == ASSUME NEW r PROVE Keeps(r, r)
  BY Zenon DEF Keeps

\* What holds of a receiver before the SYN.
LEMMA NewReceiver ==
  LET r == NewTCPReceiver(Cap)
      q == r.reassembler
  IN  /\ DOMAIN r = ReceiverFields /\ q = NewStreamReassembler(Cap)
      /\ r.received_syn = FALSE /\ r.received_fin = FALSE /\ r.capacity = Cap
      /\ r.ack_no_64 = 0 /\ r.last_no = 0
      /\ Sound(q, Length, Cap, 0) /\ Tidy(q) /\ Len(q.assemBuf) = 0
      /\ CoveredBy(q.unassemBuf) = {} /\ q.expectIdx = 0
      /\ q.output.is_end = FALSE /\ q.eofIndex = NoEof /\ Len(q.output.buf) = 0
<1> DEFINE r == NewTCPReceiver(Cap)
           q == NewStreamReassembler(Cap)
<1>1. /\ DOMAIN r = ReceiverFields /\ r.reassembler = q
      /\ r.received_syn = FALSE /\ r.received_fin = FALSE /\ r.capacity = Cap
      /\ r.ack_no_64 = 0 /\ r.last_no = 0
  BY Zenon DEF NewTCPReceiver, ReceiverFields
<1>2. Sound(q, Length, Cap, 0) /\ Tidy(q)
  BY LengthAssumption, CapAssumption, NewSound, Zenon
<1>3. /\ q.assemBuf = << >> /\ q.expectIdx = 0 /\ q.eofIndex = NoEof
      /\ DOMAIN q.unassemBuf = {} /\ q.output = NewByteStream(Cap)
  BY Zenon DEF NewStreamReassembler
<1>4. NewByteStream(Cap).is_end = FALSE /\ NewByteStream(Cap).buf = << >>
  BY Zenon DEF NewByteStream
<1>5. Len(<< >>) = 0
  BY Zenon
<1>6. CoveredBy(q.unassemBuf) = {}
  BY <1>3, Zenon DEF CoveredBy
<1> HIDE DEF q, r
<1> QED
  BY <1>1, <1>2, <1>3, <1>4, <1>5, <1>6, Zenon DEF r, q

\* The first block of segment_received: after it the receiver runs.
LEMMA ReceiveSynIs ==
  ASSUME RInv, NEW seg, NEW first, NEW last, Piece(seg, first, last),
         MayArrive(first, last)
  PROVE  LET s == ReceiveSyn(rcv, seg) IN
         /\ Running(s, Len(delivered)) /\ Fits(s, first, last) /\ Keeps(s, rcv)
<1> DEFINE s == ReceiveSyn(rcv, seg)
<1>0. Length \in Nat /\ Cap \in Nat /\ Cap >= 1 /\ N \div 2 \in Nat /\ Cap < N \div 2
  BY LengthAssumption, CapAssumption, Half
<1>1. /\ first \in Nat /\ last \in Nat /\ seg.syn \in BOOLEAN
      /\ (seg.syn <=> first = 0) /\ seg.seqno = wrap(first, Isn)
  BY Zenon DEF Piece
<1>2. /\ ~rcv.received_syn => first = 0
      /\ last <= IF first = 0 THEN 1 + Cap ELSE Lesser(RightEdge, first + Cap)
      /\ rcv.ack_no_64 - first < N \div 2
  BY Zenon DEF MayArrive, SynEdge
<1>3. CASE rcv = NewTCPReceiver(Cap) /\ delivered = << >>
  <2> DEFINE r == NewTCPReceiver(Cap)
             q == NewStreamReassembler(Cap)
  <2>1. /\ DOMAIN r = ReceiverFields /\ r.reassembler = q
        /\ r.received_syn = FALSE /\ r.received_fin = FALSE /\ r.capacity = Cap
        /\ r.ack_no_64 = 0 /\ r.last_no = 0
        /\ Sound(q, Length, Cap, 0) /\ Tidy(q) /\ Len(q.assemBuf) = 0
        /\ CoveredBy(q.unassemBuf) = {} /\ q.expectIdx = 0
        /\ q.output.is_end = FALSE /\ q.eofIndex = NoEof /\ Len(q.output.buf) = 0
    BY NewReceiver, Zenon
  <2> HIDE DEF r, q
  <2>2. rcv = r /\ first = 0 /\ seg.syn
    BY <1>1, <1>2, <1>3, <2>1, Zenon DEF r
  <2>3. wrap(0, Isn) = Isn
    <3>1. Isn \in 0 .. N - 1 /\ 0 * N + Isn = 0 + Isn
      BY IsnAssumption, NAssumption DEF Raw
    <3>2. (0 * N + Isn) % N = Isn
      BY <3>1, ModUnique, Zenon
    <3> QED
      BY <3>1, <3>2, Zenon DEF wrap
  <2>4. unwrap(Isn, Isn, 0) = 0
    <3>1. 0 - 0 < N \div 2 /\ 0 \in Nat
      BY <1>0
    <3>2. unwrap(wrap(0, Isn), Isn, 0) = 0
      BY <3>1, IsnAssumption, UnwrapInverts, Zenon
    <3> QED
      BY <3>2, <2>3, Zenon
  <2>5. s = [r EXCEPT !.isn = Isn, !.ack_no_64 = 1, !.state = 1, !.received_syn = TRUE]
    <3>1. seg.seqno = Isn /\ unwrap(seg.seqno, seg.seqno, 0) + 1 = 1
      BY <1>1, <2>2, <2>3, <2>4
    <3> QED
      BY <3>1, <2>1, <2>2, Zenon DEF ReceiveSyn
  <2> HIDE DEF s
  <2>6. /\ DOMAIN s = ReceiverFields /\ s.reassembler = q /\ s.received_syn = TRUE
        /\ s.received_fin = FALSE /\ s.isn = Isn /\ s.capacity = Cap /\ s.state = 1
        /\ s.ack_no_64 = 1
    BY <2>1, <2>5, Zenon DEF ReceiverFields
  <2>7. Running(s, 0)
    <3>1. 1 = 1 + 0 + 0 /\ NoEof # Length
      BY <1>0 DEF NoEof
    <3> QED
      BY <2>1, <2>6, <3>1, Zenon DEF Running
  <2>8. Fits(s, first, last)
    <3>1. last <= 1 + Cap /\ 1 - 0 < N \div 2
      BY <1>0, <1>2, <2>2
    <3> QED
      BY <3>1, <2>2, <2>6 DEF Fits
  <2>9. Len(delivered) = 0
    BY <1>3, Zenon
  <2>10. Keeps(s, rcv)
    BY <2>1, <2>2, <2>6, Zenon DEF Keeps
  <2> QED
    BY <2>7, <2>8, <2>9, <2>10, Zenon DEF s
<1>4. CASE Running(rcv, Len(delivered))
  <2>1. rcv.received_syn = TRUE
    BY <1>4, Zenon DEF Running
  <2>2. s = rcv
    BY <2>1, Zenon DEF ReceiveSyn
  <2>3. Len(delivered) \in Nat
    BY DEF RInv
  <2>4. /\ rcv.ack_no_64 \in Nat /\ Len(reasm.output.buf) \in Nat
        /\ window_size(rcv) = Cap - Len(reasm.output.buf)
    BY <1>4, <2>3, RunningTypes, Zenon DEF reasm
  <2>5. Fits(rcv, first, last)
    <3>1. RightEdge = rcv.ack_no_64
                        + (IF window_size(rcv) = 0 THEN 1 ELSE window_size(rcv))
      BY Zenon DEF RightEdge
    <3>2. RightEdge \in Int
      BY <3>1, <2>4, <1>0
    <3> HIDE DEF RightEdge
    <3>3. first > 0 => last <= RightEdge /\ last <= first + Cap
      BY <1>0, <1>1, <1>2, <3>2 DEF Lesser
    <3>4. first = 0 => last <= 1 + Cap
      BY <1>2, Zenon
    <3> QED
      BY <3>1, <3>3, <3>4, <1>2, Zenon DEF Fits
  <2> QED
    BY <1>4, <2>2, <2>5, KeepsItself, Zenon
<1> QED
  BY <1>3, <1>4, Zenon DEF RInv

\* The reassembler never drops so much that fixCap runs off its map.
LEMMA NeverRunsOff ==
  ASSUME RInv, NEW seg, NEW first, NEW last, Piece(seg, first, last),
         MayArrive(first, last)
  PROVE  ~ReceiverRunsOff(rcv, seg)
<1> DEFINE s   == ReceiveSyn(rcv, seg)
           q   == s.reassembler
           cut == CutData(s, seg)
           i   == DataIndex(s, seg)
           b   == BeforeFixCap(q, cut, i, seg.fin)
           d   == Len(delivered)
           T   == StoredBytes(b.unassemBuf, DOMAIN b.unassemBuf)
<1>0. Length \in Nat /\ Cap \in Nat /\ Cap >= 1 /\ d \in Nat
  BY LengthAssumption, CapAssumption DEF RInv
<1>1. Running(s, d) /\ Fits(s, first, last)
  BY ReceiveSynIs, Zenon
<1> HIDE DEF s, d
<1>2. WellCut(s, d, seg, first)
  BY <1>0, <1>1, CutIs, Zenon
<1>3. i \in Nat /\ SpeltAt(cut, i, Length) /\ (seg.fin => i + Len(cut) = Length)
  BY <1>2, Zenon DEF WellCut
<1>4. Sound(q, Length, Cap, d) /\ Len(q.assemBuf) = 0 /\ seg.fin \in BOOLEAN
  BY <1>1, Zenon DEF Running, Piece
<1>5. q.capacity = Cap
  BY <1>4, Zenon DEF Sound
<1> HIDE DEF q, cut, i
<1>6. Prepared(b, q, Length, cut, i, seg.fin)
  BY <1>0, <1>3, <1>4, BeforeFixCapIs, Zenon
<1> HIDE DEF b
<1>7. /\ Spelt(b.unassemBuf, Length) /\ b.assemBuf = q.assemBuf
      /\ b.capacity = q.capacity
  BY <1>6, Zenon DEF Prepared
<1>8. T \in Nat
  <2>1. DOMAIN b.unassemBuf \in SUBSET DOMAIN b.unassemBuf
    BY Zenon
  <2> QED
    BY <1>0, <1>7, <2>1, CellsFinite, Zenon
<1>9. Overflow(b) = 0 + T - Cap
  BY <1>4, <1>5, <1>7, Zenon DEF Overflow
<1>10. ~(Overflow(b) >= T)
  <2> HIDE DEF T
  <2> QED
    BY <1>0, <1>8, <1>9
<1>11. ~FixCapRunsOff(b)
  BY <1>10, Zenon DEF FixCapRunsOff
<1> QED
  BY <1>11, Zenon DEF ReceiverRunsOff, b, q, cut, i, s

\* It holds of a new receiver.
LEMMA InitRInv == Init => RInv
<1> SUFFICES ASSUME Init PROVE RInv
  BY Zenon
<1>1. rcv = NewTCPReceiver(Cap) /\ delivered = << >> /\ aborted = FALSE
  BY Zenon DEF Init
<1>2. << >> \in Seq(Byte) /\ Len(<< >>) = 0 /\ << >> \in Seq(1 .. Length)
  OBVIOUS
<1>3. SpeltAt(<< >>, 0, Length)
  BY <1>2, LengthAssumption DEF SpeltAt
<1> QED
  BY <1>1, <1>2, <1>3, Zenon DEF RInv

\* A segment keeps it, and loses nothing that was received.
LEMMA ReceiveRInv ==
  ASSUME RInv, NEW first \in 0 .. FinPosition, NEW last \in 1 .. FinPosition + 1,
         first < last, Receive(first, last)
  PROVE  /\ RInv' /\ Keeps(rcv', rcv) /\ delivered' = delivered
         /\ Running(rcv', Len(delivered))
<1> DEFINE seg == PeerSegment(first, last)
           d   == Len(delivered)
           s   == ReceiveSyn(rcv, seg)
           t   == ReceiveData(s, seg)
           v   == AcknowledgeFin(ReceiveFin(t, seg))
<1>1. /\ MayArrive(first, last) /\ rcv' = v /\ delivered' = delivered
      /\ aborted' \in {FALSE, ReceiverRunsOff(rcv, seg)}
  BY Zenon DEF Receive, receiver_segment_received
<1>2. Piece(seg, first, last)
  BY PeerSegmentIs, Zenon
<1> HIDE DEF seg
<1>3. Running(s, d) /\ Fits(s, first, last) /\ Keeps(s, rcv)
  BY <1>1, <1>2, ReceiveSynIs, Zenon
<1>4. d \in Nat
  BY DEF RInv
<1> HIDE DEF s, d
<1>5. DataTaken(t, s, d, seg)
  BY <1>2, <1>3, <1>4, ReceiveDataIs, Zenon
<1> HIDE DEF t
<1>6. Running(v, d) /\ Keeps(v, s)
  BY <1>2, <1>3, <1>4, <1>5, AcknowledgeFinIs, Zenon
<1> HIDE DEF v
<1>7. Keeps(v, rcv)
  BY <1>3, <1>6, Zenon DEF Keeps
<1>8. ~ReceiverRunsOff(rcv, seg)
  BY <1>1, <1>2, NeverRunsOff, Zenon
<1>9. aborted' = FALSE
  <2>1. ReceiverRunsOff(rcv, seg) \in BOOLEAN
    BY Zenon DEF ReceiverRunsOff
  <2> QED
    BY <1>1, <1>8, <2>1, Zenon
<1> QED
  BY <1>1, <1>6, <1>7, <1>9, Zenon DEF RInv, d

\* A read keeps it, and the acknowledgment with it.
LEMMA ReadRInv ==
  ASSUME RInv, NEW len \in 1 .. Cap, Read(len)
  PROVE  /\ RInv' /\ Running(rcv, Len(delivered)) /\ Keeps(rcv', rcv)
         /\ Running(rcv', Len(delivered) + len)
<1> DEFINE d == Len(delivered)
           q == rcv.reassembler
           w == [q EXCEPT !.output = pop_output(q.output, len)]
           v == [rcv EXCEPT !.reassembler.output = pop_output(@, len)]
           t == peek_output(q.output, len)
<1>0. /\ d \in Nat /\ Length \in Nat /\ Cap \in Nat /\ len \in Nat /\ len >= 1
  BY LengthAssumption, CapAssumption DEF RInv
<1>1. /\ len <= Len(q.output.buf) /\ rcv' = v
      /\ delivered' = delivered \o t /\ aborted' = aborted
  BY Zenon DEF Read, buffer_size
<1>2. Running(rcv, d)
  <2>1. rcv # NewTCPReceiver(Cap)
    BY <1>0, <1>1, NewReceiver
  <2> QED
    BY <2>1, Zenon DEF RInv
<1>3. Sound(q, Length, Cap, d) /\ DOMAIN rcv = ReceiverFields
  BY <1>2, Zenon DEF Running
<1> HIDE DEF d
<1>4. /\ v.reassembler = w /\ DOMAIN v = ReceiverFields
      /\ v.received_syn = rcv.received_syn /\ v.received_fin = rcv.received_fin
      /\ v.isn = rcv.isn /\ v.capacity = rcv.capacity /\ v.state = rcv.state
      /\ v.ack_no_64 = rcv.ack_no_64 /\ v.last_no = rcv.last_no
  BY <1>3, Zenon DEF ReceiverFields
<1> HIDE DEF q, v
<1>5. /\ Sound(w, Length, Cap, d + len)
      /\ SpeltAt(t, d, Length) /\ Len(t) = len
      /\ w.unassemBuf = q.unassemBuf /\ w.expectIdx = q.expectIdx
      /\ w.assemBuf = q.assemBuf /\ w.eofIndex = q.eofIndex
      /\ w.output.is_end = q.output.is_end
  <2>1. len <= Len(q.output.buf)
    BY <1>1, Zenon
  <2>2. len \in Nat /\ d \in Nat /\ Length \in Nat /\ Cap \in Nat
    BY <1>0, Zenon
  <2>3. Sound(q, Length, Cap, d)
    BY <1>3, Zenon
  <2>4. /\ Sound(w, Length, Cap, d + len)
        /\ SpeltAt(t, d, Length) /\ Len(t) = len
    BY <2>1, <2>2, <2>3, PopSound
  <2>5. /\ w.unassemBuf = q.unassemBuf /\ w.expectIdx = q.expectIdx
        /\ w.assemBuf = q.assemBuf /\ w.eofIndex = q.eofIndex
    BY <2>1, <2>2, <2>3, PopSound
  <2>6. w.output.is_end = q.output.is_end
    <3>1. DOMAIN q = ReassemblerFields /\ q.output \in ByteStreams(1 .. Length, Cap)
      BY <2>3, Zenon DEF Sound
    <3>2. w.output = pop_output(q.output, len)
      BY <3>1, Zenon DEF ReassemblerFields
    <3>3. pop_output(q.output, len).is_end = q.output.is_end
      BY <3>1, Zenon DEF pop_output, ByteStreams
    <3> QED
      BY <3>2, <3>3, Zenon
  <2> QED
    BY <2>4, <2>5, <2>6, Zenon
<1> HIDE DEF w, t
<1>6. Running(v, d + len)
  <2>1. /\ rcv.received_syn = TRUE /\ rcv.received_fin \in BOOLEAN
        /\ rcv.isn = Isn /\ rcv.capacity = Cap /\ rcv.state \in {1, 2}
        /\ Tidy(q) /\ Len(q.assemBuf) = 0
        /\ \A x \in CoveredBy(q.unassemBuf) : x < d + Cap
        /\ rcv.ack_no_64 = 1 + q.expectIdx + (IF q.output.is_end THEN 1 ELSE 0)
        /\ rcv.received_fin => rcv.last_no = Length + 2
        /\ q.output.is_end <=> rcv.received_fin /\ q.expectIdx = Length
        /\ q.eofIndex = Length => rcv.received_fin
    BY <1>2, Zenon DEF Running, q
  <2>2. Tidy(w)
    BY <1>5, <2>1, Zenon DEF Tidy
  <2>3. \A x \in CoveredBy(w.unassemBuf) : x < d + len + Cap
    BY <1>0, <1>5, <2>1 DEF CoveredBy
  <2> QED
    BY <1>4, <1>5, <2>1, <2>2, <2>3, Zenon DEF Running
<1>7. SpeltAt(delivered \o t, 0, Length) /\ Len(delivered \o t) = d + len
  <2> DEFINE p == delivered
  <2>1. SpeltAt(p, 0, Length) /\ SpeltAt(t, 0 + Len(p), Length)
    BY <1>0, <1>5 DEF RInv, d
  <2>2. d = Len(p) /\ Len(t) = len
    BY <1>5, Zenon DEF d
  <2>3. Length \in Nat /\ 0 \in Nat
    BY <1>0, Zenon
  <2> HIDE DEF p
  <2>4. SpeltAt(p \o t, 0, Length) /\ Len(p \o t) = Len(p) + Len(t)
    BY <2>1, <2>3, ConcatSpelt
  <2> QED
    BY <2>2, <2>4, Zenon DEF p
<1>8. delivered \o t \in Seq(Byte)
  BY <1>7, Zenon DEF SpeltAt, Byte
<1>9. Keeps(v, rcv)
  BY <1>4, <1>5, Zenon DEF Keeps, q
<1> QED
  BY <1>1, <1>2, <1>6, <1>7, <1>8, <1>9, Zenon DEF RInv, d

\* So every step does.
LEMMA StepRInv == RInv /\ [Next]_vars => RInv'
<1> SUFFICES ASSUME RInv, [Next]_vars PROVE RInv'
  BY Zenon
<1>1. ASSUME NEW first \in 0 .. FinPosition, NEW last \in 1 .. FinPosition + 1,
             first < last, Receive(first, last)
      PROVE  RInv'
  BY <1>1, ReceiveRInv, Zenon
<1>2. ASSUME NEW len \in 1 .. Cap, Read(len) PROVE RInv'
  BY <1>2, ReadRInv, Zenon
<1>3. CASE UNCHANGED vars
  BY <1>3, Zenon DEF RInv, vars
<1> QED
  BY <1>1, <1>2, <1>3, Zenon DEF Next

\* The invariant holds throughout.
LEMMA AlwaysRInv == Spec => []RInv
  BY InitRInv, StepRInv, PTL DEF Spec

-----------------------------------------------------------------------------
\* The bytes written, counted.
LEMMA WrittenIs ==
  ASSUME RInv, Running(rcv, Len(delivered))
  PROVE  Len(Written) = reasm.expectIdx
<1> DEFINE d == Len(delivered)
           p == delivered
           b == reasm.output.buf
<1>1. Length \in Nat /\ d \in Nat /\ 0 \in Nat
  BY LengthAssumption DEF RInv
<1>2. SpeltAt(p, 0, Length) /\ SpeltAt(b, 0 + Len(p), Length)
  <2>1. SpeltAt(p, 0, Length)
    BY Zenon DEF RInv
  <2>2. Sound(reasm, Length, Cap, d)
    BY Zenon DEF Running, reasm
  <2>3. SpeltAt(b, d, Length)
    BY <2>2, Zenon DEF Sound
  <2>4. 0 + Len(p) = d
    BY <1>1
  <2> QED
    BY <2>1, <2>3, <2>4, Zenon
<1>3. reasm.expectIdx = Len(p) + Len(b)
  BY <1>1, RunningTypes, Zenon DEF reasm
<1>4. Written = p \o b
  BY Zenon DEF Written
<1> HIDE DEF p, b
<1>5. Len(p \o b) = Len(p) + Len(b)
  BY <1>1, <1>2, ConcatSpelt
<1> QED
  BY <1>3, <1>4, <1>5, Zenon

\* ackno() acknowledges the SYN, what was written to the output and, once the
\* output is ended, the FIN: no byte too many that the peer would then forget,
\* and none too few that it would send for ever.
THEOREM AckExactCorrect == Spec => []AckExact
<1>1. RInv => AckExact
  <2> SUFFICES ASSUME RInv, rcv.received_syn
               PROVE  rcv.ack_no_64 = 1 + Len(Written)
                                        + (IF reasm.output.is_end THEN 1 ELSE 0)
    BY Zenon DEF AckExact
  <2>1. Running(rcv, Len(delivered))
    BY NewReceiver, Zenon DEF RInv
  <2>2. rcv.ack_no_64 = 1 + reasm.expectIdx
                          + (IF reasm.output.is_end THEN 1 ELSE 0)
    BY <2>1, Zenon DEF Running, reasm
  <2> QED
    BY <2>1, <2>2, WrittenIs, Zenon
<1> QED
  BY <1>1, AlwaysRInv, PTL

\* segment_received() decodes the number of every segment that may arrive to the
\* position its sender gave it, however often the 32-bit numbers have wrapped.
THEOREM DecodesCorrect == Spec => []Decodes
<1>1. RInv => Decodes
  <2> SUFFICES ASSUME RInv, rcv.received_syn,
                      NEW first \in 0 .. FinPosition,
                      NEW last \in 1 .. FinPosition + 1,
                      first < last, MayArrive(first, last)
               PROVE  unwrap(wrap(first, Isn), rcv.isn, rcv.ack_no_64) = first
    BY Zenon DEF Decodes
  <2>1. Running(rcv, Len(delivered)) /\ rcv.received_syn = TRUE
    BY NewReceiver, Zenon DEF RInv, Running
  <2>2. Piece(PeerSegment(first, last), first, last)
    BY PeerSegmentIs, Zenon
  <2>3. ReceiveSyn(rcv, PeerSegment(first, last)) = rcv
    BY <2>1, Zenon DEF ReceiveSyn
  <2>4. Fits(rcv, first, last)
    BY <2>2, <2>3, ReceiveSynIs, Zenon
  <2>5. first \in Nat /\ last \in Nat /\ Len(delivered) \in Nat
    BY <2>2 DEF Piece, RInv
  <2> QED
    BY <2>1, <2>4, <2>5, DecodesFirst, Zenon
<1> QED
  BY <1>1, AlwaysRInv, PTL

\* What the receiver stores for a peer that keeps to the window, unread bytes
\* included, fits the capacity, and fixCap never runs off its map.
THEOREM StoresAtMostCapacityCorrect == Spec => []StoresAtMostCapacity
<1>1. RInv => StoresAtMostCapacity
  <2> SUFFICES ASSUME RInv PROVE StoresAtMostCapacity
    BY Zenon
  <2> DEFINE d  == Len(delivered)
             lb == Len(reasm.output.buf)
             m  == reasm.unassemBuf
             e  == reasm.expectIdx
             T  == StoredBytes(m, DOMAIN m)
  <2>0. ~aborted /\ d \in Nat /\ Length \in Nat /\ Cap \in Nat
    BY LengthAssumption, CapAssumption DEF RInv
  <2>1. \/ Running(rcv, d)
        \/ rcv = NewTCPReceiver(Cap)
    BY Zenon DEF RInv
  <2>2. CASE Running(rcv, d)
    <3>1. /\ Sound(reasm, Length, Cap, d) /\ Tidy(reasm) /\ Len(reasm.assemBuf) = 0
          /\ \A x \in CoveredBy(m) : x < d + Cap
      BY <2>2, Zenon DEF Running, reasm
    <3>2. lb \in Nat /\ lb <= Cap /\ e = d + lb /\ e \in Nat
      BY <2>0, <2>2, RunningTypes, Zenon DEF reasm
    <3>3. Spelt(m, Length) /\ reasm.unassemSize = T
      BY <3>1, Zenon DEF Sound
    <3>4. Apart(m) /\ \A k \in DOMAIN m : e < k
      BY <3>1, Zenon DEF Tidy
    <3>5. \A k \in DOMAIN m : e <= k
      BY <2>0, <3>2, <3>3, <3>4, SpeltTypes
    <3> HIDE DEF d, lb, m, e, T
    <3>6. e <= d + Cap /\ d + Cap \in Nat
      BY <2>0, <3>2
    <3>7. T \in Nat /\ T <= (d + Cap) - e
      BY <2>0, <3>1, <3>2, <3>3, <3>4, <3>5, <3>6, StoredBelow, Zenon DEF T
    <3>8. lb + 0 + T <= Cap
      BY <2>0, <3>2, <3>7
    <3> QED
      BY <2>0, <3>1, <3>3, <3>8, Zenon DEF StoresAtMostCapacity, buffer_size, lb
  <2>3. CASE rcv = NewTCPReceiver(Cap)
    <3>1. /\ Sound(reasm, Length, Cap, 0) /\ Len(reasm.assemBuf) = 0 /\ lb = 0
      BY <2>3, NewReceiver, Zenon DEF reasm
    <3>2. Len(reasm.assemBuf) + reasm.unassemSize <= Cap
      BY <3>1, Zenon DEF Sound
    <3>3. reasm.unassemSize \in Nat
      BY <2>0, <3>1, SoundTypes, SMTT(30)
    <3> HIDE DEF lb
    <3>4. lb + Len(reasm.assemBuf) + reasm.unassemSize <= Cap
      BY <2>0, <3>1, <3>2, <3>3
    <3> QED
      BY <2>0, <3>4, Zenon DEF StoresAtMostCapacity, buffer_size, lb
  <2> QED
    BY <2>1, <2>2, <2>3, Zenon
<1> QED
  BY <1>1, AlwaysRInv, PTL

\* The indices the receiver has, written or stored.
LEMMA SeenIs ==
  RInv =>
    \A x : x \in (Covered \cup 0 .. reasm.expectIdx - 1) <=>
             x \in Nat /\ (x \in CoveredBy(reasm.unassemBuf) \/ x < reasm.expectIdx)
<1> SUFFICES ASSUME RInv
             PROVE  \A x : x \in (Covered \cup 0 .. reasm.expectIdx - 1) <=>
                             x \in Nat /\ (x \in CoveredBy(reasm.unassemBuf)
                                             \/ x < reasm.expectIdx)
  BY Zenon
<1> DEFINE m == reasm.unassemBuf
           e == reasm.expectIdx
<1>1. PICK d \in Nat : Sound(reasm, Length, Cap, d)
  <2>1. Len(delivered) \in Nat
    BY DEF RInv
  <2> QED
    BY <2>1, NewReceiver, Zenon DEF RInv, Running, reasm
<1>2. Spelt(m, Length) /\ Length \in Nat /\ Len(Stream) = Length /\ Cap \in Nat
  BY <1>1, LengthAssumption, CapAssumption, StreamSpelt, Zenon DEF Sound, Stream, Byte
<1>3. e \in 0 .. Length
  BY <1>1, <1>2, SoundTypes, Zenon
<1>4. \A k \in DOMAIN m : k \in Nat /\ EndOf(m, k) \in Nat /\ EndOf(m, k) <= Length
  BY <1>2, SpeltTypes, Zenon
<1>5. \A x : x \in Covered <=> x \in CoveredBy(m)
  BY <1>2, <1>4 DEF Covered, CoveredBy
<1>6. \A x : x \in CoveredBy(m) => x \in Nat
  BY Zenon DEF CoveredBy
<1> HIDE DEF m, e
<1>7. \A x : x \in 0 .. e - 1 <=> x \in Nat /\ x < e
  BY <1>3
<1> QED
  BY <1>5, <1>6, <1>7, Zenon DEF m, e

\* The same of the next state.
LEMMA SeenNext ==
  RInv' =>
    \A x : x \in (Covered \cup 0 .. reasm.expectIdx - 1)' <=>
             x \in Nat /\ (x \in CoveredBy(rcv'.reassembler.unassemBuf)
                             \/ x < rcv'.reassembler.expectIdx)
<1>1. (RInv =>
         \A x : x \in (Covered \cup 0 .. reasm.expectIdx - 1) <=>
                  x \in Nat /\ (x \in CoveredBy(reasm.unassemBuf)
                                  \/ x < reasm.expectIdx))'
  BY SeenIs, PTL
<1> QED
  BY <1>1, Zenon DEF reasm, CoveredBy, EndOf

\* The right edge of the window, once advertised, never moves back, and no byte
\* that was received in the window is lost again: window_size() shrinks only by
\* what ackno() advances, and fixCap throws away nothing.
THEOREM NeverRenegesCorrect == Spec => NeverReneges
<1> DEFINE Edge == rcv.received_syn =>
                     rcv'.ack_no_64 + window_size(rcv') >= rcv.ack_no_64 + window_size(rcv)
           Retained == (Covered \cup 0 .. reasm.expectIdx - 1)
                     \subseteq (Covered \cup 0 .. reasm.expectIdx - 1)'
<1>1. RInv /\ RInv' /\ [Next]_vars => [Edge /\ Retained]_vars
  <2> SUFFICES ASSUME RInv, RInv', Next PROVE Edge /\ Retained
    BY Zenon
  <2> DEFINE d == Len(delivered)
  <2>0. d \in Nat
    BY DEF RInv
  <2>1. PICK c \in Nat : c >= d /\ Running(rcv', c) /\ Keeps(rcv', rcv)
    <3>1. ASSUME NEW first \in 0 .. FinPosition, NEW last \in 1 .. FinPosition + 1,
                 first < last, Receive(first, last)
          PROVE  d >= d /\ Running(rcv', d) /\ Keeps(rcv', rcv)
      BY <2>0, <3>1, ReceiveRInv
    <3>2. ASSUME NEW len \in 1 .. Cap, Read(len)
          PROVE  d + len \in Nat /\ d + len >= d /\ Running(rcv', d + len)
                 /\ Keeps(rcv', rcv)
      BY <2>0, <3>2, ReadRInv, CapAssumption
    <3> QED
      BY <2>0, <3>1, <3>2, Zenon DEF Next
  <2> HIDE DEF d
  <2>2. Retained
    <3>1. \A x \in Nat :
            x \in CoveredBy(reasm.unassemBuf) \/ x < reasm.expectIdx
            => x \in CoveredBy(rcv'.reassembler.unassemBuf)
                 \/ x < rcv'.reassembler.expectIdx
      BY <2>1, Zenon DEF Keeps, reasm
    <3> QED
      BY <3>1, SeenIs, SeenNext, Zenon
  <2>3. ASSUME rcv.received_syn
        PROVE  rcv'.ack_no_64 + window_size(rcv') >= rcv.ack_no_64 + window_size(rcv)
    <3> DEFINE q  == rcv.reassembler
               w  == rcv'.reassembler
               lb == Len(q.output.buf)
               lw == Len(w.output.buf)
               en == q.output.is_end
               ew == w.output.is_end
    <3>1. Running(rcv, d)
      BY <2>3, NewReceiver, Zenon DEF RInv, d
    <3>2. /\ lb \in Nat /\ q.expectIdx = d + lb /\ en \in BOOLEAN
          /\ window_size(rcv) = Cap - lb
          /\ rcv.ack_no_64 = 1 + q.expectIdx + (IF en THEN 1 ELSE 0)
      BY <2>0, <3>1, RunningTypes, Zenon DEF Running
    <3>3. /\ lw \in Nat /\ w.expectIdx = c + lw /\ ew \in BOOLEAN
          /\ window_size(rcv') = Cap - lw
          /\ rcv'.ack_no_64 = 1 + w.expectIdx + (IF ew THEN 1 ELSE 0)
      BY <2>1, RunningTypes, Zenon DEF Running
    <3>4. en => ew
      BY <2>1, Zenon DEF Keeps
    <3>5. Cap \in Nat
      BY CapAssumption, Zenon
    <3> DEFINE i == IF en THEN 1 ELSE 0
               j == IF ew THEN 1 ELSE 0
    <3>6. i \in Nat /\ j \in Nat /\ i <= j
      BY <3>2, <3>3, <3>4
    <3>7. /\ rcv.ack_no_64 = 1 + (d + lb) + i
          /\ rcv'.ack_no_64 = 1 + (c + lw) + j
      BY <3>2, <3>3, Zenon
    <3> HIDE DEF q, w, lb, lw, en, ew, i, j
    <3> QED
      BY <2>0, <2>1, <3>2, <3>3, <3>5, <3>6, <3>7
  <2> QED
    BY <2>2, <2>3, Zenon
<1>2. RInv /\ RInv' /\ [Next]_vars
        => [/\ rcv.received_syn =>
                 rcv'.ack_no_64 + window_size(rcv') >= rcv.ack_no_64 + window_size(rcv)
            /\ (Covered \cup 0 .. reasm.expectIdx - 1)
                 \subseteq (Covered \cup 0 .. reasm.expectIdx - 1)']_vars
  BY <1>1, Zenon
<1> HIDE DEF Edge, Retained
<1> QED
  BY <1>2, AlwaysRInv, PTL DEF Spec, NeverReneges
=============================================================================
