----------------------------- MODULE NetParser -----------------------------
(***************************************************************************)
(* libsponge/util/parser.{hh,cc}: a NetParser is the Buffer left and the   *)
(* first error.  A 16-bit number is an integer, a 32-bit number and an     *)
(* Ethernet address are the tuples of their bytes in network order.        *)
(***************************************************************************)
EXTENDS Buffers

Byte == 0 .. 255

NewNetParser(buffer) == [buffer |-> buffer, error |-> "NoError"]

\* remove_prefix() and the consuming half of _parse_int(): an error stays, and
\* then nothing is consumed.
remove_prefix(p, n) ==
  IF p.error # "NoError" THEN p
  ELSE IF n > size(p.buffer) THEN [p EXCEPT !.error = "PacketTooShort"]
  ELSE [p EXCEPT !.buffer = discard(@, n)]

\* How many bytes the first i of several fields take.
UpTo(widths, i) ==
  LET upto[k \in 0 .. Len(widths)] == IF k = 0 THEN 0 ELSE upto[k - 1] + widths[k]
  IN  upto[i]

Zeros(n) == [i \in 1 .. n |-> 0]

\* Calls of u8(), u16() and u32() in a row, for fields of these widths: what they
\* return.  A call that does not find its bytes, and all after it, return zero.
Fields(p, widths) ==
  [i \in DOMAIN widths |->
     IF p.error = "NoError" /\ UpTo(widths, i) <= size(p.buffer)
     THEN SubSeq(str(p.buffer), UpTo(widths, i - 1) + 1, UpTo(widths, i))
     ELSE Zeros(widths[i])]

\* The parser that these calls leave.
Advanced(p, widths) ==
  LET read == {i \in 0 .. Len(widths) : UpTo(widths, i) <= size(p.buffer)}
      last == CHOOSE i \in read : \A j \in read : j <= i
      q    == remove_prefix(p, UpTo(widths, last))
  IN  IF last = Len(widths) THEN q ELSE remove_prefix(q, size(q.buffer) + 1)

\* The value of u16(), and its inverse in NetUnparser.
Value16(bytes) == 256 * bytes[1] + bytes[2]

Bytes16(n) == <<n \div 256, n % 256>>

\* std::string::resize().
Resize(s, n) == [i \in 1 .. n |-> IF i <= Len(s) THEN s[i] ELSE 0]
=============================================================================
