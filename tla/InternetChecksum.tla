-------------------------- MODULE InternetChecksum --------------------------
(***************************************************************************)
(* libsponge/util/util.{hh,cc}: class InternetChecksum.  The sum of a      *)
(* packet of 64 KiB is below 2^32, so that _sum never wraps.               *)
(***************************************************************************)
EXTENDS Integers, Sequences

NewInternetChecksum(initial_sum) == [sum |-> initial_sum, parity |-> FALSE]

\* The bytes are added as the high and the low halves of 16-bit words in turn,
\* also across calls.
add(c, data) ==
  LET high(i)  == (i % 2 = 1) # c.parity
      sum[i \in 0 .. Len(data)] ==
        IF i = 0 THEN c.sum
        ELSE sum[i - 1] + (IF high(i) THEN 256 * data[i] ELSE data[i])
  IN  [sum |-> sum[Len(data)], parity |-> c.parity # (Len(data) % 2 = 1)]

\* One round of the loop of value(); it changes nothing below 2^16.
FoldCarry(sum) == (sum \div 65536) + (sum % 65536)

\* Two rounds are enough below 2^32; then the bits are inverted.
Complement(sum) == 65535 - FoldCarry(FoldCarry(sum))

value(c) == Complement(c.sum)
=============================================================================
