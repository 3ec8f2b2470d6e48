-------------------------- MODULE WrappingIntegers --------------------------
(***************************************************************************)
(* libsponge/wrapping_integers.{hh,cc}: sequence numbers modulo N, and     *)
(* their conversion to and from the absolute numbers of the two streams.   *)
(* Absolute numbers are uint64_t in the code and do not wrap in any        *)
(* connection's lifetime; they are natural numbers here.                   *)
(***************************************************************************)
EXTENDS Integers

CONSTANT N    \* 1ll << 32 in the code

ASSUME NAssumption == N \in Nat /\ N >= 2 /\ N % 2 = 0

Raw == 0 .. N - 1

wrap(n, isn) == (n + isn) % N

\* n.raw_value() - isn.raw_value() in uint32_t.
RawDifference(n, isn) == IF n >= isn THEN n - isn ELSE n - isn + N

\* Mutant: the number is not moved to the nearer turn.
unwrap_same_turn(n, isn, checkpoint) ==
  (checkpoint \div N) * N + RawDifference(n, isn)

unwrap(n, isn, checkpoint) ==
  LET n_abs  == RawDifference(n, isn)
      offset == checkpoint % N
      base   == checkpoint \div N
      turn   == IF /\ n_abs >= offset
                   /\ n_abs - offset >= N \div 2
                   /\ checkpoint >= N
                THEN base - 1
                ELSE IF n_abs < offset /\ offset - n_abs >= N \div 2
                THEN base + 1
                ELSE base
  IN  turn * N + n_abs

dist(a, b) == IF b >= a THEN b - a ELSE a - b
=============================================================================
