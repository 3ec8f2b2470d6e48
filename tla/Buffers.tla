------------------------------- MODULE Buffers ------------------------------
(***************************************************************************)
(* libsponge/util/buffer.{hh,cc}: a Buffer is a string of which a prefix   *)
(* has been discarded, and a BufferList is a sequence of Buffers.  Copies  *)
(* of a Buffer share their storage, which never changes.                   *)
(***************************************************************************)
EXTENDS Integers, SequencesExt

Buffer(string) == [storage |-> string, starting_offset |-> 0]

str(b) == SubSeq(b.storage, b.starting_offset + 1, Len(b.storage))

size(b) == Len(str(b))

\* Buffer::remove_prefix, of at most size(b) bytes; the storage is let go of when
\* nothing of it is left.
discard(b, n) ==
  LET offset == b.starting_offset + n
  IN  [storage |-> IF offset = Len(b.storage) THEN << >> ELSE b.storage,
       starting_offset |-> offset]

-----------------------------------------------------------------------------
append(list, other) == list \o other

concatenate(list) == FlattenSeq([i \in DOMAIN list |-> str(list[i])])

\* operator Buffer() throws for more than one piece: then this has no value.
AsBuffer(list) ==
  CASE Len(list) = 0 -> Buffer(<< >>)
    [] Len(list) = 1 -> list[1]
=============================================================================
