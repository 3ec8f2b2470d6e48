--------------------------- MODULE FileDescriptor ---------------------------
(***************************************************************************)
(* libsponge/util/file_descriptor.{hh,cc}: the flags of an FDWrapper, and  *)
(* how many bytes one call of read() or write() moves on a descriptor that *)
(* does not block.  Every call counts as service for the EventLoop, so the *)
(* two counters are left out.                                              *)
(***************************************************************************)
EXTENDS Integers

NewFileDescriptor == [eof |-> FALSE, closed |-> FALSE]

Fewer(a, b) == IF a <= b THEN a ELSE b

\* read(2), when available bytes wait.
ReadCount(available, limit) == Fewer(available, limit)

\* Reading nothing where something was asked for means the end.
fd_read(fd, limit, bytes_read) ==
  [fd EXCEPT !.eof = @ \/ (limit > 0 /\ bytes_read = 0)]

\* One round of the loop of write(), which is all when write_all is not set: the
\* kernel takes what it has room for.
WriteCount(size, room) == Fewer(size, room)

fd_close(fd) == [fd EXCEPT !.eof = TRUE, !.closed = TRUE]
=============================================================================
