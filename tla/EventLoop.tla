------------------------------ MODULE EventLoop ------------------------------
(***************************************************************************)
(* libsponge/util/eventloop.{hh,cc}: one call of wait_next_event().  Rules *)
(* are numbered in the order in which they were added; sets of numbers say *)
(* which have not been cancelled, which are interested, and what poll(2)   *)
(* reports.                                                                *)
(***************************************************************************)
EXTENDS Integers

\* The rules left when those that read a descriptor at its end, and those of a
\* closed descriptor, are cancelled.
NotAtEof(rules, at_eof) == rules \ at_eof

\* The rules whose descriptor is polled for an event; if there is none, the
\* result is Exit.
Polled(rules, interested) == rules \cap interested

\* Mutant: a hangup is left to the callbacks.
Defunct_never(polled, ready, hung_up) == {}

\* The rules that poll(2) finds defunct: only a hangup was reported.
Defunct(polled, ready, hung_up) == (polled \cap hung_up) \ ready

\* The callbacks to call, first to last.
Triggered(polled, ready) == polled \cap ready

First(todo) == CHOOSE i \in todo : \A j \in todo : i <= j

\* A callback that neither used its descriptor nor lost interest is an error.
BusyWait(serviced, interested) == ~serviced /\ interested
=============================================================================
