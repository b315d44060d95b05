----------------------------- MODULE FrameFifo -----------------------------
(***************************************************************************)
(* What a transmit channel promises the application: a bounded byte FIFO   *)
(* that takes frames whole or not at all.  A byte keeps its room for some  *)
(* time after it left, because the channel releases what it transmitted in *)
(* batches.  A byte is the position it has in the stream.                  *)
(***************************************************************************)
EXTENDS Integers, Sequences

CONSTANTS
  Room,       \* the bytes the FIFO can hold
  Lengths,    \* the lengths of the frames offered
  MaxBytes    \* bound: bytes accepted in one behaviour

VARIABLES
  queue,      \* bytes accepted and not sent yet
  out,        \* bytes sent
  held,       \* sent bytes whose room is not free again
  rejected    \* frames turned away
vars == <<queue, out, held, rejected>>

Accepted == Len(out) + Len(queue)

Init == queue = <<>> /\ out = <<>> /\ held = 0 /\ rejected = 0

Accept(n) ==
  /\ Accepted + n <= MaxBytes
  /\ Len(queue) + held + n <= Room
  /\ queue' = queue \o [i \in 1..n |-> Accepted + i]
  /\ UNCHANGED <<out, held, rejected>>

\* Only a frame that does not fit is turned away, and it leaves no byte.
Reject(n) ==
  /\ Len(queue) + held + n > Room
  /\ rejected' = rejected + 1
  /\ UNCHANGED <<queue, out, held>>

Emit ==
  /\ queue # <<>>
  /\ out' = Append(out, Head(queue))
  /\ queue' = Tail(queue)
  /\ held' = held + 1
  /\ UNCHANGED rejected

Release ==
  /\ held > 0
  /\ held' = 0
  /\ UNCHANGED <<queue, out, rejected>>

Next == (\E n \in Lengths : Accept(n) \/ Reject(n)) \/ Emit \/ Release

Spec == Init /\ [][Next]_vars /\ WF_vars(Emit) /\ WF_vars(Release)
=============================================================================
