--------------------------- MODULE BoundedChannel ---------------------------
(***************************************************************************)
(* What the queues of the pipeline promise to their callers, with no       *)
(* mutex, no condition variable and no ring buffer: a first-in first-out   *)
(* channel of at most Capacity items that can be closed.  An open channel  *)
(* accepts items while there is room; a closed one accepts nothing, still  *)
(* hands out what it holds, and tells a consumer that the stream is over   *)
(* only once it is empty.  MonitorQueue is shown to implement this.        *)
(***************************************************************************)
EXTENDS Naturals, Sequences

CONSTANTS
  Items,      \* what producers may put in
  Consumers,  \* the threads that take items out
  Capacity,   \* the largest number of items held at once
  NoItem      \* what a consumer has before its first item

VARIABLES
  items,      \* the items held, oldest first
  closed,     \* no further item is accepted
  out,        \* the item each consumer received last
  drained     \* the consumers that were told the stream is over

vars == <<items, closed, out, drained>>

Init ==
  /\ items = <<>>
  /\ closed = FALSE
  /\ out = [c \in Consumers |-> NoItem]
  /\ drained = {}

Accept(x) ==
  /\ ~closed
  /\ Len(items) < Capacity
  /\ items' = Append(items, x)
  /\ UNCHANGED <<closed, out, drained>>

Deliver(c) ==
  /\ items # <<>>
  /\ out' = [out EXCEPT ![c] = Head(items)]
  /\ items' = Tail(items)
  /\ UNCHANGED <<closed, drained>>

Drain(c) ==
  /\ closed
  /\ items = <<>>
  /\ drained' = drained \cup {c}
  /\ UNCHANGED <<items, closed, out>>

Close ==
  /\ closed' = TRUE
  /\ UNCHANGED <<items, out, drained>>

Next ==
  \/ \E x \in Items : Accept(x)
  \/ \E c \in Consumers \ drained : Deliver(c) \/ Drain(c)
  \/ Close

Spec == Init /\ [][Next]_vars

=============================================================================
