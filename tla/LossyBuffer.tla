---- MODULE LossyBuffer ----
(***************************************************************************)
(* What an asynchronous log buffer promises its callers, with no goroutine,*)
(* channel or lock in sight.  Every message offered to it meets exactly    *)
(* one fate: it is accepted and later delivered in order, dropped because  *)
(* the buffer was full, or lost because shutdown had begun.                *)
(*                                                                         *)
(* AsyncWriter implements this specification.                              *)
(***************************************************************************)
EXTENDS Naturals, Sequences, Functions

CONSTANTS Messages,  \* what can be offered; each message at most once
          Capacity   \* entries the buffer holds, at least one

VARIABLES pending,    \* accepted and not yet delivered, oldest first
          delivered,  \* delivered to the destination, oldest first
          dropped,    \* refused for lack of room
          lost,       \* refused because shutdown had begun
          phase       \* "open", "closing" or "flushed"

vars == <<pending, delivered, dropped, lost, phase>>

Fresh(m) == m \notin Range(delivered) \union Range(pending)
                       \union dropped \union lost

Init == /\ pending = <<>>
        /\ delivered = <<>>
        /\ dropped = {}
        /\ lost = {}
        /\ phase = "open"

(* One message may be on its way to the destination beside Capacity that   *)
(* wait, so a buffer is surely full at Capacity + 1 and may refuse from    *)
(* Capacity on, never earlier.                                             *)
Accept(m) == /\ phase = "open" /\ Fresh(m)
             /\ Len(pending) <= Capacity
             /\ pending' = Append(pending, m)
             /\ UNCHANGED <<delivered, dropped, lost, phase>>

Drop(m) == /\ phase = "open" /\ Fresh(m)
           /\ Len(pending) >= Capacity
           /\ dropped' = dropped \union {m}
           /\ UNCHANGED <<pending, delivered, lost, phase>>

Lose(m) == /\ phase # "open" /\ Fresh(m)
           /\ lost' = lost \union {m}
           /\ UNCHANGED <<pending, delivered, dropped, phase>>

Deliver == /\ phase # "flushed"
           /\ pending # <<>>
           /\ delivered' = Append(delivered, Head(pending))
           /\ pending' = Tail(pending)
           /\ UNCHANGED <<dropped, lost, phase>>

BeginClose == /\ phase = "open"
              /\ phase' = "closing"
              /\ UNCHANGED <<pending, delivered, dropped, lost>>

(* Shutdown completes only with nothing left to deliver. *)
EndClose == /\ phase = "closing"
            /\ pending = <<>>
            /\ phase' = "flushed"
            /\ UNCHANGED <<pending, delivered, dropped, lost>>

Next == \/ \E m \in Messages : Accept(m) \/ Drop(m) \/ Lose(m)
        \/ Deliver
        \/ BeginClose
        \/ EndClose

Spec == Init /\ [][Next]_vars
====
