----------------------------- MODULE BoundedFifo -----------------------------
(***************************************************************************)
(* What BlockingQueue promises: values come out in the order in which they *)
(* went in, each once, and never more than Capacity are inside.            *)
(***************************************************************************)
EXTENDS Integers, Sequences

CONSTANTS Values, Consumers, Capacity

VARIABLES
    queue,  \* the values inside
    taken   \* for each consumer, the values it was given

Init == queue = <<>> /\ taken = [c \in Consumers |-> <<>>]

Put(v) ==
    /\ Len(queue) < Capacity
    /\ queue' = Append(queue, v)
    /\ UNCHANGED taken

Take(c) ==
    /\ queue # <<>>
    /\ taken' = [taken EXCEPT ![c] = Append(@, Head(queue))]
    /\ queue' = Tail(queue)

Next == (\E v \in Values : Put(v)) \/ (\E c \in Consumers : Take(c))

Spec == Init /\ [][Next]_<<queue, taken>>
=============================================================================
