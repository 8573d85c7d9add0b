---------------------------- MODULE BlockingQueue ----------------------------
(***************************************************************************)
(* BlockingQueue: a queue with a capacity, one mutex and two condition     *)
(* variables.  All that a thread does while it holds mutex_, from lock()   *)
(* to unlock() or wait(), is one step, since nobody can look in between.   *)
(* Push notifies after it has unlocked, Pop before.  Any number of threads *)
(* may push and pop; Clear, which is Empty() and Pop() in turn, is used by *)
(* a thread that is the only one to pop, as FeaturePipeline::Reset does.   *)
(***************************************************************************)
EXTENDS Integers, Sequences, FiniteSets

CONSTANTS Producers, Consumers,
          Capacity,   \* capacity_
          MaxPushes   \* bound of the model: values a producer pushes

ASSUME QueueAssumption ==
    /\ Producers \cap Consumers = {}
    /\ IsFiniteSet(Producers) /\ IsFiniteSet(Consumers)
    /\ Capacity \in Nat \ {0} /\ MaxPushes \in Nat

VARIABLES
    queue,    \* queue_
    pc,       \* where a thread is; "for_room" and "for_value" are in wait()
    pushes,   \* values a producer has pushed
    active,   \* the consumers there are
    clearing, \* the consumers that are in Clear()
    taken     \* history: what Pop() gave to a consumer

vars == <<queue, pc, pushes, active, clearing, taken>>

Threads == Producers \cup Consumers
Values  == Producers \X (1..MaxPushes)

Init ==
    /\ queue = <<>>
    /\ pc = [t \in Threads |-> "idle"]
    /\ pushes = [p \in Producers |-> 0]
    /\ active \in SUBSET Consumers \ {{}}
    /\ clearing = {}
    /\ taken = [c \in Consumers |-> <<>>]

-----------------------------------------------------------------------------
At(state) == {t \in Threads : pc[t] = state}

Goto(t, from, to) == pc[t] = from /\ pc' = [pc EXCEPT ![t] = to]

\* notify_one(): a waiter, if there is one, goes back to lock the mutex.
Notify(states, waiting, lock) ==
    LET waiters == {t \in Threads : states[t] = waiting}
    IN  IF waiters = {} THEN {states}
        ELSE {[states EXCEPT ![t] = lock] : t \in waiters}

CallPush(p) ==
    /\ pushes[p] < MaxPushes
    /\ Goto(p, "idle", "push")
    /\ UNCHANGED <<queue, pushes, active, clearing, taken>>

\* mutant: one too many
RoomForOneMore == Len(queue) <= Capacity

\* ! (queue_.size() >= capacity_)
Room == Len(queue) < Capacity

PushWaits(p) ==
    /\ ~Room
    /\ Goto(p, "push", "for_room")
    /\ UNCHANGED <<queue, pushes, active, clearing, taken>>

Push(p) ==
    /\ Room
    /\ Goto(p, "push", "pushed")
    /\ pushes' = [pushes EXCEPT ![p] = @ + 1]
    /\ queue' = Append(queue, <<p, pushes'[p]>>)
    /\ UNCHANGED <<active, clearing, taken>>

\* mutant: only the first value of an empty queue is announced
NotifyOfFirst(p) ==
    /\ pc[p] = "pushed"
    /\ pc' \in LET back == [pc EXCEPT ![p] = "idle"]
               IN  IF Len(queue) = 1 THEN Notify(back, "for_value", "pop") ELSE {back}
    /\ UNCHANGED <<queue, pushes, active, clearing, taken>>

\* not_empty_condition_.notify_one(), without the mutex.
NotifyNotEmpty(p) ==
    /\ pc[p] = "pushed"
    /\ pc' \in Notify([pc EXCEPT ![p] = "idle"], "for_value", "pop")
    /\ UNCHANGED <<queue, pushes, active, clearing, taken>>

CallPop(c) ==
    /\ c \in active
    /\ Goto(c, "idle", "pop")
    /\ UNCHANGED <<queue, pushes, active, clearing, taken>>

PopWaits(c) ==
    /\ queue = <<>>
    /\ Goto(c, "pop", "for_value")
    /\ UNCHANGED <<queue, pushes, active, clearing, taken>>

\* mutant: room is announced only when there was none
PopQuietly(c) ==
    /\ queue # <<>> /\ pc[c] = "pop"
    /\ queue' = Tail(queue)
    /\ taken' = [taken EXCEPT ![c] = Append(@, Head(queue))]
    /\ pc' \in LET back == [pc EXCEPT ![c] = IF c \in clearing THEN "clear" ELSE "idle"]
               IN  IF Len(queue) = Capacity THEN Notify(back, "for_room", "push") ELSE {back}
    /\ UNCHANGED <<pushes, active, clearing>>

\* Takes the first value and notifies not_full_condition_; a Pop() of Clear()
\* goes back to its loop.
Pop(c) ==
    /\ queue # <<>> /\ pc[c] = "pop"
    /\ queue' = Tail(queue)
    /\ taken' = [taken EXCEPT ![c] = Append(@, Head(queue))]
    /\ pc' \in Notify([pc EXCEPT ![c] = IF c \in clearing THEN "clear" ELSE "idle"],
                      "for_room", "push")
    /\ UNCHANGED <<pushes, active, clearing>>

CallClear(c) ==
    /\ active = {c}
    /\ Goto(c, "idle", "clear")
    /\ clearing' = clearing \cup {c}
    /\ UNCHANGED <<queue, pushes, active, taken>>

\* mutant: pops before it looks
ClearPopsFirst(c) ==
    /\ Goto(c, "clear", "pop")
    /\ UNCHANGED <<queue, pushes, active, clearing, taken>>

\* while (!Empty()) Pop();
ClearLoop(c) ==
    /\ queue # <<>>
    /\ Goto(c, "clear", "pop")
    /\ UNCHANGED <<queue, pushes, active, clearing, taken>>

Cleared(c) ==
    /\ queue = <<>>
    /\ Goto(c, "clear", "idle")
    /\ clearing' = clearing \ {c}
    /\ UNCHANGED <<queue, pushes, active, taken>>

\* wait() may return without a notification.
SpuriousWakeup(t) ==
    /\ Goto(t, "for_room", "push") \/ Goto(t, "for_value", "pop")
    /\ UNCHANGED <<queue, pushes, active, clearing, taken>>

ProducerStep(p) == CallPush(p) \/ PushWaits(p) \/ Push(p) \/ NotifyNotEmpty(p)

PopStep(c) == CallPop(c) \/ PopWaits(c) \/ Pop(c) \/ ClearLoop(c) \/ Cleared(c)

Next ==
    \/ \E p \in Producers : ProducerStep(p)
    \/ \E c \in Consumers : PopStep(c) \/ CallClear(c)
    \/ \E t \in Threads : SpuriousWakeup(t)

\* Producers push all they have and consumers go on popping.
Fairness ==
    /\ \A p \in Producers : WF_vars(ProducerStep(p))
    /\ \A c \in Consumers : WF_vars(PopStep(c))

Spec == Init /\ [][Next]_vars /\ Fairness

-----------------------------------------------------------------------------
\* While consumers sleep, every value in the queue is on its way to somebody:
\* as many threads are about to pop, or about to notify.  While producers
\* sleep, all the room is on its way to threads about to push.  With fewer, a
\* notification was lost and a thread sleeps beside work it could do.
NobodySleepsForNothing ==
    /\ At("for_value") # {} =>
           Len(queue) <= Cardinality(At("pop")) + Cardinality(At("pushed"))
    /\ At("for_room") # {} => Capacity - Len(queue) <= Cardinality(At("push"))

\* Clear() by the only thread that pops does not wait for a value, whatever
\* is pushed meanwhile: the Pop() after its Empty() finds what Empty() saw.
ClearNeverWaits == clearing \cap At("for_value") = {}

\* Values leave in the order in which they came, each once and to one thread,
\* and the queue never holds more than its capacity.
Fifo == INSTANCE BoundedFifo
ImplementsFifo == Fifo!Spec

\* With threads that go on popping, no value stays and no producer is left
\* waiting for room.
AllDelivered ==
    <>[](queue = <<>> /\ \A p \in Producers : pushes[p] = MaxPushes)
=============================================================================
