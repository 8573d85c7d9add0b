------------------------- MODULE BlockingQueueProofs -------------------------
(***************************************************************************)
(* For any number of threads: no notification of BlockingQueue is lost,    *)
(* Clear() does not wait, and the queue is a bounded FIFO.                 *)
(***************************************************************************)
EXTENDS BlockingQueue, FiniteSetTheorems, SequenceTheorems, TLAPS

States == {"idle", "push", "for_room", "pushed", "pop", "for_value", "clear"}

TypeOK ==
    /\ queue \in Seq(Values) /\ Len(queue) <= Capacity
    /\ pc \in [Threads -> States]
    /\ pushes \in [Producers -> 0..MaxPushes]
    /\ active \in SUBSET Consumers
    /\ clearing \in SUBSET Consumers
    /\ taken \in [Consumers -> Seq(Values)]

\* Producers push, and have something to push; only active consumers pop.
Roles ==
    /\ \A p \in Producers :
           /\ pc[p] \in {"idle", "push", "for_room", "pushed"}
           /\ pc[p] \in {"push", "for_room"} => pushes[p] < MaxPushes
    /\ \A c \in Consumers :
           /\ pc[c] \in {"idle", "pop", "for_value", "clear"}
           /\ pc[c] # "idle" => c \in active

\* A thread in Clear() is the only one that pops, so what it saw in the queue
\* is there when it pops.
ClearsAlone ==
    \A c \in clearing :
        /\ active = {c}
        /\ pc[c] \in {"clear", "pop"}
        /\ pc[c] = "pop" => queue # <<>>

IInv == TypeOK /\ Roles /\ ClearsAlone /\ NobodySleepsForNothing

-----------------------------------------------------------------------------
(* Counting threads.                                                       *)

Count(states, state) == Cardinality({t \in Threads : states[t] = state})

LEMMA CountFinite ==
    ASSUME NEW states, NEW state
    PROVE  /\ IsFiniteSet({t \in Threads : states[t] = state})
           /\ Count(states, state) \in Nat
           /\ Count(states, state) = 0 <=> {t \in Threads : states[t] = state} = {}
  <1> DEFINE S == {t \in Threads : states[t] = state}
  <1>1. IsFiniteSet(Threads)
    BY QueueAssumption, FS_Union DEF Threads
  <1>2. IsFiniteSet(S)
    BY <1>1, FS_Subset
  <1> QED BY <1>2, FS_CardinalityType, FS_EmptySet DEF Count

LEMMA CountNat == \A states, state : Count(states, state) \in Nat
  BY CountFinite, Zenon

\* One thread goes from one state to another.
Moves(states, moved, from, to) ==
    \E t \in Threads :
        /\ states[t] = from /\ moved[t] = to
        /\ \A u \in Threads \ {t} : moved[u] = states[u]

LEMMA CountMove ==
    ASSUME NEW states, NEW moved, NEW from, NEW to, from # to,
           Moves(states, moved, from, to)
    PROVE  /\ Count(moved, from) = Count(states, from) - 1
           /\ Count(moved, to) = Count(states, to) + 1
           /\ \A other : other # from /\ other # to =>
                  Count(moved, other) = Count(states, other)
  <1>1. PICK t \in Threads : /\ states[t] = from /\ moved[t] = to
                             /\ \A u \in Threads \ {t} : moved[u] = states[u]
    BY DEF Moves
  <1>2. Count(moved, from) = Count(states, from) - 1
    <2> DEFINE S == {x \in Threads : states[x] = from}
    <2>1. {x \in Threads : moved[x] = from} = S \ {t} /\ t \in S
      BY <1>1
    <2>2. IsFiniteSet(S)
      BY CountFinite
    <2>3. Cardinality(S \ {t}) = Cardinality(S) - 1
      BY <2>1, <2>2, FS_RemoveElement
    <2> QED BY <2>1, <2>3 DEF Count
  <1>3. Count(moved, to) = Count(states, to) + 1
    <2> DEFINE S == {x \in Threads : states[x] = to}
    <2>1. {x \in Threads : moved[x] = to} = S \cup {t} /\ t \notin S
      BY <1>1
    <2>2. IsFiniteSet(S)
      BY CountFinite
    <2>3. Cardinality(S \cup {t}) = Cardinality(S) + 1
      BY <2>1, <2>2, FS_AddElement
    <2> QED BY <2>1, <2>3 DEF Count
  <1>4. ASSUME NEW other, other # from, other # to
        PROVE  Count(moved, other) = Count(states, other)
    <2>1. {x \in Threads : moved[x] = other} = {x \in Threads : states[x] = other}
      BY <1>1, <1>4
    <2> QED BY <2>1 DEF Count
  <1> QED BY <1>2, <1>3, <1>4

LEMMA ExceptMoves ==
    ASSUME NEW states, NEW t \in Threads, t \in DOMAIN states, NEW to
    PROVE  Moves(states, [states EXCEPT ![t] = to], states[t], to)
  BY DEF Moves

\* notify_one() moves one of the waiting threads, or there is none.
LEMMA NotifyMoves ==
    ASSUME NEW states \in [Threads -> States], NEW waiting, NEW lock \in States,
           NEW moved \in Notify(states, waiting, lock)
    PROVE  /\ moved \in [Threads -> States]
           /\ \/ moved = states /\ Count(states, waiting) = 0
              \/ Moves(states, moved, waiting, lock)
           /\ \A t \in Threads : moved[t] # states[t] =>
                  states[t] = waiting /\ moved[t] = lock
  <1>1. CASE {t \in Threads : states[t] = waiting} = {}
    <2>1. Count(states, waiting) = 0
      BY <1>1, FS_EmptySet DEF Count
    <2> QED BY <1>1, <2>1 DEF Notify
  <1>2. CASE {t \in Threads : states[t] = waiting} # {}
    <2>1. PICK t \in Threads : states[t] = waiting /\ moved = [states EXCEPT ![t] = lock]
      BY <1>2 DEF Notify
    <2> QED BY <2>1 DEF Moves
  <1> QED BY <1>1, <1>2

\* NobodySleepsForNothing is about counts.
Balanced(states, length) ==
    /\ Count(states, "for_value") # 0 =>
           length <= Count(states, "pop") + Count(states, "pushed")
    /\ Count(states, "for_room") # 0 => Capacity - length <= Count(states, "push")

LEMMA Counted ==
    /\ NobodySleepsForNothing <=> Balanced(pc, Len(queue))
    /\ NobodySleepsForNothing' <=> Balanced(pc', Len(queue'))
  BY CountFinite DEF NobodySleepsForNothing, Balanced, At, Count

\* How many threads there are to take a value, or to use room.
Takers(states) == Count(states, "pop") + Count(states, "pushed")
Taker(state)   == IF state \in {"pop", "pushed"} THEN 1 ELSE 0
User(state)    == IF state = "push" THEN 1 ELSE 0

\* A move keeps the balance if it accounts for the values and the room that it
\* adds, or nobody can be waiting for them.
LEMMA MoveBalance ==
    ASSUME NEW states, NEW moved, NEW from, NEW to, from # to,
           Moves(states, moved, from, to),
           NEW n \in Nat, NEW m \in Nat, Balanced(states, n),
           m = 0 \/ (to # "for_value" /\ m - n <= Taker(to) - Taker(from)),
           m >= Capacity \/ (to # "for_room" /\ n - m <= User(to) - User(from))
    PROVE  Balanced(moved, m)
  <1>1. /\ Count(moved, from) = Count(states, from) - 1
        /\ Count(moved, to) = Count(states, to) + 1
        /\ \A other : other # from /\ other # to =>
               Count(moved, other) = Count(states, other)
    BY CountMove
  <1>2. /\ \A state : Count(states, state) \in Nat /\ Count(moved, state) \in Nat
        /\ Capacity \in Nat
    BY CountNat, QueueAssumption
  <1>3. ASSUME Count(moved, "for_value") # 0 PROVE m <= Takers(moved)
    <2>1. CASE m = 0
      BY <1>2, <2>1 DEF Takers
    <2>2. CASE to # "for_value" /\ m - n <= Taker(to) - Taker(from)
      <3>1. n <= Takers(states)
        <4>1. Count(states, "for_value") # 0
          BY <1>1, <1>2, <1>3, <2>2
        <4> QED BY <4>1 DEF Balanced, Takers
      <3>2. Takers(moved) = Takers(states) + Taker(to) - Taker(from)
        BY <1>1, <1>2 DEF Takers, Taker
      <3> QED BY <1>2, <2>2, <3>1, <3>2 DEF Takers, Taker
    <2> QED BY <2>1, <2>2
  <1>4. ASSUME Count(moved, "for_room") # 0
        PROVE  Capacity - m <= Count(moved, "push")
    <2>1. CASE m >= Capacity
      BY <1>2, <2>1
    <2>2. CASE to # "for_room" /\ n - m <= User(to) - User(from)
      <3>1. Capacity - n <= Count(states, "push")
        <4>1. Count(states, "for_room") # 0
          BY <1>1, <1>2, <1>4, <2>2
        <4> QED BY <4>1 DEF Balanced
      <3>2. Count(moved, "push") = Count(states, "push") + User(to) - User(from)
        BY <1>1, <1>2 DEF User
      <3> QED BY <1>2, <2>2, <3>1, <3>2 DEF User
    <2> QED BY <2>1, <2>2
  <1> QED BY <1>3, <1>4 DEF Balanced, Takers

-----------------------------------------------------------------------------
(* The invariant.                                                          *)

LEMMA InitInv == Init => IInv
  <1> SUFFICES ASSUME Init PROVE IInv
    OBVIOUS
  <1> USE DEF Init
  <1>1. TypeOK
    BY QueueAssumption DEF TypeOK, States
  <1>2. Roles /\ ClearsAlone
    BY DEF Roles, ClearsAlone, Threads
  <1>3. At("for_value") = {} /\ At("for_room") = {}
    BY DEF At
  <1> QED BY <1>1, <1>2, <1>3 DEF IInv, NobodySleepsForNothing

\* A thread that only changes its state.
LEMMA GotoInv ==
    ASSUME IInv, NEW t \in Threads, NEW from, NEW to \in States, from # to,
           Goto(t, from, to), UNCHANGED queue,
           to = "for_value" => Len(queue) = 0,
           to = "for_room" => Len(queue) >= Capacity,
           from # "pushed",
           from = "pop" => Len(queue) = 0,
           from = "push" => Len(queue) >= Capacity
    PROVE  pc' \in [Threads -> States] /\ NobodySleepsForNothing'
  <1>1. pc \in [Threads -> States] /\ Len(queue) \in Nat
    BY DEF IInv, TypeOK
  <1>2. Moves(pc, pc', from, to)
    BY <1>1 DEF Goto, Moves
  <1>3. Balanced(pc, Len(queue))
    BY Counted DEF IInv
  <1>4. Balanced(pc', Len(queue'))
    BY <1>1, <1>2, <1>3, MoveBalance DEF Taker, User
  <1> QED BY <1>1, <1>4, Counted DEF Goto

LEMMA CallPushInv == ASSUME IInv, NEW p \in Producers, CallPush(p) PROVE IInv'
  <1> USE DEF CallPush, Goto, IInv
  <1>1. p \in Threads /\ pc[p] = "idle" /\ pc' = [pc EXCEPT ![p] = "push"]
    BY DEF Threads
  <1>2. pc' \in [Threads -> States] /\ NobodySleepsForNothing'
    BY <1>1, GotoInv DEF States
  <1>3. TypeOK'
    BY <1>2 DEF TypeOK
  <1>4. Roles' /\ ClearsAlone'
    BY <1>1, QueueAssumption DEF TypeOK, Roles, ClearsAlone, Threads
  <1> QED BY <1>2, <1>3, <1>4

LEMMA PushWaitsInv == ASSUME IInv, NEW p \in Producers, PushWaits(p) PROVE IInv'
  <1> USE DEF PushWaits, Goto, IInv
  <1>1. p \in Threads /\ pc[p] = "push" /\ pc' = [pc EXCEPT ![p] = "for_room"]
    BY DEF Threads
  <1>2. Len(queue) >= Capacity
    BY QueueAssumption DEF TypeOK, Room
  <1>3. pc' \in [Threads -> States] /\ NobodySleepsForNothing'
    BY <1>1, <1>2, GotoInv DEF States
  <1>4. TypeOK'
    BY <1>3 DEF TypeOK
  <1>5. Roles' /\ ClearsAlone'
    BY <1>1, QueueAssumption DEF TypeOK, Roles, ClearsAlone, Threads
  <1> QED BY <1>3, <1>4, <1>5

\* The value pushed is the producer's next one.
LEMMA PushedValue ==
    ASSUME IInv, NEW p \in Producers, Push(p)
    PROVE  /\ <<p, pushes'[p]>> \in Values
           /\ queue' = Append(queue, <<p, pushes'[p]>>)
           /\ queue' \in Seq(Values) /\ Len(queue') = Len(queue) + 1
           /\ pushes' \in [Producers -> 0..MaxPushes]
  <1>1. pushes[p] \in 0..MaxPushes /\ pushes[p] < MaxPushes
    BY DEF IInv, TypeOK, Roles, Push, Goto
  <1>2. pushes' = [pushes EXCEPT ![p] = pushes[p] + 1]
    BY DEF Push
  <1>3. pushes' \in [Producers -> 0..MaxPushes] /\ pushes'[p] \in 1..MaxPushes
    BY <1>1, <1>2, QueueAssumption DEF IInv, TypeOK
  <1>4. <<p, pushes'[p]>> \in Values
    BY <1>3 DEF Values
  <1>5. queue' = Append(queue, <<p, pushes'[p]>>) /\ queue \in Seq(Values)
    BY DEF Push, IInv, TypeOK
  <1> QED BY <1>3, <1>4, <1>5

LEMMA PushInv == ASSUME IInv, NEW p \in Producers, Push(p) PROVE IInv'
  <1>2. /\ queue \in Seq(Values) /\ Len(queue) \in Nat
        /\ queue' \in Seq(Values) /\ Len(queue') = Len(queue) + 1
        /\ pushes' \in [Producers -> 0..MaxPushes]
    <2>1. queue \in Seq(Values)
      BY DEF IInv, TypeOK
    <2>2. queue' \in Seq(Values) /\ Len(queue') = Len(queue) + 1
      BY PushedValue
    <2>3. pushes' \in [Producers -> 0..MaxPushes]
      BY PushedValue
    <2> QED BY <2>1, <2>2, <2>3
  <1> USE DEF Push, Goto, IInv
  <1>1. p \in Threads /\ pc[p] = "push" /\ pc' = [pc EXCEPT ![p] = "pushed"]
    BY DEF Threads
  <1>3. TypeOK'
    <2>1. Len(queue') <= Capacity
      BY <1>2, QueueAssumption DEF Room
    <2> QED BY <1>1, <1>2, <2>1 DEF TypeOK, States
  <1>4. Roles'
    <2>1. \A q \in Producers : q # p => pushes'[q] = pushes[q]
      BY DEF TypeOK
    <2> QED BY <1>1, <2>1, QueueAssumption DEF TypeOK, Roles, Threads
  <1>5. ClearsAlone'
    <2>1. queue' # <<>>
      BY <1>2
    <2> QED BY <1>1, <2>1, QueueAssumption DEF TypeOK, ClearsAlone, Threads
  <1>6. Balanced(pc', Len(queue'))
    <2>1. Moves(pc, pc', "push", "pushed")
      BY <1>1 DEF TypeOK, Moves
    <2>2. Balanced(pc, Len(queue))
      BY Counted
    <2>3. Len(queue') \in Nat
      BY <1>2
    <2> QED BY <1>2, <2>1, <2>2, <2>3, MoveBalance DEF Taker, User
  <1>7. NobodySleepsForNothing'
    BY <1>6, Counted
  <1> QED BY <1>3, <1>4, <1>5, <1>7

\* A notification goes to a waiting consumer, if there is one.
LEMMA NotifyInv ==
    ASSUME IInv, NEW p \in Producers, NotifyNotEmpty(p)
    PROVE  IInv'
  <1> DEFINE back == [pc EXCEPT ![p] = "idle"]
  <1>1. /\ p \in Threads /\ pc[p] = "pushed" /\ pc \in [Threads -> States]
        /\ back \in [Threads -> States]
        /\ pc' \in Notify(back, "for_value", "pop")
        /\ UNCHANGED <<queue, pushes, active, clearing, taken>>
    BY DEF NotifyNotEmpty, IInv, TypeOK, Threads, States
  <1>2. Moves(pc, back, "pushed", "idle")
    BY <1>1 DEF Moves
  <1>3. \A t \in Threads : back[t] = IF t = p THEN "idle" ELSE pc[t]
    BY <1>1
  <1> HIDE DEF back
  <1>4. /\ pc' \in [Threads -> States]
        /\ \/ pc' = back /\ Count(back, "for_value") = 0
           \/ Moves(back, pc', "for_value", "pop")
        /\ \A t \in Threads : pc'[t] # back[t] => back[t] = "for_value" /\ pc'[t] = "pop"
    BY <1>1, NotifyMoves DEF States
  <1>5. TypeOK'
    BY <1>1, <1>4 DEF IInv, TypeOK
  <1>6. Roles' /\ ClearsAlone'
    <2>1. \A t \in Threads : \/ pc'[t] = pc[t]
                             \/ t = p /\ pc'[t] = "idle"
                             \/ pc[t] = "for_value" /\ pc'[t] = "pop"
      BY <1>1, <1>3, <1>4
    <2> QED BY <1>1, <2>1, QueueAssumption DEF IInv, TypeOK, Roles, ClearsAlone, Threads
  <1>7. Balanced(pc', Len(queue'))
    <2>1. /\ Balanced(pc, Len(queue)) /\ Len(queue) \in Nat
          /\ \A state : /\ Count(pc, state) \in Nat /\ Count(back, state) \in Nat
                        /\ Count(pc', state) \in Nat
      BY Counted, CountNat DEF IInv, TypeOK
    <2>2. /\ Count(back, "for_value") = Count(pc, "for_value")
          /\ Count(back, "pop") = Count(pc, "pop")
          /\ Count(back, "pushed") = Count(pc, "pushed") - 1
          /\ Count(back, "for_room") = Count(pc, "for_room")
          /\ Count(back, "push") = Count(pc, "push")
      BY <1>2, CountMove
    <2>3. CASE pc' = back /\ Count(back, "for_value") = 0
      BY <1>1, <2>1, <2>2, <2>3 DEF Balanced
    <2>4. CASE Moves(back, pc', "for_value", "pop")
      <3>1. /\ Count(pc', "for_value") = Count(back, "for_value") - 1
            /\ Count(pc', "pop") = Count(back, "pop") + 1
            /\ Count(pc', "pushed") = Count(back, "pushed")
            /\ Count(pc', "for_room") = Count(back, "for_room")
            /\ Count(pc', "push") = Count(back, "push")
        BY <2>4, CountMove
      <3>2. Count(pc, "for_value") # 0
        BY <2>1, <2>2, <3>1
      <3> QED BY <1>1, <2>1, <2>2, <3>1, <3>2 DEF Balanced
    <2> QED BY <1>4, <2>3, <2>4
  <1>8. NobodySleepsForNothing'
    BY <1>7, Counted
  <1> QED BY <1>5, <1>6, <1>8 DEF IInv

-----------------------------------------------------------------------------
LEMMA CallPopInv == ASSUME IInv, NEW c \in Consumers, CallPop(c) PROVE IInv'
  <1> USE DEF CallPop, Goto, IInv
  <1>1. c \in Threads /\ pc[c] = "idle" /\ pc' = [pc EXCEPT ![c] = "pop"]
    BY DEF Threads
  <1>2. pc' \in [Threads -> States] /\ NobodySleepsForNothing'
    BY <1>1, GotoInv DEF States
  <1>3. TypeOK'
    BY <1>2 DEF TypeOK
  <1>4. Roles' /\ ClearsAlone'
    BY <1>1, QueueAssumption DEF TypeOK, Roles, ClearsAlone, Threads
  <1> QED BY <1>2, <1>3, <1>4

LEMMA PopWaitsInv == ASSUME IInv, NEW c \in Consumers, PopWaits(c) PROVE IInv'
  <1> USE DEF PopWaits, Goto, IInv
  <1>1. c \in Threads /\ pc[c] = "pop" /\ pc' = [pc EXCEPT ![c] = "for_value"]
    BY DEF Threads
  <1>2. pc' \in [Threads -> States] /\ NobodySleepsForNothing'
    BY <1>1, GotoInv DEF States
  <1>3. TypeOK'
    BY <1>2 DEF TypeOK
  <1>4. Roles' /\ ClearsAlone'
    BY <1>1, QueueAssumption DEF TypeOK, Roles, ClearsAlone, Threads
  <1> QED BY <1>2, <1>3, <1>4

LEMMA PopInv == ASSUME IInv, NEW c \in Consumers, Pop(c) PROVE IInv'
  <1> DEFINE to == IF c \in clearing THEN "clear" ELSE "idle"
             back == [pc EXCEPT ![c] = to]
  <1>1. /\ c \in Threads /\ pc[c] = "pop" /\ pc \in [Threads -> States]
        /\ back \in [Threads -> States]
        /\ pc' \in Notify(back, "for_room", "push")
        /\ UNCHANGED <<pushes, active, clearing>>
    BY DEF Pop, IInv, TypeOK, Threads, States
  <1>2. Moves(pc, back, "pop", to)
    BY <1>1 DEF Moves
  <1>3. \A t \in Threads : back[t] = IF t = c THEN to ELSE pc[t]
    BY <1>1
  <1> HIDE DEF back
  <1>4. /\ pc' \in [Threads -> States]
        /\ \/ pc' = back /\ Count(back, "for_room") = 0
           \/ Moves(back, pc', "for_room", "push")
        /\ \A t \in Threads : pc'[t] # back[t] => back[t] = "for_room" /\ pc'[t] = "push"
    BY <1>1, NotifyMoves DEF States
  <1>5. /\ queue \in Seq(Values) /\ queue' \in Seq(Values)
        /\ Len(queue) \in Nat /\ Len(queue') = Len(queue) - 1
        /\ Head(queue) \in Values
    BY DEF IInv, TypeOK, Pop
  <1>6. TypeOK'
    <2>1. taken' \in [Consumers -> Seq(Values)]
      <3>1. taken[c] \in Seq(Values)
        BY DEF IInv, TypeOK
      <3>2. Append(taken[c], Head(queue)) \in Seq(Values)
        BY <1>5, <3>1
      <3> QED BY <3>2 DEF Pop, IInv, TypeOK
    <2>2. Len(queue') <= Capacity
      BY <1>5, QueueAssumption DEF IInv, TypeOK
    <2> QED BY <1>1, <1>4, <1>5, <2>1, <2>2 DEF IInv, TypeOK
  <1>7. Roles' /\ ClearsAlone'
    <2>1. \A t \in Threads : \/ t # c /\ pc'[t] = pc[t]
                             \/ t = c /\ pc'[t] = to
                             \/ pc[t] = "for_room" /\ pc'[t] = "push" /\ t # c
      BY <1>1, <1>3, <1>4
    <2>2. Roles'
      BY <1>1, <2>1, QueueAssumption DEF IInv, TypeOK, Roles, Threads
    <2>3. \A d \in clearing : d = c
      BY <1>1 DEF IInv, TypeOK, Roles, ClearsAlone
    <2>4. ClearsAlone'
      BY <1>1, <2>1, <2>3 DEF IInv, TypeOK, ClearsAlone
    <2> QED BY <2>2, <2>4
  <1>8. Balanced(pc', Len(queue'))
    <2>1. /\ Balanced(pc, Len(queue)) /\ Capacity \in Nat
          /\ \A state : /\ Count(pc, state) \in Nat /\ Count(back, state) \in Nat
                        /\ Count(pc', state) \in Nat
      BY Counted, CountNat, QueueAssumption DEF IInv
    <2>2. /\ Count(back, "for_value") = Count(pc, "for_value")
          /\ Count(back, "pop") = Count(pc, "pop") - 1
          /\ Count(back, "pushed") = Count(pc, "pushed")
          /\ Count(back, "for_room") = Count(pc, "for_room")
          /\ Count(back, "push") = Count(pc, "push")
      BY <1>2, CountMove
    <2>3. CASE pc' = back /\ Count(back, "for_room") = 0
      BY <1>5, <2>1, <2>2, <2>3 DEF Balanced
    <2>4. CASE Moves(back, pc', "for_room", "push")
      <3>1. /\ Count(pc', "for_value") = Count(back, "for_value")
            /\ Count(pc', "pop") = Count(back, "pop")
            /\ Count(pc', "pushed") = Count(back, "pushed")
            /\ Count(pc', "for_room") = Count(back, "for_room") - 1
            /\ Count(pc', "push") = Count(back, "push") + 1
        BY <2>4, CountMove
      <3>2. Count(pc, "for_room") # 0
        BY <2>1, <2>2, <3>1
      <3>3. Capacity - Len(queue) <= Count(pc, "push")
        BY <2>1, <3>2 DEF Balanced
      <3>4. Capacity - Len(queue') <= Count(pc', "push")
        BY <1>5, <2>1, <2>2, <3>1, <3>3
      <3>5. Count(pc', "for_value") # 0 =>
                Len(queue') <= Count(pc', "pop") + Count(pc', "pushed")
        <4>1. Count(pc, "for_value") # 0 =>
                  Len(queue) <= Count(pc, "pop") + Count(pc, "pushed")
          BY <2>1 DEF Balanced
        <4>2. /\ Count(pc', "for_value") = Count(pc, "for_value")
              /\ Count(pc', "pop") = Count(pc, "pop") - 1
              /\ Count(pc', "pushed") = Count(pc, "pushed")
          BY <2>2, <3>1
        <4> QED BY <1>5, <2>1, <4>1, <4>2
      <3> QED BY <3>4, <3>5 DEF Balanced
    <2> QED BY <1>4, <2>3, <2>4
  <1>9. NobodySleepsForNothing'
    BY <1>8, Counted
  <1> QED BY <1>6, <1>7, <1>9 DEF IInv

LEMMA ClearInv ==
    ASSUME IInv, NEW c \in Consumers, CallClear(c) \/ ClearLoop(c) \/ Cleared(c)
    PROVE  IInv'
  <1> USE DEF Goto, IInv
  <1>1. c \in Threads
    BY DEF Threads
  <1>2. CASE CallClear(c)
    <2>1. pc' \in [Threads -> States] /\ NobodySleepsForNothing'
      BY <1>1, <1>2, GotoInv DEF States, CallClear
    <2> QED BY <1>1, <1>2, <2>1, QueueAssumption
            DEF TypeOK, Roles, ClearsAlone, Threads, CallClear
  <1>3. CASE ClearLoop(c)
    <2>1. pc' \in [Threads -> States] /\ NobodySleepsForNothing'
      BY <1>1, <1>3, GotoInv DEF States, ClearLoop
    <2> QED BY <1>1, <1>3, <2>1, QueueAssumption
            DEF TypeOK, Roles, ClearsAlone, Threads, ClearLoop
  <1>4. CASE Cleared(c)
    <2>1. pc' \in [Threads -> States] /\ NobodySleepsForNothing'
      BY <1>1, <1>4, GotoInv DEF States, Cleared
    <2> QED BY <1>1, <1>4, <2>1, QueueAssumption
            DEF TypeOK, Roles, ClearsAlone, Threads, Cleared
  <1> QED BY <1>2, <1>3, <1>4

LEMMA WakeupInv == ASSUME IInv, NEW t \in Threads, SpuriousWakeup(t) PROVE IInv'
  <1> USE DEF SpuriousWakeup, Goto, IInv
  <1>1. pc' \in [Threads -> States] /\ NobodySleepsForNothing'
    BY GotoInv DEF States
  <1>2. TypeOK'
    BY <1>1 DEF TypeOK
  <1>3. Roles' /\ ClearsAlone'
    BY QueueAssumption DEF TypeOK, Roles, ClearsAlone, Threads
  <1> QED BY <1>1, <1>2, <1>3

LEMMA StutterInv == ASSUME IInv, UNCHANGED vars PROVE IInv'
  BY DEF vars, IInv, TypeOK, Roles, ClearsAlone, NobodySleepsForNothing, At

LEMMA NextInv == IInv /\ [Next]_vars => IInv'
  BY CallPushInv, PushWaitsInv, PushInv, NotifyInv, CallPopInv, PopWaitsInv, PopInv,
     ClearInv, WakeupInv, StutterInv DEF Next, ProducerStep, PopStep

\* Producers and consumers stay in their part of the code, and what Clear()
\* saw in the queue is there when it pops.
THEOREM Invariance == Spec => []IInv
  BY InitInv, NextInv, PTL DEF Spec

\* With any number of threads no notification is lost: while threads sleep, as
\* many as there are values, or room, are on their way.
THEOREM NoLostNotification == Spec => []NobodySleepsForNothing
  <1>1. IInv => NobodySleepsForNothing
    BY DEF IInv
  <1> QED BY <1>1, Invariance, PTL

\* Clear() never waits for a value.
THEOREM ClearReturns == Spec => []ClearNeverWaits
  <1>1. IInv => ClearNeverWaits
    BY DEF IInv, ClearsAlone, ClearNeverWaits, At
  <1> QED BY <1>1, Invariance, PTL

\* The queue is a bounded FIFO: each push puts one value in, each pop takes the
\* oldest out, and nothing else touches it.
THEOREM FifoImplemented == Spec => ImplementsFifo
  <1>1. Init => Fifo!Init
    BY DEF Init, Fifo!Init
  <1>2. ASSUME IInv, [Next]_vars PROVE [Fifo!Next]_<<queue, taken>>
    <2>1. ASSUME NEW p \in Producers, Push(p) PROVE Fifo!Next
      <3>1. Fifo!Put(<<p, pushes'[p]>>)
        BY <1>2, <2>1, PushedValue DEF Fifo!Put, Push, Room
      <3> QED BY <1>2, <2>1, <3>1, PushedValue DEF Fifo!Next
    <2>2. ASSUME NEW c \in Consumers, Pop(c) PROVE Fifo!Next
      BY <2>2 DEF Fifo!Next, Fifo!Take, Pop
    <2>3. CASE UNCHANGED <<queue, taken>>
      BY <2>3
    <2>4. \/ \E p \in Producers : Push(p)
          \/ \E c \in Consumers : Pop(c)
          \/ UNCHANGED <<queue, taken>>
      BY <1>2 DEF Next, ProducerStep, PopStep, CallPush, PushWaits, NotifyNotEmpty,
                  CallPop, PopWaits, CallClear, ClearLoop, Cleared, SpuriousWakeup, vars
    <2> QED BY <2>1, <2>2, <2>3, <2>4
  <1> QED BY <1>1, <1>2, Invariance, PTL DEF Spec, ImplementsFifo, Fifo!Spec
=============================================================================
