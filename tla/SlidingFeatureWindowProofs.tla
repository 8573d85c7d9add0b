---------------------- MODULE SlidingFeatureWindowProofs ----------------------
(***************************************************************************)
(* The ring and the window hold the newest frames, for any window and any  *)
(* sequence of blocks.                                                     *)
(***************************************************************************)
EXTENDS SlidingFeatureWindow, SequenceTheorems, WellFoundedInduction, TLAPS

\* The two wraps of the code.
LEMMA WrapUp ==
    ASSUME NEW W \in Nat \ {0}, NEW x \in 0..(W - 1), NEW y \in 0..W
    PROVE  (x + y) % W = IF x + y < W THEN x + y ELSE x + y - W
  OBVIOUS

LEMMA WrapDown ==
    ASSUME NEW W \in Nat \ {0}, NEW x \in 0..(W - 1), NEW y \in 0..(W - 1)
    PROVE  (x - y) % W = IF x >= y THEN x - y ELSE x - y + W
  OBVIOUS

-----------------------------------------------------------------------------
\* RingIsLatest is what makes the next window right, failed pushes included.
IInv ==
    /\ TypeOK
    /\ stored \in Seq(Frames)
    /\ shown \in 0..Len(stored)
    /\ RingIsLatest
    /\ WindowIsLatest

\* Storing up to a window of frames keeps the ring a record of the newest.
LEMMA StoreStep ==
    ASSUME IInv, NEW block \in Seq(Frames), Len(block) =< window_frames,
           Store(block)
    PROVE  /\ ring' \in [Slots -> Frames] /\ write_index' \in Slots
           /\ stored' \in Seq(Frames) /\ Len(stored') = Len(stored) + Len(block)
           /\ RingIsLatest'
  <1>1. PICK W \in Nat \ {0} : W = window_frames
    BY WindowAssumption
  <1>2. PICK x \in 0..(W - 1) : x = write_index
    BY <1>1 DEF IInv, TypeOK, Slots
  <1>3. PICK n \in 0..W : n = Len(block)
    BY <1>1
  <1>4. PICK L \in Nat : L = Len(stored)
    BY DEF IInv
  <1>5. stored' = stored \o block
    BY DEF Store
  <1>6. /\ stored' \in Seq(Frames) /\ Len(stored') = L + n
        /\ \A m \in 1..L : stored'[m] = stored[m]
        /\ \A m \in 1..n : stored'[L + m] = block[m]
    <2>1. stored \in Seq(Frames)
      BY DEF IInv
    <2> QED BY <1>3, <1>4, <1>5, <2>1
  <1>7. write_index' = (x + n) % W /\ write_index' \in 0..(W - 1)
    <2>1. write_index' = (x + n) % W
      BY <1>1, <1>2, <1>3, Zenon DEF Store, Advanced
    <2> QED BY <2>1, WrapUp
  <1>8. \A i \in 0..(W - 1) :
            ring'[i] = IF (i - x) % W < n THEN block[((i - x) % W) + 1]
                       ELSE ring[i]
    BY <1>1, <1>2, <1>3 DEF Store, Written, Slots
  <1>9. ring' \in [Slots -> Frames]
    <2>1. ASSUME NEW i \in Slots PROVE ring'[i] \in Frames
      <3>1. PICK j \in 0..(W - 1) : j = (i - x) % W
        BY <1>1, WrapDown DEF Slots
      <3>2. ring'[i] = IF j < n THEN block[j + 1] ELSE ring[i]
        BY <1>1, <1>8, <3>1 DEF Slots
      <3>3. ring[i] \in Frames
        BY DEF IInv, TypeOK
      <3>4. j < n => block[j + 1] \in Frames
        BY <1>3
      <3> QED BY <3>2, <3>3, <3>4
    <2>2. ring' = [i \in Slots |-> ring'[i]]
      BY DEF Store, Written
    <2> QED BY <2>1, <2>2
  <1>10. ASSUME NEW f \in 0..(W - 1)
         PROVE  ring'[(write_index' + f) % W]
                  = IF L + n - W + 1 + f \in 1..(L + n)
                      THEN stored'[L + n - W + 1 + f] ELSE Zero
    <2>1. PICK w \in 0..(W - 1) : w = write_index'
      BY <1>7
    <2>2. w = IF x + n < W THEN x + n ELSE x + n - W
      BY <1>7, <2>1, WrapUp
    <2>0. f \in 0..W
      OBVIOUS
    <2>3. PICK i \in 0..(W - 1) : i = (w + f) % W
      <3>1. (w + f) % W = IF w + f < W THEN w + f ELSE w + f - W
        BY <2>0, WrapUp
      <3> QED BY <3>1
    <2>4. i = IF w + f < W THEN w + f ELSE w + f - W
      <3>1. (w + f) % W = IF w + f < W THEN w + f ELSE w + f - W
        BY <2>0, WrapUp
      <3> QED BY <2>3, <3>1, Zenon
    <2>5. PICK j \in 0..(W - 1) : j = (i - x) % W
      BY WrapDown
    <2>6. j = IF i >= x THEN i - x ELSE i - x + W
      BY <2>5, WrapDown
    <2>7. ring'[i] = IF j < n THEN block[j + 1] ELSE ring[i]
      BY <1>8, <2>5
    <2>8. ring'[(write_index' + f) % W] = ring'[i]
      BY <2>1, <2>3
    <2>9. CASE n + f < W
      <3>1. j = n + f
        BY <2>2, <2>4, <2>6, <2>9
      <3>2. PICK y \in 0..(W - 1) : y = n + f
        BY <2>9
      <3>3. i = (x + y) % W
        <4>1. i = IF x + y < W THEN x + y ELSE x + y - W
          BY <2>2, <2>4, <3>2
        <4>2. y \in 0..W
          OBVIOUS
        <4> QED BY <4>1, <4>2, WrapUp
      <3>4. PICK m \in Int : /\ m = L - W + 1 + y /\ m = L + n - W + 1 + f
                             /\ m =< L /\ m =< L + n
        BY <2>9, <3>2
      <3>5. ring[i] = IF m \in 1..L THEN stored[m] ELSE Zero
        <4>1. y \in Slots
          BY <1>1 DEF Slots
        <4>2. ring[(write_index + y) % window_frames]
                = IF Len(stored) - window_frames + 1 + y \in 1..Len(stored)
                    THEN stored[Len(stored) - window_frames + 1 + y] ELSE Zero
          BY <4>1, Zenon DEF IInv, RingIsLatest, Stored
        <4> QED BY <1>1, <1>2, <1>4, <3>3, <3>4, <4>2, Zenon
      <3>6. ring'[i] = ring[i]
        <4>1. ~(j < n)
          BY <3>1
        <4> QED BY <2>7, <4>1, Zenon
      <3>7. m \in 1..(L + n) <=> m \in 1..L
        BY <3>4
      <3>8. m \in 1..L => stored'[m] = stored[m]
        BY <1>6, Zenon
      <3> QED BY <2>8, <3>4, <3>5, <3>6, <3>7, <3>8, Zenon
    <2>10. CASE n + f >= W
      <3>1. j = n + f - W /\ j < n
        BY <2>2, <2>4, <2>6, <2>10
      <3>2. ring'[i] = block[j + 1] /\ j + 1 \in 1..n
        BY <2>7, <3>1
      <3>3. L + n - W + 1 + f = L + (j + 1)
        BY <3>1
      <3>4. L + (j + 1) \in 1..(L + n)
        BY <3>2
      <3>5. stored'[L + (j + 1)] = block[j + 1]
        BY <1>6, <3>2
      <3> QED BY <2>8, <3>2, <3>3, <3>4, <3>5, Zenon
    <2> QED BY <2>9, <2>10
  <1>11. RingIsLatest'
    BY <1>1, <1>6, <1>10 DEF RingIsLatest, Stored, Slots
  <1> QED BY <1>1, <1>3, <1>4, <1>6, <1>7, <1>9, <1>11 DEF Slots

\* The window read off the ring is the newest frames too.
LEMMA RebuildStep ==
    ASSUME IInv, NEW block \in Seq(Frames), Len(block) =< window_frames,
           Store(block), window' = Rebuilt(ring', write_index'),
           shown' = Len(stored')
    PROVE  window' \in [Slots -> Frames] /\ WindowIsLatest'
  <1>1. /\ ring' \in [Slots -> Frames] /\ write_index' \in Slots
        /\ RingIsLatest'
    BY StoreStep
  <1>2. \A f \in Slots : window'[f] = ring'[(write_index' + f) % window_frames]
    BY DEF Rebuilt
  <1>3. WindowIsLatest'
    BY <1>1, <1>2, Zenon DEF WindowIsLatest, RingIsLatest, Stored
  <1>4. ASSUME NEW f \in Slots PROVE window'[f] \in Frames
    <2>1. PICK W \in Nat \ {0} : W = window_frames
      BY WindowAssumption
    <2>2. PICK w \in 0..(W - 1) : w = write_index'
      BY <1>1, <2>1 DEF Slots
    <2>3. f \in 0..W
      BY <2>1 DEF Slots
    <2>4. (w + f) % W \in 0..(W - 1)
      BY <2>3, WrapUp
    <2>5. (write_index' + f) % window_frames \in Slots
      BY <2>1, <2>2, <2>4 DEF Slots
    <2> QED BY <1>1, <1>2, <2>5
  <1>5. window' = [f \in Slots |-> window'[f]]
    BY DEF Rebuilt
  <1> QED BY <1>3, <1>4, <1>5

\* A window that is not rebuilt stays the newest of the frames shown.
LEMMA KeptWindow ==
    ASSUME IInv, NEW block \in Seq(Frames), stored' = stored \o block,
           UNCHANGED <<window, shown>>
    PROVE  WindowIsLatest' /\ shown' \in 0..Len(stored')
  <1>1. PICK L \in Nat : L = Len(stored)
    BY DEF IInv
  <1>2. PICK s \in 0..L : s = shown
    BY <1>1 DEF IInv
  <1>3. stored \in Seq(Frames)
    BY DEF IInv
  <1>4. Len(stored') \in Nat /\ L =< Len(stored')
        /\ \A m \in 1..L : stored'[m] = stored[m]
    BY <1>1, <1>3
  <1>5. ASSUME NEW f \in Slots
        PROVE  window'[f] = IF s - window_frames + 1 + f \in 1..Len(stored')
                              THEN stored'[s - window_frames + 1 + f] ELSE Zero
    <2>1. PICK m \in Int : m = s - window_frames + 1 + f /\ m =< L
      BY WindowAssumption DEF Slots
    <2>2. window[f] = IF m \in 1..L THEN stored[m] ELSE Zero
      BY <1>1, <1>2, <2>1 DEF IInv, WindowIsLatest, Stored
    <2> QED BY <1>4, <2>1, <2>2
  <1>6. WindowIsLatest'
    BY <1>2, <1>5 DEF WindowIsLatest, Stored
  <1> QED BY <1>1, <1>2, <1>4, <1>6

-----------------------------------------------------------------------------
LEMMA InitInv == Init => IInv
  <1> SUFFICES ASSUME Init PROVE IInv
    OBVIOUS
  <1> USE DEF Init
  <1>1. TypeOK
    BY WindowAssumption DEF TypeOK, Slots
  <1>2. stored \in Seq(Frames) /\ shown \in 0..Len(stored)
    OBVIOUS
  <1>3. \A n : Stored(n) = Zero
    BY DEF Stored
  <1>4. WindowIsLatest
    BY <1>3 DEF WindowIsLatest
  <1>5. ASSUME NEW f \in Slots PROVE ring[(write_index + f) % window_frames] = Zero
    <2>1. PICK W \in Nat \ {0} : W = window_frames
      BY WindowAssumption
    <2>2. f \in 0..W /\ 0 \in 0..(W - 1)
      BY <2>1 DEF Slots
    <2>3. (0 + f) % W \in 0..(W - 1)
      BY <2>2, WrapUp
    <2> QED BY <2>1, <2>3 DEF Slots
  <1>6. RingIsLatest
    BY <1>3, <1>5 DEF RingIsLatest
  <1> QED BY <1>1, <1>2, <1>4, <1>6 DEF IInv

\* A block of which only a part fits leaves that part in the ring.
LEMMA MisfitStep ==
    ASSUME IInv, NEW block \in Seq(Frames \cup Misfits), PushMisfit(block)
    PROVE  IInv'
  <1>1. block \in Seq(Frames \cup Misfits)
    OBVIOUS
  <1>2. PICK n \in 1..Len(block) :
            /\ \A i \in 1..(n - 1) : block[i] \in Frames
            /\ Store(SubSeq(block, 1, n - 1))
    BY DEF PushMisfit
  <1> DEFINE part == SubSeq(block, 1, n - 1)
  <1>3. n - 1 \in Nat /\ n - 1 < Len(block) /\ Len(block) =< window_frames
    BY <1>1, WindowAssumption DEF PushMisfit
  <1>4. part \in Seq(Frames) /\ Len(part) = n - 1
    <2>1. 1 \in Int /\ n - 1 \in Int
      BY <1>3
    <2>2. /\ part \in Seq(Frames)
          /\ Len(part) = IF 1 =< n - 1 THEN (n - 1) - 1 + 1 ELSE 0
      BY <1>2, <2>1, SubSeqProperties
    <2> HIDE DEF part
    <2> QED BY <1>3, <2>2
  <1>5. Store(part)
    BY <1>2
  <1> HIDE DEF part
  <1>6. Len(part) =< window_frames
    BY <1>1, <1>3, <1>4, WindowAssumption
  <1>7. /\ ring' \in [Slots -> Frames] /\ write_index' \in Slots
        /\ stored' \in Seq(Frames) /\ RingIsLatest'
    BY <1>4, <1>5, <1>6, StoreStep
  <1>8. UNCHANGED <<window, newest_frames, shown>> /\ pushed' = FALSE
    BY DEF PushMisfit
  <1>9. WindowIsLatest' /\ shown' \in 0..Len(stored')
    BY <1>4, <1>5, <1>8, KeptWindow DEF Store
  <1> QED BY <1>7, <1>8, <1>9 DEF IInv, TypeOK

LEMMA BlockStep ==
    ASSUME IInv, NEW block \in Seq(Frames \cup Misfits), PushBlock(block)
    PROVE  IInv'
  <1> USE DEF PushBlock
  <1>1. block \in Seq(Frames)
    <2>1. block \in Seq(Frames \cup Misfits)
      OBVIOUS
    <2>2. block = [i \in 1..Len(block) |-> block[i]] /\ Len(block) \in Nat
      BY <2>1
    <2> QED BY <2>2
  <1>2. Len(block) =< window_frames /\ newest_frames' \in 0..window_frames
    BY <1>1, WindowAssumption
  <1>3. /\ ring' \in [Slots -> Frames] /\ write_index' \in Slots
        /\ stored' \in Seq(Frames) /\ RingIsLatest'
    BY <1>1, <1>2, StoreStep
  <1>4. window' \in [Slots -> Frames] /\ WindowIsLatest'
    BY <1>1, <1>2, RebuildStep
  <1>5. shown' \in 0..Len(stored')
    BY <1>3
  <1>6. pushed' = TRUE
    OBVIOUS
  <1> QED BY <1>2, <1>3, <1>4, <1>5, <1>6 DEF IInv, TypeOK

LEMMA NextInv == IInv /\ [Next]_vars => IInv'
  <1> SUFFICES ASSUME IInv, [Next]_vars PROVE IInv'
    OBVIOUS
  <1>1. ASSUME NEW block \in Blocks, PushRejected(block) PROVE IInv'
    BY <1>1 DEF PushRejected, buffers, IInv, TypeOK, RingIsLatest,
                WindowIsLatest, Stored
  <1>2. CASE UNCHANGED vars
    BY <1>2 DEF vars, buffers, IInv, TypeOK, RingIsLatest, WindowIsLatest,
                Stored
  <1>3. \A block \in Blocks : block \in Seq(Frames \cup Misfits)
    BY WindowAssumption
  <1> QED BY <1>1, <1>2, <1>3, MisfitStep, BlockStep DEF Next, Push

\* Ring and window hold the newest frames, each the ones of its own last change.
THEOREM Invariance == Spec => []IInv
  BY InitInv, NextInv, PTL DEF Spec

\* Every index stays inside the buffers.
THEOREM TypeCorrect == Spec => []TypeOK
  <1>1. IInv => TypeOK
    BY DEF IInv
  <1> QED BY <1>1, Invariance, PTL

\* The model is shown the newest frames, oldest first.
THEOREM WindowCorrect == Spec => []WindowIsLatest
  <1>1. IInv => WindowIsLatest
    BY DEF IInv
  <1> QED BY <1>1, Invariance, PTL

\* Whatever push failed before, the next window is built from the newest.
THEOREM RingCorrect == Spec => []RingIsLatest
  <1>1. IInv => RingIsLatest
    BY DEF IInv
  <1> QED BY <1>1, Invariance, PTL

-----------------------------------------------------------------------------
(* Written and Advanced, by which the model states the loop of Push, are    *)
(* that loop: here are its variables after each turn.                      *)

\* The ring and the index after each frame of the loop.
PushLoop(old_ring, index, block, rings, indexes) ==
    /\ rings[0] = old_ring /\ indexes[0] = index
    /\ \A i \in 1..Len(block) :
           /\ rings[i] = [rings[i - 1] EXCEPT ![indexes[i - 1]] = block[i]]
           /\ indexes[i] = (indexes[i - 1] + 1) % window_frames

\* Slot i is written at offset p from x exactly if it lies p slots after x.
LEMMA SlotAtOffset ==
    ASSUME NEW W \in Nat \ {0}, NEW x \in 0..(W - 1), NEW i \in 0..(W - 1),
           NEW p \in 0..(W - 1), NEW s, NEW j,
           s = IF x + p < W THEN x + p ELSE x + p - W,
           j = IF i >= x THEN i - x ELSE i - x + W
    PROVE  j = p <=> i = s
  OBVIOUS

\* The slot after the one at offset m - 1 is the one at offset m.
LEMMA NextSlot ==
    ASSUME NEW W \in Nat \ {0}, NEW x \in 0..(W - 1), NEW m \in 1..W, NEW s,
           s = IF x + (m - 1) < W THEN x + (m - 1) ELSE x + (m - 1) - W
    PROVE  (s + 1) % W = (x + m) % W
  <1>1. s \in 0..(W - 1) /\ 1 \in 0..W /\ m \in 0..W
    OBVIOUS
  <1>2. (s + 1) % W = IF s + 1 < W THEN s + 1 ELSE s + 1 - W
    BY <1>1, WrapUp
  <1>3. (x + m) % W = IF x + m < W THEN x + m ELSE x + m - W
    BY <1>1, WrapUp
  <1>4. CASE x + (m - 1) < W
    <2>1. s + 1 = x + m
      BY <1>4
    <2> QED BY <2>1
  <1>5. CASE ~(x + (m - 1) < W)
    <2>1. s + 1 = x + m - W /\ s + 1 < W /\ ~(x + m < W)
      BY <1>5
    <2> QED BY <1>2, <1>3, <2>1
  <1> QED BY <1>4, <1>5

\* A set with 0 and with every successor of its members, up to n.
LEMMA Induction ==
    ASSUME NEW n \in Nat, NEW S, 0 \in S, \A i \in 1..n : i - 1 \in S => i \in S
    PROVE  0..n \subseteq S
  <1> DEFINE less == {ss \in Nat \X Nat : ss[1] < ss[2]}
             T == {i \in 0..n : i \notin S}
  <1> SUFFICES ASSUME T # {} PROVE FALSE
    OBVIOUS
  <1>1. PICK i \in T : \A j \in T : ~(<<j, i>> \in less)
    <2>1. IsWellFoundedOn(less, Nat)
      BY NatLessThanWellFounded DEF OpToRel
    <2>2. T \in SUBSET Nat
      OBVIOUS
    <2> HIDE DEF T, less
    <2> QED BY <2>1, <2>2, WFMin
  <1>2. i # 0 /\ i \in 1..n
    BY <1>1
  <1>3. i - 1 \in 0..n /\ <<i - 1, i>> \in less
    BY <1>2
  <1>4. i - 1 \notin T
    BY <1>1, <1>3
  <1> QED BY <1>1, <1>2, <1>3, <1>4

\* After the loop the ring is Written and the index Advanced, for every ring,
\* every index and every block that Push accepts, one that wraps included.
THEOREM WrittenIsLoop ==
    ASSUME NEW old_ring, old_ring = [i \in Slots |-> old_ring[i]], NEW index \in Slots,
           NEW block \in Seq(Frames), Len(block) =< window_frames,
           NEW rings, NEW indexes, PushLoop(old_ring, index, block, rings, indexes)
    PROVE  /\ rings[Len(block)] = Written(old_ring, index, block)
           /\ indexes[Len(block)] = Advanced(index, block)
  <1> DEFINE n == Len(block)
             W == window_frames
             After(m) == [i \in Slots |-> IF (i - index) % W < m THEN block[((i - index) % W) + 1]
                                          ELSE old_ring[i]]
             S == {m \in 0..n : rings[m] = After(m) /\ indexes[m] = (index + m) % W}
  <1>1. /\ W \in Nat \ {0} /\ n \in Nat /\ n =< W /\ index \in 0..(W - 1)
        /\ \A i \in Slots : i \in 0..(W - 1)
    BY WindowAssumption DEF Slots
  <1>2. \A i \in Slots : /\ (i - index) % W \in 0..(W - 1)
                         /\ (i - index) % W = IF i >= index THEN i - index ELSE i - index + W
    <2> SUFFICES ASSUME NEW i \in Slots
                 PROVE  /\ (i - index) % W \in 0..(W - 1)
                        /\ (i - index) % W = IF i >= index THEN i - index ELSE i - index + W
      OBVIOUS
    <2> HIDE DEF W
    <2>1. (i - index) % W = IF i >= index THEN i - index ELSE i - index + W
      BY <1>1, WrapDown
    <2>2. i \in 0..(W - 1)
      BY <1>1
    <2>3. PICK j : j = (i - index) % W
      OBVIOUS
    <2>4. j = IF i >= index THEN i - index ELSE i - index + W
      BY <2>1, <2>3, Zenon
    <2>5. j \in 0..(W - 1)
      BY ONLY <1>1, <2>2, <2>4
    <2> QED BY <2>1, <2>3, <2>5
  <1>3. 0 \in S
    <2>1. \A i \in Slots : ~((i - index) % W < 0)
      <3> SUFFICES ASSUME NEW i \in Slots PROVE ~((i - index) % W < 0)
        OBVIOUS
      <3> DEFINE j == (i - index) % W
      <3>1. j \in 0..(W - 1)
        BY <1>2
      <3> HIDE DEF j, W
      <3>2. ~(j < 0)
        BY <3>1, <1>1
      <3> QED BY <3>2 DEF j
    <2>2. After(0) = [i \in Slots |-> old_ring[i]]
      BY <2>1
    <2>3. (index + 0) % W = index
      <3> HIDE DEF W
      <3>1. index + 0 = index
        BY <1>1
      <3>2. (index + 0) % W = IF index + 0 < W THEN index + 0 ELSE index + 0 - W
        <4>1. 0 \in 0..W
          BY <1>1
        <4> QED BY <1>1, <4>1, WrapUp
      <3> QED BY <1>1, <3>1, <3>2
    <2>4. rings[0] = After(0) /\ indexes[0] = (index + 0) % W
      BY <2>2, <2>3 DEF PushLoop
    <2> HIDE DEF After
    <2> QED BY <1>1, <2>4
  <1>4. ASSUME NEW m \in 1..n, m - 1 \in S PROVE m \in S
    <2> DEFINE slot == (index + (m - 1)) % W
    <2>1. /\ rings[m] = [After(m - 1) EXCEPT ![slot] = block[m]]
          /\ indexes[m] = (slot + 1) % W
      BY <1>4 DEF PushLoop
    <2>2. /\ m - 1 \in 0..(W - 1)
          /\ slot = IF index + (m - 1) < W THEN index + (m - 1) ELSE index + (m - 1) - W
      <3> HIDE DEF W
      <3>1. m - 1 \in 0..W /\ m - 1 \in 0..(W - 1)
        BY <1>1
      <3>2. PICK p \in 0..W : p = m - 1
        BY <3>1
      <3>3. (index + p) % W = IF index + p < W THEN index + p ELSE index + p - W
        BY <1>1, WrapUp
      <3> QED BY <3>1, <3>2, <3>3
    <2>3. slot \in 0..(W - 1)
      <3> HIDE DEF W, slot
      <3> QED BY <1>1, <2>2
    <2>4. (slot + 1) % W = (index + m) % W
      <3> HIDE DEF W, slot
      <3>1. m \in 1..W
        BY <1>1
      <3> QED BY <1>1, <2>2, <3>1, NextSlot
    <2>5. ASSUME NEW i \in Slots
          PROVE  (i - index) % W = m - 1 <=> i = slot
      <3>1. PICK j : j = (i - index) % W
        OBVIOUS
      <3>2. j = IF i >= index THEN i - index ELSE i - index + W
        BY <1>2, <3>1
      <3>3. PICK p \in 0..(W - 1) : p = m - 1
        BY <2>2
      <3>4. i \in 0..(W - 1)
        BY <1>1
      <3> HIDE DEF slot, W
      <3>5. slot = IF index + p < W THEN index + p ELSE index + p - W
        BY <2>2, <3>3
      <3>6. j = p <=> i = slot
        BY <1>1, <3>2, <3>4, <3>5, SlotAtOffset
      <3> QED BY <3>1, <3>3, <3>6
    <2>6. ASSUME NEW i \in Slots
          PROVE  rings[m][i] = After(m)[i]
      <3> DEFINE j == (i - index) % W
      <3>1. j \in 0..(W - 1) /\ (j = m - 1 <=> i = slot)
        BY <1>2, <2>5
      <3>2. rings[m][i] = IF i = slot THEN block[m] ELSE After(m - 1)[i]
        BY <2>1
      <3>3. After(m - 1)[i] = IF j < m - 1 THEN block[j + 1] ELSE old_ring[i]
        OBVIOUS
      <3>4. After(m)[i] = IF j < m THEN block[j + 1] ELSE old_ring[i]
        OBVIOUS
      <3> HIDE DEF j, slot, After
      <3>5. CASE i = slot
        BY <3>1, <3>2, <3>4, <3>5
      <3>6. CASE i # slot
        <4>1. j < m <=> j < m - 1
          <5> HIDE DEF W
          <5> QED BY <1>1, <3>1, <3>6
        <4> QED BY <3>2, <3>3, <3>4, <3>6, <4>1
      <3> QED BY <3>5, <3>6
    <2>7. rings[m] = After(m)
      <3>1. rings[m] = [i \in Slots |-> rings[m][i]]
        BY <2>1
      <3> QED BY <2>6, <3>1
    <2>8. indexes[m] = (index + m) % W
      BY <2>1, <2>4
    <2> HIDE DEF After, slot
    <2> QED BY <2>7, <2>8
  <1>5. n \in S
    <2> HIDE DEF S
    <2>1. 0..n \subseteq S
      BY <1>1, <1>3, <1>4, Induction
    <2> QED BY <1>1, <2>1
  <1> QED BY <1>5 DEF Written, Advanced
=============================================================================
