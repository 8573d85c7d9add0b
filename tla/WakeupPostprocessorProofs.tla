---------------------- MODULE WakeupPostprocessorProofs ----------------------
(***************************************************************************)
(* The counters of the postprocessor implement the wake-up policy, for any *)
(* thresholds, numbers of hits, wake words and model outputs.              *)
(***************************************************************************)
EXTENDS WakeupPostprocessor, SequenceTheorems, WellFoundedInduction, TLAPS

(* Min and Max of FiniteSetsExt on bounded sets of integers.                *)

LEMMA LeastNatural ==
    ASSUME NEW T \in SUBSET Nat, T # {}
    PROVE  \E t \in T : \A y \in T : t =< y
  <1> DEFINE less == {ss \in Nat \X Nat : ss[1] < ss[2]}
  <1>1. IsWellFoundedOn(less, Nat)
    BY NatLessThanWellFounded DEF OpToRel
  <1>2. \A y, t \in Nat : y < t => <<y, t>> \in less
    OBVIOUS
  <1> HIDE DEF less
  <1>3. PICK t \in T : \A y \in T : ~(<<y, t>> \in less)
    BY <1>1, WFMin
  <1>4. \A y \in T : ~(y < t)
    BY <1>2, <1>3
  <1> QED BY <1>4

\* A set of integers that is bounded below has a least element, and Min is it.
LEMMA MinExists ==
    ASSUME NEW S \in SUBSET Int, S # {}, NEW B \in Int, \A x \in S : B =< x
    PROVE  Min(S) \in S /\ \A x \in S : Min(S) =< x
  <1> DEFINE T == {n \in Nat : B + n \in S}
  <1>1. \A x \in S : x - B \in T /\ x = B + (x - B)
    OBVIOUS
  <1>2. T \in SUBSET Nat /\ T # {}
    BY <1>1
  <1> HIDE DEF T
  <1>3. PICK t \in T : \A y \in T : t =< y
    BY <1>2, LeastNatural
  <1>4. B + t \in S /\ \A x \in S : B + t =< x
    BY <1>1, <1>2, <1>3 DEF T
  <1> QED BY <1>4 DEF Min

\* A set of integers that is bounded above has a greatest element.
LEMMA MaxExists ==
    ASSUME NEW S \in SUBSET Int, S # {}, NEW B \in Int, \A x \in S : x =< B
    PROVE  Max(S) \in S /\ \A x \in S : x =< Max(S)
  <1> DEFINE T == {n \in Nat : B - n \in S}
  <1>1. \A x \in S : B - x \in T /\ x = B - (B - x)
    OBVIOUS
  <1>2. T \in SUBSET Nat /\ T # {}
    BY <1>1
  <1> HIDE DEF T
  <1>3. PICK t \in T : \A y \in T : t =< y
    BY <1>2, LeastNatural
  <1>4. B - t \in S /\ \A x \in S : B - t >= x
    BY <1>1, <1>2, <1>3 DEF T
  <1> QED BY <1>4 DEF Max

LEMMA MaxOfTwo ==
    ASSUME NEW a \in Int, NEW b \in Int
    PROVE  Max({a, b}) = IF a >= b THEN a ELSE b
  <1> DEFINE m == IF a >= b THEN a ELSE b
  <1>1. m \in {a, b} /\ \A y \in {a, b} : m >= y
    OBVIOUS
  <1>2. \A x \in {a, b} : (\A y \in {a, b} : x >= y) => x = m
    OBVIOUS
  <1> QED BY <1>1, <1>2 DEF Max

LEMMA MinOfTwo ==
    ASSUME NEW a \in Int, NEW b \in Int
    PROVE  Min({a, b}) = IF a =< b THEN a ELSE b
  <1> DEFINE m == IF a =< b THEN a ELSE b
  <1>1. m \in {a, b} /\ \A y \in {a, b} : m =< y
    OBVIOUS
  <1>2. \A x \in {a, b} : (\A y \in {a, b} : x =< y) => x = m
    OBVIOUS
  <1> QED BY <1>1, <1>2 DEF Min

-----------------------------------------------------------------------------

LEMMA ScoreType ==
    ASSUME NEW frame \in OutputFrame, NEW k \in Keywords
    PROVE  Score(frame, k) \in -1..Top
  BY WakeWordsAssumption DEF OutputFrame, Score, Keywords

\* BestScore is the maximum of the scores, and 0 when no frame scores.
LEMMA BestScoreBounds ==
    ASSUME NEW block \in Seq(OutputFrame), NEW k \in Keywords
    PROVE  /\ BestScore(block, k) \in 0..Top
           /\ \A i \in 1..Len(block) : Score(block[i], k) =< BestScore(block, k)
           /\ BestScore(block, k) > 0 =>
                \E i \in 1..Len(block) : Score(block[i], k) = BestScore(block, k)
  <1> USE WakeWordsAssumption
  <1> DEFINE S == {0} \cup {Score(block[i], k) : i \in 1..Len(block)}
  <1>1. \A i \in 1..Len(block) : Score(block[i], k) \in -1..Top
    BY ScoreType
  <1>2. S \in SUBSET Int /\ 0 \in S /\ \A x \in S : x =< Top
    BY <1>1
  <1>3. BestScore(block, k) = Max(S)
    BY DEF BestScore
  <1>4. Max(S) \in S /\ \A x \in S : x =< Max(S)
    <2> HIDE DEF S
    <2>1. S \in SUBSET Int
      BY <1>2
    <2>2. S # {}
      BY <1>2
    <2>3. \A x \in S : x =< Top
      BY <1>2
    <2>4. Top \in Int
      OBVIOUS
    <2> QED BY <2>1, <2>2, <2>3, <2>4, MaxExists, Zenon
  <1>5. \A i \in 1..Len(block) : Score(block[i], k) =< Max(S)
    BY <1>4
  <1>6. Max(S) = 0 \/ \E i \in 1..Len(block) : Score(block[i], k) = Max(S)
    BY <1>4
  <1>7. Max(S) \in 0..Top
    <2> HIDE DEF S
    <2>1. Max(S) \in Int /\ Max(S) =< Top /\ 0 =< Max(S)
      BY <1>2, <1>4
    <2> QED BY <2>1
  <1> HIDE DEF S
  <1> QED BY <1>3, <1>5, <1>6, <1>7

\* A keyword's best score reaches a positive level iff some frame's does.
LEMMA BestReaches ==
    ASSUME NEW block \in Seq(OutputFrame), NEW k \in Keywords,
           NEW level \in Nat \ {0}
    PROVE  BestScore(block, k) >= level
             <=> \E i \in 1..Len(block) : Score(block[i], k) >= level
  <1>1. \A i \in 1..Len(block) : Score(block[i], k) \in -1..Top
    BY ScoreType
  <1> QED BY <1>1, BestScoreBounds, WakeWordsAssumption

LEMMA BestFrameBounds ==
    ASSUME NEW block \in Seq(OutputFrame), NEW k \in Keywords,
           BestScore(block, k) > 0
    PROVE  \E i \in 1..Len(block) :
             /\ \A begin \in Int :
                    BestFrame(block, begin, k) = Max({0, begin}) - 1 + i
             /\ Score(block[i], k) = BestScore(block, k)
             /\ \A j \in 1..(i - 1) : Score(block[j], k) < BestScore(block, k)
  <1> DEFINE S == {i \in 1..Len(block) : Score(block[i], k) = BestScore(block, k)}
  <1>1. S \in SUBSET Int /\ S # {} /\ \A x \in S : 1 =< x
    BY BestScoreBounds
  <1>2. Min(S) \in S /\ \A x \in S : Min(S) =< x
    <2> HIDE DEF S
    <2> QED BY <1>1, MinExists
  <1>3. \A begin \in Int :
            BestFrame(block, begin, k) = Max({0, begin}) - 1 + Min(S)
    BY BestScoreBounds DEF BestFrame
  <1>4. ASSUME NEW j \in 1..(Min(S) - 1)
        PROVE  Score(block[j], k) < BestScore(block, k)
    <2>1. j \in 1..Len(block) /\ j \notin S
      BY <1>1, <1>2
    <2>2. Score(block[j], k) =< BestScore(block, k)
          /\ Score(block[j], k) # BestScore(block, k)
      BY <2>1, BestScoreBounds
    <2> QED BY <2>1, <2>2, BestScoreBounds, ScoreType
  <1> HIDE DEF S
  <1> QED BY <1>2, <1>3, <1>4 DEF S

\* The winner is a candidate that no candidate beats.
LEMMA WinnerIsStrongest ==
    ASSUME NEW set \in SUBSET Keywords, set # {},
           NEW scores \in [Keywords -> 0..Top]
    PROVE  /\ Winner(set, scores) \in set
           /\ \A j \in set : scores[j] =< scores[Winner(set, scores)]
  <1> USE WakeWordsAssumption DEF Keywords
  <1> DEFINE S == {scores[j] : j \in set}
             best == {k \in set : scores[k] = Max(S)}
  <1>1. \A j \in set : scores[j] \in 0..Top /\ scores[j] \in S
    OBVIOUS
  <1>2. S \subseteq 0..Top
    OBVIOUS
  <1>3. Max(S) \in S /\ \A x \in S : x =< Max(S)
    <2>1. S # {}
      BY <1>1
    <2> HIDE DEF S
    <2>2. S \in SUBSET Int /\ Top \in Int
      BY <1>2
    <2>3. \A x \in S : x =< Top
      BY <1>2
    <2> QED BY <2>1, <2>2, <2>3, MaxExists, Zenon
  <1>4. PICK w \in set : scores[w] = Max(S)
    BY <1>3
  <1>5. w \in best /\ best \subseteq set
    BY <1>4
  <1>6. Min(best) \in best
    <2> HIDE DEF best
    <2>1. best \in SUBSET Int /\ best # {} /\ 1 \in Int
      BY <1>5
    <2>2. \A x \in best : 1 =< x
      BY <1>5
    <2> QED BY <2>1, <2>2, MinExists, Zenon
  <1>7. Winner(set, scores) = Min(best)
    BY DEF Winner
  <1> HIDE DEF S
  <1> QED BY <1>1, <1>3, <1>6, <1>7

-----------------------------------------------------------------------------
(* Runs at the end of a sequence: both counters count one.                 *)

\* The last n elements of s, and no more, are in good.
Run(s, good, n) ==
    /\ n \in 0..Len(s)
    /\ \A i \in (Len(s) - n + 1)..Len(s) : s[i] \in good
    /\ n < Len(s) => s[Len(s) - n] \notin good

\* How a run grows with one element, and with several.
LEMMA RunAppend ==
    ASSUME NEW S, NEW s \in Seq(S), NEW x \in S, NEW good, NEW n,
           Run(s, good, n)
    PROVE  Run(Append(s, x), good, IF x \in good THEN n + 1 ELSE 0)
  <1>1. CASE x \in good
    BY <1>1 DEF Run
  <1>2. CASE x \notin good
    BY <1>2 DEF Run
  <1> QED BY <1>1, <1>2

LEMMA RunConcat ==
    ASSUME NEW S, NEW s \in Seq(S), NEW t \in Seq(S), NEW good, NEW n,
           Run(s, good, n)
    PROVE  LET bad == {i \in 1..Len(t) : t[i] \notin good}
           IN  Run(s \o t, good,
                   IF bad = {} THEN n + Len(t) ELSE Len(t) - Max(bad))
  <1> DEFINE bad == {i \in 1..Len(t) : t[i] \notin good}
  <1>1. CASE bad = {}
    <2>1. \A i \in 1..Len(t) : t[i] \in good
      BY <1>1
    <2> HIDE DEF bad
    <2>2. Run(s \o t, good, n + Len(t))
      BY <2>1 DEF Run
    <2> QED BY <1>1, <2>2, Zenon DEF bad
  <1>2. CASE bad # {}
    <2>1. \A i \in bad : i =< Len(t)
      OBVIOUS
    <2>2. bad \in SUBSET Int /\ Len(t) \in Int
      OBVIOUS
    <2>3. Max(bad) \in bad /\ \A i \in bad : i =< Max(bad)
      <3> HIDE DEF bad
      <3> QED BY <1>2, <2>1, <2>2, MaxExists, Zenon
    <2>4. PICK m \in bad : m = Max(bad) /\ \A i \in bad : i =< m
      BY <2>3
    <2>5. \A i \in (m + 1)..Len(t) : t[i] \in good
      BY <2>4
    <2>6. m \in 1..Len(t) /\ t[m] \notin good
      BY <2>4
    <2> HIDE DEF bad
    <2>7. Run(s \o t, good, Len(t) - m)
      BY <2>5, <2>6 DEF Run
    <2> QED BY <1>2, <2>4, <2>7, Zenon DEF bad
  <1> QED BY <1>1, <1>2

\* The length of the run decides whether the last m elements are good.
LEMMA RunDecides ==
    ASSUME NEW S, NEW s \in Seq(S), NEW good, NEW n, Run(s, good, n),
           NEW m \in Nat
    PROVE  n >= m <=> /\ Len(s) >= m
                      /\ \A i \in (Len(s) - m + 1)..Len(s) : s[i] \in good
  <1>1. CASE n >= m
    BY <1>1 DEF Run
  <1>2. CASE n < m
    BY <1>2 DEF Run
  <1> QED BY <1>1, <1>2 DEF Run

-----------------------------------------------------------------------------
Hits(k) == {b \in Seq(OutputFrame) :
                \E i \in 1..Len(b) : Score(b[i], k) >= Medium}

LowFrames == {f \in OutputFrame : IsLow(f)}

\* Each counter counts a run of the history of its own mode, and nothing is
\* left over from the other mode.
IInv ==
    /\ TypeOK
    /\ heard \in Seq(Seq(OutputFrame)) /\ quiet \in Seq(OutputFrame)
    /\ \A k \in Keywords : Run(heard, Hits(k), medium_hit_streak[k])
    /\ Run(quiet, LowFrames, consecutive_release_low_frames)
    /\ armed => quiet = <<>>
    /\ ~armed => heard = <<>>
    /\ ReleaseLow > 0 => consecutive_release_low_frames < ReleaseLow

\* What the checked frames are.
LEMMA CheckedFrames ==
    ASSUME NEW probs \in Seq(OutputFrame), NEW begin \in Int, NEW end \in Int
    PROVE  /\ Checked(probs, begin, end) \in Seq(OutputFrame)
           /\ Max({0, begin}) \in Nat
           /\ \A i \in 1..Len(Checked(probs, begin, end)) :
                  /\ Max({0, begin}) + i =< Min({end, Len(probs)})
                  /\ Max({0, begin}) + i \in 1..Len(probs)
                  /\ Checked(probs, begin, end)[i] = probs[Max({0, begin}) + i]
  <1>1. PICK b \in Nat : b = Max({0, begin})
    BY MaxOfTwo
  <1>2. PICK e \in Int : e = Min({end, Len(probs)}) /\ e =< Len(probs)
    BY MinOfTwo
  <1>3. Checked(probs, begin, end) = SubSeq(probs, b + 1, e)
    BY <1>1, <1>2 DEF Checked
  <1>4. CASE e < b + 1
    <2>1. SubSeq(probs, b + 1, e) = <<>>
      BY <1>4
    <2>2. <<>> \in Seq(OutputFrame) /\ \A i \in 1..Len(<<>>) : FALSE
      OBVIOUS
    <2>3. Checked(probs, begin, end) = <<>>
      BY <1>3, <2>1, Zenon
    <2> QED BY <1>1, <2>2, <2>3, Zenon
  <1>5. CASE e >= b + 1
    <2>1. SubSeq(probs, b + 1, e) \in Seq(OutputFrame)
      <3>1. \A i \in (b + 1)..e : probs[i] \in OutputFrame
        BY <1>2
      <3> HIDE <1>2
      <3> QED BY <3>1, SubSeqProperties
    <2>2. Len(SubSeq(probs, b + 1, e)) = e - b
      BY <1>2, <1>5
    <2>3. \A i \in 1..(e - b) : SubSeq(probs, b + 1, e)[i] = probs[b + i]
      BY <1>2, <1>5
    <2>4. \A i \in 1..(e - b) : b + i =< e /\ b + i \in 1..Len(probs)
      BY <1>2, <1>5
    <2> DEFINE block == SubSeq(probs, b + 1, e)
    <2>5. ASSUME NEW i \in 1..Len(block)
          PROVE  /\ b + i =< e /\ b + i \in 1..Len(probs)
                 /\ block[i] = probs[b + i]
      BY <2>2, <2>3, <2>4
    <2> HIDE DEF block
    <2>6. Checked(probs, begin, end) = block
      BY <1>3, Zenon DEF block
    <2>7. block \in Seq(OutputFrame)
      BY <2>1 DEF block
    <2>8. Max({0, begin}) \in Nat
      BY <1>1
    <2>9. \A i \in 1..Len(block) :
              /\ Max({0, begin}) + i =< Min({end, Len(probs)})
              /\ Max({0, begin}) + i \in 1..Len(probs)
              /\ block[i] = probs[Max({0, begin}) + i]
      BY <1>1, <1>2, <2>5, Zenon
    <2> QED BY <2>6, <2>7, <2>8, <2>9, Zenon
  <1>6. e < b + 1 \/ e >= b + 1
    OBVIOUS
  <1> QED BY <1>4, <1>5, <1>6, Zenon

LEMMA MeasuredFields ==
    ASSUME NEW block \in Seq(OutputFrame), NEW begin \in Int
    PROVE  /\ Measured(block, begin) =
                 [scores |-> [k \in Keywords |-> BestScore(block, k)],
                  frames |-> [k \in Keywords |-> BestFrame(block, begin, k)],
                  triggered |-> 0, rearmed |-> FALSE]
           /\ [k \in Keywords |-> BestScore(block, k)] \in [Keywords -> 0..Top]
           /\ [k \in Keywords |-> BestFrame(block, begin, k)]
                 \in [Keywords -> Int]
  <1>1. Measured(block, begin) =
          [scores |-> [k \in Keywords |-> BestScore(block, k)],
           frames |-> [k \in Keywords |-> BestFrame(block, begin, k)],
           triggered |-> 0, rearmed |-> FALSE]
    BY DEF Measured
  <1>2. \A k \in Keywords : BestScore(block, k) \in 0..Top
    BY BestScoreBounds
  <1>3. ASSUME NEW k \in Keywords
        PROVE  BestFrame(block, begin, k) \in Int
    <2>1. CASE BestScore(block, k) = 0
      BY <2>1 DEF BestFrame
    <2>2. CASE BestScore(block, k) > 0
      <3>1. PICK b \in Int : b = Max({0, begin})
        BY MaxOfTwo
      <3> QED BY <2>2, <3>1, BestFrameBounds
    <2> QED BY <1>2, <2>1, <2>2
  <1> QED BY <1>1, <1>2, <1>3

\* Both counters after a block, as runs.
LEMMA StreakRuns ==
    ASSUME IInv, NEW block \in Seq(OutputFrame), NEW k \in Keywords
    PROVE  /\ Run(Append(heard, block), Hits(k), Streaks(block)[k])
           /\ Streaks(block)[k] \in Nat
  <1>1. BestScore(block, k) >= Medium <=> block \in Hits(k)
    BY BestReaches, WakeWordsAssumption DEF Hits
  <1>2. Streaks(block)[k] =
          IF block \in Hits(k) THEN medium_hit_streak[k] + 1 ELSE 0
    BY <1>1 DEF Streaks
  <1>3. Run(Append(heard, block), Hits(k),
            IF block \in Hits(k) THEN medium_hit_streak[k] + 1 ELSE 0)
    BY RunAppend, Zenon DEF IInv
  <1>4. medium_hit_streak[k] \in Nat
    BY WakeWordsAssumption DEF IInv, TypeOK
  <1> QED BY <1>2, <1>3, <1>4

LEMMA LowRunRuns ==
    ASSUME IInv, NEW block \in Seq(OutputFrame)
    PROVE  /\ Run(quiet \o block, LowFrames,
                  LowRun(consecutive_release_low_frames, block))
           /\ LowRun(consecutive_release_low_frames, block) \in Nat
  <1> DEFINE bad  == {i \in 1..Len(block) : block[i] \notin LowFrames}
             loud == {i \in 1..Len(block) : ~IsLow(block[i])}
             n    == consecutive_release_low_frames
  <1>1. bad = loud
    BY DEF LowFrames
  <1>0. quiet \in Seq(OutputFrame) /\ Run(quiet, LowFrames, n)
    BY DEF IInv
  <1>2. Run(quiet \o block, LowFrames,
            IF bad = {} THEN n + Len(block) ELSE Len(block) - Max(bad))
    BY <1>0, RunConcat
  <1>3. LowRun(n, block) =
          IF bad = {} THEN n + Len(block) ELSE Len(block) - Max(bad)
    BY <1>1, Zenon DEF LowRun
  <1>4. Run(quiet \o block, LowFrames, LowRun(n, block))
    BY <1>2, <1>3, Zenon
  <1>5. LowRun(n, block) \in Nat
    BY <1>0, <1>4, ConcatProperties DEF Run
  <1> QED BY <1>4, <1>5

-----------------------------------------------------------------------------
\* Firing: the record returned, and the invariant afterwards.
LEMMA FireStep ==
    ASSUME IInv, armed, NEW block \in Seq(OutputFrame), NEW begin \in Int,
           NEW candidates \in SUBSET Keywords, candidates # {},
           Fire(block, begin, candidates)
    PROVE  /\ IInv'
           /\ result'.triggered \in candidates
           /\ \A j \in candidates :
                  BestScore(block, j) =< BestScore(block, result'.triggered)
           /\ \A k \in Keywords :
                  /\ result'.scores[k] = BestScore(block, k)
                  /\ result'.frames[k] = BestFrame(block, begin, k)
           /\ result'.rearmed = FALSE
  <1> DEFINE scores == [k \in Keywords |-> BestScore(block, k)]
             frames == [k \in Keywords |-> BestFrame(block, begin, k)]
             w      == Winner(candidates, scores)
  <1>1. /\ scores \in [Keywords -> 0..Top] /\ frames \in [Keywords -> Int]
        /\ Measured(block, begin) = [scores |-> scores, frames |-> frames,
                                     triggered |-> 0, rearmed |-> FALSE]
    BY MeasuredFields, Zenon
  <1>2. w \in candidates /\ \A j \in candidates : scores[j] =< scores[w]
    <2> HIDE DEF scores
    <2> QED BY <1>1, WinnerIsStrongest
  <1>3. result' = [Measured(block, begin) EXCEPT
                       !.triggered = Winner(candidates, Measured(block, begin).scores)]
    BY DEF Fire
  <1>4. result' = [scores |-> scores, frames |-> frames,
                   triggered |-> w, rearmed |-> FALSE]
    <2> DEFINE m == Measured(block, begin)
    <2>1. m.scores = scores
      BY <1>1
    <2> HIDE DEF scores, frames, m
    <2>2. m = [scores |-> scores, frames |-> frames,
               triggered |-> 0, rearmed |-> FALSE]
      BY <1>1 DEF m
    <2>3. result' = [m EXCEPT !.triggered = w]
      BY <1>3, <2>1 DEF m
    <2> HIDE DEF w
    <2> QED BY <2>2, <2>3
  <1>5. /\ result'.triggered = w /\ result'.rearmed = FALSE
        /\ result'.scores = scores /\ result'.frames = frames
    <2> HIDE DEF scores, frames, w
    <2> QED BY <1>4
  <1>6. /\ armed' = FALSE /\ heard' = <<>> /\ quiet' = quiet
        /\ medium_hit_streak' = [k \in Keywords |-> 0]
        /\ consecutive_release_low_frames' = 0
    BY DEF Fire, ClearCounters
  <1>7. TypeOK'
    <2> HIDE DEF scores, frames, w
    <2>1. armed' \in BOOLEAN /\ result'.rearmed \in BOOLEAN
      BY <1>5, <1>6
    <2>2. medium_hit_streak' \in [Keywords -> 0..(MediumHits - 1)]
      BY <1>6, WakeWordsAssumption
    <2>3. consecutive_release_low_frames' \in Nat
      BY <1>6
    <2>4. /\ result'.triggered \in {0} \cup Keywords
          /\ result'.scores \in [Keywords -> 0..Top]
          /\ result'.frames \in [Keywords -> Int]
      BY <1>1, <1>2, <1>5
    <2> QED BY <2>1, <2>2, <2>3, <2>4 DEF TypeOK
  <1>8. <<>> \in Seq(Seq(OutputFrame)) /\ quiet = <<>>
    BY DEF IInv
  <1>9. \A k \in Keywords : Run(<<>>, Hits(k), 0)
    BY DEF Run
  <1>10. Run(<<>>, LowFrames, 0)
    BY DEF Run
  <1>11. IInv'
    BY <1>6, <1>7, <1>8, <1>9, <1>10 DEF IInv
  <1> HIDE DEF w
  <1> QED BY <1>2, <1>5, <1>11

\* Each outcome of Process preserves the invariant.
LEMMA HighStep ==
    ASSUME IInv, NEW block \in Seq(OutputFrame), NEW begin \in Int,
           ProcessHigh(block, begin)
    PROVE  IInv'
  <1>1. HighKeywords(block) \in SUBSET Keywords
    BY DEF HighKeywords
  <1> QED BY <1>1, FireStep DEF ProcessHigh

LEMMA MediumStep ==
    ASSUME IInv, NEW block \in Seq(OutputFrame), NEW begin \in Int,
           ProcessMedium(block, begin)
    PROVE  IInv'
  <1> DEFINE candidates == {k \in Keywords : Streaks(block)[k] >= MediumHits}
  <1>1. candidates \in SUBSET Keywords
    OBVIOUS
  <1>2. armed /\ candidates # {} /\ Fire(block, begin, candidates)
    BY DEF ProcessMedium
  <1> HIDE DEF candidates
  <1> QED BY <1>1, <1>2, FireStep

LEMMA NothingStep ==
    ASSUME IInv, NEW block \in Seq(OutputFrame), NEW begin \in Int,
           ProcessNothing(block, begin)
    PROVE  /\ IInv'
           /\ result'.triggered = 0 /\ result'.rearmed = FALSE
  <1> USE DEF ProcessNothing
  <1>1. PICK m : /\ m = Measured(block, begin)
                 /\ m.triggered = 0 /\ m.rearmed = FALSE
                 /\ m.scores \in [Keywords -> 0..Top]
                 /\ m.frames \in [Keywords -> Int]
    BY MeasuredFields
  <1>2. medium_hit_streak' = Streaks(block)
    OBVIOUS
  <1>3. medium_hit_streak' \in [Keywords -> 0..(MediumHits - 1)]
    <2>1. \A k \in Keywords : Streaks(block)[k] \in Nat
                              /\ Streaks(block)[k] < MediumHits
      BY StreakRuns
    <2>2. \A k \in Keywords : Streaks(block)[k] \in 0..(MediumHits - 1)
      BY <2>1, WakeWordsAssumption
    <2>3. Streaks(block) = [k \in Keywords |-> Streaks(block)[k]]
      BY DEF Streaks
    <2> QED BY <1>2, <2>2, <2>3
  <1>4. TypeOK'
    <2>1. result' = m
      BY <1>1
    <2>2. armed' = TRUE
      BY DEF IInv, TypeOK
    <2>3. consecutive_release_low_frames' \in Nat
      BY DEF IInv, TypeOK
    <2> QED BY <1>1, <1>3, <2>1, <2>2, <2>3 DEF TypeOK
  <1>5. heard' = Append(heard, block) /\ heard' \in Seq(Seq(OutputFrame))
    BY AppendProperties DEF IInv
  <1>6. \A k \in Keywords : Run(heard', Hits(k), medium_hit_streak'[k])
    BY <1>2, <1>5, StreakRuns
  <1>7. /\ armed' /\ quiet' = quiet
        /\ consecutive_release_low_frames' = consecutive_release_low_frames
    OBVIOUS
  <1>8. IInv'
    BY <1>4, <1>5, <1>6, <1>7 DEF IInv
  <1> QED BY <1>1, <1>8

LEMMA ReleasedStep ==
    ASSUME IInv, NEW block \in Seq(OutputFrame), NEW begin \in Int,
           ProcessReleased(block, begin)
    PROVE  /\ IInv'
           /\ result'.triggered = 0
           /\ result'.rearmed =
                 (LowRun(consecutive_release_low_frames, block) >= ReleaseLow)
  <1> DEFINE low == LowRun(consecutive_release_low_frames, block)
  <1>1. PICK m : /\ m = Measured(block, begin)
                 /\ m.scores \in [Keywords -> 0..Top]
                 /\ m.frames \in [Keywords -> Int]
                 /\ m = [scores |-> m.scores, frames |-> m.frames,
                         triggered |-> 0, rearmed |-> FALSE]
    BY MeasuredFields
  <1>2. Run(quiet \o block, LowFrames, low) /\ low \in Nat
    BY LowRunRuns
  <1>3. ~armed /\ UNCHANGED heard
    BY DEF ProcessReleased
  <1>4. CASE low >= ReleaseLow
    <2>1. result' = [m EXCEPT !.rearmed = TRUE]
      BY <1>1, <1>4 DEF ProcessReleased
    <2>2. /\ result'.triggered = 0 /\ result'.rearmed = TRUE
          /\ result'.scores = m.scores /\ result'.frames = m.frames
      BY <1>1, <2>1
    <2>3. /\ armed' = TRUE /\ quiet' = <<>>
          /\ medium_hit_streak' = [k \in Keywords |-> 0]
          /\ consecutive_release_low_frames' = 0
      BY <1>4 DEF ProcessReleased, ClearCounters
    <2>4. medium_hit_streak' \in [Keywords -> 0..(MediumHits - 1)]
      BY <2>3, WakeWordsAssumption
    <2>5. TypeOK'
      BY <1>1, <2>2, <2>3, <2>4 DEF TypeOK
    <2>6. /\ heard' = <<>> /\ <<>> \in Seq(Seq(OutputFrame))
          /\ <<>> \in Seq(OutputFrame)
      BY <1>3 DEF IInv
    <2>7. \A k \in Keywords : Run(<<>>, Hits(k), 0)
      BY DEF Run
    <2>8. Run(<<>>, LowFrames, 0)
      BY DEF Run
    <2>9. IInv'
      BY <2>3, <2>5, <2>6, <2>7, <2>8 DEF IInv
    <2> QED BY <1>4, <2>2, <2>9
  <1>5. CASE low < ReleaseLow
    <2>1. /\ result' = m /\ quiet' = quiet \o block
          /\ consecutive_release_low_frames' = low
          /\ UNCHANGED <<armed, medium_hit_streak>>
      BY <1>1, <1>2, <1>5, WakeWordsAssumption DEF ProcessReleased
    <2>2. /\ result'.triggered = 0 /\ result'.rearmed = FALSE
          /\ result'.scores = m.scores /\ result'.frames = m.frames
      BY <1>1, <2>1
    <2>3. TypeOK'
      BY <1>1, <1>2, <2>1, <2>2 DEF TypeOK, IInv
    <2>4. quiet' \in Seq(OutputFrame)
      BY <2>1, ConcatProperties DEF IInv
    <2> HIDE DEF low
    <2>5. IInv'
      BY <1>2, <1>3, <1>5, <2>1, <2>3, <2>4 DEF IInv
    <2>6. (low >= ReleaseLow) = FALSE
      BY <1>2, <1>5, WakeWordsAssumption
    <2> QED BY <2>2, <2>5, <2>6 DEF low
  <1> QED BY <1>2, <1>4, <1>5, WakeWordsAssumption

LEMMA ProcessStep ==
    ASSUME IInv, NEW block \in Seq(OutputFrame), NEW begin \in Int,
           \/ ProcessHigh(block, begin)
           \/ ProcessMedium(block, begin)
           \/ ProcessNothing(block, begin)
           \/ ProcessReleased(block, begin)
    PROVE  IInv'
  BY HighStep, MediumStep, NothingStep, ReleasedStep, Zenon

\* A call that Next may make.
LEMMA CallType ==
    ASSUME NEW probs \in Outputs, NEW range \in Ranges
    PROVE  /\ probs \in Seq(OutputFrame)
           /\ range[1] \in Int /\ range[2] \in Int
           /\ Checked(probs, range[1], range[2]) \in Seq(OutputFrame)
  <1>1. probs \in Seq(OutputFrame) /\ range[1] \in Int /\ range[2] \in Int
    BY CallsAssumption
  <1> QED BY <1>1, CheckedFrames

LEMMA InitInv == Init => IInv
  <1> SUFFICES ASSUME Init PROVE IInv
    OBVIOUS
  <1> USE DEF Init
  <1>1. TypeOK
    <2>1. medium_hit_streak \in [Keywords -> 0..(MediumHits - 1)]
      BY WakeWordsAssumption
    <2>2. /\ result.triggered = 0 /\ result.rearmed = FALSE
          /\ result.scores = [k \in Keywords |-> 0]
          /\ result.frames = [k \in Keywords |-> -1]
      BY DEF EmptyResult
    <2>3. /\ result.scores \in [Keywords -> 0..Top]
          /\ result.frames \in [Keywords -> Int]
      BY <2>2, WakeWordsAssumption
    <2>4. armed \in BOOLEAN /\ consecutive_release_low_frames \in Nat
      OBVIOUS
    <2> QED BY <2>1, <2>2, <2>3, <2>4 DEF TypeOK
  <1>2. <<>> \in Seq(Seq(OutputFrame)) /\ <<>> \in Seq(OutputFrame)
    OBVIOUS
  <1>3. \A k \in Keywords : Run(<<>>, Hits(k), 0)
    BY DEF Run
  <1>4. Run(<<>>, LowFrames, 0)
    BY DEF Run
  <1> QED BY <1>1, <1>2, <1>3, <1>4 DEF IInv

LEMMA NextInv == IInv /\ [Next]_vars => IInv'
  <1> SUFFICES ASSUME IInv, [Next]_vars PROVE IInv'
    OBVIOUS
  <1>1. CASE Next
    BY <1>1, CallType, ProcessStep DEF Next, Process
  <1>2. CASE UNCHANGED vars
    BY <1>2 DEF IInv, TypeOK, vars, counters, Run
  <1> QED BY <1>1, <1>2

\* The invariant holds in every state.
THEOREM Invariance == Spec => []IInv
  BY InitInv, NextInv, PTL DEF Spec

\* The counters and the record returned have their types; in particular no
\* streak outlives the trigger it completes.
THEOREM TypeCorrect == Spec => []TypeOK
  <1>1. IInv => TypeOK
    BY DEF IInv
  <1> QED BY <1>1, Invariance, PTL

\* medium_hit_streak_ counts the medium blocks since the last switch.
THEOREM StreaksCorrect == Spec => []StreaksAreRuns
  <1>1. IInv => StreaksAreRuns
    <2> SUFFICES ASSUME IInv PROVE StreaksAreRuns
      OBVIOUS
    <2> DEFINE Hit(b, k) == \E i \in 1..Len(b) : Score(b[i], k) >= Medium
    <2>1. ASSUME NEW k \in Keywords
          PROVE  LET n == medium_hit_streak[k]
                 IN  /\ n =< Len(heard)
                     /\ \A i \in (Len(heard) - n + 1)..Len(heard) : Hit(heard[i], k)
                     /\ n < Len(heard) => ~Hit(heard[Len(heard) - n], k)
      <3>1. /\ Run(heard, Hits(k), medium_hit_streak[k])
            /\ heard \in Seq(Seq(OutputFrame))
        BY DEF IInv
      <3>2. \A b \in Seq(OutputFrame) : b \in Hits(k) <=> Hit(b, k)
        BY DEF Hits
      <3>3. \A i \in 1..Len(heard) : heard[i] \in Hits(k) <=> Hit(heard[i], k)
        BY <3>1, <3>2
      <3>4. PICK n \in Nat : n = medium_hit_streak[k] /\ n =< Len(heard)
        BY <3>1 DEF Run
      <3>5. ASSUME NEW i \in (Len(heard) - n + 1)..Len(heard)
            PROVE  Hit(heard[i], k)
        <4>1. heard[i] \in Hits(k)
          BY <3>1, <3>4, Zenon DEF Run
        <4>2. Len(heard) \in Nat
          BY <3>1
        <4>3. i \in 1..Len(heard)
          BY <3>4, <4>2
        <4> QED BY <3>3, <4>1, <4>3, Zenon
      <3>6. ASSUME n < Len(heard) PROVE ~Hit(heard[Len(heard) - n], k)
        <4>1. heard[Len(heard) - n] \notin Hits(k)
          BY <3>1, <3>4, <3>6, Zenon DEF Run
        <4>2. Len(heard) \in Nat
          BY <3>1
        <4>3. Len(heard) - n \in 1..Len(heard)
          BY <3>4, <3>6, <4>2
        <4> QED BY <3>3, <4>1, <4>3, Zenon
      <3> QED BY <3>4, <3>5, <3>6, Zenon
    <2> QED BY <2>1, Zenon DEF StreaksAreRuns
  <1> QED BY <1>1, Invariance, PTL

\* consecutive_release_low_frames_ counts the low frames since the trigger.
THEOREM LowCountCorrect == Spec => []LowCountIsRun
  <1>1. IInv => LowCountIsRun
    <2> SUFFICES ASSUME IInv PROVE LowCountIsRun
      OBVIOUS
    <2>1. /\ Run(quiet, LowFrames, consecutive_release_low_frames)
          /\ quiet \in Seq(OutputFrame)
          /\ armed => quiet = <<>>
          /\ ReleaseLow > 0 => consecutive_release_low_frames < ReleaseLow
      BY DEF IInv
    <2>2. armed => consecutive_release_low_frames = 0
      BY <2>1 DEF Run
    <2>3. \A i \in 1..Len(quiet) : quiet[i] \in LowFrames <=> IsLow(quiet[i])
      BY <2>1 DEF LowFrames
    <2> QED BY <2>1, <2>2, <2>3 DEF LowCountIsRun, Run
  <1> QED BY <1>1, Invariance, PTL

-----------------------------------------------------------------------------
\* Every trigger has a positive best score, so its frame exists.
LEMMA TriggerStep ==
    ASSUME IInv, NEW probs \in Seq(OutputFrame), NEW begin \in Int, NEW end \in Int,
           Process(probs, begin, end), result'.triggered # 0
    PROVE  LET block == Checked(probs, begin, end)
               k     == result'.triggered
           IN  /\ k \in Keywords /\ BestScore(block, k) > 0
               /\ result'.scores[k] = BestScore(block, k)
               /\ result'.frames[k] = BestFrame(block, begin, k)
  <1> DEFINE block == Checked(probs, begin, end)
  <1>1. block \in Seq(OutputFrame) /\ begin \in Int
    BY CheckedFrames
  <1>2. \/ ProcessHigh(block, begin)
        \/ ProcessMedium(block, begin)
        \/ ProcessNothing(block, begin)
        \/ ProcessReleased(block, begin)
    BY DEF Process
  <1> HIDE DEF block
  <1>3. CASE ProcessHigh(block, begin)
    <2>1. HighKeywords(block) \in SUBSET Keywords
          /\ \A k \in HighKeywords(block) : BestScore(block, k) > 0
      BY <1>1, BestScoreBounds, WakeWordsAssumption DEF HighKeywords
    <2> QED BY <1>1, <1>3, <2>1, FireStep DEF ProcessHigh, block
  <1>4. CASE ProcessMedium(block, begin)
    <2> DEFINE candidates == {k \in Keywords : Streaks(block)[k] >= MediumHits}
    <2>1. ASSUME NEW k \in candidates PROVE BestScore(block, k) > 0
      <3>1. Streaks(block)[k] # 0
        BY WakeWordsAssumption
      <3>2. BestScore(block, k) >= Medium
        BY <3>1 DEF Streaks
      <3> QED BY <1>1, <3>2, BestScoreBounds, WakeWordsAssumption
    <2>2. candidates \in SUBSET Keywords
      OBVIOUS
    <2>3. armed /\ candidates # {} /\ Fire(block, begin, candidates)
      BY <1>4 DEF ProcessMedium
    <2> HIDE DEF candidates
    <2> QED BY <1>1, <2>1, <2>2, <2>3, FireStep DEF block
  <1>5. CASE ProcessNothing(block, begin)
    BY <1>1, <1>5, NothingStep
  <1>6. CASE ProcessReleased(block, begin)
    BY <1>1, <1>6, ReleasedStep
  <1> QED BY <1>2, <1>3, <1>4, <1>5, <1>6

\* Where the frame of a trigger lies in the output.
LEMMA FrameIsReal ==
    ASSUME NEW probs \in Seq(OutputFrame), NEW begin \in Int, NEW end \in Int,
           NEW k \in Keywords, NEW f,
           BestScore(Checked(probs, begin, end), k) > 0,
           f = BestFrame(Checked(probs, begin, end), begin, k)
    PROVE  /\ f \in Max({0, begin})..(Min({end, Len(probs)}) - 1)
           /\ Score(probs[f + 1], k) = BestScore(Checked(probs, begin, end), k)
           /\ \A g \in Max({0, begin})..(f - 1) :
                  Score(probs[g + 1], k) < BestScore(Checked(probs, begin, end), k)
  <1> DEFINE block == Checked(probs, begin, end)
  <1>1. block \in Seq(OutputFrame)
    BY CheckedFrames
  <1>2. PICK b \in Nat : b = Max({0, begin})
    BY CheckedFrames
  <1>3. PICK e \in Int : e = Min({end, Len(probs)})
    BY MinOfTwo
  <1>4. \A i \in 1..Len(block) :
            b + i =< e /\ b + i \in 1..Len(probs) /\ block[i] = probs[b + i]
    BY <1>2, <1>3, CheckedFrames
  <1> HIDE DEF block
  <1>5. PICK i \in 1..Len(block) :
            /\ f = b - 1 + i
            /\ Score(block[i], k) = BestScore(block, k)
            /\ \A j \in 1..(i - 1) : Score(block[j], k) < BestScore(block, k)
    BY <1>1, <1>2, BestFrameBounds DEF block
  <1>6. f \in b..(e - 1) /\ f + 1 = b + i /\ Len(block) \in Nat
    <2>1. Len(block) \in Nat
      BY <1>1
    <2>2. i \in Nat /\ 1 =< i /\ i =< Len(block) /\ b + i =< e
      BY <1>4, <1>5, <2>1
    <2>3. b - 1 + i \in b..(e - 1) /\ (b - 1 + i) + 1 = b + i
      BY <2>2
    <2> QED BY <1>5, <2>1, <2>3, Zenon
  <1>7. Score(probs[f + 1], k) = BestScore(block, k)
    BY <1>4, <1>5, <1>6
  <1>8. ASSUME NEW g \in b..(f - 1)
        PROVE  Score(probs[g + 1], k) < BestScore(block, k)
    <2>1. PICK j \in 1..(i - 1) : b + j = g + 1 /\ j \in 1..Len(block)
      <3>1. i \in Nat /\ i =< Len(block) /\ Len(block) \in Nat
        BY <1>5, <1>6
      <3>2. f \in Int /\ f = b - 1 + i /\ g \in Int /\ b =< g /\ g =< f - 1
        BY <1>5, <1>6
      <3>3. g - b + 1 \in 1..(i - 1) /\ b + (g - b + 1) = g + 1
            /\ g - b + 1 \in 1..Len(block)
        BY <3>1, <3>2
      <3> QED BY <3>3
    <2> QED BY <1>4, <1>5, <2>1
  <1> QED BY <1>2, <1>3, <1>6, <1>7, <1>8, Zenon DEF block

\* Only a call that switches armed_ off triggers.
LEMMA TriggerSwitches ==
    ASSUME IInv, NEW probs \in Seq(OutputFrame), NEW begin \in Int, NEW end \in Int,
           Process(probs, begin, end), result'.triggered # 0
    PROVE  armed /\ armed' = FALSE /\ UNCHANGED quiet
  <1> DEFINE block == Checked(probs, begin, end)
  <1>1. CASE ProcessHigh(block, begin)
    BY <1>1 DEF ProcessHigh, Fire
  <1>2. CASE ProcessMedium(block, begin)
    BY <1>2 DEF ProcessMedium, Fire
  <1>3. block \in Seq(OutputFrame) /\ begin \in Int
    BY CheckedFrames
  <1>6. \/ ProcessHigh(block, begin) \/ ProcessMedium(block, begin)
        \/ ProcessNothing(block, begin) \/ ProcessReleased(block, begin)
    BY DEF Process
  <1> HIDE DEF block
  <1>4. CASE ProcessNothing(block, begin)
    BY <1>3, <1>4, NothingStep
  <1>5. CASE ProcessReleased(block, begin)
    BY <1>3, <1>5, ReleasedStep
  <1> QED BY <1>1, <1>2, <1>4, <1>5, <1>6

LEMMA TriggerInv ==
    ASSUME IInv, TriggerFrameIsReal, [Next]_vars
    PROVE  TriggerFrameIsReal'
  <1>1. CASE Next
    <2> SUFFICES ASSUME result'.triggered # 0 PROVE TriggerFrameIsReal'
      BY DEF TriggerFrameIsReal
    <2>1. PICK probs \in Outputs, range \in Ranges :
              Process(probs, range[1], range[2])
      BY <1>1 DEF Next
    <2>0. probs \in Seq(OutputFrame) /\ range[1] \in Int /\ range[2] \in Int
      BY CallType
    <2>2. cause' = [output |-> probs, begin |-> range[1], end |-> range[2],
                    block |-> Checked(probs, range[1], range[2])]
      <3>1. armed' # armed
        <4>1. armed /\ armed' = FALSE
          BY <2>0, <2>1, TriggerSwitches
        <4> QED BY <4>1
      <3> QED BY <2>1, <3>1 DEF Process
    <2>3. /\ cause'.output = probs
          /\ cause'.begin = range[1] /\ cause'.end = range[2]
      BY <2>2
    <2> DEFINE block == Checked(probs, range[1], range[2])
               k     == result'.triggered
               f     == result'.frames[k]
    <2>4. /\ k \in Keywords /\ BestScore(block, k) > 0
          /\ result'.scores[k] = BestScore(block, k)
          /\ f = BestFrame(block, range[1], k)
      BY <2>0, <2>1, TriggerStep, Zenon
    <2>5. /\ f \in Max({0, range[1]})..(Min({range[2], Len(probs)}) - 1)
          /\ Score(probs[f + 1], k) = BestScore(block, k)
          /\ \A g \in Max({0, range[1]})..(f - 1) :
                 Score(probs[g + 1], k) < BestScore(block, k)
      BY <2>0, <2>4, FrameIsReal, Zenon
    <2> QED BY <2>3, <2>4, <2>5, Zenon DEF TriggerFrameIsReal
  <1>2. CASE UNCHANGED vars
    BY <1>2 DEF TriggerFrameIsReal, vars
  <1> QED BY <1>1, <1>2

\* The frame the main program takes the wake word's time from is the first
\* checked frame with the score that is reported.
THEOREM TriggersAreReal == Spec => []TriggerFrameIsReal
  <1>1. Init => TriggerFrameIsReal
    BY DEF Init, EmptyResult, TriggerFrameIsReal
  <1>2. TriggerFrameIsReal /\ IInv /\ [Next]_vars => TriggerFrameIsReal'
    BY TriggerInv
  <1> QED BY <1>1, <1>2, Invariance, PTL DEF Spec

\* What the inference loop needs to know of a call: a trigger starts a quiet
\* time, in which every call either goes on or ends it with low frames.
LEMMA QuietStep ==
    ASSUME IInv, NEW probs \in Seq(OutputFrame), NEW begin \in Int, NEW end \in Int,
           Process(probs, begin, end)
    PROVE  LET frames == quiet \o Checked(probs, begin, end)
           IN  /\ IInv'
               /\ quiet' \in {<<>>, frames}
               /\ result'.triggered # 0 => quiet' = <<>>
               /\ result'.rearmed =>
                    /\ Len(frames) >= ReleaseLow
                    /\ \A i \in (Len(frames) - ReleaseLow + 1)..Len(frames) :
                           IsLow(frames[i])
  <1> DEFINE block  == Checked(probs, begin, end)
             frames == quiet \o block
             low    == LowRun(consecutive_release_low_frames, block)
  <1>1. block \in Seq(OutputFrame)
    BY CheckedFrames
  <1>2. \/ ProcessHigh(block, begin) \/ ProcessMedium(block, begin)
        \/ ProcessNothing(block, begin) \/ ProcessReleased(block, begin)
    BY DEF Process
  <1> HIDE DEF block
  <1>3. IInv'
    BY <1>1, <1>2, ProcessStep
  <1>4. quiet' \in {<<>>, frames}
    <2>1. CASE ProcessReleased(block, begin)
      BY <2>1 DEF ProcessReleased
    <2>2. CASE ~ProcessReleased(block, begin)
      <3>1. armed /\ UNCHANGED quiet
        BY <1>2, <2>2 DEF ProcessHigh, ProcessMedium, ProcessNothing, Fire
      <3> QED BY <3>1 DEF IInv
    <2> QED BY <2>1, <2>2
  <1>5. result'.triggered # 0 => quiet' = <<>>
    <2>1. result'.triggered # 0 => armed /\ UNCHANGED quiet
      BY TriggerSwitches
    <2> QED BY <2>1 DEF IInv
  <1>6. ASSUME result'.rearmed
        PROVE  /\ Len(frames) >= ReleaseLow
               /\ \A i \in (Len(frames) - ReleaseLow + 1)..Len(frames) :
                      IsLow(frames[i])
    <2>1. CASE ProcessReleased(block, begin)
      <3>1. low >= ReleaseLow
        BY <1>1, <1>6, <2>1, ReleasedStep
      <3>2. frames \in Seq(OutputFrame)
        BY <1>1, ConcatProperties DEF IInv
      <3>3. Run(frames, LowFrames, low)
        BY <1>1, LowRunRuns
      <3> HIDE DEF frames, low
      <3>4. /\ Len(frames) >= ReleaseLow
            /\ \A i \in (Len(frames) - ReleaseLow + 1)..Len(frames) :
                   frames[i] \in LowFrames
        BY <3>1, <3>2, <3>3, RunDecides, WakeWordsAssumption
      <3> QED BY <3>4 DEF LowFrames
    <2>2. CASE ~ProcessReleased(block, begin)
      <3>1. result'.rearmed = FALSE
        <4>1. CASE ProcessHigh(block, begin)
          <5>1. HighKeywords(block) \in SUBSET Keywords
            BY DEF HighKeywords
          <5> QED BY <1>1, <4>1, <5>1, FireStep DEF ProcessHigh
        <4>2. CASE ProcessMedium(block, begin)
          <5> DEFINE candidates == {k \in Keywords : Streaks(block)[k] >= MediumHits}
          <5>1. candidates \in SUBSET Keywords
            OBVIOUS
          <5>2. armed /\ candidates # {} /\ Fire(block, begin, candidates)
            BY <4>2 DEF ProcessMedium
          <5> HIDE DEF candidates
          <5> QED BY <1>1, <5>1, <5>2, FireStep
        <4>3. CASE ProcessNothing(block, begin)
          BY <1>1, <4>3, NothingStep
        <4> QED BY <1>2, <2>2, <4>1, <4>2, <4>3
      <3> QED BY <1>6, <3>1
    <2> QED BY <2>1, <2>2
  <1> QED BY <1>3, <1>4, <1>5, <1>6 DEF block

-----------------------------------------------------------------------------
(* What the code computes from its counters is what the policy reads from  *)
(* the history.                                                            *)

LEMMA PolicyReads ==
    /\ \A block, k, level :
           Policy!Reaches(block, k, level) <=>
               \E i \in 1..Len(block) : Score(block[i], k) >= level
    /\ \A frame : Policy!IsLow(frame) <=> IsLow(frame)
    /\ \A frame, k : Policy!Score(frame, k) = Score(frame, k)
    /\ Policy!Keywords = Keywords
  BY DEF Policy!Reaches, Policy!Score, Score, Policy!IsLow, IsLow,
         Policy!Keywords, Keywords

LEMMA PolicyHigh ==
    ASSUME NEW block \in Seq(OutputFrame)
    PROVE  Policy!HighIn(block) = HighKeywords(block)
  <1>1. \A k \in Keywords : Policy!Reaches(block, k, High)
                              <=> BestScore(block, k) >= High
    BY PolicyReads, BestReaches, WakeWordsAssumption
  <1> QED BY <1>1, PolicyReads, Zenon DEF Policy!HighIn, HighKeywords

LEMMA PolicyMedium ==
    ASSUME IInv, NEW block \in Seq(OutputFrame)
    PROVE  Policy!MediumInLast(Append(heard, block))
             = {k \in Keywords : Streaks(block)[k] >= MediumHits}
  <1> DEFINE blocks == Append(heard, block)
  <1>1. blocks \in Seq(Seq(OutputFrame))
    BY AppendProperties DEF IInv
  <1> HIDE DEF blocks
  <1>2. ASSUME NEW k \in Keywords
        PROVE  Streaks(block)[k] >= MediumHits <=>
                 /\ Len(blocks) >= MediumHits
                 /\ \A i \in (Len(blocks) - MediumHits + 1)..Len(blocks) :
                        Policy!Reaches(blocks[i], k, Medium)
    <2>1. Run(blocks, Hits(k), Streaks(block)[k])
      BY StreakRuns DEF blocks
    <2>2. MediumHits \in Nat \ {0} /\ Len(blocks) \in Nat
      BY <1>1, WakeWordsAssumption
    <2>3. Streaks(block)[k] >= MediumHits <=>
            /\ Len(blocks) >= MediumHits
            /\ \A i \in (Len(blocks) - MediumHits + 1)..Len(blocks) :
                   blocks[i] \in Hits(k)
      BY <1>1, <2>1, <2>2, RunDecides
    <2>4. \A i \in 1..Len(blocks) :
              blocks[i] \in Hits(k) <=> Policy!Reaches(blocks[i], k, Medium)
      BY <1>1, PolicyReads DEF Hits
    <2>5. CASE Len(blocks) >= MediumHits
      <3>1. \A i \in (Len(blocks) - MediumHits + 1)..Len(blocks) :
                i \in 1..Len(blocks)
        BY <2>2, <2>5
      <3> QED BY <2>3, <2>4, <2>5, <3>1, Zenon
    <2> QED BY <2>3, <2>5, Zenon
  <1> QED BY <1>2, PolicyReads, Zenon DEF Policy!MediumInLast, blocks

LEMMA PolicyLow ==
    ASSUME IInv, NEW block \in Seq(OutputFrame)
    PROVE  Policy!LastLow(quiet \o block) <=>
             LowRun(consecutive_release_low_frames, block) >= ReleaseLow
  <1> DEFINE frames == quiet \o block
             low    == LowRun(consecutive_release_low_frames, block)
  <1>1. frames \in Seq(OutputFrame)
    BY ConcatProperties DEF IInv
  <1>2. Run(frames, LowFrames, low)
    BY LowRunRuns
  <1> HIDE DEF frames, low
  <1>3. ReleaseLow \in Nat /\ Len(frames) \in Nat
    BY <1>1, WakeWordsAssumption
  <1>4. low >= ReleaseLow <=>
          /\ Len(frames) >= ReleaseLow
          /\ \A i \in (Len(frames) - ReleaseLow + 1)..Len(frames) :
                 frames[i] \in LowFrames
    BY <1>1, <1>2, <1>3, RunDecides
  <1>5. \A i \in 1..Len(frames) :
            frames[i] \in LowFrames <=> Policy!IsLow(frames[i])
    BY <1>1, PolicyReads DEF LowFrames
  <1>6. Len(frames) >= ReleaseLow =>
          \A i \in (Len(frames) - ReleaseLow + 1)..Len(frames) :
              i \in 1..Len(frames)
    BY <1>3
  <1> QED BY <1>4, <1>5, <1>6, Zenon DEF Policy!LastLow, frames, low

\* The strongest candidate by best score is one the policy may choose.
LEMMA PolicyStrongest ==
    ASSUME NEW block \in Seq(OutputFrame), NEW set \in SUBSET Keywords,
           NEW w \in Keywords, BestScore(block, w) > 0,
           \A j \in set : BestScore(block, j) =< BestScore(block, w)
    PROVE  Policy!Strongest(w, block, set)
  <1>1. PICK i \in 1..Len(block) : Score(block[i], w) = BestScore(block, w)
    BY BestScoreBounds
  <1>2. ASSUME NEW j \in set, NEW m \in 1..Len(block)
        PROVE  Score(block[i], w) >= Score(block[m], j)
    <2>1. /\ Score(block[m], j) =< BestScore(block, j)
          /\ BestScore(block, j) \in Int /\ BestScore(block, w) \in Int
      BY BestScoreBounds
    <2>2. Score(block[m], j) \in Int
      BY ScoreType
    <2> QED BY <1>1, <2>1, <2>2
  <1> QED BY <1>2, PolicyReads, Zenon DEF Policy!Strongest

\* The event a policy sees of a record.
Event(r) == IF r.rearmed THEN -1 ELSE r.triggered

LEMMA PolicyFires ==
    ASSUME IInv, armed, NEW block \in Seq(OutputFrame), NEW begin \in Int,
           NEW candidates \in SUBSET Keywords, candidates # {},
           \A k \in candidates : BestScore(block, k) > 0,
           candidates = Policy!Candidates(Append(heard, block)),
           Fire(block, begin, candidates),
           cause'.block = IF armed' = armed THEN <<>> ELSE block
    PROVE  Policy!Listen(block)
  <1> DEFINE k == result'.triggered
  <1>1. /\ k \in candidates
        /\ \A j \in candidates : BestScore(block, j) =< BestScore(block, k)
        /\ result'.rearmed = FALSE
    BY FireStep
  <1>2. Policy!Strongest(k, block, candidates)
    BY <1>1, PolicyStrongest
  <1>3. Event(result') = k
    BY <1>1 DEF Event
  <1>4. armed' = FALSE /\ heard' = <<>> /\ UNCHANGED quiet
        /\ cause'.block = block
    BY DEF Fire
  <1> HIDE DEF k
  <1> QED BY <1>1, <1>2, <1>3, <1>4, Zenon DEF Policy!Listen, Event

LEMMA PolicyCandidates ==
    ASSUME IInv, NEW block \in Seq(OutputFrame)
    PROVE  Policy!Candidates(Append(heard, block)) =
             IF HighKeywords(block) # {} THEN HighKeywords(block)
             ELSE {k \in Keywords : Streaks(block)[k] >= MediumHits}
  <1>1. Append(heard, block)[Len(Append(heard, block))] = block
    BY AppendProperties DEF IInv
  <1> QED BY <1>1, PolicyHigh, PolicyMedium, Zenon DEF Policy!Candidates

LEMMA PolicyStep ==
    ASSUME IInv, NEW block \in Seq(OutputFrame), NEW begin \in Int,
           \/ ProcessHigh(block, begin)
           \/ ProcessMedium(block, begin)
           \/ ProcessNothing(block, begin)
           \/ ProcessReleased(block, begin),
           cause'.block = IF armed' = armed THEN <<>> ELSE block
    PROVE  Policy!Listen(block) \/ Policy!Wait(block)
  <1>1. CASE ProcessHigh(block, begin)
    <2>1. HighKeywords(block) \in SUBSET Keywords
          /\ \A k \in HighKeywords(block) : BestScore(block, k) > 0
      BY BestScoreBounds, WakeWordsAssumption DEF HighKeywords
    <2>2. HighKeywords(block) = Policy!Candidates(Append(heard, block))
      BY <1>1, PolicyCandidates, Zenon DEF ProcessHigh
    <2> QED BY <1>1, <2>1, <2>2, PolicyFires, Zenon DEF ProcessHigh
  <1>2. CASE ProcessMedium(block, begin)
    <2> DEFINE candidates == {k \in Keywords : Streaks(block)[k] >= MediumHits}
    <2>1. ASSUME NEW k \in candidates PROVE BestScore(block, k) > 0
      <3>1. Streaks(block)[k] # 0
        BY WakeWordsAssumption
      <3>2. BestScore(block, k) >= Medium
        BY <3>1 DEF Streaks
      <3> QED BY <3>2, BestScoreBounds, WakeWordsAssumption
    <2>2. candidates \in SUBSET Keywords
      OBVIOUS
    <2>3. armed /\ candidates # {} /\ Fire(block, begin, candidates)
          /\ HighKeywords(block) = {}
      BY <1>2 DEF ProcessMedium
    <2>4. candidates = Policy!Candidates(Append(heard, block))
      BY <2>3, PolicyCandidates, Zenon
    <2> HIDE DEF candidates
    <2> QED BY <2>1, <2>2, <2>3, <2>4, PolicyFires, Zenon
  <1>3. CASE ProcessNothing(block, begin)
    <2>1. /\ armed /\ HighKeywords(block) = {} /\ UNCHANGED <<armed, quiet>>
          /\ \A k \in Keywords : Streaks(block)[k] < MediumHits
          /\ heard' = Append(heard, block)
      BY <1>3 DEF ProcessNothing
    <2>2. \A k \in Keywords : ~(Streaks(block)[k] >= MediumHits)
      BY <2>1, StreakRuns, WakeWordsAssumption
    <2>3. Policy!Candidates(Append(heard, block)) = {}
      BY <2>1, <2>2, PolicyCandidates, Zenon
    <2>4. result'.triggered = 0 /\ result'.rearmed = FALSE
      BY <1>3, NothingStep
    <2>5. cause'.block = <<>>
      BY <2>1
    <2> QED BY <2>1, <2>3, <2>4, <2>5 DEF Policy!Listen, Policy!None
  <1>4. CASE ProcessReleased(block, begin)
    <2> DEFINE low == LowRun(consecutive_release_low_frames, block)
    <2>1. result'.triggered = 0 /\ result'.rearmed = (low >= ReleaseLow)
      BY <1>4, ReleasedStep
    <2>2. Policy!LastLow(quiet \o block) <=> low >= ReleaseLow
      BY PolicyLow
    <2>3. ~armed /\ UNCHANGED heard
      BY <1>4 DEF ProcessReleased
    <2>7. /\ armed' = TRUE => cause'.block = block
          /\ UNCHANGED armed => cause'.block = <<>>
      BY <2>3
    <2>4. IF low >= ReleaseLow
            THEN armed' = TRUE /\ quiet' = <<>>
            ELSE quiet' = quiet \o block /\ UNCHANGED armed
      BY <1>4, Zenon DEF ProcessReleased
    <2> HIDE DEF low
    <2>5. CASE low >= ReleaseLow
      BY <2>1, <2>2, <2>3, <2>4, <2>5, <2>7 DEF Policy!Wait, Policy!Rearmed
    <2>6. CASE ~(low >= ReleaseLow)
      BY <2>1, <2>2, <2>3, <2>4, <2>6, <2>7 DEF Policy!Wait, Policy!None
    <2> QED BY <2>5, <2>6
  <1> QED BY <1>1, <1>2, <1>3, <1>4

\* Process implements the policy: what it fires on, how often, and when it
\* listens again.
THEOREM PolicyImplemented == Spec => ImplementsPolicy
  <1>1. Init => Policy!Init
    BY DEF Init, Policy!Init, EmptyResult, NoCause, Policy!None
  <1>2. IInv /\ [Next]_vars => [Policy!Next]_Policy!vars
    <2> SUFFICES ASSUME IInv, [Next]_vars PROVE [Policy!Next]_Policy!vars
      OBVIOUS
    <2>1. CASE Next
      <3>1. PICK probs \in Outputs, range \in Ranges :
                Process(probs, range[1], range[2])
        BY <2>1 DEF Next
      <3> DEFINE block == Checked(probs, range[1], range[2])
      <3>2. block \in Seq(OutputFrame) /\ range[1] \in Int
        BY CallType
      <3>6. cause'.block = IF armed' = armed THEN <<>> ELSE block
        BY <3>1 DEF Process, NoCause
      <3>3. Policy!Listen(block) \/ Policy!Wait(block)
        BY <3>1, <3>2, <3>6, PolicyStep DEF Process
      <3>4. block \in {Checked(p, r[1], r[2]) : p \in Outputs, r \in Ranges}
        OBVIOUS
      <3> HIDE DEF block
      <3>5. Policy!Next
        BY <3>3, <3>4 DEF Policy!Next
      <3> QED BY <3>5, Zenon
    <2>2. CASE UNCHANGED vars
      BY <2>2 DEF vars, Policy!vars
    <2> QED BY <2>1, <2>2
  <1> QED BY <1>1, <1>2, Invariance, PTL
       DEF Spec, ImplementsPolicy, Policy!Spec

-----------------------------------------------------------------------------
(* What the model states by their results are the loops of Process: here   *)
(* are their variables after each turn.                                    *)

\* A set with 0 and with every successor of its members, up to n.
LEMMA Induction ==
    ASSUME NEW n \in Nat, NEW S, 0 \in S, \A i \in 1..n : i - 1 \in S => i \in S
    PROVE  0..n \subseteq S
  <1> DEFINE T == {i \in 0..n : i \notin S}
  <1> SUFFICES ASSUME T # {} PROVE FALSE
    OBVIOUS
  <1>1. PICK i \in T : \A j \in T : i =< j
    <2>1. T \in SUBSET Nat
      OBVIOUS
    <2> HIDE DEF T
    <2> QED BY <2>1, LeastNatural
  <1>2. i # 0 /\ i \in 1..n
    BY <1>1
  <1>3. i - 1 \in 0..n /\ i - 1 \notin T
    BY <1>1, <1>2
  <1> QED BY <1>1, <1>2, <1>3

LEMMA MaxIs ==
    ASSUME NEW S \in SUBSET Int, NEW m \in S, \A x \in S : x =< m
    PROVE  Max(S) = m
  BY \A x \in S : (\A y \in S : x >= y) => x = m DEF Max

LEMMA MinIs ==
    ASSUME NEW S \in SUBSET Int, NEW m \in S, \A x \in S : m =< x
    PROVE  Min(S) = m
  BY \A x \in S : (\A y \in S : x =< y) => x = m DEF Min

\* One frame after the other: a low one adds one, any other resets.
LowLoop(before, block, run) ==
    /\ run[0] = before
    /\ \A i \in 1..Len(block) : run[i] = IF IsLow(block[i]) THEN run[i - 1] + 1 ELSE 0

\* The release counter after the loop over the frames is LowRun, for every
\* block and any count before it.
THEOREM LowRunIsLoop ==
    ASSUME NEW block \in Seq(OutputFrame), NEW before \in Nat,
           NEW run, LowLoop(before, block, run)
    PROVE  run[Len(block)] = LowRun(before, block)
  <1> DEFINE n == Len(block)
             loud(m) == {i \in 1..m : ~IsLow(block[i])}
             S == {m \in 0..n : run[m] = IF loud(m) = {} THEN before + m ELSE m - Max(loud(m))}
  <1>1. 0 \in S
    <2>1. loud(0) = {}
      OBVIOUS
    <2> QED BY <2>1 DEF LowLoop
  <1>2. ASSUME NEW i \in 1..n, i - 1 \in S PROVE i \in S
    <2>1. run[i] = IF IsLow(block[i]) THEN run[i - 1] + 1 ELSE 0
      BY DEF LowLoop
    <2>2. CASE IsLow(block[i])
      <3>1. loud(i) = loud(i - 1)
        BY <2>2
      <3>2. loud(i) # {} => Max(loud(i)) \in 1..n
        <4>1. loud(i) \in SUBSET Int /\ \A x \in loud(i) : x =< n /\ x \in 1..n
          OBVIOUS
        <4> HIDE DEF loud
        <4> QED BY <4>1, MaxExists, n \in Int
      <3>3. run[i - 1] = IF loud(i) = {} THEN before + (i - 1) ELSE (i - 1) - Max(loud(i))
        BY <1>2, <3>1
      <3> HIDE DEF loud
      <3>4. run[i] = IF loud(i) = {} THEN before + i ELSE i - Max(loud(i))
        BY <2>1, <2>2, <3>2, <3>3
      <3> QED BY <3>4
    <2>3. CASE ~IsLow(block[i])
      <3>1. i \in loud(i) /\ loud(i) \in SUBSET Int /\ \A x \in loud(i) : x =< i
        BY <2>3
      <3>2. Max(loud(i)) = i
        <4> HIDE DEF loud
        <4> QED BY <3>1, MaxIs
      <3> QED BY <2>1, <2>3, <3>1, <3>2
    <2> QED BY <2>2, <2>3
  <1>3. n \in S
    <2> HIDE DEF S
    <2>1. 0..n \subseteq S
      BY <1>1, <1>2, n \in Nat, Induction
    <2> QED BY <2>1
  <1> QED BY <1>3 DEF LowRun

\* A keyword's score and frame: a frame is taken if its score is greater.
BestLoop(block, begin, k, scores, frames) ==
    /\ scores[0] = 0 /\ frames[0] = -1
    /\ \A i \in 1..Len(block) :
           IF Score(block[i], k) > scores[i - 1]
             THEN /\ scores[i] = Score(block[i], k)
                  /\ frames[i] = Max({0, begin}) + (i - 1)
             ELSE scores[i] = scores[i - 1] /\ frames[i] = frames[i - 1]

\* The loop over the checked frames leaves the best score and the first frame
\* that has it, for every block, wherever it begins.
THEOREM BestIsLoop ==
    ASSUME NEW block \in Seq(OutputFrame), NEW k \in Keywords, NEW begin \in Int,
           NEW scores, NEW frames, BestLoop(block, begin, k, scores, frames)
    PROVE  /\ scores[Len(block)] = BestScore(block, k)
           /\ frames[Len(block)] = BestFrame(block, begin, k)
  <1> DEFINE n == Len(block)
             first == Max({0, begin})
             Leads(m, j) == /\ j \in 1..m /\ Score(block[j], k) = scores[m]
                            /\ frames[m] = first + (j - 1)
                            /\ \A i \in 1..(j - 1) : Score(block[i], k) < scores[m]
             S == {m \in 0..n : /\ scores[m] \in Nat
                                /\ \A i \in 1..m : Score(block[i], k) =< scores[m]
                                /\ scores[m] = 0 => frames[m] = -1
                                /\ scores[m] > 0 => \E j \in 1..m : Leads(m, j)}
  <1>1. \A i \in 1..n : Score(block[i], k) \in Int
    BY ScoreType, WakeWordsAssumption
  <1>2. first \in Int
    BY MaxOfTwo
  <1> HIDE DEF first
  <1>3. 0 \in S
    BY DEF BestLoop
  <1>4. ASSUME NEW m \in 1..n, m - 1 \in S PROVE m \in S
    <2>1. IF Score(block[m], k) > scores[m - 1]
            THEN scores[m] = Score(block[m], k) /\ frames[m] = first + (m - 1)
            ELSE scores[m] = scores[m - 1] /\ frames[m] = frames[m - 1]
      BY DEF BestLoop, first
    <2>2. CASE Score(block[m], k) > scores[m - 1]
      <3>1. Leads(m, m) /\ scores[m] > 0
        BY <1>1, <1>4, <2>1, <2>2
      <3> QED BY <1>1, <1>4, <2>1, <2>2, <3>1
    <2>3. CASE ~(Score(block[m], k) > scores[m - 1])
      <3>1. scores[m] > 0 => \E j \in 1..m : Leads(m, j)
        BY <1>1, <1>4, <2>1, <2>3
      <3> QED BY <1>1, <1>4, <2>1, <2>3, <3>1
    <2> QED BY <2>2, <2>3
  <1>5. n \in S
    <2> HIDE DEF S
    <2>1. 0..n \subseteq S
      BY <1>3, <1>4, n \in Nat, Induction
    <2> QED BY <2>1
  <1>6. scores[n] = BestScore(block, k)
    <2> DEFINE T == {0} \cup {Score(block[i], k) : i \in 1..n}
    <2>1. T \in SUBSET Int /\ scores[n] \in T /\ \A x \in T : x =< scores[n]
      BY <1>1, <1>5
    <2>2. BestScore(block, k) = Max(T)
      BY DEF BestScore
    <2> HIDE DEF T
    <2> QED BY <2>1, <2>2, MaxIs
  <1>7. frames[n] = BestFrame(block, begin, k)
    <2>1. CASE scores[n] = 0
      BY <1>5, <1>6, <2>1 DEF BestFrame
    <2>2. CASE scores[n] # 0
      <3>1. PICK j \in 1..n : Leads(n, j)
        BY <1>5, <2>2
      <3> DEFINE T == {i \in 1..n : Score(block[i], k) = BestScore(block, k)}
      <3>2. T \in SUBSET Int /\ j \in T /\ \A i \in T : j =< i
        BY <1>1, <1>6, <3>1
      <3>3. BestFrame(block, begin, k) = first - 1 + Min(T)
        BY <1>6, <2>2 DEF BestFrame, first
      <3> HIDE DEF T
      <3>4. Min(T) = j
        BY <3>2, MinIs
      <3> QED BY <1>2, <3>1, <3>3, <3>4
    <2> QED BY <2>1, <2>2
  <1> QED BY <1>6, <1>7

\* The two loops that choose the keyword: a candidate that beats the score of
\* the one chosen before it.
ChoiceLoop(set, scores, chosen, top) ==
    /\ chosen[0] = 0 /\ top[0] = 0
    /\ \A k \in 1..NumWakeWords :
           IF k \in set /\ scores[k] > top[k - 1]
             THEN chosen[k] = k /\ top[k] = scores[k]
             ELSE chosen[k] = chosen[k - 1] /\ top[k] = top[k - 1]

\* The choice among any candidates with scores above 0, which the thresholds
\* are, is the first of the strongest.
THEOREM WinnerIsLoop ==
    ASSUME NEW set \in SUBSET Keywords, set # {}, NEW scores \in [Keywords -> 0..Top],
           \A k \in set : scores[k] > 0,
           NEW chosen, NEW top, ChoiceLoop(set, scores, chosen, top)
    PROVE  chosen[NumWakeWords] = Winner(set, scores)
  <1> USE WakeWordsAssumption
  <1> DEFINE n == NumWakeWords
             Leads(m, w) == /\ w \in set /\ w \in 1..m /\ scores[w] = top[m] /\ chosen[m] = w
                            /\ \A k \in set : k < w => scores[k] < top[m]
             S == {m \in 0..n : /\ top[m] \in Nat
                                /\ \A k \in set : k =< m => scores[k] =< top[m]
                                /\ top[m] > 0 => \E w \in set : Leads(m, w)}
  <1>1. n \in Nat /\ \A k \in 1..n : scores[k] \in Nat
    BY DEF Keywords
  <1>2. 0 \in S
    BY DEF ChoiceLoop, Keywords
  <1>3. ASSUME NEW m \in 1..n, m - 1 \in S PROVE m \in S
    <2>1. IF m \in set /\ scores[m] > top[m - 1]
            THEN chosen[m] = m /\ top[m] = scores[m]
            ELSE chosen[m] = chosen[m - 1] /\ top[m] = top[m - 1]
      BY DEF ChoiceLoop
    <2>2. \A k \in set : k \in 1..n
      BY DEF Keywords
    <2>3. CASE m \in set /\ scores[m] > top[m - 1]
      <3>1. Leads(m, m) /\ top[m] > 0
        BY <1>1, <1>3, <2>1, <2>2, <2>3
      <3> QED BY <1>1, <1>3, <2>1, <2>2, <2>3, <3>1
    <2>4. CASE ~(m \in set /\ scores[m] > top[m - 1])
      <3>1. top[m] > 0 => \E w \in set : Leads(m, w)
        BY <1>1, <1>3, <2>1, <2>2, <2>4
      <3> QED BY <1>1, <1>3, <2>1, <2>2, <2>4, <3>1
    <2> QED BY <2>3, <2>4
  <1>4. n \in S
    <2> HIDE DEF S
    <2>1. 0..n \subseteq S
      BY <1>1, <1>2, <1>3, Induction
    <2> QED BY <1>1, <2>1
  <1>5. \A k \in set : k \in 1..n /\ scores[k] \in Nat
    BY <1>1 DEF Keywords
  <1>6. PICK w \in set : Leads(n, w)
    BY <1>4, <1>5
  <1>7. Max({scores[j] : j \in set}) = top[n]
    <2> DEFINE T == {scores[j] : j \in set}
    <2>1. T \in SUBSET Int /\ top[n] \in T /\ \A x \in T : x =< top[n]
      BY <1>4, <1>5, <1>6
    <2>2. Max(T) = top[n]
      <3> HIDE DEF T
      <3> QED BY <2>1, MaxIs
    <2> QED BY <2>2
  <1> DEFINE best == {k \in set : scores[k] = top[n]}
  <1>8. best \in SUBSET Int /\ w \in best /\ \A x \in best : w =< x
    <2>1. best \in SUBSET Int /\ w \in best
      <3>1. \A k \in best : k \in set /\ k \in 1..n
        BY <1>5
      <3>2. scores[w] = top[n]
        BY <1>6
      <3> QED BY <3>1, <3>2, <1>1
    <2>2. ASSUME NEW x \in best PROVE w =< x
      <3>1. x \in 1..n /\ w \in 1..n /\ x \in set /\ scores[x] = top[n] /\ scores[x] \in Nat
        BY <1>5, <1>6
      <3>2. ~(x < w)
        BY <1>6, <3>1
      <3> QED BY <3>1, <3>2
    <2> QED BY <2>1, <2>2
  <1>9. Winner(set, scores) = Min(best)
    BY <1>7 DEF Winner
  <1> HIDE DEF best
  <1>10. Min(best) = w
    BY <1>8, MinIs
  <1> QED BY <1>6, <1>9, <1>10
=============================================================================
