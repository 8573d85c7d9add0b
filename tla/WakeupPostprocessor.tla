------------------------ MODULE WakeupPostprocessor ------------------------
(***************************************************************************)
(* WakeupPostprocessor::Process: scores of the new frames, counters of     *)
(* medium blocks and of low frames, and the armed flag.  One call is one   *)
(* step: the object belongs to the inference thread.                       *)
(***************************************************************************)
EXTENDS WakeWords

CONSTANTS
    Outputs,      \* model outputs that Process may be given
    Ranges        \* values of <<begin_frame, end_frame>>

ASSUME CallsAssumption == /\ Outputs \subseteq Seq(OutputFrame)
                          /\ Ranges \subseteq (Int \X Int)

VARIABLES
    armed,                           \* armed_
    medium_hit_streak,               \* medium_hit_streak_
    consecutive_release_low_frames,  \* consecutive_release_low_frames_
    result,                          \* the WakeupResult of the last call
    heard, quiet,                    \* history: see WakeupPolicy
    cause                            \* history: the last call, if it switched armed_

counters == <<medium_hit_streak, consecutive_release_low_frames>>
vars     == <<armed, counters, result, heard, quiet, cause>>

\* WakeupResult: keyword 0 stands for the -1 of triggered_keyword.
EmptyResult ==
    [scores |-> [k \in Keywords |-> 0], frames |-> [k \in Keywords |-> -1],
     triggered |-> 0, rearmed |-> FALSE]

NoCause == [output |-> <<>>, begin |-> 0, end |-> 0, block |-> <<>>]

Init ==
    /\ armed = TRUE
    /\ medium_hit_streak = [k \in Keywords |-> 0]
    /\ consecutive_release_low_frames = 0
    /\ result = EmptyResult
    /\ heard = <<>> /\ quiet = <<>>
    /\ cause = NoCause

-----------------------------------------------------------------------------
\* The frames Process looks at: begin_frame and end_frame are clamped.
Checked(probs, begin, end) ==
    SubSeq(probs, Max({0, begin}) + 1, Min({end, Len(probs)}))

\* The best score of keyword k; a score must exceed 0 to be recorded.
BestScore(block, k) ==
    Max({0} \cup {Score(block[i], k) : i \in 1..Len(block)})

\* mutant: >= keeps the last of equal scores
LastBestFrame(block, begin, k) ==
    IF BestScore(block, k) = 0 THEN -1
    ELSE Max({0, begin}) - 1
         + Max({i \in 1..Len(block) : Score(block[i], k) = BestScore(block, k)})

\* The frame it came from: strictly greater, so the first of equals.
BestFrame(block, begin, k) ==
    IF BestScore(block, k) = 0 THEN -1
    ELSE Max({0, begin}) - 1
         + Min({i \in 1..Len(block) : Score(block[i], k) = BestScore(block, k)})

Measured(block, begin) ==
    [scores |-> [k \in Keywords |-> BestScore(block, k)],
     frames |-> [k \in Keywords |-> BestFrame(block, begin, k)],
     triggered |-> 0, rearmed |-> FALSE]

\* The first of the keywords in set with the greatest score.
Winner(set, scores) ==
    Min({k \in set : scores[k] = Max({scores[j] : j \in set})})

\* mutant: a loud frame does not start the count again
LowTotal(before, block) ==
    before + Len(SelectSeq(block, IsLow))

\* The loop over the frames: each low frame adds one, any other resets.
LowRun(before, block) ==
    LET loud == {i \in 1..Len(block) : ~IsLow(block[i])}
    IN  IF loud = {} THEN before + Len(block) ELSE Len(block) - Max(loud)

\* mutant: a missed block does not break the streak
StreaksKept(block) ==
    [k \in Keywords |->
        IF BestScore(block, k) >= Medium THEN medium_hit_streak[k] + 1
                                         ELSE medium_hit_streak[k]]

\* medium_hit_streak_ after a block without a high score.
Streaks(block) ==
    [k \in Keywords |->
        IF BestScore(block, k) >= Medium THEN medium_hit_streak[k] + 1 ELSE 0]

HighKeywords(block) == {k \in Keywords : BestScore(block, k) >= High}

\* mutant: the low frames of the last time are counted again
ClearStreaks ==
    /\ medium_hit_streak' = [k \in Keywords |-> 0]
    /\ UNCHANGED consecutive_release_low_frames

\* mutant: the streaks survive a trigger
ClearLowCount ==
    /\ consecutive_release_low_frames' = 0
    /\ UNCHANGED medium_hit_streak

\* Every path that switches armed_ clears both counters.
ClearCounters ==
    /\ medium_hit_streak' = [k \in Keywords |-> 0]
    /\ consecutive_release_low_frames' = 0

Fire(block, begin, candidates) ==
    LET measured == Measured(block, begin)
    IN  /\ result' = [measured EXCEPT
                         !.triggered = Winner(candidates, measured.scores)]
        /\ armed' = FALSE
        /\ ClearCounters
        /\ heard' = <<>>
        /\ UNCHANGED quiet

-----------------------------------------------------------------------------
\* Armed, and some keyword reaches the high threshold.
ProcessHigh(block, begin) ==
    /\ armed
    /\ HighKeywords(block) # {}
    /\ Fire(block, begin, HighKeywords(block))

\* Armed, and some keyword completes its streak of medium blocks.
ProcessMedium(block, begin) ==
    LET candidates == {k \in Keywords : Streaks(block)[k] >= MediumHits}
    IN  /\ armed
        /\ HighKeywords(block) = {}
        /\ candidates # {}
        /\ Fire(block, begin, candidates)

ProcessNothing(block, begin) ==
    /\ armed
    /\ HighKeywords(block) = {}
    /\ \A k \in Keywords : Streaks(block)[k] < MediumHits
    /\ result' = Measured(block, begin)
    /\ medium_hit_streak' = Streaks(block)
    /\ heard' = Append(heard, block)
    /\ UNCHANGED <<armed, consecutive_release_low_frames, quiet>>

\* Not armed: only the release counter is looked at.
ProcessReleased(block, begin) ==
    LET low == LowRun(consecutive_release_low_frames, block)
    IN  /\ ~armed
        /\ IF low >= ReleaseLow
             THEN /\ armed' = TRUE
                  /\ ClearCounters
                  /\ quiet' = <<>>
                  /\ result' = [Measured(block, begin) EXCEPT !.rearmed = TRUE]
             ELSE /\ consecutive_release_low_frames' = low
                  /\ quiet' = quiet \o block
                  /\ result' = Measured(block, begin)
                  /\ UNCHANGED <<armed, medium_hit_streak>>
        /\ UNCHANGED heard

Process(probs, begin, end) ==
    LET block == Checked(probs, begin, end)
    IN  /\ \/ ProcessHigh(block, begin)
           \/ ProcessMedium(block, begin)
           \/ ProcessNothing(block, begin)
           \/ ProcessReleased(block, begin)
        /\ cause' = IF armed' = armed THEN NoCause
                    ELSE [output |-> probs, begin |-> begin, end |-> end,
                          block |-> block]

Next == \E probs \in Outputs : \E range \in Ranges :
            Process(probs, range[1], range[2])

Spec == Init /\ [][Next]_vars

-----------------------------------------------------------------------------
TypeOK ==
    /\ armed \in BOOLEAN
    /\ medium_hit_streak \in [Keywords -> 0..(MediumHits - 1)]
    /\ consecutive_release_low_frames \in Nat
    /\ result.triggered \in {0} \cup Keywords
    /\ result.rearmed \in BOOLEAN
    /\ result.scores \in [Keywords -> 0..Top]
    /\ result.frames \in [Keywords -> Int]

\* medium_hit_streak_ counts, for each keyword, the blocks without a gap up to
\* the last one in which it was medium, all of them since the last re-arming.
StreaksAreRuns ==
    armed => \A k \in Keywords :
        LET n == medium_hit_streak[k]
            Hit(b) == \E i \in 1..Len(b) : Score(b[i], k) >= Medium
        IN  /\ n <= Len(heard)
            /\ \A i \in (Len(heard) - n + 1)..Len(heard) : Hit(heard[i])
            /\ n < Len(heard) => ~Hit(heard[Len(heard) - n])

\* consecutive_release_low_frames_ counts the low frames up to the last one
\* heard since the trigger, across blocks, and never reaches its limit.
LowCountIsRun ==
    LET n == consecutive_release_low_frames
    IN  IF armed THEN n = 0
        ELSE /\ n <= Len(quiet)
             /\ \A i \in (Len(quiet) - n + 1)..Len(quiet) : IsLow(quiet[i])
             /\ n < Len(quiet) => ~IsLow(quiet[Len(quiet) - n])
             /\ ReleaseLow > 0 => n < ReleaseLow

\* The frame reported for a trigger is inside the checked range, carries the
\* score reported, and is the first of the block that does: the main program
\* computes the time of the wake word from it.
TriggerFrameIsReal ==
    result.triggered # 0 =>
        LET k == result.triggered
            f == result.frames[k]
            p == cause.output
        IN  /\ f \in Max({0, cause.begin})..(Min({cause.end, Len(p)}) - 1)
            /\ Score(p[f + 1], k) = result.scores[k]
            /\ \A g \in Max({0, cause.begin})..(f - 1) :
                   Score(p[g + 1], k) < result.scores[k]

\* The counters implement the policy that is stated on the history.
Policy == INSTANCE WakeupPolicy WITH
    Blocks <- {Checked(p, r[1], r[2]) : p \in Outputs, r \in Ranges},
    event  <- IF result.rearmed THEN -1 ELSE result.triggered,
    block  <- cause.block

ImplementsPolicy == Policy!Spec
=============================================================================
