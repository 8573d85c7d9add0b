---------------------------- MODULE WakeupPolicy ----------------------------
(***************************************************************************)
(* What the postprocessor promises: "debounced wake-up events".  While     *)
(* armed it listens block by block, and fires for a wake word that is high *)
(* in this block or medium in each of the last MediumHits blocks; then it  *)
(* is silent until the last ReleaseLow frames heard since were all low.    *)
(* The policy is stated on what was heard since it last switched, without  *)
(* any counter.                                                            *)
(***************************************************************************)
EXTENDS WakeWords

CONSTANT Blocks  \* the blocks of output frames that may be heard

VARIABLES armed,   \* listening for a wake word
          heard,   \* while armed: the blocks since it was armed
          quiet,   \* while not: the frames since it fired
          event,   \* what the last block caused: a wake word, or:
          block    \* the block that caused a wake word or a re-arming

None    == 0
Rearmed == -1

vars == <<armed, heard, quiet, event, block>>

Init == /\ armed = TRUE /\ heard = <<>> /\ quiet = <<>>
        /\ event = None /\ block = <<>>

Reaches(b, k, level) == \E i \in 1..Len(b) : Score(b[i], k) >= level

HighIn(b) == {k \in Keywords : Reaches(b, k, High)}

\* Medium in each of the last MediumHits blocks of a history.
MediumInLast(blocks) ==
    {k \in Keywords :
        /\ Len(blocks) >= MediumHits
        /\ \A i \in (Len(blocks) - MediumHits + 1)..Len(blocks) :
               Reaches(blocks[i], k, Medium)}

Candidates(blocks) ==
    LET high == HighIn(blocks[Len(blocks)])
    IN  IF high # {} THEN high ELSE MediumInLast(blocks)

\* k scores in block b at least what any other candidate does.
Strongest(k, b, candidates) ==
    \A j \in candidates : \A i \in 1..Len(b) : Reaches(b, k, Score(b[i], j))

\* An armed policy fires exactly when there is a candidate.
Listen(b) ==
    /\ armed
    /\ LET blocks == Append(heard, b)
       IN  \/ /\ Candidates(blocks) = {}
              /\ heard' = blocks
              /\ event' = None /\ block' = <<>>
              /\ UNCHANGED armed
           \/ \E k \in Candidates(blocks) :
              /\ Strongest(k, b, Candidates(blocks))
              /\ event' = k /\ block' = b
              /\ armed' = FALSE
              /\ heard' = <<>>
    /\ UNCHANGED quiet

LastLow(frames) ==
    /\ Len(frames) >= ReleaseLow
    /\ \A i \in (Len(frames) - ReleaseLow + 1)..Len(frames) : IsLow(frames[i])

\* A silent policy fires nothing, whatever it hears; it is armed again exactly
\* when the frames heard last were low.
Wait(b) ==
    /\ ~armed
    /\ LET frames == quiet \o b
       IN  IF LastLow(frames)
             THEN /\ armed' = TRUE /\ quiet' = <<>>
                  /\ event' = Rearmed /\ block' = b
             ELSE /\ quiet' = frames /\ event' = None /\ block' = <<>>
                  /\ UNCHANGED armed
    /\ UNCHANGED heard

Next == \E b \in Blocks : Listen(b) \/ Wait(b)

Spec == Init /\ [][Next]_vars
=============================================================================
