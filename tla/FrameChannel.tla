---------------------------- MODULE FrameChannel ----------------------------
(***************************************************************************)
(* What FeaturePipeline promises its two users.  A capture thread feeds    *)
(* samples and closes the input; an inference thread reads.  Whatever the  *)
(* chunks, the reader gets the frames of the one uninterrupted stream,     *)
(* each once and in order; a read fails only when the input is closed and  *)
(* every whole frame of it was read; and once the input is closed every    *)
(* read returns.  (The promise is no stronger: an open pipeline may let    *)
(* a reader wait although a frame is queued; see FeaturePipeline.)         *)
(***************************************************************************)
EXTENDS Framing

CONSTANTS ChunkSizes,  \* samples one AcceptWaveform call may carry
          ReadSizes    \* frames one Read call may ask for, as a size_t

VARIABLES
    sampled,    \* samples accepted so far
    published,  \* frames made available so far
    consumed,   \* frames handed to the reader so far
    closed,     \* set_input_finished() was called
    asked,      \* frames the current or last Read asked for
    out,        \* frames that Read has collected
    result      \* "pending" during a Read, else what the last one returned

vars == <<sampled, published, consumed, closed, asked, out, result>>

Init ==
    /\ sampled = 0 /\ published = 0 /\ consumed = 0
    /\ closed = FALSE
    /\ asked = 0
    /\ out = <<>>
    /\ result = "true"

Feed(k) ==
    /\ ~closed
    /\ sampled' = sampled + k
    /\ UNCHANGED <<published, consumed, closed, asked, out, result>>

\* A frame can be read once all its samples have arrived.
Publish ==
    /\ published < NumFrames(sampled)
    /\ published' = published + 1
    /\ UNCHANGED <<sampled, consumed, closed, asked, out, result>>

\* Closing comes after the last whole frame was published.
Close ==
    /\ ~closed
    /\ published = NumFrames(sampled)
    /\ closed' = TRUE
    /\ UNCHANGED <<sampled, published, consumed, asked, out, result>>

Ask(n) ==
    /\ result # "pending"
    /\ asked' = n
    /\ out' = <<>>
    /\ result' = IF n = 0 THEN "true" ELSE "pending"
    /\ UNCHANGED <<sampled, published, consumed, closed>>

Take ==
    /\ result = "pending"
    /\ consumed < published
    /\ consumed' = consumed + 1
    /\ out' = Append(out, FrameAt(consumed + 1))
    /\ result' = IF Len(out') = asked THEN "true" ELSE "pending"
    /\ UNCHANGED <<sampled, published, closed, asked>>

GiveUp ==
    /\ result = "pending"
    /\ closed
    /\ consumed = published
    /\ result' = "false"
    /\ UNCHANGED <<sampled, published, consumed, closed, asked, out>>

\* Between two utterances, with no call in progress.
Restart ==
    /\ result # "pending"
    /\ published = NumFrames(sampled)
    /\ sampled' = 0 /\ published' = 0 /\ consumed' = 0
    /\ closed' = FALSE
    /\ UNCHANGED <<asked, out, result>>

Next ==
    \/ \E k \in ChunkSizes : Feed(k)
    \/ Publish
    \/ Close
    \/ \E n \in ReadSizes : Ask(n)
    \/ Take
    \/ GiveUp
    \/ Restart

\* Only a closed channel owes its reader an answer.
Fairness == WF_vars(closed /\ (Take \/ GiveUp))

Spec == Init /\ [][Next]_vars /\ Fairness
=============================================================================
