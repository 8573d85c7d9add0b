--------------------------- MODULE StreamKwsProofs ---------------------------
(***************************************************************************)
(* What the streaming program owes its user when it ends, and what its two *)
(* threads owe the pipeline between them; and what the notifier promises   *)
(* by itself.  Every step of the program is a step of the recorder and one *)
(* of the notifier, or leaves the one or the other alone, and so keeps     *)
(* what is proved of each of them.                                         *)
(***************************************************************************)
EXTENDS StreamKws, TLAPS

-----------------------------------------------------------------------------
(* The recorder: no sample is lost between the source and the callback,    *)
(* and the source is not closed under the capture thread.                  *)

LEMMA MinOfTwo ==
    ASSUME NEW a \in Int, NEW b \in Int
    PROVE  Recorder!Min({a, b}) = IF a =< b THEN a ELSE b
  <1> DEFINE m == IF a =< b THEN a ELSE b
  <1>1. m \in {a, b} /\ \A y \in {a, b} : m =< y
    OBVIOUS
  <1>2. \A x \in {a, b} : (\A y \in {a, b} : x =< y) => x = m
    OBVIOUS
  <1> QED BY <1>1, <1>2 DEF Recorder!Min

\* The thread runs only between Start() and Join(), on an open source.
ThreadOwned ==
    /\ owner \in {"new", "unopened", "opened"} => capture = "none"
    /\ owner \in {"joined", "closed"} => capture \in {"none", "done"}
    /\ owner \in {"opened", "started"} => resource = "stream"

\* What the counts are at each place in the loop.
Counted ==
    /\ capture = "fread" => samples_read < chunk_samples
    /\ capture = "pa_read" => samples_read = 0
    /\ OnMac => /\ capture \notin {"fill", "fread", "ended"}
                /\ capture \in {"fail", "raise"} => samples_read = 0
    /\ capture = "pa_read" => OnMac
    /\ capture = "none" => delivered = 0
    /\ captured_samples + (IF capture = "count" THEN samples_read ELSE 0) = delivered

\* The thread ends only when it was told to, or has told the others; and it
\* delivers an empty chunk only then.
EndsOnFlag ==
    /\ capture \in {"finish", "done"} => exiting
    /\ capture = "deliver" /\ samples_read = 0 => exiting
    /\ capture = "raise" => failed
    /\ failed => capture = "raise" \/ exiting
    /\ finished <=> capture = "done"

RecorderInv == Recorder!TypeOK /\ ThreadOwned /\ Counted /\ EndsOnFlag /\ NoSampleLost

LEMMA RecorderInit == Recorder!Init => RecorderInv
  <1> SUFFICES ASSUME Recorder!Init PROVE RecorderInv
    OBVIOUS
  <1> USE DEF Recorder!Init
  <1>1. Recorder!TypeOK
    <2>1. /\ buffered \in 0..Buffered /\ recorded \in 0..MaxSamples
          /\ samples_read \in 0..chunk_samples
          /\ captured_samples \in Nat /\ delivered \in Nat /\ capture_overruns \in Nat
      BY RecorderAssumption
    <2> QED BY <2>1, Zenon DEF Recorder!TypeOK
  <1>2. ThreadOwned /\ EndsOnFlag
    BY DEF ThreadOwned, EndsOnFlag
  <1>3. Counted
    BY DEF Counted
  <1>4. NoSampleLost
    BY DEF NoSampleLost, Pending
  <1> QED BY <1>1, <1>2, <1>3, <1>4 DEF RecorderInv

-----------------------------------------------------------------------------
(* The source and the owner.                                               *)

LEMMA SourceInv ==
    ASSUME RecorderInv, Recorder!Record \/ Recorder!SourceStops
    PROVE  RecorderInv'
  <1> USE DEF RecorderInv, ThreadOwned, Counted, EndsOnFlag,
              Recorder!thread, Recorder!counts
  <1>1. CASE Recorder!Record
    <2>1. recorded' \in 0..MaxSamples /\ buffered' \in 0..Buffered
      BY <1>1, RecorderAssumption DEF Recorder!Record, Recorder!TypeOK
    <2> QED BY <1>1, <2>1, RecorderAssumption
            DEF Recorder!Record, Recorder!TypeOK, NoSampleLost, Pending
  <1>2. CASE Recorder!SourceStops
    BY <1>2 DEF Recorder!SourceStops, Recorder!TypeOK, NoSampleLost, Pending
  <1> QED BY <1>1, <1>2

LEMMA OwnerInv ==
    ASSUME RecorderInv,
           \/ Recorder!Open \/ Recorder!Start \/ Recorder!SetExiting
           \/ Recorder!Join \/ Recorder!Close
    PROVE  RecorderInv'
  <1> USE DEF RecorderInv, Recorder!TypeOK, ThreadOwned, Counted,
              EndsOnFlag, NoSampleLost, Pending,
              Recorder!environment, Recorder!thread, Recorder!counts
  <1>1. CASE Recorder!Open
    BY <1>1 DEF Recorder!Open
  <1>2. CASE Recorder!Start
    BY <1>2 DEF Recorder!Start
  <1>3. CASE Recorder!SetExiting
    BY <1>3 DEF Recorder!SetExiting
  <1>4. CASE Recorder!Join
    BY <1>4 DEF Recorder!Join
  <1>5. CASE Recorder!Close
    BY <1>5, RecorderAssumption DEF Recorder!Close
  <1> QED BY <1>1, <1>2, <1>3, <1>4, <1>5

-----------------------------------------------------------------------------
(* The capture thread.                                                     *)

LEMMA TestsInv ==
    ASSUME RecorderInv, Recorder!TestExiting \/ Recorder!TestFull \/ Recorder!TestEnded
    PROVE  RecorderInv'
  <1> USE RecorderAssumption
          DEF RecorderInv, Recorder!TypeOK, ThreadOwned, Counted, EndsOnFlag,
              NoSampleLost, Pending,
              Recorder!environment, Recorder!counts, Recorder!At
  <1>1. CASE Recorder!TestExiting
    BY <1>1 DEF Recorder!TestExiting
  <1>2. CASE Recorder!TestFull
    BY <1>2 DEF Recorder!TestFull
  <1>3. CASE Recorder!TestEnded
    BY <1>3 DEF Recorder!TestEnded
  <1> QED BY <1>1, <1>2, <1>3

LEMMA FreadInv ==
    ASSUME RecorderInv, Recorder!Fread \/ Recorder!FreadInterrupted
    PROVE  RecorderInv'
  <1> DEFINE wanted == chunk_samples - samples_read
  <1>1. /\ wanted \in Nat /\ wanted > 0 /\ buffered \in Nat
        /\ samples_read \in Nat /\ chunk_samples \in Nat
        /\ Recorder!Min({wanted, buffered}) =
             IF wanted =< buffered THEN wanted ELSE buffered
        /\ Recorder!Min({wanted - 1, buffered}) =
             IF wanted - 1 =< buffered THEN wanted - 1 ELSE buffered
    <2>1. wanted \in Nat /\ wanted > 0 /\ buffered \in Nat
          /\ samples_read \in Nat /\ chunk_samples \in Nat
      BY RecorderAssumption
         DEF RecorderInv, Recorder!TypeOK, Counted,
             Recorder!Fread, Recorder!FreadInterrupted, Recorder!At
    <2> HIDE DEF wanted
    <2> QED BY <2>1, MinOfTwo
  <1>2. PICK n \in 0..buffered :
            /\ n <= wanted /\ Recorder!Take(n)
            /\ Recorder!At("fread", "fill") \/ (n = 0 /\ Recorder!At("fread", "ended"))
    <2>1. CASE Recorder!Fread
      BY <1>1, <2>1 DEF Recorder!Fread
    <2>2. CASE Recorder!FreadInterrupted
      BY <1>1, <2>2 DEF Recorder!FreadInterrupted
    <2> QED BY <2>1, <2>2
  <1>3. UNCHANGED <<resource, owner, exiting, captured_samples,
                    capture_overruns, failed, delivered, finished>>
    BY DEF Recorder!Fread, Recorder!FreadInterrupted
  <1>4. buffered' \in 0..Buffered /\ samples_read' \in 0..chunk_samples
    BY <1>1, <1>2, RecorderAssumption DEF RecorderInv, Recorder!TypeOK, Recorder!Take
  <1> QED BY <1>1, <1>2, <1>3, <1>4
          DEF RecorderInv, Recorder!TypeOK, ThreadOwned, Counted, EndsOnFlag,
              NoSampleLost, Pending, Recorder!Take, Recorder!At

LEMMA FailInv ==
    ASSUME RecorderInv,
           \/ Recorder!Fail \/ Recorder!Raise \/ Recorder!PaFails \/ Recorder!Finish
    PROVE  RecorderInv'
  <1> USE RecorderAssumption
          DEF RecorderInv, Recorder!TypeOK, ThreadOwned, Counted, EndsOnFlag,
              NoSampleLost, Pending,
              Recorder!environment, Recorder!counts, Recorder!At
  <1>1. CASE Recorder!Fail
    BY <1>1 DEF Recorder!Fail
  <1>2. CASE Recorder!Raise
    BY <1>2 DEF Recorder!Raise
  <1>3. CASE Recorder!PaFails
    BY <1>3 DEF Recorder!PaFails
  <1>4. CASE Recorder!Finish
    <2>1. Recorder!TypeOK' /\ ThreadOwned' /\ Counted' /\ NoSampleLost'
      BY <1>4 DEF Recorder!Finish
    <2>2. EndsOnFlag'
      BY <1>4 DEF Recorder!Finish
    <2> QED BY <2>1, <2>2
  <1> QED BY <1>1, <1>2, <1>3, <1>4

LEMMA DeliverInv ==
    ASSUME RecorderInv, Recorder!PaRead \/ Recorder!Deliver \/ Recorder!Count
    PROVE  RecorderInv'
  <1> USE RecorderAssumption
          DEF RecorderInv, Recorder!TypeOK, ThreadOwned, Counted, EndsOnFlag,
              NoSampleLost, Pending,
              Recorder!environment, Recorder!counts, Recorder!At
  <1>1. CASE Recorder!PaRead
    BY <1>1 DEF Recorder!PaRead, Recorder!Take
  <1>2. CASE Recorder!Deliver
    BY <1>2 DEF Recorder!Deliver
  <1>3. CASE Recorder!Count
    BY <1>3 DEF Recorder!Count
  <1> QED BY <1>1, <1>2, <1>3

LEMMA RecorderNext == RecorderInv /\ [Recorder!Next]_(Recorder!vars) => RecorderInv'
  <1> SUFFICES ASSUME RecorderInv, [Recorder!Next]_(Recorder!vars) PROVE RecorderInv'
    OBVIOUS
  <1>1. CASE UNCHANGED Recorder!vars
    BY <1>1
       DEF Recorder!vars, Recorder!environment, Recorder!thread, Recorder!counts,
           RecorderInv, Recorder!TypeOK, ThreadOwned, Counted, EndsOnFlag,
           NoSampleLost, Pending
  <1> QED BY <1>1, SourceInv, OwnerInv, TestsInv, FreadInv, FailInv, DeliverInv
          DEF Recorder!Next, Recorder!CaptureStep

\* Whoever runs, owner, thread or signal: the thread is joined before the source
\* is closed, and no sample is counted twice or not at all.
THEOREM RecorderInvariance == Recorder!Spec => []RecorderInv
  BY RecorderInit, RecorderNext, PTL DEF Recorder!Spec

\* No counter leaves its range: a read never gives more than the buffer holds,
\* nor a source more than it has.
THEOREM RecorderTypes == Recorder!Spec => []Recorder!TypeOK
  <1>1. RecorderInv => Recorder!TypeOK
    BY DEF RecorderInv
  <1> QED BY <1>1, RecorderInvariance, PTL

\* Every sample that the source gave is in the pipe, in pcm or was delivered,
\* for any chunk, on a short or interrupted read, an exit and a failure.
THEOREM NothingLost == Recorder!Spec => []NoSampleLost
  <1>1. RecorderInv => NoSampleLost
    BY DEF RecorderInv
  <1> QED BY <1>1, RecorderInvariance, PTL

\* Close() never pulls the source from under the thread.
THEOREM NoLateRead == Recorder!Spec => []NoReadAfterClose
  <1>1. RecorderInv => NoReadAfterClose
    BY DEF RecorderInv, Recorder!TypeOK, ThreadOwned, NoReadAfterClose
  <1> QED BY <1>1, RecorderInvariance, PTL

-----------------------------------------------------------------------------
(* The notifier: the flag, the thread object and the player agree.         *)

Playing == {"spawn", "waitpid", "store"}

\* What the flag promises holds because a thread that may still run is
\* joinable, and is joined before the thread object is used again.
NotifierInv ==
    /\ Notifier!TypeOK
    /\ FlagIsBusy
    /\ NeverTerminates
    /\ player # "none" <=> playback_thread = "waitpid"
    /\ ~joinable => playback_thread \in {"none", "ended"}
    /\ caller = "join" => playback_thread \notin Playing
    /\ caller = "start" => ~joinable
    /\ caller = "done" => ~joinable

LEMMA NotifierInit == Notifier!Init => NotifierInv
  BY NotifierAssumption
     DEF Notifier!Init, NotifierInv, Notifier!TypeOK, FlagIsBusy,
         NeverTerminates, Playing

LEMMA NotifierNotify == ASSUME NotifierInv, Notifier!Notify PROVE NotifierInv'
  <1> USE DEF NotifierInv, Notifier!TypeOK, Notifier!Notify, Notifier!led
  <1>1. CASE playback_active
    BY <1>1 DEF FlagIsBusy, NeverTerminates, Playing
  <1>2. CASE ~playback_active
    BY <1>2 DEF FlagIsBusy, NeverTerminates, Playing
  <1> QED BY <1>1, <1>2

LEMMA NotifierCaller == ASSUME NotifierInv, Notifier!CallerStep PROVE NotifierInv'
  <1> USE DEF NotifierInv, Notifier!TypeOK, FlagIsBusy,
              NeverTerminates, Playing, Notifier!led
  <1>1. CASE Notifier!JoinLast
    BY <1>1 DEF Notifier!JoinLast
  <1>2. CASE Notifier!StartThread
    BY <1>2 DEF Notifier!StartThread
  <1>3. CASE Notifier!NoLed
    BY <1>3 DEF Notifier!NoLed
  <1>4. CASE Notifier!ReadLed
    BY <1>4 DEF Notifier!ReadLed
  <1>5. CASE Notifier!WriteLed
    BY <1>5, NotifierAssumption DEF Notifier!WriteLed
  <1>6. CASE Notifier!WaitJoins
    BY <1>6 DEF Notifier!WaitJoins
  <1> QED BY <1>1, <1>2, <1>3, <1>4, <1>5, <1>6 DEF Notifier!CallerStep

LEMMA NotifierPlayback == ASSUME NotifierInv, Notifier!PlaybackStep PROVE NotifierInv'
  <1> USE DEF NotifierInv, Notifier!TypeOK, FlagIsBusy,
              NeverTerminates, Playing, Notifier!led
  <1>1. CASE Notifier!Spawn
    BY <1>1 DEF Notifier!Spawn
  <1>2. CASE Notifier!Reap
    BY <1>2 DEF Notifier!Reap
  <1>3. CASE Notifier!StoreInactive
    BY <1>3 DEF Notifier!StoreInactive
  <1>4. CASE Notifier!ThreadEnds
    BY <1>4 DEF Notifier!ThreadEnds
  <1> QED BY <1>1, <1>2, <1>3, <1>4 DEF Notifier!PlaybackStep

LEMMA NotifierNext == NotifierInv /\ [Notifier!Next]_(Notifier!vars) => NotifierInv'
  <1> SUFFICES ASSUME NotifierInv, [Notifier!Next]_(Notifier!vars) PROVE NotifierInv'
    OBVIOUS
  <1>1. CASE Notifier!Wait
    BY <1>1
       DEF NotifierInv, Notifier!TypeOK, FlagIsBusy, NeverTerminates,
           Playing, Notifier!led, Notifier!Wait
  <1>2. CASE Notifier!PlayerExits
    BY <1>2
       DEF NotifierInv, Notifier!TypeOK, FlagIsBusy, NeverTerminates,
           Playing, Notifier!led, Notifier!PlayerExits
  <1>3. CASE Notifier!LedChanges
    BY <1>3
       DEF NotifierInv, Notifier!TypeOK, FlagIsBusy, NeverTerminates,
           Playing, Notifier!notifier, Notifier!LedChanges
  <1>4. CASE UNCHANGED Notifier!vars
    BY <1>4
       DEF NotifierInv, Notifier!TypeOK, FlagIsBusy, NeverTerminates,
           Playing, Notifier!vars, Notifier!notifier, Notifier!led
  <1> QED BY <1>1, <1>2, <1>3, <1>4, NotifierNotify, NotifierCaller, NotifierPlayback
       DEF Notifier!Next

\* The flag, the thread object, the player and both program counters agree on
\* whether a prompt is being played.
THEOREM NotifierInvariance == Notifier!Spec => []NotifierInv
  BY NotifierInit, NotifierNext, PTL DEF Notifier!Spec

\* The flag is set exactly while a playback is decided on or in progress.
THEOREM FlagCorrect == Notifier!Spec => []FlagIsBusy
  <1>1. NotifierInv => FlagIsBusy
    BY DEF NotifierInv
  <1> QED BY <1>1, NotifierInvariance, PTL

\* Notify joins only threads that have no player to wait for.
THEOREM NotifyAsynchronous == Notifier!Spec => []NotifyIsAsync
  <1>1. NotifierInv => NotifyIsAsync
    BY DEF NotifierInv, NotifyIsAsync, Playing
  <1> QED BY <1>1, NotifierInvariance, PTL

\* No joinable thread is ever overwritten.
THEOREM NoTermination == Notifier!Spec => []NeverTerminates
  <1>1. NotifierInv => NeverTerminates
    BY DEF NotifierInv
  <1> QED BY <1>1, NotifierInvariance, PTL

\* Wait() leaves nothing behind.
THEOREM QuietAfterwards == Notifier!Spec => []QuietAfterWait
  <1>1. NotifierInv => QuietAfterWait
    BY DEF NotifierInv, QuietAfterWait
  <1> QED BY <1>1, NotifierInvariance, PTL

-----------------------------------------------------------------------------
(* The program.                                                            *)

Places == {"open", "destroy", "start", "loop", "read", "infer", "notify", "notifying",
           "stop", "join", "wait", "waiting", "close", "exited"}

\* What main() has called of the recorder, by where it is.
OwnerFollowsMain ==
    /\ main \in Places
    /\ main = "open" => owner = "new"
    /\ main = "destroy" => owner = "unopened"
    /\ main = "start" => owner = "opened"
    /\ main \in {"loop", "read", "infer", "notify", "notifying", "stop", "join"} =>
         owner = "started"
    /\ main \in {"wait", "waiting", "close"} => owner = "joined"
    /\ main = "exited" => owner = "closed" /\ resource = "none"

\* And of the notifier.
CallerFollowsMain ==
    /\ main \notin {"notifying", "waiting", "close", "exited"} => caller = "idle"
    /\ main = "waiting" => caller \in {"wait", "done"}
    /\ main = "close" => caller = "done"
    /\ main = "exited" => caller \in {"idle", "done"}
    /\ main \in {"open", "destroy", "start", "close", "exited"} => ~joinable

\* The flag is raised by the handler and by a thread that failed, and by
\* main() only when one of the two had it leave its loop.
StopsForAReason ==
    /\ exiting \/ main \in {"stop", "join", "wait", "waiting", "close"} =>
         handled \/ failed
    /\ main = "destroy" => exit_code = 1
    /\ main \notin {"destroy", "exited"} => exit_code = -1
    /\ main = "exited" => handled \/ exit_code = 1

\* The callback has pushed every whole frame of what it was given.
FramesArePushed == capture # "count" => published = Channel!NumFrames(delivered)

IInv == /\ RecorderInv /\ NotifierInv
        /\ OwnerFollowsMain /\ CallerFollowsMain /\ StopsForAReason /\ FramesArePushed

LEMMA InitInv == Init => IInv
  <1> SUFFICES ASSUME Init PROVE IInv
    OBVIOUS
  <1>1. RecorderInv /\ NotifierInv
    BY RecorderInit, NotifierInit DEF Init
  <1>2. OwnerFollowsMain /\ CallerFollowsMain /\ StopsForAReason
    BY DEF Init, Recorder!Init, Notifier!Init, OwnerFollowsMain, CallerFollowsMain,
           StopsForAReason, Places
  <1>3. FramesArePushed
    BY StreamAssumption
       DEF Init, Recorder!Init, Channel!Init, FramesArePushed, Channel!NumFrames
  <1> QED BY <1>1, <1>2, <1>3 DEF IInv

\* A step of the program is a step of the recorder and a step of the notifier,
\* or leaves the one or the other alone.
LEMMA PartSteps ==
    ASSUME [Next]_vars
    PROVE  [Recorder!Next]_(Recorder!vars) /\ [Notifier!Next]_(Notifier!vars)
  <1> USE DEF Recorder!vars, Recorder!environment, Recorder!thread, Recorder!counts,
              Notifier!vars, Notifier!notifier, Notifier!led,
              recorder_vars, notifier_vars
  <1>1. CASE MainStep
    <2>1. CASE Open \/ Destroy \/ Start \/ Stop \/ Join \/ Close
      BY <2>1 DEF Open, Destroy, Start, Stop, Join, Close, Recorder!Next
    <2>2. CASE Loop \/ LoopEnds \/ Infer \/ Notified \/ Waited
      BY <2>2 DEF Loop, LoopEnds, Infer, Notified, Waited
    <2>3. CASE Notify \/ Wait
      BY <2>3 DEF Notify, Wait, Notifier!Next
    <2> QED BY <1>1, <2>1, <2>2, <2>3 DEF MainStep
  <1>2. CASE CaptureStep \/ SourceStep \/ HandleSignal
    BY <1>2
       DEF CaptureStep, SourceStep, HandleSignal, Recorder!Next
  <1>3. CASE PlaybackStep \/ CallerStep \/ PlayerExits
    BY <1>3 DEF PlaybackStep, CallerStep, PlayerExits, Notifier!Next
  <1>4. CASE Read \/ Publish \/ CtrlC
    BY <1>4 DEF Read, Publish, CtrlC
  <1>5. CASE UNCHANGED vars
    BY <1>5 DEF vars
  <1> QED BY <1>1, <1>2, <1>3, <1>4, <1>5 DEF Next

\* main() alone calls the recorder, and the two agree on where it is.
LEMMA OwnerStep == ASSUME IInv, [Next]_vars PROVE OwnerFollowsMain'
  <1> USE DEF IInv, OwnerFollowsMain, Places, Goto
  <1>1. CASE Open \/ Destroy \/ Start \/ Stop \/ Join \/ Close
    BY <1>1 DEF Open, Destroy, Start, Stop, Join, Close, Recorder!Open, Recorder!Close,
                Recorder!Start, Recorder!SetExiting, Recorder!Join
  <1>2. CASE Loop \/ LoopEnds \/ Infer \/ Notified \/ Waited \/ Notify \/ Wait
    BY <1>2 DEF Loop, LoopEnds, Infer, Notified, Waited, Notify, Wait, recorder_vars
  <1>3. CASE Read
    BY <1>3 DEF Read, Channel!Take, Channel!GiveUp, recorder_vars
  <1>4. main' = main /\ owner' = owner /\ resource' = resource => OwnerFollowsMain'
    OBVIOUS
  <1>5. CASE CaptureStep
    BY <1>4, <1>5
       DEF CaptureStep, main_vars, Recorder!CaptureStep, Recorder!TestExiting,
           Recorder!TestFull, Recorder!Fread, Recorder!FreadInterrupted,
           Recorder!TestEnded, Recorder!Fail, Recorder!Raise, Recorder!PaRead,
           Recorder!PaFails, Recorder!Deliver, Recorder!Count, Recorder!Finish
  <1>6. CASE \/ Publish \/ PlaybackStep \/ CallerStep \/ PlayerExits \/ SourceStep
             \/ CtrlC \/ HandleSignal \/ UNCHANGED vars
    BY <1>4, <1>6
       DEF Publish, PlaybackStep, CallerStep, PlayerExits, SourceStep, CtrlC,
           HandleSignal, Recorder!Record, Recorder!SourceStops, Recorder!SetExiting,
           vars, recorder_vars, main_vars
  <1> QED BY <1>1, <1>2, <1>3, <1>5, <1>6 DEF Next, MainStep

LEMMA CallerStepInv == ASSUME IInv, [Next]_vars PROVE CallerFollowsMain'
  <1> USE DEF IInv, CallerFollowsMain, OwnerFollowsMain, Places, Goto
  <1>1. CASE Open \/ Destroy \/ Start \/ Stop \/ Join
    BY <1>1 DEF Open, Destroy, Start, Stop, Join, notifier_vars
  <1>2. CASE Close
    BY <1>2 DEF Close, notifier_vars
  <1>3. CASE Loop \/ LoopEnds \/ Infer \/ Notified
    BY <1>3 DEF Loop, LoopEnds, Infer, Notified, notifier_vars
  <1>4. CASE Notify \/ Wait \/ Waited
    <2>1. caller = "done" => ~joinable
      BY DEF NotifierInv
    <2> QED BY <1>4, <2>1 DEF Notify, Wait, Waited, Notifier!Notify, Notifier!Wait,
                              notifier_vars
  <1>5. CASE Read
    BY <1>5 DEF Read, Channel!Take, Channel!GiveUp, notifier_vars
  <1>6. CASE CallerStep
    BY <1>6
       DEF CallerStep, Notifier!CallerStep, Notifier!JoinLast, Notifier!StartThread,
           Notifier!NoLed, Notifier!ReadLed, Notifier!WriteLed, Notifier!WaitJoins,
           main_vars
  <1>7. main' = main /\ caller' = caller /\ joinable' = joinable => CallerFollowsMain'
    OBVIOUS
  <1>8. CASE PlaybackStep \/ PlayerExits
    BY <1>7, <1>8
       DEF PlaybackStep, PlayerExits, Notifier!PlaybackStep, Notifier!PlayerExits,
           Notifier!Spawn, Notifier!Reap, Notifier!StoreInactive, Notifier!ThreadEnds,
           main_vars
  <1>9. CASE \/ CaptureStep \/ Publish \/ SourceStep \/ CtrlC \/ HandleSignal
             \/ UNCHANGED vars
    BY <1>7, <1>9 DEF CaptureStep, Publish, SourceStep, CtrlC, HandleSignal, vars,
           notifier_vars, main_vars
  <1> QED BY <1>1, <1>2, <1>3, <1>4, <1>5, <1>6, <1>8, <1>9 DEF Next, MainStep

\* The thread raises the flag only after a failure, and ends the input only
\* when the flag is up.
LEMMA ReasonStep == ASSUME IInv, [Next]_vars PROVE StopsForAReason'
  <1> USE DEF IInv, StopsForAReason, OwnerFollowsMain, Places, Goto
  <1>1. /\ capture = "raise" => failed
        /\ finished => exiting
    BY DEF RecorderInv, EndsOnFlag
  <1>2. CASE Open \/ Destroy \/ Start
    BY <1>2 DEF Open, Destroy, Start, Recorder!Open, Recorder!Close, Recorder!Start,
           Recorder!environment, Recorder!thread, signal_vars
  <1>3. CASE Stop \/ Join \/ Wait \/ Waited
    BY <1>3 DEF Stop, Join, Wait, Waited, Recorder!SetExiting, Recorder!Join,
           Recorder!thread, recorder_vars, signal_vars
  <1>4. CASE Close
    BY <1>4 DEF Close, Recorder!Close, Recorder!thread, signal_vars
  <1>5. CASE Loop \/ LoopEnds \/ Infer \/ Notify \/ Notified
    BY <1>5 DEF Loop, LoopEnds, Infer, Notify, Notified, recorder_vars, signal_vars
  <1>6. CASE Read
    BY <1>1, <1>6 DEF Read, Channel!Take, Channel!GiveUp, recorder_vars, signal_vars
  <1>7. CASE CaptureStep
    <2>1. /\ failed => failed'
          /\ exiting' => exiting \/ failed'
      BY <1>1, <1>7
         DEF CaptureStep, Recorder!CaptureStep, Recorder!TestExiting,
             Recorder!TestFull, Recorder!Fread, Recorder!FreadInterrupted,
             Recorder!TestEnded, Recorder!Fail, Recorder!Raise, Recorder!PaRead,
             Recorder!PaFails, Recorder!Deliver, Recorder!Count, Recorder!Finish,
             Recorder!At
    <2> QED BY <1>7, <2>1 DEF CaptureStep, main_vars, signal_vars
  <1>8. CASE HandleSignal
    BY <1>8 DEF HandleSignal, Running, Recorder!SetExiting, main_vars
  <1>9. CASE \/ Publish \/ PlaybackStep \/ CallerStep \/ PlayerExits \/ SourceStep
             \/ CtrlC \/ UNCHANGED vars
    BY <1>9 DEF Publish, PlaybackStep, CallerStep, PlayerExits, SourceStep, CtrlC,
           Recorder!Record, Recorder!SourceStops, Recorder!thread, vars, recorder_vars,
           main_vars, signal_vars
  <1> QED BY <1>2, <1>3, <1>4, <1>5, <1>6, <1>7, <1>8, <1>9 DEF Next, MainStep

LEMMA CaptureOnChannel ==
    ASSUME IInv, CaptureStep
    PROVE  [Channel!Next]_(Channel!vars) /\ FramesArePushed'
  <1>1. /\ delivered \in Nat /\ samples_read \in 0..chunk_samples
        /\ finished <=> capture = "done"
        /\ capture # "count" => published = Channel!NumFrames(delivered)
    BY DEF IInv, RecorderInv, Recorder!TypeOK, EndsOnFlag, FramesArePushed
  <1>2. /\ Recorder!CaptureStep
        /\ capture = "count" => published = Channel!NumFrames(delivered)
        /\ UNCHANGED <<published, consumed, asked, out, result>>
    BY DEF CaptureStep, channel_vars
  <1>3. CASE Recorder!Deliver
    <2>1. delivered' = delivered + samples_read /\ finished' = finished
          /\ capture = "deliver"
          /\ capture' = IF samples_read = 0 THEN "finish" ELSE "count"
      BY <1>3 DEF Recorder!Deliver, Recorder!At
    <2>2. CASE samples_read = 0
      <3>1. delivered' = delivered
        BY <1>1, <2>1, <2>2
      <3> QED BY <1>1, <1>2, <2>1, <3>1 DEF FramesArePushed, Channel!vars
    <2>3. CASE samples_read # 0
      <3>1. samples_read \in 1..chunk_samples
        BY <1>1, <2>3, RecorderAssumption
      <3>2. Channel!Feed(samples_read)
        BY <1>1, <1>2, <2>1 DEF Channel!Feed
      <3> QED BY <2>1, <2>3, <3>1, <3>2 DEF Channel!Next, FramesArePushed
    <2> QED BY <2>2, <2>3
  <1>4. CASE Recorder!Finish
    <2>1. Channel!Close
      BY <1>1, <1>2, <1>4 DEF Recorder!Finish, Recorder!At, Channel!Close
    <2> QED BY <1>1, <1>2, <1>4, <2>1 DEF Recorder!Finish, Recorder!At, Channel!Next,
           FramesArePushed
  <1>5. CASE ~Recorder!Deliver /\ ~Recorder!Finish
    <2>1. UNCHANGED <<delivered, finished>> /\ (capture' = "count" => capture = "count")
      BY <1>2, <1>5
         DEF Recorder!CaptureStep, Recorder!TestExiting, Recorder!TestFull,
             Recorder!Fread, Recorder!FreadInterrupted, Recorder!TestEnded,
             Recorder!Fail, Recorder!Raise, Recorder!PaRead, Recorder!PaFails,
             Recorder!Count, Recorder!At
    <2> QED BY <1>1, <1>2, <2>1 DEF Channel!vars, FramesArePushed
  <1> QED BY <1>3, <1>4, <1>5

LEMMA ChannelStep ==
    ASSUME IInv, [Next]_vars
    PROVE  [Channel!Next]_(Channel!vars) /\ FramesArePushed'
  <1> USE DEF IInv, FramesArePushed
  <1>1. UNCHANGED <<capture, delivered, finished, channel_vars>>
          => UNCHANGED Channel!vars /\ FramesArePushed'
    BY DEF Channel!vars, channel_vars
  <1>2. CASE \/ Open \/ Destroy \/ Stop \/ Join \/ Close
    BY <1>1, <1>2 DEF Open, Destroy, Stop, Join, Close, Recorder!Open, Recorder!Close,
           Recorder!SetExiting, Recorder!Join, Recorder!thread
  <1>3. CASE Start
    BY <1>3 DEF Start, Recorder!Start, RecorderInv, ThreadOwned, Channel!vars,
           channel_vars
  <1>4. CASE Loop
    BY <1>4 DEF Loop, Channel!Next, Channel!Ask, recorder_vars
  <1>5. CASE LoopEnds \/ Infer \/ Notify \/ Notified \/ Wait \/ Waited
    BY <1>1, <1>5 DEF LoopEnds, Infer, Notify, Notified, Wait, Waited, recorder_vars
  <1>6. CASE Read
    BY <1>6 DEF Read, Channel!Next, Channel!Take, Channel!GiveUp, recorder_vars
  <1>7. CASE Publish
    BY <1>7 DEF Publish, Channel!Next, recorder_vars
  <1>8. CASE \/ PlaybackStep \/ CallerStep \/ PlayerExits \/ SourceStep
             \/ CtrlC \/ HandleSignal \/ UNCHANGED vars
    BY <1>1, <1>8
       DEF PlaybackStep, CallerStep, PlayerExits, SourceStep, CtrlC, HandleSignal,
           Recorder!Record, Recorder!SourceStops, Recorder!SetExiting, Recorder!thread,
           vars, recorder_vars
  <1> QED BY <1>2, <1>3, <1>4, <1>5, <1>6, <1>7, <1>8, CaptureOnChannel
       DEF Next, MainStep

LEMMA NextInv == IInv /\ [Next]_vars => IInv'
  <1> SUFFICES ASSUME IInv, [Next]_vars PROVE IInv'
    OBVIOUS
  <1>1. RecorderInv /\ NotifierInv
    BY DEF IInv
  <1>2. RecorderInv' /\ NotifierInv'
    BY <1>1, PartSteps, RecorderNext, NotifierNext
  <1>3. OwnerFollowsMain' /\ CallerFollowsMain' /\ StopsForAReason' /\ FramesArePushed'
    BY OwnerStep, CallerStepInv, ReasonStep, ChannelStep
  <1> QED BY <1>2, <1>3 DEF IInv

\* The recorder and the notifier keep their invariants inside the program, and
\* main() calls them only in the order that they expect.
THEOREM Invariance == Spec => []IInv
  BY InitInv, NextInv, PTL DEF Spec

\* When main() returns, by whichever way, the capture thread has ended, the
\* source is closed, the prompt's thread was joined and its player reaped.
THEOREM EverythingReleased == Spec => []AllReleased
  <1>1. ASSUME IInv PROVE AllReleased
    <2>1. main = "exited" => owner = "closed" /\ resource = "none" /\ ~joinable
      BY <1>1 DEF IInv, OwnerFollowsMain, CallerFollowsMain
    <2>2. owner = "closed" => capture \in {"none", "done"}
      BY <1>1 DEF IInv, RecorderInv, ThreadOwned
    <2>3. ~joinable => player = "none"
      BY <1>1 DEF IInv, NotifierInv
    <2> QED BY <2>1, <2>2, <2>3 DEF AllReleased
  <1> QED BY <1>1, Invariance, PTL

\* main() reports the captured time when the thread that counts it has ended.
THEOREM FinalReport == Spec => []ReportIsFinal
  <1>1. ASSUME IInv PROVE ReportIsFinal
    <2>1. main \in {"close", "exited"} => owner \in {"joined", "closed"}
      BY <1>1 DEF IInv, OwnerFollowsMain
    <2>2. owner \in {"joined", "closed"} => capture \in {"none", "done"}
      BY <1>1 DEF IInv, RecorderInv, ThreadOwned
    <2>3. capture # "count" => captured_samples = delivered
      BY <1>1 DEF IInv, RecorderInv, Recorder!TypeOK, Counted
    <2> QED BY <2>1, <2>2, <2>3 DEF ReportIsFinal
  <1> QED BY <1>1, Invariance, PTL

\* Without a signal the program ends only by a failure, and says so.
THEOREM NoSilentFailure == Spec => []FailureIsReported
  <1>1. ASSUME IInv PROVE FailureIsReported
    BY <1>1 DEF IInv, OwnerFollowsMain, Places, StopsForAReason, FailureIsReported
  <1> QED BY <1>1, Invariance, PTL

\* Whenever the two threads stop, and however the source cuts the samples, the
\* pipeline is fed before it is closed, and closed after its last frame.
THEOREM ChannelRespected == Spec => UsesChannel
  <1>1. Init => Channel!Init
    BY DEF Init
  <1>2. IInv /\ [Next]_vars => [Channel!Next]_(Channel!vars)
    BY ChannelStep
  <1> QED BY <1>1, <1>2, Invariance, PTL DEF Spec, UsesChannel

\* What the notifier promises to any caller holds in this program: main() calls
\* it for every wake word, and once more to shut down.
THEOREM NotifierInProgram ==
    Spec => [](FlagIsBusy /\ NotifyIsAsync /\ NeverTerminates /\ QuietAfterWait)
  <1>1. ASSUME IInv
        PROVE  FlagIsBusy /\ NotifyIsAsync /\ NeverTerminates /\ QuietAfterWait
    BY <1>1 DEF IInv, NotifierInv, NotifyIsAsync, QuietAfterWait, Playing
  <1> QED BY <1>1, Invariance, PTL
=============================================================================
