--------------------------- MODULE WakeupPlayback ---------------------------
(***************************************************************************)
(* What WakeupNotifier keeps of the prompt that it plays, and what it      *)
(* promises to the program that calls it.                                  *)
(***************************************************************************)
EXTENDS Integers

CONSTANT MaxBrightness  \* the brightness other programs may leave the LED at

ASSUME NotifierAssumption == MaxBrightness \in Nat \ {0}

VARIABLES
    caller,           \* where the main thread is in Notify or Wait
    playback_active,  \* playback_active_
    joinable,         \* playback_thread_.joinable()
    playback_thread,  \* where the playback thread is
    player,           \* the player process: "none", "running" or "zombie"
    led_available,    \* led_available_
    brightness        \* of the LED

-----------------------------------------------------------------------------
\* playback_active_ is set from the moment a Notify decides to play until the
\* playback is over: a prompt is skipped only while one is being played.
FlagIsBusy ==
    playback_active <=> \/ caller \in {"join", "start"}
                        \/ playback_thread \in {"spawn", "waitpid", "store"}

\* Notify never waits for a player: when it joins the last thread, that has no
\* player any more and only has to end.
NotifyIsAsync == caller = "join" => /\ playback_thread \notin {"spawn", "waitpid", "store"}
                                    /\ player = "none"

\* No thread is started over one that was not joined, which would end the
\* program.
NeverTerminates == caller # "terminated"

\* When Wait() has returned, no playback thread and no player is left.
QuietAfterWait == caller = "done" => /\ ~joinable /\ player = "none"
                                     /\ playback_thread \in {"none", "ended"}

\* If every player ends, so does every playback, and the next wake word is
\* heard again; and Wait() returns.
PlayersEnd == []<>(player # "running")

PlaybacksEnd == PlayersEnd => /\ playback_active ~> ~playback_active
                              /\ caller = "wait" ~> caller = "done"
=============================================================================
