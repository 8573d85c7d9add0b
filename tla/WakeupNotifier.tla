--------------------------- MODULE WakeupNotifier ---------------------------
(***************************************************************************)
(* WakeupNotifier: the main thread calls Notify() for every wake word, and *)
(* Wait() when it shuts down; the prompt is played by a thread of its own, *)
(* which starts a player process and waits for it.                         *)
(***************************************************************************)
EXTENDS WakeupPlayback

notifier == <<caller, playback_active, joinable, playback_thread, player>>
led      == <<led_available, brightness>>
vars     == <<notifier, led>>

\* After Initialize(), which finds out whether the LED can be controlled.
Init ==
    /\ caller = "idle"
    /\ playback_active = FALSE
    /\ joinable = FALSE
    /\ playback_thread = "none"
    /\ player = "none"
    /\ led_available \in BOOLEAN
    /\ brightness \in 0..MaxBrightness

-----------------------------------------------------------------------------
(* Notify().                                                               *)

\* mutant: the flag is not looked at
ExchangeBlindly ==
    /\ caller = "idle"
    /\ playback_active' = TRUE
    /\ caller' = "join"
    /\ UNCHANGED <<joinable, playback_thread, player, led>>

\* playback_active_.exchange(true): only one caller may start a playback.
Notify ==
    /\ caller = "idle"
    /\ playback_active' = TRUE
    /\ caller' = IF playback_active THEN "led" ELSE "join"
    /\ UNCHANGED <<joinable, playback_thread, player, led>>

\* mutant: the old thread is not joined
JoinNothing ==
    /\ caller = "join"
    /\ caller' = "start"
    /\ UNCHANGED <<playback_active, joinable, playback_thread, player, led>>

\* The thread of the last playback has cleared the flag, but may not have
\* ended; join() waits for that.
JoinLast ==
    /\ caller = "join"
    /\ joinable => playback_thread = "ended"
    /\ joinable' = FALSE
    /\ caller' = "start"
    /\ UNCHANGED <<playback_active, playback_thread, player, led>>

\* Assigning to a thread object that is still joinable ends the program.
StartThread ==
    /\ caller = "start"
    /\ IF joinable
         THEN caller' = "terminated" /\ UNCHANGED <<joinable, playback_thread>>
         ELSE caller' = "led" /\ joinable' = TRUE /\ playback_thread' = "spawn"
    /\ UNCHANGED <<playback_active, player, led>>

\* ToggleLed(): nothing without an LED, or when it cannot be read.
NoLed ==
    /\ caller = "led"
    /\ caller' = "idle"
    /\ UNCHANGED <<playback_active, joinable, playback_thread, player, led>>

ReadLed ==
    /\ caller = "led"
    /\ led_available
    /\ caller' = IF brightness = 0 THEN "led_on" ELSE "led_off"
    /\ UNCHANGED <<playback_active, joinable, playback_thread, player, led>>

\* The write may fail, which is only logged.
WriteLed ==
    /\ caller \in {"led_on", "led_off"}
    /\ brightness' \in {brightness, IF caller = "led_on" THEN 1 ELSE 0}
    /\ caller' = "idle"
    /\ UNCHANGED <<playback_active, joinable, playback_thread, player, led_available>>

(* Wait(), and the destructor's call of it.                                *)

\* mutant: a playback that is over is not joined
WaitForFlag ==
    /\ caller = "idle"
    /\ caller' = IF playback_active THEN "wait" ELSE "done"
    /\ UNCHANGED <<playback_active, joinable, playback_thread, player, led>>

Wait ==
    /\ caller = "idle"
    /\ caller' = IF joinable THEN "wait" ELSE "done"
    /\ UNCHANGED <<playback_active, joinable, playback_thread, player, led>>

WaitJoins ==
    /\ caller = "wait"
    /\ playback_thread = "ended"
    /\ joinable' = FALSE
    /\ caller' = "done"
    /\ UNCHANGED <<playback_active, playback_thread, player, led>>

-----------------------------------------------------------------------------
(* The playback thread: PlayAudio(), then the flag.                        *)

Spawn ==
    /\ playback_thread = "spawn"
    /\ \/ playback_thread' = "waitpid" /\ player' = "running"
       \/ playback_thread' = "store" /\ UNCHANGED player  \* posix_spawnp failed
    /\ UNCHANGED <<caller, playback_active, joinable, led>>

\* waitpid() is called again when a signal interrupts it; it reaps the player.
Reap ==
    /\ playback_thread = "waitpid"
    /\ player = "zombie"
    /\ player' = "none"
    /\ playback_thread' = "store"
    /\ UNCHANGED <<caller, playback_active, joinable, led>>

\* mutant: a playback that went wrong leaves the flag set
StoreUnlessFailed ==
    /\ playback_thread = "store"
    /\ playback_active' \in BOOLEAN
    /\ playback_thread' = "ending"
    /\ UNCHANGED <<caller, joinable, player, led>>

\* playback_active_.store(false), whether or not the prompt was played.
StoreInactive ==
    /\ playback_thread = "store"
    /\ playback_active' = FALSE
    /\ playback_thread' = "ending"
    /\ UNCHANGED <<caller, joinable, player, led>>

ThreadEnds ==
    /\ playback_thread = "ending"
    /\ playback_thread' = "ended"
    /\ UNCHANGED <<caller, playback_active, joinable, player, led>>

-----------------------------------------------------------------------------
(* Outside the program: the player process ends, with whatever status; the *)
(* LED is changed by others.                                               *)
PlayerExits ==
    /\ player = "running"
    /\ player' = "zombie"
    /\ UNCHANGED <<caller, playback_active, joinable, playback_thread, led>>

LedChanges ==
    /\ brightness' \in 0..MaxBrightness
    /\ UNCHANGED <<notifier, led_available>>

CallerStep   == JoinLast \/ StartThread \/ NoLed \/ ReadLed \/ WriteLed \/ WaitJoins
PlaybackStep == Spawn \/ Reap \/ StoreInactive \/ ThreadEnds

Next ==
    \/ Notify
    \/ Wait
    \/ CallerStep
    \/ PlaybackStep
    \/ PlayerExits
    \/ LedChanges

\* The scheduler runs both threads.  Nothing is assumed of the player: a
\* prompt may last, or hang.
Fairness == WF_vars(CallerStep) /\ WF_vars(PlaybackStep)

Spec == Init /\ [][Next]_vars /\ Fairness

-----------------------------------------------------------------------------
TypeOK ==
    /\ caller \in {"idle", "join", "start", "led", "led_on", "led_off",
                   "wait", "done", "terminated"}
    /\ playback_active \in BOOLEAN /\ joinable \in BOOLEAN
    /\ playback_thread \in {"none", "spawn", "waitpid", "store", "ending", "ended"}
    /\ player \in {"none", "running", "zombie"}
    /\ led_available \in BOOLEAN /\ brightness \in 0..MaxBrightness
=============================================================================
