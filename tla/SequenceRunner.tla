---------------------------- MODULE SequenceRunner ----------------------------
(***************************************************************************)
(* kcom/core/sequence_runner.py: a payload sent repeat_count times from a  *)
(* repeating timer, or for ever when the count is 0.  The owner's tick     *)
(* handler runs inside the tick and may call stop() from there, as         *)
(* MainWindow._on_runner_tick does when the port is gone.                  *)
(***************************************************************************)
EXTENDS Integers

CONSTANTS
    Counts,     \* the repeat counts start() may be given, zero or less for no end
    MaxSent,    \* bound: ticks of a run that has no end
    MaxRuns     \* bound: calls of start()

ASSUME SequenceRunnerAssumption ==
    /\ Counts \subseteq Int
    /\ {MaxSent, MaxRuns} \subseteq Nat

VARIABLES
    running,    \* _running
    paused,     \* _paused
    timer,      \* _timer.isActive()
    sent,       \* _sent
    total,      \* _total, 0 for a run without end
    runs,       \* history: calls of start()
    ends,       \* history: finished signals
    ticks       \* history: tick signals of the present run

vars == <<running, paused, timer, sent, total, runs, ends, ticks>>

TypeOK ==
    /\ {running, paused, timer} \subseteq BOOLEAN
    /\ {sent, total, runs, ends, ticks} \subseteq Nat

Init ==
    /\ running = FALSE /\ paused = FALSE /\ timer = FALSE
    /\ sent = 0 /\ total = 0
    /\ runs = 0 /\ ends = 0 /\ ticks = 0

-----------------------------------------------------------------------------
\* stop(): finished is signalled only by a run that was running.
StopEffect(r, e) ==
    /\ timer' = FALSE
    /\ paused' = FALSE
    /\ running' = FALSE
    /\ ends' = IF r THEN e + 1 ELSE e

\* Mutant of Stop: signals finished unconditionally.
StopAlwaysFinishes ==
    /\ StopEffect(TRUE, ends)
    /\ UNCHANGED <<sent, total, runs, ticks>>

Stop ==
    /\ StopEffect(running, ends)
    /\ UNCHANGED <<sent, total, runs, ticks>>

\* The rest of start(): stop what runs, send once, and go on from the timer
\* unless that was all.  When the owner stops the run from inside the first
\* tick, start() goes on and starts the timer all the same.
StartWith(n) ==
    LET e == IF running THEN ends + 1 ELSE ends
    IN /\ runs < MaxRuns
       /\ runs' = runs + 1
       /\ total' = n
       /\ sent' = 1
       /\ ticks' = 1
       /\ paused' = FALSE
       /\ timer' = (n # 1)
       /\ \/ running' = (n # 1) /\ ends' = IF n = 1 THEN e + 1 ELSE e
          \/ running' = FALSE /\ ends' = e + 1

\* start()
Start(count) == StartWith(IF count > 0 THEN count ELSE 0)

\* Mutant of Pause: stops the timer and forgets to say so.
PauseUnmarked ==
    /\ running /\ ~paused /\ timer
    /\ timer' = FALSE
    /\ UNCHANGED <<paused, running, sent, total, runs, ends, ticks>>

Pause ==
    /\ running /\ ~paused /\ timer
    /\ timer' = FALSE
    /\ paused' = TRUE
    /\ UNCHANGED <<running, sent, total, runs, ends, ticks>>

Resume ==
    /\ running /\ paused
    /\ paused' = FALSE
    /\ timer' = TRUE
    /\ UNCHANGED <<running, sent, total, runs, ends, ticks>>

\* Mutant of Reached: counts one send too many.
ReachedLate(n) == total > 0 /\ n > total

Reached(n) == total > 0 /\ n >= total

\* _on_timeout of a run that is running: a tick, inside which the owner may
\* stop the run, and the end of it when the count is reached.  A timeout of a
\* run that is not running changes nothing.
Timeout ==
    /\ timer /\ running
    /\ total = 0 => sent < MaxSent
    /\ IF Reached(sent)
       THEN StopEffect(TRUE, ends) /\ UNCHANGED <<sent, ticks>>
       ELSE /\ sent' = sent + 1
            /\ ticks' = ticks + 1
            /\ \/ ~Reached(sent + 1) /\ UNCHANGED <<timer, paused, running, ends>>
               \/ StopEffect(TRUE, ends)
    /\ UNCHANGED <<total, runs>>

Next ==
    \/ \E n \in Counts : Start(n)
    \/ Stop
    \/ Pause
    \/ Resume
    \/ Timeout

Spec == Init /\ [][Next]_vars

\* The Qt timer of a running run fires.
FairSpec == Spec /\ WF_vars(Timeout)

-----------------------------------------------------------------------------
(* Properties.                                                              *)

\* Each run is announced finished exactly once, whether the count, stop(), a
\* restart or the owner's own tick handler ended it: MainWindow removes the
\* run from its table on that signal and on nothing else.
OneFinishPerRun == runs = ends + (IF running THEN 1 ELSE 0)

\* A run never sends more than its count.
NeverTooMany == total > 0 => ticks <= total

\* A run that is neither paused nor finished has a timer to go on from, and a
\* paused one sends nothing.
TimerDrivesRun == running => (timer <=> ~paused)

\* What holds of the runner in every state.
RunnerInv == TypeOK /\ NeverTooMany /\ TimerDrivesRun

\* A run with a count comes to its end, unless someone pauses it or replaces it
\* by a run without end.
CountedRunEnds == running /\ total > 0 ~> ~running \/ paused \/ total = 0
=============================================================================
