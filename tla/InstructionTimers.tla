-------------------------- MODULE InstructionTimers --------------------------
(***************************************************************************)
(* The timer, completion and note of one instruction step                  *)
(* (lib/household-domain.ts). The server keeps no countdown: it stores     *)
(* when the timer was started and what was left then, and every command    *)
(* computes the rest from its own clock. The clock ticks in half seconds,  *)
(* so that the rounding of each pause shows; it never runs backwards here. *)
(***************************************************************************)
EXTENDS Integers

CONSTANTS
    Durations,    \* bound: the durations, in seconds, a timer is given
    MaxTicks,     \* bound: half seconds passed
    MaxPauses     \* bound: pauses counted

ASSUME TimersAssumption == Durations \subseteq Nat \ {0} /\ {MaxTicks, MaxPauses} \subseteq Nat

VARIABLES
    timed,     \* [duration, started, paused, remaining, complete, note]
    now,       \* the server's clock, in half seconds
    given,     \* the seconds last given to the timer; not stored
    ran,       \* the half seconds it has run since; not stored
    pauses     \* its pauses since; not stored

timerVars == <<timed, now, given, ran, pauses>>

NoTime == -1
TimerRunning == timed.started # NoTime
Left(s) == IF s.remaining = NoTime THEN s.duration ELSE s.remaining
FaultRoundUp == IF TimerRunning THEN (now - timed.started + 1) \div 2 ELSE 0
Elapsed == IF TimerRunning THEN (now - timed.started) \div 2 ELSE 0
Shown == IF Left(timed) > Elapsed THEN Left(timed) - Elapsed ELSE 0
Stopped(s) == [s EXCEPT !.started = NoTime, !.paused = FALSE, !.remaining = NoTime]

Given(seconds) == given' = seconds /\ ran' = 0 /\ pauses' = 0

StartInstructionTimer ==
    /\ timed.duration # NoTime /\ ~timed.complete /\ ~TimerRunning
    /\ timed' = [timed EXCEPT !.started = now, !.paused = FALSE]
    /\ UNCHANGED <<now, given, ran, pauses>>

PauseInstructionTimer ==
    /\ timed.duration # NoTime /\ TimerRunning /\ Shown > 0 /\ pauses < MaxPauses
    /\ timed' = [timed EXCEPT !.remaining = Shown, !.started = NoTime, !.paused = TRUE]
    /\ pauses' = pauses + 1 /\ UNCHANGED <<now, given, ran>>

ResetInstructionTimer ==
    /\ TimerRunning \/ timed.paused
    /\ timed' = Stopped(timed) /\ Given(timed.duration) /\ UNCHANGED now

SetInstructionTimerRemaining(seconds) ==
    /\ timed.duration # NoTime /\ ~timed.complete /\ Shown # seconds
    /\ timed' = [timed EXCEPT !.remaining = seconds, !.started = IF TimerRunning THEN now ELSE NoTime]
    /\ Given(seconds) /\ UNCHANGED now

SetComplete(complete) ==
    /\ timed.complete # complete
    /\ timed' = [(IF complete THEN Stopped(timed) ELSE timed) EXCEPT !.complete = complete]
    /\ IF complete THEN Given(timed.duration) ELSE UNCHANGED <<given, ran, pauses>>
    /\ UNCHANGED now

\* editInstructionStep with another duration, or none
EditDuration(duration) ==
    /\ timed.duration # duration
    /\ timed' = [Stopped(timed) EXCEPT !.duration = duration]
    /\ Given(duration) /\ UNCHANGED now

UpdateInstructionStepNote(note) ==
    /\ timed.note # note /\ timed' = [timed EXCEPT !.note = note]
    /\ UNCHANGED <<now, given, ran, pauses>>

\* replaceMealRecipeFromSource: refused while the step holds anything of
\* the cook's, then the step is another one.
ReplaceStep(duration) ==
    /\ ~timed.complete /\ ~timed.note /\ ~TimerRunning /\ ~timed.paused
    /\ timed' = [Stopped(timed) EXCEPT !.duration = duration]
    /\ Given(duration) /\ UNCHANGED now

Tick ==
    /\ now < MaxTicks /\ now' = now + 1
    /\ ran' = IF TimerRunning THEN ran + 1 ELSE ran
    /\ UNCHANGED <<timed, given, pauses>>

TimersInit ==
    /\ timed = [duration |-> NoTime, started |-> NoTime, paused |-> FALSE, remaining |-> NoTime,
               complete |-> FALSE, note |-> FALSE]
    /\ now = 0 /\ given = NoTime /\ ran = 0 /\ pauses = 0

TimersNext ==
    \/ StartInstructionTimer \/ PauseInstructionTimer \/ ResetInstructionTimer \/ Tick
    \/ \E d \in Durations : SetInstructionTimerRemaining(d)
    \/ \E complete \in BOOLEAN : SetComplete(complete)
    \/ \E d \in Durations \cup {NoTime} : EditDuration(d) \/ ReplaceStep(d)
    \/ \E note \in BOOLEAN : UpdateInstructionStepNote(note)

TimersSpec == TimersInit /\ [][TimersNext]_timerVars

-----------------------------------------------------------------------------
(* Properties.                                                             *)

\* However a timer is started, paused, resumed, reset and set, it shows what
\* it was given less the time it ran: never less than is due, and never more
\* than the half seconds its pauses and the last second round away.
TimerKeepsTime ==
    timed.duration # NoTime =>
      /\ 2 * Shown >= 2 * given - ran
      /\ Shown > 0 => 2 * Shown <= 2 * given - ran + pauses + 1

=============================================================================
