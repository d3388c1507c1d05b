------------------------------ MODULE LoopTimers ------------------------------
(***************************************************************************)
(* The clock behind the gateway component's timers                         *)
(* (honeywell_activlink.cpp and event_deduplicator.cpp).                   *)
(*                                                                         *)
(* Module ActivLink measures time in ticks left and ticks passed.  The     *)
(* code keeps the value that millis() had, or will have, in 32 bits, and   *)
(* compares differences.  This module has the four timers as the code has  *)
(* them, beside the time that really passed, and nothing else of their     *)
(* handlers: one slot's event_deduplicator of one kind of press (tested by *)
(* should_publish, set without a test by record, cleared by reset), the    *)
(* deadline of a pairing mode, the radio cooldown and the diagnostics.     *)
(* Which button, and whether a save fails, is in ActivLink: here a handler *)
(* that does not get as far as its timer is LeaveEarly, or no step.  The   *)
(* first loop() after a boot may return before it looks at its timers (the *)
(* API key could not be written) and leave that to the second; behaviours  *)
(* here begin after the loop() that first gets past that.                  *)
(*                                                                         *)
(* millis() wraps at Wrap.  Ages are history; from Wrap on they are not    *)
(* told apart.  The task watchdog bounds how late loop() may run.          *)
(***************************************************************************)
EXTENDS Integers

CONSTANTS
    Wrap,              \* 2^32
    PairingTimeout,    \* pairing_timeout_ms
    RadioCooldown,     \* RADIO_RECOVERY_COOLDOWN_MS
    RepeatWindow,      \* deduplication_ms
    RelayWindow,       \* relay_deduplication_ms
    DiagnosticPeriod,  \* diagnostic_update_interval_ms
    MaxDelay           \* bound: ticks between two passes of the main loop

\* The configuration accepts any positive periods; these are the ones for which
\* the comparisons can be right.
ASSUME TimersAssumption ==
    /\ {RadioCooldown, RepeatWindow, RelayWindow, DiagnosticPeriod, MaxDelay} \subseteq Nat
    /\ Wrap \in Nat \ {0}
    /\ PairingTimeout \in 0 .. Wrap \div 2
    /\ MaxDelay + 1 < Wrap \div 2
    /\ DiagnosticPeriod + MaxDelay < Wrap

VARIABLES
    clock,            \* millis()
    late,             \* ticks since loop() last ran
    pairing,          \* pairing_mode_ # IDLE
    deadline,         \* pairing_deadline_ms_, by the time at which it was set
    recoveryPending,  \* radio_recovery_pending_
    recovered,        \* has_radio_recovery_
    recovery,         \* last_radio_recovery_ms_
    seen,             \* states_[secret].seen
    press,            \* states_[secret].last_event_ms
    diagnostics       \* last_diagnostic_publish_ms_

timerVars == <<clock, late, pairing, deadline, recoveryPending, recovered, recovery,
               seen, press, diagnostics>>

-----------------------------------------------------------------------------
Now == [stamp |-> clock, age |-> 0]

\* A value that the code no longer, or not yet, looks at.
Unused == [stamp |-> 0, age |-> 0]

\* In the code: now - stamp < window, unsigned.
WithinSum(timer, window) == clock < (timer.stamp + window) % Wrap  \* a bug to rule out

Within(timer, window) == (clock - timer.stamp) % Wrap < window

\* A bug to rule out: now >= deadline.
ExpiredAbsolute(timer) == clock >= (timer.stamp + PairingTimeout) % Wrap

\* In the code: the difference to the deadline, signed, is not negative.
Expired(timer) == (clock - (timer.stamp + PairingTimeout)) % Wrap < Wrap \div 2

-----------------------------------------------------------------------------
\* start_pairing or start_removal.
Enter ==
    /\ pairing' = TRUE
    /\ deadline' = Now
    /\ UNCHANGED <<clock, late, recoveryPending, recovered, recovery, seen, press, diagnostics>>

\* A button, a frame or a full table ends the mode.
LeaveEarly ==
    /\ pairing
    /\ pairing' = FALSE
    /\ deadline' = Unused
    /\ UNCHANGED <<clock, late, recoveryPending, recovered, recovery, seen, press, diagnostics>>

Suppresses(relay) ==
    seen /\ (Within(press, RepeatWindow) \/ (relay /\ Within(press, RelayWindow)))

\* should_publish.
Press(relay) ==
    /\ ~Suppresses(relay)
    /\ press' = Now
    /\ seen' = TRUE
    /\ UNCHANGED <<clock, late, pairing, deadline, recoveryPending, recovered, recovery,
                   diagnostics>>

Trigger == \E relay \in BOOLEAN : Press(relay)

\* record: the press that pairs its button, or finds it paired, sets the time
\* without asking whether it is within a window; the mode ends.
Identify ==
    /\ pairing
    /\ press' = Now
    /\ seen' = TRUE
    /\ pairing' = FALSE
    /\ deadline' = Unused
    /\ UNCHANGED <<clock, late, recoveryPending, recovered, recovery, diagnostics>>

\* reset, when the slot is freed: by removal mode, or by forget_slot, which ends
\* a mode if one is on.
Forget ==
    /\ press' = Unused
    /\ seen' = FALSE
    /\ pairing' = FALSE
    /\ deadline' = Unused
    /\ UNCHANGED <<clock, late, recoveryPending, recovered, recovery, diagnostics>>

\* A collapsed capture.
Collapse ==
    /\ ~recoveryPending
    /\ ~recovered \/ ~Within(recovery, RadioCooldown)
    /\ recoveryPending' = TRUE
    /\ UNCHANGED <<clock, late, pairing, deadline, recovered, recovery, seen, press, diagnostics>>

Loop ==
    /\ recoveryPending' = FALSE
    /\ recovered' = (recovered \/ recoveryPending)
    /\ recovery' = IF recoveryPending THEN Now ELSE recovery
    /\ pairing' = (pairing /\ ~Expired(deadline))
    /\ deadline' = IF pairing' THEN deadline ELSE Unused
    /\ diagnostics' = IF Within(diagnostics, DiagnosticPeriod) THEN diagnostics ELSE Now
    /\ late' = 0
    /\ UNCHANGED <<clock, seen, press>>

Aged(timer) == [timer EXCEPT !.age = IF @ < Wrap THEN @ + 1 ELSE @]

Pass ==
    /\ late < MaxDelay
    /\ late' = late + 1
    /\ clock' = (clock + 1) % Wrap
    /\ deadline' = IF pairing THEN Aged(deadline) ELSE deadline
    /\ recovery' = IF recovered THEN Aged(recovery) ELSE recovery
    /\ press' = IF seen THEN Aged(press) ELSE press
    /\ diagnostics' = Aged(diagnostics)
    /\ UNCHANGED <<pairing, recoveryPending, recovered, seen>>

\* setup() at any time on the clock, followed by a loop() that publishes.
TimersInit ==
    /\ clock \in 0 .. Wrap - 1
    /\ late = 0
    /\ pairing = FALSE /\ recoveryPending = FALSE /\ recovered = FALSE /\ seen = FALSE
    /\ deadline = Unused /\ recovery = Unused /\ press = Unused /\ diagnostics = Now

TimersNext ==
    \/ Enter
    \/ LeaveEarly
    \/ Trigger
    \/ Identify
    \/ Forget
    \/ Collapse
    \/ Loop
    \/ Pass

TimersSpec == TimersInit /\ [][TimersNext]_timerVars

-----------------------------------------------------------------------------
\* Whatever the clock says: at each moment loop() would end a pairing mode if
\* and only if its time is up, and publish diagnostics if and only if they are
\* due; neither is later than the main loop is; and until Wrap has passed
\* since it, an event or a recovery is within a window for as long as the window
\* lasts and no longer.
TimersTellTime ==
    /\ pairing => /\ Expired(deadline) <=> deadline.age >= PairingTimeout
                  /\ deadline.age <= PairingTimeout + MaxDelay
    /\ Within(diagnostics, DiagnosticPeriod) <=> diagnostics.age < DiagnosticPeriod
    /\ diagnostics.age <= DiagnosticPeriod + MaxDelay
    /\ seen /\ press.age < Wrap =>
          \A window \in {RepeatWindow, RelayWindow} : Within(press, window) <=> press.age < window
    /\ recovered /\ recovery.age < Wrap =>
          (Within(recovery, RadioCooldown) <=> recovery.age < RadioCooldown)

\* An event is never nearer than its window to the event, or the identifying
\* press, that the slot had before it, unless the slot was freed in between; two
\* restarts of the radio, or two publications, are never nearer to each other than
\* theirs; not even when Wrap lies between them; and loop() gives each pairing
\* mode its time.
NothingTooSoon ==
    [][/\ seen /\ Trigger => press.age >= RepeatWindow
       /\ recovered /\ recovery' # recovery /\ recovery'.age = 0 => recovery.age >= RadioCooldown
       /\ diagnostics' # diagnostics /\ diagnostics'.age = 0
             => diagnostics.age >= DiagnosticPeriod
       /\ Loop /\ pairing /\ ~pairing' => deadline.age >= PairingTimeout]_timerVars
=============================================================================
