--------------------------- MODULE MainLoopProofs ---------------------------
(***************************************************************************)
(* Proofs about the main loop: the gateway's timers tell the time on a     *)
(* clock that wraps, and the Thread diagnostics publish one moment and     *)
(* give the OpenThread lock back.                                          *)
(***************************************************************************)
EXTENDS LoopTimers, ThreadDiagnostics, TLAPS

\* The remainders that the differences of two readings of the clock have.
LEMMA Remainders ==
    ASSUME NEW n \in Nat \ {0}, NEW x \in Int
    PROVE  /\ x \in 0 .. n - 1 => x % n = x
           /\ n <= x /\ x < 2 * n => x % n = x - n
           /\ -n <= x /\ x < 0 => x % n = x + n
           /\ -(2 * n) <= x /\ x < -n => x % n = x + 2 * n
           /\ x % n \in 0 .. n - 1
BY SMT

\* Half of the clock's range, also when that is odd.
LEMMA Half ==
    ASSUME NEW n \in Nat \ {0}
    PROVE  n \div 2 \in Nat /\ n - (n \div 2) >= n \div 2 /\ 2 * (n \div 2) <= n
BY SMT

-----------------------------------------------------------------------------
Timer == [stamp : 0 .. Wrap - 1, age : 0 .. Wrap]

\* The stamp is the reading that the clock had when the timer was set.
Right(timer, time) ==
    timer.age < Wrap =>
        time - timer.stamp = timer.age \/ time - timer.stamp = timer.age - Wrap

FlagsOK ==
    /\ pairing \in BOOLEAN /\ recoveryPending \in BOOLEAN
    /\ recovered \in BOOLEAN /\ seen \in BOOLEAN

TimersTypeOK ==
    /\ clock \in 0 .. Wrap - 1
    /\ late \in 0 .. MaxDelay
    /\ FlagsOK
    /\ deadline \in Timer /\ recovery \in Timer
    /\ press \in Timer /\ diagnostics \in Timer

(***************************************************************************)
(* The inductive invariant.  Every timer in use is right; and since loop() *)
(* ended what was due, no deadline is exceeded by more than the time since *)
(* loop() ran.  A second recovery is only ever asked for after the         *)
(* cooldown.                                                               *)
(***************************************************************************)
TimersInv ==
    /\ TimersTypeOK
    /\ pairing => Right(deadline, clock) /\ deadline.age <= PairingTimeout + late
    /\ recovered => Right(recovery, clock)
    /\ recovered /\ recoveryPending => recovery.age >= RadioCooldown
    /\ seen => Right(press, clock)
    /\ Right(diagnostics, clock) /\ diagnostics.age <= DiagnosticPeriod + late

LEMMA ConstantTypes ==
    /\ Wrap \in Nat \ {0}
    /\ RadioCooldown \in Nat /\ RepeatWindow \in Nat /\ RelayWindow \in Nat
    /\ DiagnosticPeriod \in Nat /\ MaxDelay \in Nat /\ PairingTimeout \in Nat
    /\ PairingTimeout <= Wrap \div 2
    /\ MaxDelay + 1 < Wrap \div 2
    /\ DiagnosticPeriod + MaxDelay < Wrap
BY TimersAssumption, Half

\* A timer that is right measures its age until the clock has wrapped.
LEMMA Measures ==
    ASSUME clock \in 0 .. Wrap - 1, NEW t \in Timer, t.age < Wrap, Right(t, clock)
    PROVE  (clock - t.stamp) % Wrap = t.age
<1>1. Wrap \in Nat \ {0} /\ t.stamp \in 0 .. Wrap - 1 /\ t.age \in 0 .. Wrap - 1
    BY ConstantTypes DEF Timer
<1>2. PICK d \in Int : d = clock - t.stamp
    BY <1>1
<1>3. d = t.age \/ d = t.age - Wrap
    BY <1>2 DEF Right
<1>4. d % Wrap = t.age
    <2>1. ASSUME d = t.age
          PROVE  d % Wrap = t.age
        BY <1>1, <2>1, Remainders
    <2>2. ASSUME d = t.age - Wrap
          PROVE  d % Wrap = t.age
        <3>1. -Wrap <= d /\ d < 0 /\ d + Wrap = t.age
            BY <1>1, <2>2
        <3>2. QED
            BY <1>1, <3>1, Remainders
    <2>3. QED
        BY <1>3, <2>1, <2>2
<1>5. QED
    BY <1>2, <1>4

LEMMA WithinTells ==
    ASSUME clock \in 0 .. Wrap - 1, NEW t \in Timer, t.age < Wrap, Right(t, clock),
           NEW window
    PROVE  Within(t, window) <=> t.age < window
BY Measures DEF Within

\* What is not within a window is not younger than it, however long ago.
LEMMA OutsideIsOlder ==
    ASSUME clock \in 0 .. Wrap - 1, NEW t \in Timer, Right(t, clock), NEW window \in Nat,
           ~Within(t, window)
    PROVE  t.age >= window
<1>1. CASE t.age < Wrap
    BY <1>1, WithinTells DEF Timer
<1>2. CASE t.age = Wrap
    <2>1. PICK d \in Int : d = clock - t.stamp
        BY ConstantTypes DEF Timer
    <2>2. ~(d % Wrap < window)
        BY <2>1 DEF Within
    <2>3. d % Wrap \in 0 .. Wrap - 1
        BY <2>1, ConstantTypes, Remainders
    <2>4. QED
        BY <1>2, <2>2, <2>3, ConstantTypes
<1>3. t.age \in 0 .. Wrap /\ Wrap \in Nat
    BY ConstantTypes DEF Timer
<1>4. QED
    BY <1>1, <1>2, <1>3

\* The signed difference to the deadline has the right sign, as long as loop()
\* is late by less than half of the clock's range.
LEMMA ExpiredTells ==
    ASSUME clock \in 0 .. Wrap - 1, NEW t \in Timer, Right(t, clock),
           t.age <= PairingTimeout + MaxDelay
    PROVE  Expired(t) <=> t.age >= PairingTimeout
<1>1. /\ Wrap \in Nat \ {0} /\ Wrap \div 2 \in Nat /\ Wrap - (Wrap \div 2) >= Wrap \div 2
      /\ PairingTimeout \in Nat /\ PairingTimeout <= Wrap \div 2
      /\ MaxDelay \in Nat /\ MaxDelay + 1 < Wrap \div 2
    BY ConstantTypes, Half
<1>2. t.stamp \in 0 .. Wrap - 1 /\ t.age \in 0 .. Wrap - 1
    BY <1>1 DEF Timer
<1>3. PICK d \in Int : d = clock - (t.stamp + PairingTimeout)
    BY <1>1, <1>2
<1>4. d = t.age - PairingTimeout \/ d = t.age - PairingTimeout - Wrap
    BY <1>1, <1>2, <1>3 DEF Right
<1>5. CASE t.age >= PairingTimeout
    <2>1. ASSUME d = t.age - PairingTimeout
          PROVE  d % Wrap = t.age - PairingTimeout
        <3>1. d \in 0 .. Wrap - 1
            BY <1>1, <1>2, <1>5, <2>1
        <3>2. QED
            BY <1>1, <2>1, <3>1, Remainders
    <2>2. ASSUME d = t.age - PairingTimeout - Wrap
          PROVE  d % Wrap = t.age - PairingTimeout
        <3>1. d \in Int /\ -Wrap <= d /\ d < 0 /\ d + Wrap = t.age - PairingTimeout
            BY <1>1, <1>2, <1>5, <2>2
        <3>2. QED
            BY <1>1, <3>1, Remainders
    <2>3. d % Wrap = t.age - PairingTimeout
        BY <1>4, <2>1, <2>2
    <2>4. QED
        BY <1>1, <1>2, <1>3, <1>5, <2>3 DEF Expired
<1>6. CASE t.age < PairingTimeout
    <2>1. ASSUME d = t.age - PairingTimeout
          PROVE  d % Wrap = t.age - PairingTimeout + Wrap
        <3>1. -Wrap <= d /\ d < 0
            BY <1>1, <1>2, <1>6, <2>1
        <3>2. QED
            BY <1>1, <2>1, <3>1, Remainders
    <2>2. ASSUME d = t.age - PairingTimeout - Wrap
          PROVE  d % Wrap = t.age - PairingTimeout + Wrap
        <3>1. -(2 * Wrap) <= d /\ d < -Wrap /\ d + 2 * Wrap = t.age - PairingTimeout + Wrap
            BY <1>1, <1>2, <1>6, <2>2
        <3>2. QED
            BY <1>1, <3>1, Remainders
    <2>3. d % Wrap = t.age - PairingTimeout + Wrap
        BY <1>4, <2>1, <2>2
    <2>4. QED
        BY <1>1, <1>2, <1>3, <1>6, <2>3 DEF Expired
<1>7. QED
    BY <1>1, <1>2, <1>5, <1>6

-----------------------------------------------------------------------------
\* A timer is set.
LEMMA NowIsRight ==
    ASSUME clock \in 0 .. Wrap - 1
    PROVE  Now \in Timer /\ Now.age = 0 /\ Right(Now, clock)
BY ConstantTypes DEF Now, Timer, Right

LEMMA UnusedIsTimer == Unused \in Timer
BY ConstantTypes DEF Unused, Timer

LEMMA TimersBegin == TimersInit => TimersInv
<1> SUFFICES ASSUME TimersInit PROVE TimersInv
    OBVIOUS
<1>1. clock \in 0 .. Wrap - 1 /\ late = 0 /\ diagnostics = Now
    BY DEF TimersInit
<1>2. FlagsOK
    BY DEF TimersInit, FlagsOK
<1>5. TimersTypeOK
    BY <1>1, <1>2, ConstantTypes, NowIsRight, UnusedIsTimer DEF TimersInit, TimersTypeOK
<1>3. Right(diagnostics, clock) /\ diagnostics.age <= DiagnosticPeriod + late
    BY <1>1, ConstantTypes, NowIsRight
<1>4. QED
    BY <1>5, <1>3 DEF TimersInit, TimersInv

\* The clock moves on, perhaps back to zero.
LEMMA AgedIsRight ==
    ASSUME clock \in 0 .. Wrap - 1, NEW t \in Timer, NEW next, next = (clock + 1) % Wrap
    PROVE  /\ next \in 0 .. Wrap - 1
           /\ Aged(t) \in Timer
           /\ Aged(t).age <= t.age + 1 /\ Aged(t).age > 0 /\ Aged(t).age >= t.age
           /\ Right(t, clock) => Right(Aged(t), next)
<1>1. /\ Wrap \in Nat \ {0}
      /\ t \in [stamp : 0 .. Wrap - 1, age : 0 .. Wrap]
    BY ConstantTypes DEF Timer
<1>2. PICK c \in Int : c = clock + 1
    OBVIOUS
<1>3. \/ next = clock + 1 /\ clock + 1 < Wrap
      \/ next = 0 /\ clock + 1 = Wrap
    <2>1. CASE c < Wrap
        <3>1. c \in 0 .. Wrap - 1
            BY <1>1, <1>2, <2>1
        <3>2. QED
            BY <1>1, <1>2, <3>1, Remainders
    <2>2. CASE c = Wrap
        <3>1. Wrap <= c /\ c < 2 * Wrap /\ c - Wrap = 0
            BY <1>1, <2>2
        <3>2. c % Wrap = 0
            BY <1>1, <1>2, <3>1, Remainders
        <3>3. QED
            BY <1>2, <2>2, <3>2
    <2>3. QED
        BY <1>1, <1>2, <2>1, <2>2
<1>4. /\ Aged(t).stamp = t.stamp
      /\ Aged(t).age = IF t.age < Wrap THEN t.age + 1 ELSE t.age
      /\ Aged(t) \in Timer
    BY <1>1 DEF Aged, Timer
<1>5. Right(t, clock) => Right(Aged(t), next)
    BY <1>1, <1>3, <1>4 DEF Right
<1>6. QED
    BY <1>1, <1>3, <1>4, <1>5

LEMMA FlagsStep ==
    ASSUME FlagsOK, [TimersNext]_timerVars
    PROVE  FlagsOK'
BY Zenon DEF FlagsOK, TimersNext, timerVars, Enter, LeaveEarly, Trigger, Press, Identify,
             Forget, Collapse, Loop, Pass

LEMMA TimersStep ==
    ASSUME TimersInv, [TimersNext]_timerVars
    PROVE  TimersInv'
<1> USE ConstantTypes DEF TimersInv, TimersTypeOK
<1>0. FlagsOK'
    BY FlagsStep
<1>1. CASE Enter
    BY <1>0, <1>1, NowIsRight DEF Enter
<1>2. CASE LeaveEarly
    BY <1>0, <1>2, UnusedIsTimer DEF LeaveEarly
<1>3. CASE Trigger
    BY <1>0, <1>3, NowIsRight DEF Trigger, Press
<1>9. CASE Identify
    BY <1>0, <1>9, NowIsRight, UnusedIsTimer DEF Identify
<1>10. CASE Forget
    BY <1>0, <1>10, UnusedIsTimer DEF Forget
<1>4. CASE Collapse
    <2>1. recovered => recovery.age >= RadioCooldown
        BY <1>4, OutsideIsOlder DEF Collapse
    <2>2. QED
        BY <1>0, <1>4, <2>1 DEF Collapse
<1>5. CASE Loop
    <2>1. /\ clock' = clock /\ late' = 0 /\ seen' = seen /\ press' = press
        BY <1>5 DEF Loop
    <2>2. deadline' \in Timer /\ (pairing' => deadline' = deadline /\ pairing /\ ~Expired(deadline))
        BY <1>5, UnusedIsTimer DEF Loop
    <2>3. pairing' => Right(deadline, clock)' /\ deadline'.age <= PairingTimeout
        <3>1. pairing' => deadline.age < PairingTimeout
            BY <2>2, ExpiredTells DEF Timer
        <3>2. QED
            BY <2>1, <2>2, <3>1 DEF Timer
    <2>4. recovery' \in Timer /\ (recovered' => Right(recovery, clock)')
        BY <1>5, <2>1, NowIsRight DEF Loop
    <2>5. diagnostics' \in Timer /\ Right(diagnostics, clock)' /\ diagnostics'.age <= DiagnosticPeriod
        <3>1. CASE Within(diagnostics, DiagnosticPeriod)
            <4>1. diagnostics.age < Wrap
                BY DEF Timer
            <4>2. diagnostics.age < DiagnosticPeriod
                BY <3>1, <4>1, WithinTells
            <4>3. QED
                BY <1>5, <2>1, <3>1, <4>2 DEF Loop, Timer
        <3>2. CASE ~Within(diagnostics, DiagnosticPeriod)
            BY <1>5, <2>1, <3>2, NowIsRight DEF Loop
        <3>3. QED
            BY <3>1, <3>2
    <2>6. ~recoveryPending'
        BY <1>5 DEF Loop
    <2>7. QED
        BY <1>0, <2>1, <2>2, <2>3, <2>4, <2>5, <2>6
<1>6. CASE Pass
    <2>1. /\ late' = late + 1 /\ late' \in 0 .. MaxDelay
          /\ clock' = (clock + 1) % Wrap
        BY <1>6 DEF Pass
    <2>2. clock' \in 0 .. Wrap - 1
        BY <2>1, AgedIsRight, UnusedIsTimer
    <2>3. deadline' \in Timer /\ (pairing' => Right(deadline, clock)' /\ deadline'.age <= PairingTimeout + late')
        BY <1>6, <2>1, AgedIsRight DEF Pass, Timer
    <2>4. recovery' \in Timer /\ (recovered' => Right(recovery, clock)')
        BY <1>6, <2>1, AgedIsRight DEF Pass
    <2>7. recovered' /\ recoveryPending' => recovery'.age >= RadioCooldown
        <3>1. recovered => recovery'.age >= recovery.age
            BY <1>6, AgedIsRight DEF Pass
        <3>2. recovery'.age \in 0 .. Wrap /\ recovery.age \in 0 .. Wrap
            BY <2>4 DEF Timer
        <3>3. QED
            BY <1>6, <3>1, <3>2 DEF Pass
    <2>5. press' \in Timer /\ (seen' => Right(press, clock)')
        BY <1>6, <2>1, AgedIsRight DEF Pass
    <2>6. /\ diagnostics' \in Timer /\ Right(diagnostics, clock)'
          /\ diagnostics'.age <= DiagnosticPeriod + late'
        BY <1>6, <2>1, AgedIsRight DEF Pass, Timer
    <2>8. TimersTypeOK'
        BY <1>0, <2>1, <2>2, <2>3, <2>4, <2>5, <2>6
    <2>9. QED
        BY <2>3, <2>4, <2>5, <2>6, <2>7, <2>8 DEF TimersInv
<1>7. CASE UNCHANGED timerVars
    BY <1>0, <1>7 DEF timerVars
<1>8. QED
    BY <1>1, <1>2, <1>3, <1>4, <1>5, <1>6, <1>7, <1>9, <1>10 DEF TimersNext

LEMMA TimersAlways == TimersSpec => []TimersInv
BY TimersBegin, TimersStep, PTL DEF TimersSpec

(***************************************************************************)
(* For any periods and any width of the clock: at each moment loop() ends  *)
(* a pairing mode and publishes diagnostics if and only if they are due.   *)
(***************************************************************************)
THEOREM TimersAreRight == TimersSpec => []TimersTellTime
<1>1. TimersInv => TimersTellTime
    <2> SUFFICES ASSUME TimersInv PROVE TimersTellTime
        OBVIOUS
    <2> USE ConstantTypes DEF TimersInv, TimersTypeOK
    <2>1. pairing => /\ Expired(deadline) <=> deadline.age >= PairingTimeout
                     /\ deadline.age <= PairingTimeout + MaxDelay
        BY ExpiredTells DEF Timer
    <2>2. diagnostics.age <= DiagnosticPeriod + MaxDelay /\ diagnostics.age < Wrap
        BY DEF Timer
    <2>3. Within(diagnostics, DiagnosticPeriod) <=> diagnostics.age < DiagnosticPeriod
        BY <2>2, WithinTells
    <2>4. seen /\ press.age < Wrap =>
             \A window \in {RepeatWindow, RelayWindow} : Within(press, window) <=> press.age < window
        BY WithinTells
    <2>5. recovered /\ recovery.age < Wrap =>
             (Within(recovery, RadioCooldown) <=> recovery.age < RadioCooldown)
        BY WithinTells
    <2>6. QED
        BY <2>1, <2>2, <2>3, <2>4, <2>5 DEF TimersTellTime
<1>2. QED
    BY <1>1, TimersAlways, PTL

(***************************************************************************)
(* A step that sets a timer comes no sooner than its window allows: from   *)
(* Wrap on an age is not told apart, but then no window has room for it.   *)
(***************************************************************************)
LEMMA StepsKeepApart ==
    ASSUME TimersInv, [TimersNext]_timerVars
    PROVE  /\ seen /\ Trigger => press.age >= RepeatWindow
           /\ recovered /\ recovery' # recovery /\ recovery'.age = 0
                 => recovery.age >= RadioCooldown
           /\ diagnostics' # diagnostics /\ diagnostics'.age = 0
                 => diagnostics.age >= DiagnosticPeriod
           /\ Loop /\ pairing /\ ~pairing' => deadline.age >= PairingTimeout
<1> USE ConstantTypes DEF TimersInv, TimersTypeOK
<1>1. seen /\ Trigger => press.age >= RepeatWindow
    <2> SUFFICES ASSUME seen, Trigger PROVE press.age >= RepeatWindow
        OBVIOUS
    <2>1. ~Within(press, RepeatWindow)
        BY DEF Trigger, Press, Suppresses
    <2>2. QED
        BY <2>1, OutsideIsOlder
<1>2. recovered /\ recovery' # recovery /\ recovery'.age = 0 => recovery.age >= RadioCooldown
    <2> SUFFICES ASSUME recovered, recovery' # recovery, recovery'.age = 0
                 PROVE  recovery.age >= RadioCooldown
        OBVIOUS
    <2>1. CASE Loop
        BY <2>1 DEF Loop
    <2>2. CASE Pass
        BY <2>2, AgedIsRight DEF Pass
    <2>3. QED
        BY <2>1, <2>2 DEF TimersNext, timerVars, Enter, LeaveEarly, Trigger, Press, Identify,
                          Forget, Collapse
<1>3. diagnostics' # diagnostics /\ diagnostics'.age = 0 => diagnostics.age >= DiagnosticPeriod
    <2> SUFFICES ASSUME diagnostics' # diagnostics, diagnostics'.age = 0
                 PROVE  diagnostics.age >= DiagnosticPeriod
        OBVIOUS
    <2>1. CASE Loop
        <3>1. ~Within(diagnostics, DiagnosticPeriod)
            BY <2>1 DEF Loop
        <3>2. QED
            BY <3>1, OutsideIsOlder
    <2>2. CASE Pass
        BY <2>2, AgedIsRight DEF Pass
    <2>3. QED
        BY <2>1, <2>2 DEF TimersNext, timerVars, Enter, LeaveEarly, Trigger, Press, Identify,
                          Forget, Collapse
<1>4. Loop /\ pairing /\ ~pairing' => deadline.age >= PairingTimeout
    <2> SUFFICES ASSUME Loop, pairing, ~pairing' PROVE deadline.age >= PairingTimeout
        OBVIOUS
    <2>1. Expired(deadline)
        BY DEF Loop
    <2>2. QED
        BY <2>1, ExpiredTells DEF Timer
<1>5. QED
    BY <1>1, <1>2, <1>3, <1>4

\* For any periods and any width of the clock: a slot has no event sooner than the
\* window after its last event or identifying press, the radio is not restarted
\* and diagnostics are not published sooner than their periods, and loop() ends no
\* pairing mode before its deadline, wherever the clock of those moments stands.
THEOREM NothingComesTooSoon == TimersSpec => NothingTooSoon
<1>1. TimersInv /\ [TimersNext]_timerVars =>
          [/\ seen /\ Trigger => press.age >= RepeatWindow
           /\ recovered /\ recovery' # recovery /\ recovery'.age = 0
                 => recovery.age >= RadioCooldown
           /\ diagnostics' # diagnostics /\ diagnostics'.age = 0
                 => diagnostics.age >= DiagnosticPeriod
           /\ Loop /\ pairing /\ ~pairing' => deadline.age >= PairingTimeout]_timerVars
    BY StepsKeepApart
<1>2. QED
    BY <1>1, TimersAlways, PTL DEF TimersSpec, NothingTooSoon
-----------------------------------------------------------------------------
(***************************************************************************)
(* The Thread diagnostics.                                                 *)
(***************************************************************************)
FieldNames == {"role", "address", "link", "partition", "parent", "neighbours", "routers",
               "counters", "srp"}

\* What update() may have read of a field at this moment.
Shows(field, value, instance) ==
    IF field = "role" THEN value = instance.role
    ELSE IF ~Applies(field, instance.role) THEN value = Unavailable
    ELSE value = instance.network \/ (MayFail(field) /\ value = Unavailable)

SnapshotRight == \A i \in DOMAIN snapshot : Shows(Fields[i], snapshot[i], moment)

SurfaceRight == \A entity \in Configured : Shows(Source[entity], surface[entity], moment)

ThreadTypeOK ==
    /\ stack \in Instance \cup {NoInstance}
    /\ snapshot \in Seq(Roles \cup Networks \cup {Unavailable}) /\ Len(snapshot) <= 9

(***************************************************************************)
(* The inductive invariant.  While update() reads, the stack cannot move;  *)
(* so all that it has read is of the moment at which it got the lock, and  *)
(* so is what it publishes.                                                *)
(***************************************************************************)
ThreadInv ==
    /\ ThreadTypeOK
    /\ lock = "main" <=> stage = "reading"
    /\ stage = "reading" =>
           stack = moment /\ SnapshotRight /\ (snapshot # <<>> => moment # NoInstance)
    /\ stage = "publishing" => SnapshotRight /\ Len(snapshot) = 9
    /\ stage = "idle" /\ ~warning /\ moment # NoInstance => SurfaceRight

LEMMA FieldsAre ==
    /\ Fields \in Seq(FieldNames) /\ Len(Fields) = 9
    /\ Fields[1] = "role"
    /\ \A i \in 2 .. 9 : Fields[i] # "role"
BY DEF Fields, FieldNames

LEMMA SourcesAreFields == \A entity \in Entities : Source[entity] \in FieldNames
BY DEF Entities, Source, FieldNames

LEMMA PositionIsOfField ==
    ASSUME NEW field \in FieldNames
    PROVE  PositionOf(field) \in 1 .. 9 /\ Fields[PositionOf(field)] = field
<1>1. DOMAIN Fields = 1 .. 9
    BY DEF Fields
<1>2. \E i \in 1 .. 9 : Fields[i] = field
    BY DEF Fields, FieldNames
<1>3. QED
    BY <1>1, <1>2 DEF PositionOf

LEMMA ThreadBegins == ThreadInit => ThreadInv
BY DEF ThreadInit, ThreadInv, ThreadTypeOK

\* A field is read while update() holds the lock.
LEMMA ReadKeeps ==
    ASSUME ThreadInv, Read
    PROVE  ThreadInv'
<1> DEFINE n == Len(snapshot) + 1
<1>1. /\ stage = "reading" /\ stack = moment /\ moment # NoInstance /\ SnapshotRight
      /\ moment \in Instance
      /\ UNCHANGED <<stack, lock, stage, waited, surface, warning, moment>>
    BY DEF ThreadInv, ThreadTypeOK, Read
<1>2. /\ snapshot \in Seq(Roles \cup Networks \cup {Unavailable})
      /\ Len(snapshot) \in Nat /\ n \in 1 .. 9
    BY FieldsAre DEF ThreadInv, ThreadTypeOK, Read
<1>3. PICK value \in Readings(Fields[n]) : snapshot' = Append(snapshot, value)
    BY DEF Read
<1>4. Shows(Fields[n], value, moment) /\ value \in Roles \cup Networks \cup {Unavailable}
    <2>1. CASE n = 1
        BY <1>1, <1>3, <2>1, FieldsAre DEF Readings, Shows, Instance
    <2>2. CASE n # 1
        <3>1. Fields[n] # "role"
            BY <1>2, <2>2, FieldsAre
        <3>2. 1 \in DOMAIN snapshot /\ snapshot[1] = moment.role
            BY <1>1, <1>2, <2>2, FieldsAre DEF SnapshotRight, Shows
        <3>3. value \in IF Applies(Fields[n], moment.role)
                        THEN {moment.network} \cup (IF MayFail(Fields[n]) THEN {Unavailable} ELSE {})
                        ELSE {Unavailable}
            BY <1>1, <1>3, <3>1, <3>2 DEF Readings
        <3>4. QED
            BY <1>1, <3>1, <3>3 DEF Shows, Instance
    <2>3. QED
        BY <2>1, <2>2
<1>5. /\ snapshot' \in Seq(Roles \cup Networks \cup {Unavailable})
      /\ Len(snapshot') = n
      /\ \A i \in 1 .. n : snapshot'[i] = IF i = n THEN value ELSE snapshot[i]
    BY <1>2, <1>3, <1>4
<1>6. SnapshotRight'
    BY <1>1, <1>2, <1>4, <1>5 DEF SnapshotRight
<1>7. QED
    BY <1>1, <1>2, <1>5, <1>6 DEF ThreadInv, ThreadTypeOK

\* What is published is the snapshot, entity by entity.
LEMMA PublishKeeps ==
    ASSUME ThreadInv, Publish
    PROVE  ThreadInv'
<1>1. SnapshotRight /\ DOMAIN snapshot = 1 .. 9
    BY DEF ThreadInv, ThreadTypeOK, Publish
<1>2. \A entity \in Configured :
          Shows(Source[entity], snapshot[PositionOf(Source[entity])], moment)
    BY <1>1, PositionIsOfField, SourcesAreFields, DiagnosticsAssumption DEF SnapshotRight
<1>3. SurfaceRight'
    BY <1>2 DEF SurfaceRight, Publish
<1>4. QED
    BY <1>3 DEF ThreadInv, ThreadTypeOK, Publish

LEMMA ThreadStep ==
    ASSUME ThreadInv, [ThreadNext]_threadVars
    PROVE  ThreadInv'
<1> USE DEF ThreadInv, ThreadTypeOK, SnapshotRight, SurfaceRight
<1>1. CASE StackTakes
    BY <1>1 DEF StackTakes
<1>2. CASE \E instance \in Instance : StackMoves(instance)
    BY <1>2 DEF StackMoves
<1>3. CASE StackGives
    BY <1>3 DEF StackGives
<1>4. CASE Update
    BY <1>4 DEF Update
<1>5. CASE Wait
    BY <1>5 DEF Wait
<1>6. CASE LockTimesOut
    BY <1>6 DEF LockTimesOut
<1>7. CASE Acquire
    BY <1>7 DEF Acquire
<1>8. CASE GiveUp
    BY <1>8 DEF GiveUp
<1>9. CASE Read
    BY <1>9, ReadKeeps
<1>10. CASE Release
    BY <1>10, FieldsAre DEF Release
<1>11. CASE Publish
    BY <1>11, PublishKeeps
<1>12. CASE UNCHANGED threadVars
    BY <1>12 DEF threadVars
<1>13. QED
    BY <1>1, <1>2, <1>3, <1>4, <1>5, <1>6, <1>7, <1>8, <1>9, <1>10, <1>11, <1>12
       DEF ThreadNext, UpdateNext

LEMMA ThreadAlways == ThreadSpec => []ThreadInv
BY ThreadBegins, ThreadStep, PTL DEF ThreadSpec

(***************************************************************************)
(* Whatever OpenThread does when it has the lock: what the entities show   *)
(* between two updates is of one moment.                                   *)
(***************************************************************************)
THEOREM OneMomentIsShown == ThreadSpec => []SurfaceOfOneMoment
<1>1. ThreadInv => SurfaceOfOneMoment
    BY DEF ThreadInv, SurfaceRight, Shows, SurfaceOfOneMoment
<1>2. QED
    BY <1>1, ThreadAlways, PTL

\* On every path out of update() the lock is free again.
THEOREM LockIsGivenBack == ThreadSpec => []LockGivenBack
<1>1. ThreadInv => LockGivenBack
    BY DEF ThreadInv, LockGivenBack
<1>2. QED
    BY <1>1, ThreadAlways, PTL
=============================================================================
