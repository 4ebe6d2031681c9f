-------------------------- MODULE SchedulerProofs --------------------------
(***************************************************************************)
(* Theorems about Scheduler, for any number of devices, whatever their     *)
(* clocks, quanta and triggers.                                            *)
(*                                                                         *)
(* The first part is about the requests of device code: no request to      *)
(* suspend or resume is forgotten, a yield lasts one pass over the         *)
(* devices, and whoever spins until a time has a timer that will release   *)
(* it.  The three need each other.  The flag m_suspend_changes_pending may *)
(* be cleared only if the TIMESLICE reason, which apply_suspend_changes    *)
(* takes off the next reasons alone, is not among the current ones as      *)
(* well; it is not, because a device that is suspended does not run and so *)
(* cannot yield again; and a device that runs is not suspended because the *)
(* flag was right.                                                         *)
(*                                                                         *)
(* The second part is about the lists: what the loops over the devices and *)
(* over the quanta leave behind, hence the types of all variables, the     *)
(* order of the execute list and of the quanta, and the minimum quantum.   *)
(*                                                                         *)
(* The third part is about time: the pass over the devices keeps its       *)
(* target within reach of every device that had its turn, and of every     *)
(* alarm set meanwhile, so that the base time keeps pace with both.        *)
(***************************************************************************)
EXTENDS Scheduler, WellFoundedInduction, FiniteSetTheorems, TLAPS

\* Devices' code makes no other device yield or spin.
Alone == \A m \in Machines : ~m.others

DevFields == {"suspend", "next", "eat", "nexteat", "waiting", "time", "period", "cycle"}
IsDev(dv) == DOMAIN dv = Devices /\ \A d \in Devices : DOMAIN dv[d] = DevFields

\* No device waits for the next time slice and beyond it.
OneSlice(dv) ==
  \A d \in Devices : ~("TIMESLICE" \in dv[d].suspend /\ "TIMESLICE" \in dv[d].next)

\* Whether d waits for one of the triggers spin_until_time makes.
Spinning(dv, d) ==
  "TRIGGER" \in dv[d].next /\ dv[d].waiting \in 0 .. TimeTriggers - 1

Shape == machine \in Machines /\ IsDev(dev) /\ pending \in BOOLEAN
RunnerIsFree == Executing \in Devices => dev[Executing].suspend = {}
FilesRest ==
  \A f \in files :
    IsDev(f.dev) /\ OneSlice(f.dev) /\ \A d \in Devices : ~Spinning(f.dev, d)

IInv == /\ Shape /\ RunnerIsFree /\ FilesRest /\ OneSlice(dev)
        /\ PendingWhenDiffer /\ SpinHasAlarm

-----------------------------------------------------------------------------
\* What an operation leaves alone, and what it does to the fields the invariant is
\* about: it changes no reason in force, adds TIMESLICE only to the device executing,
\* and sets the flag if it changes anything that has to be applied.
Modest ==
  /\ IsDev(dev') /\ pending' \in BOOLEAN
  /\ \A d \in Devices :
       /\ dev'[d].suspend = dev[d].suspend
       /\ "TIMESLICE" \in dev'[d].next =>
            "TIMESLICE" \in dev[d].next \/ d = Executing
  /\ pending' \/ \A d \in Devices : /\ ~pending
                                    /\ dev'[d].next = dev[d].next
                                    /\ dev'[d].eat = dev[d].eat
                                    /\ dev'[d].nexteat = dev[d].nexteat
  /\ UNCHANGED <<machine, execlist, turn, phase, files>>

LEMMA ModestKeeps ==
  ASSUME IInv, Modest, SpinHasAlarm'
  PROVE  IInv'
<1>1. Shape' /\ FilesRest'
  BY DEF IInv, Modest, Shape, FilesRest
<1>2. RunnerIsFree'
  BY DEF IInv, RunnerIsFree, Modest, Executing
<1>3. OneSlice(dev')
  BY DEF IInv, OneSlice, Modest, RunnerIsFree
<1>4. PendingWhenDiffer'
  BY DEF IInv, PendingWhenDiffer, Modest
<1>. QED  BY <1>1, <1>2, <1>3, <1>4 DEF IInv

LEMMA NoneApart ==
  None \notin Devices /\ \A n \in 0 .. TimeTriggers - 1 : n # None /\ n \notin Devices
<1>1. /\ None \notin Devices \cup Triggers \cup Nat
      /\ \A id \in Triggers \cup Devices : id \notin Nat
  BY SchedulerAssumption
<1>2. \A n \in 0 .. TimeTriggers - 1 : n \in Nat
  BY SchedulerAssumption
<1>. QED  BY <1>1, <1>2

\* Of the calls that only touch the device they are made for.
LEMMA SuspendModest ==
  ASSUME IInv, NEW e, NEW reason, NEW eatcycles, Suspend(e, reason, eatcycles),
         reason # "TRIGGER", reason = "TIMESLICE" => e = Executing,
         UNCHANGED <<machine, sliceVars, alarms>>
  PROVE  Modest /\ SpinHasAlarm'
<1>. USE DEF Suspend, sliceVars
<1>1. IsDev(dev')
  BY DEF IInv, Shape, IsDev, DevFields
<1>2. \A d \in Devices : /\ dev'[d].suspend = dev[d].suspend /\ dev'[d].waiting = dev[d].waiting
                         /\ "TIMESLICE" \in dev'[d].next => "TIMESLICE" \in dev[d].next \/ d = Executing
                         /\ "TRIGGER" \in dev'[d].next => "TRIGGER" \in dev[d].next
  BY DEF IInv, Shape, IsDev, DevFields
<1>3. Modest
  BY <1>1, <1>2 DEF Modest, IInv, Shape
<1>4. SpinHasAlarm'
  BY <1>2 DEF IInv, SpinHasAlarm
<1>. QED  BY <1>3, <1>4

LEMMA ResumeModest ==
  ASSUME IInv, NEW e, NEW reasons, Resume(e, reasons), UNCHANGED <<machine, sliceVars, alarms>>
  PROVE  Modest /\ SpinHasAlarm'
<1>. USE DEF Resume, sliceVars
<1>1. IsDev(dev')
  BY DEF IInv, Shape, IsDev, DevFields
<1>2. \A d \in Devices : /\ dev'[d].suspend = dev[d].suspend /\ dev'[d].waiting = dev[d].waiting
                         /\ dev'[d].next \subseteq dev[d].next
  BY DEF IInv, Shape, IsDev, DevFields
<1>3. Modest
  BY <1>1, <1>2 DEF Modest, IInv, Shape
<1>4. SpinHasAlarm'
  BY <1>2 DEF IInv, SpinHasAlarm
<1>. QED  BY <1>3, <1>4

\* suspend_until_trigger: a device that waits for a trigger of spin_until_time is told
\* of it by an alarm.
LEMMA WaitForModest ==
  ASSUME IInv, NEW e, NEW id, NEW eatcycles, WaitFor(e, id, eatcycles),
         alarms \subseteq alarms',
         e \in Devices /\ id \in 0 .. TimeTriggers - 1
           => \E a \in alarms' : a.trig = id /\ a.to = {e},
         UNCHANGED <<machine, sliceVars>>
  PROVE  Modest /\ SpinHasAlarm'
<1>. USE DEF WaitFor, sliceVars
<1>1. IsDev(dev')
  BY DEF IInv, Shape, IsDev, DevFields
<1>2. \A d \in Devices : /\ dev'[d].suspend = dev[d].suspend
                         /\ "TIMESLICE" \in dev'[d].next => "TIMESLICE" \in dev[d].next
                         /\ d = e => dev'[d].waiting = id
                         /\ d # e => dev'[d] = dev[d]
  BY DEF IInv, Shape, IsDev, DevFields
<1>3. Modest
  BY <1>1, <1>2 DEF Modest, IInv, Shape
<1>4. SpinHasAlarm'
  BY <1>2 DEF IInv, SpinHasAlarm
<1>. QED  BY <1>3, <1>4

\* What a trigger does to the devices; whoever waits for it waits no longer.
LEMMA FiredEffect ==
  ASSUME IInv, NEW id, NEW told
  PROVE  /\ IsDev(Fired(dev, id, told))
         /\ \A d \in Devices :
              LET new == Fired(dev, id, told)[d] IN
              /\ new.suspend = dev[d].suspend
              /\ new.eat = dev[d].eat /\ new.nexteat = dev[d].nexteat
              /\ new.next \subseteq dev[d].next
              /\ Spinning(Fired(dev, id, told), d) =>
                   /\ Spinning(dev, d) /\ new.waiting = dev[d].waiting
                   /\ ~(d \in told /\ dev[d].waiting = id)
<1>1. IsDev(Fired(dev, id, told))
  BY DEF IInv, Shape, IsDev, DevFields, Fired
<1>2. ASSUME NEW d \in Devices
      PROVE  LET new == Fired(dev, id, told)[d] IN
              /\ new.suspend = dev[d].suspend
              /\ new.eat = dev[d].eat /\ new.nexteat = dev[d].nexteat
              /\ new.next \subseteq dev[d].next
              /\ Spinning(Fired(dev, id, told), d) =>
                   /\ Spinning(dev, d) /\ new.waiting = dev[d].waiting
                   /\ ~(d \in told /\ dev[d].waiting = id)
  <2>1. CASE d \in told /\ "TRIGGER" \in dev[d].next /\ dev[d].waiting = id
    BY <1>2, <2>1 DEF IInv, Shape, IsDev, DevFields, Fired, Spinning
  <2>2. CASE ~(d \in told /\ "TRIGGER" \in dev[d].next /\ dev[d].waiting = id)
    <3>1. Fired(dev, id, told)[d] = dev[d]
      BY <2>2 DEF Fired
    <3>. QED  BY <2>2, <3>1 DEF Spinning
  <2>. QED  BY <2>1, <2>2
<1>. QED  BY <1>1, <1>2

\* The clock of a device.
LEMMA SetClockModest ==
  ASSUME IInv, NEW e, NEW period, SetClock(e, period)
  PROVE  Modest /\ SpinHasAlarm'
<1>. UNCHANGED <<machine, sliceVars, alarms>>
  BY DEF SetClock
<1>1. IsDev(dev')
  BY DEF IInv, Shape, IsDev, DevFields, SetClock
<1>2. \A d \in Devices : /\ dev'[d].suspend = dev[d].suspend /\ dev'[d].waiting = dev[d].waiting
                         /\ dev'[d].eat = dev[d].eat
  BY DEF IInv, Shape, IsDev, DevFields, SetClock
<1>3. \A d \in Devices : /\ "TIMESLICE" \in dev'[d].next => "TIMESLICE" \in dev[d].next
                         /\ "TRIGGER" \in dev'[d].next => "TRIGGER" \in dev[d].next
  BY DEF IInv, Shape, IsDev, DevFields, SetClock
<1>4. pending' \in BOOLEAN
  BY DEF IInv, Shape, SetClock
<1>5. pending' \/ \A d \in Devices : ~pending /\ dev'[d].next = dev[d].next
                                                /\ dev'[d].nexteat = dev[d].nexteat
  <2>1. CASE period = 0
    BY <2>1 DEF SetClock
  <2>2. CASE period # 0 /\ "CLOCK" \in dev[e].next
    BY <2>2 DEF SetClock
  <2>3. CASE period # 0 /\ "CLOCK" \notin dev[e].next
    <3>1. dev' = [dev EXCEPT ![e].period = period, ![e].cycle = period,
                             ![e].next = @ \ {"CLOCK"}]
          /\ pending' = (pending \/ FALSE)
      BY <2>3 DEF SetClock
    <3>2. dev[e].next \ {"CLOCK"} = dev[e].next
      BY <2>3
    <3>3. \A d \in Devices : dev'[d].next = dev[d].next /\ dev'[d].nexteat = dev[d].nexteat
      BY <3>1, <3>2 DEF IInv, Shape, IsDev, DevFields
    <3>. QED  BY <3>1, <3>3, <1>4 DEF IInv, Shape
  <2>. QED  BY <2>1, <2>2, <2>3
<1>6. Modest
  BY <1>1, <1>2, <1>3, <1>4, <1>5 DEF Modest, sliceVars
<1>7. SpinHasAlarm'
  BY <1>2, <1>3 DEF IInv, SpinHasAlarm
<1>. QED  BY <1>6, <1>7

LEMMA SpinUntilTimeModest ==
  ASSUME IInv, NEW e, NEW duration, SpinUntilTime(e, duration)
  PROVE  Modest /\ SpinHasAlarm'
<1>1. WaitFor(e, timetrig, TRUE) /\ alarms \subseteq alarms' /\ UNCHANGED <<machine, sliceVars>>
  BY DEF SpinUntilTime, SetAlarm
<1>2. \E a \in alarms' : a.trig = timetrig /\ a.to = {e}
  <2>1. [at |-> Now + duration, trig |-> timetrig, to |-> {e}] \in alarms'
    BY DEF SpinUntilTime, SetAlarm
  <2>. QED  BY <2>1
<1>. QED  BY <1>1, <1>2, WaitForModest

\* The flag after a trigger.
LEMMA FlagSet ==
  ASSUME pending \in BOOLEAN, pending' = (pending \/ dev' # dev)
  PROVE  pending' \in BOOLEAN /\ (pending' \/ (dev' = dev /\ ~pending))
<1>1. CASE dev' = dev
  BY <1>1, Zenon
<1>2. CASE dev' # dev
  BY <1>2, Zenon
<1>. QED  BY <1>1, <1>2

LEMMA TriggerModest ==
  ASSUME IInv, NEW id, NEW told, Trigger(id, told)
  PROVE  Modest /\ SpinHasAlarm'
<1>1. dev' = Fired(dev, id, told) /\ pending' = (pending \/ dev' # dev)
      /\ UNCHANGED <<machine, sliceVars, alarms>>
  BY DEF Trigger
<1>2. pending' \in BOOLEAN /\ (pending' \/ (dev' = dev /\ ~pending))
  BY <1>1, FlagSet DEF IInv, Shape
<1>. DEFINE new == Fired(dev, id, told)
<1>4. \A d \in Devices : new[d].suspend = dev[d].suspend /\ new[d].next \subseteq dev[d].next
  BY FiredEffect
<1>5. IsDev(new)
  BY FiredEffect
<1>6. Modest
  BY <1>1, <1>2, <1>4, <1>5 DEF Modest, sliceVars
<1>3. SpinHasAlarm'
  BY <1>1, FiredEffect DEF IInv, SpinHasAlarm, Spinning
<1>. QED  BY <1>3, <1>6

LEMMA OperationModest ==
  ASSUME IInv, Operation, Alone
  PROVE  Modest /\ SpinHasAlarm'
<1>1. ASSUME NEW e \in Spinners, NEW eatcycles \in BOOLEAN, Yield(e, eatcycles)
      PROVE  Modest /\ SpinHasAlarm'
  <2>1. e = Executing
    BY DEF IInv, Shape, Alone, Spinners
  <2>. QED  BY <1>1, <2>1, SuspendModest DEF Yield
<1>2. ASSUME NEW e \in Spinners, NEW id \in Triggers \cup {e}, SpinUntilTrigger(e, id)
      PROVE  Modest /\ SpinHasAlarm'
  <2>2. e \in Devices => id \notin 0 .. TimeTriggers - 1
    BY SchedulerAssumption
  <2>. QED  BY <1>2, <2>2, WaitForModest DEF SpinUntilTrigger
<1>3. ASSUME NEW e \in Spinners, NEW duration \in Durations, SpinUntilTime(e, duration)
      PROVE  Modest /\ SpinHasAlarm'
  BY <1>3, SpinUntilTimeModest
<1>4. ASSUME NEW id \in Triggers, Trigger(id, Devices) PROVE Modest /\ SpinHasAlarm'
  BY <1>4, TriggerModest, SchedulerAssumption
<1>5. ASSUME NEW e \in Devices, Trigger(e, {e}) PROVE Modest /\ SpinHasAlarm'
  BY <1>5, TriggerModest, SchedulerAssumption
<1>6. ASSUME NEW id \in Triggers, NEW after \in Durations, TriggerAfter(id, after)
      PROVE  Modest /\ SpinHasAlarm'
  <2>1. Modest
    BY <1>6 DEF TriggerAfter, Modest, IInv, Shape, sliceVars
  <2>2. SpinHasAlarm'
    BY <1>6 DEF TriggerAfter, SetAlarm, IInv, SpinHasAlarm
  <2>. QED  BY <2>1, <2>2
<1>7. ASSUME NEW e \in Devices, NEW asserted \in BOOLEAN, Halt(e, asserted)
      PROVE  Modest /\ SpinHasAlarm'
  BY <1>7, SuspendModest, ResumeModest DEF Halt
<1>8. ASSUME NEW e \in Devices, ResetDevice(e) PROVE Modest /\ SpinHasAlarm'
  BY <1>8, SuspendModest, ResumeModest DEF ResetDevice
<1>9. ASSUME NEW e \in Devices, NEW period \in Periods, SetClock(e, period)
      PROVE  Modest /\ SpinHasAlarm'
  BY <1>9, SetClockModest
<1>10. ASSUME NEW boost \in Boosts, Boost(boost[1], boost[2]) PROVE Modest /\ SpinHasAlarm'
  BY <1>10 DEF Boost, Modest, IInv, Shape, sliceVars, SpinHasAlarm
<1>11. ASSUME NEW cycles, EatCycles(cycles) PROVE Modest /\ SpinHasAlarm'
  BY <1>11 DEF EatCycles, Modest, IInv, Shape, SpinHasAlarm
<1>. QED
  BY <1>1, <1>2, <1>3, <1>4, <1>5, <1>6, <1>7, <1>8, <1>9, <1>10, <1>11 DEF Operation

-----------------------------------------------------------------------------
\* The slice loop.

LEMMA BeginPassKeeps ==
  ASSUME IInv, BeginPass
  PROVE  IInv' /\ \A d \in Devices : "TIMESLICE" \in dev[d].suspend
                                        => "TIMESLICE" \notin dev'[d].suspend
<1>1. CASE pending
  <2>1. dev' = Applied(dev) /\ pending' = Changes(dev)
    BY <1>1 DEF BeginPass, StillPending
  <2>2. IsDev(dev')
    BY <2>1 DEF IInv, Shape, IsDev, DevFields, Applied
  <2>3. \A d \in Devices : /\ dev'[d].suspend = dev[d].next /\ dev'[d].waiting = dev[d].waiting
                           /\ dev'[d].next = dev[d].next \ {"TIMESLICE"}
                           /\ dev'[d].eat = dev[d].nexteat /\ dev'[d].nexteat = dev[d].nexteat
    BY <2>1 DEF IInv, Shape, IsDev, DevFields, Applied
  <2>4. OneSlice(dev')
    BY <2>3 DEF OneSlice
  <2>5. PendingWhenDiffer'
    <3>1. SUFFICES ASSUME ~Changes(dev), NEW d \in Devices PROVE dev'[d].suspend = dev'[d].next
      BY <2>1, <2>3 DEF PendingWhenDiffer
    <3>2. "TIMESLICE" \notin dev[d].next
      BY <3>1 DEF Changes, IInv, OneSlice
    <3>. QED  BY <2>3, <3>2
  <2>6. SpinHasAlarm'
    BY <2>3 DEF BeginPass, IInv, SpinHasAlarm
  <2>7. Shape' /\ RunnerIsFree' /\ FilesRest'
    BY <2>1, <2>2, NoneApart DEF BeginPass, IInv, Shape, RunnerIsFree, FilesRest, Executing, Changes
  <2>8. \A d \in Devices : "TIMESLICE" \in dev[d].suspend => "TIMESLICE" \notin dev'[d].suspend
    BY <2>3 DEF IInv, OneSlice
  <2>. QED  BY <2>4, <2>5, <2>6, <2>7, <2>8 DEF IInv
<1>2. CASE ~pending
  <2>1. UNCHANGED <<dev, pending, machine, files, alarms>> /\ phase' = "pass"
    BY <1>2 DEF BeginPass
  <2>2. \A d \in Devices : "TIMESLICE" \notin dev[d].suspend
    BY <1>2 DEF IInv, PendingWhenDiffer, OneSlice
  <2>3. RunnerIsFree'
    BY <2>1, NoneApart DEF RunnerIsFree, Executing
  <2>. QED  BY <2>1, <2>2, <2>3 DEF IInv, Shape, FilesRest, PendingWhenDiffer, SpinHasAlarm
<1>. QED  BY <1>1, <1>2

\* Account changes nothing but a local time.
LEMMA AccountKeeps ==
  ASSUME IInv, NEW d, NEW ran, Account(d, ran), phase' # "run",
         UNCHANGED <<machine, pending, alarms, files>>
  PROVE  IInv'
<1>1. IsDev(dev')
  BY DEF Account, IInv, Shape, IsDev, DevFields
<1>2. \A e \in Devices : /\ dev'[e].suspend = dev[e].suspend /\ dev'[e].next = dev[e].next
                         /\ dev'[e].eat = dev[e].eat /\ dev'[e].nexteat = dev[e].nexteat
                         /\ dev'[e].waiting = dev[e].waiting
  BY DEF Account, IInv, Shape, IsDev, DevFields
<1>3. RunnerIsFree'
  BY NoneApart DEF RunnerIsFree, Executing
<1>4. Shape' /\ FilesRest' /\ OneSlice(dev')
  BY <1>1, <1>2 DEF IInv, Shape, FilesRest, OneSlice
<1>5. PendingWhenDiffer' /\ SpinHasAlarm'
  BY <1>2 DEF IInv, PendingWhenDiffer, SpinHasAlarm
<1>. QED  BY <1>3, <1>4, <1>5 DEF IInv

\* The steps of timeslice that change no device and no alarm.
LEMMA StaysKeeps ==
  ASSUME IInv, UNCHANGED <<machine, dev, pending, alarms, files>>, RunnerIsFree'
  PROVE  IInv'
BY DEF IInv, Shape, FilesRest, OneSlice, PendingWhenDiffer, SpinHasAlarm

LEMMA RingKeeps ==
  ASSUME IInv, Ring
  PROVE  IInv'
<1>1. PICK a \in alarms : alarms' = alarms \ {a} /\ dev' = Fired(dev, a.trig, a.to)
  BY DEF Ring
<1>. DEFINE new == Fired(dev, a.trig, a.to)
<1>2. \A d \in Devices : /\ new[d].suspend = dev[d].suspend /\ new[d].next \subseteq dev[d].next
                         /\ new[d].eat = dev[d].eat /\ new[d].nexteat = dev[d].nexteat
                         /\ Spinning(new, d) => /\ Spinning(dev, d) /\ new[d].waiting = dev[d].waiting
                                                /\ ~(d \in a.to /\ dev[d].waiting = a.trig)
  BY FiredEffect
<1>3. pending' \in BOOLEAN /\ (pending' \/ (dev' = dev /\ ~pending))
  BY FlagSet DEF Ring, IInv, Shape
<1>4. IsDev(dev') /\ OneSlice(dev')
  BY <1>1, <1>2, FiredEffect DEF IInv, OneSlice
<1>5. Shape' /\ RunnerIsFree' /\ FilesRest'
  BY <1>3, <1>4, NoneApart DEF Ring, IInv, Shape, RunnerIsFree, FilesRest, Executing
<1>6. PendingWhenDiffer'
  BY <1>3 DEF IInv, PendingWhenDiffer
<1>7. SpinHasAlarm'
  <2>1. SUFFICES ASSUME NEW d \in Devices, Spinning(new, d)
                 PROVE  \E b \in alarms' : b.trig = new[d].waiting /\ b.to = {d}
    BY <1>1 DEF SpinHasAlarm, Spinning
  <2>2. PICK b \in alarms : b.trig = dev[d].waiting /\ b.to = {d}
    BY <1>2, <2>1 DEF IInv, SpinHasAlarm, Spinning
  <2>3. b # a
    BY <1>2, <2>1, <2>2
  <2>. QED  BY <1>1, <1>2, <2>1, <2>2, <2>3
<1>. QED  BY <1>4, <1>5, <1>6, <1>7 DEF IInv

LEMMA TimesliceKeeps ==
  ASSUME IInv, Timeslice
  PROVE  IInv'
<1>1. CASE BeginPass
  BY <1>1, BeginPassKeeps
<1>2. CASE IdleDevice
  BY <1>2, AccountKeeps DEF IdleDevice, codeVars
<1>3. CASE LeaveDevice
  <2>1. PICK n \in machine.cycles : Account(Executing, used + n)
    BY <1>3 DEF LeaveDevice
  <2>. QED  BY <1>3, <2>1, AccountKeeps DEF LeaveDevice, codeVars
<1>4. CASE Ring
  BY <1>4, RingKeeps
<1>5. CASE EnterDevice
  BY <1>5, StaysKeeps, NoneApart DEF EnterDevice, clockVars, codeVars, RunnerIsFree, Executing
<1>6. CASE NextInstruction
  BY <1>6, StaysKeeps, NoneApart
     DEF NextInstruction, clockVars, codeVars, RunnerIsFree, Executing, IInv
<1>7. CASE BeginTimeslice \/ PassOver \/ EndPass \/ BeginTimers \/ EndCallback \/ EndTimers
  <2>1. UNCHANGED <<machine, dev, pending, alarms, files>> /\ phase' # "run"
    BY <1>7 DEF BeginTimeslice, PassOver, EndPass, BeginTimers, EndCallback, EndTimers,
                clockVars, codeVars
  <2>. QED  BY <2>1, StaysKeeps, NoneApart DEF RunnerIsFree, Executing
<1>. QED  BY <1>1, <1>2, <1>3, <1>4, <1>5, <1>6, <1>7 DEF Timeslice

\* State files: where one is written no alarm is pending, so that nobody spins in it.
LEMMA FilesKeep ==
  ASSUME IInv, SaveState \/ LoadState
  PROVE  IInv'
<1>1. CASE SaveState
  <2>1. \A d \in Devices : ~Spinning(dev, d)
    BY <1>1 DEF SaveState, IInv, SpinHasAlarm, Spinning
  <2>2. FilesRest'
    BY <1>1, <2>1 DEF SaveState, IInv, Shape, FilesRest
  <2>3. UNCHANGED <<machine, dev, pending, alarms>> /\ RunnerIsFree'
    BY <1>1, NoneApart DEF SaveState, clockVars, codeVars, RunnerIsFree, Executing
  <2>. QED  BY <2>2, <2>3 DEF IInv, Shape, OneSlice, PendingWhenDiffer, SpinHasAlarm
<1>2. CASE LoadState
  <2>1. PICK f \in files : dev' = [d \in Devices |-> [f.dev[d] EXCEPT !.cycle = dev[d].cycle]]
    BY <1>2 DEF LoadState
  <2>2. IsDev(f.dev) /\ OneSlice(f.dev) /\ \A d \in Devices : ~Spinning(f.dev, d)
    BY DEF IInv, FilesRest
  <2>3. \A d \in Devices : /\ DOMAIN dev'[d] = DevFields
                           /\ dev'[d].suspend = f.dev[d].suspend /\ dev'[d].next = f.dev[d].next
                           /\ dev'[d].waiting = f.dev[d].waiting
    BY <2>1, <2>2 DEF IsDev, DevFields
  <2>4. Shape' /\ FilesRest' /\ RunnerIsFree'
    BY <1>2, <2>1, <2>3, NoneApart
       DEF LoadState, IInv, Shape, IsDev, FilesRest, RunnerIsFree, Executing
  <2>5. OneSlice(dev')
    BY <2>2, <2>3 DEF OneSlice
  <2>6. SpinHasAlarm'
    BY <2>2, <2>3 DEF SpinHasAlarm, Spinning
  <2>7. PendingWhenDiffer'
    BY <1>2 DEF LoadState, PendingWhenDiffer
  <2>. QED  BY <2>4, <2>5, <2>6, <2>7 DEF IInv
<1>. QED  BY <1>1, <1>2

LEMMA InitInv == Init => IInv
<1>1. SUFFICES ASSUME Init PROVE IInv
  OBVIOUS
<1>2. \A d \in Devices : /\ dev[d].suspend = {"RESET"} /\ dev[d].waiting = None
                         /\ "TIMESLICE" \notin dev[d].next
  BY <1>1 DEF Init
<1>3. Shape /\ RunnerIsFree /\ FilesRest
  BY <1>1, NoneApart DEF Init, Shape, IsDev, DevFields, RunnerIsFree, Executing, FilesRest
<1>4. PendingWhenDiffer
  BY <1>1 DEF Init, PendingWhenDiffer
<1>5. OneSlice(dev) /\ SpinHasAlarm
  BY <1>2, NoneApart DEF OneSlice, SpinHasAlarm
<1>. QED  BY <1>3, <1>4, <1>5 DEF IInv

LEMMA NextInv ==
  ASSUME IInv, [Next]_vars, Alone
  PROVE  IInv'
<1>1. CASE Timeslice
  BY <1>1, TimesliceKeeps
<1>2. CASE Operation
  BY <1>2, OperationModest, ModestKeeps
<1>3. CASE SaveState \/ LoadState
  BY <1>3, FilesKeep
<1>4. CASE AtHorizon \/ UNCHANGED vars
  BY <1>4, StaysKeeps DEF AtHorizon, vars, IInv, RunnerIsFree, Executing
<1>. QED  BY <1>1, <1>2, <1>3, <1>4 DEF Next

LEMMA Invariance ==
  ASSUME Alone
  PROVE  Spec => []IInv
<1>1. IInv /\ [Next]_vars => IInv'
  BY NextInv
<1>. QED  BY <1>1, InitInv, PTL DEF Spec

-----------------------------------------------------------------------------
\* While a request to suspend or resume a device, or to let it eat cycles, has not taken
\* effect, the slice loop is told to look for it.
THEOREM NoRequestForgotten ==
  ASSUME Alone
  PROVE  Spec => []PendingWhenDiffer
<1>1. IInv => PendingWhenDiffer
  BY DEF IInv
<1>. QED  BY <1>1, Invariance, PTL

\* A device that spins until a time has a timer that will release it, whatever happens
\* before: triggers, resets, loads, and ids that come round again.
THEOREM SpinnersAreWoken ==
  ASSUME Alone
  PROVE  Spec => []SpinHasAlarm
<1>1. IInv => SpinHasAlarm
  BY DEF IInv
<1>. QED  BY <1>1, Invariance, PTL

\* Whoever waits for the next time slice runs in it.
THEOREM YieldsEnd ==
  ASSUME Alone
  PROVE  Spec => YieldLastsOnePass
<1>1. ASSUME IInv, [Next]_vars, phase = "loop" /\ phase' = "pass"
      PROVE  BeginPass
  <2>1. CASE Timeslice
    BY <1>1, <2>1 DEF Timeslice, BeginTimeslice, PassOver, IdleDevice, EnterDevice,
       NextInstruction, LeaveDevice, EndPass, BeginTimers, Ring, EndCallback, EndTimers
  <2>2. CASE Operation
    BY <1>1, <2>2, OperationModest DEF Modest
  <2>3. CASE SaveState \/ LoadState \/ AtHorizon \/ UNCHANGED vars
    BY <1>1, <2>3 DEF SaveState, LoadState, AtHorizon, vars
  <2>. QED  BY <1>1, <2>1, <2>2, <2>3 DEF Next
<1>2. IInv /\ [Next]_vars =>
        [phase = "loop" /\ phase' = "pass" =>
           \A d \in Devices : "TIMESLICE" \in dev[d].suspend
                              => "TIMESLICE" \notin dev'[d].suspend]_vars
  BY <1>1, BeginPassKeeps
<1>. QED  BY <1>2, Invariance, PTL DEF Spec, YieldLastsOnePass

-----------------------------------------------------------------------------
\* A set of positions that is not empty has a least element.
LEMMA LeastPosition ==
  ASSUME NEW S \in SUBSET Nat, S # {}
  PROVE  Min(S) \in S /\ \A y \in S : Min(S) <= y
<1>. DEFINE R == {ss \in Nat \X Nat : ss[1] < ss[2]}
<1>1. IsWellFoundedOn(R, Nat)
  BY NatLessThanWellFounded DEF OpToRel
<1>2. \E x \in S : \A y \in S : ~(<<y, x>> \in R)
  <2>. HIDE DEF R
  <2>. QED  BY <1>1, WFMin
<1>3. \E x \in S : \A y \in S : x <= y
  <2>1. PICK x \in S : \A y \in S : ~(<<y, x>> \in R)
    BY <1>2
  <2>2. \A y \in S : <<y, x>> \in R <=> y < x
    OBVIOUS
  <2>3. ASSUME NEW y \in S PROVE x <= y
    <3>1. ~(y < x)
      BY <2>1, <2>2
    <3>2. x \in Nat /\ y \in Nat
      OBVIOUS
    <3>. QED  BY <3>1, <3>2
  <2>. QED  BY <2>3
<1>. QED  BY <1>3 DEF Min

\* What InsertAt puts where.
Inserted(r, T, s, k, e) ==
  /\ r \in Seq(T) /\ DOMAIN r = 1 .. Len(s) + 1
  /\ \A i \in 1 .. Len(s) + 1 : r[i] = IF i < k THEN s[i] ELSE IF i = k THEN e ELSE s[i - 1]

LEMMA InsertAtEntries ==
  ASSUME NEW T, NEW s \in Seq(T), NEW k \in 1 .. Len(s) + 1, NEW e \in T
  PROVE  Inserted(InsertAt(s, k, e), T, s, k, e)
<1>. DEFINE a == SubSeq(s, 1, k - 1)
            b == SubSeq(s, k, Len(s))
            c == a \o <<e>>
            r == InsertAt(s, k, e)
<1>1. /\ a \in Seq(T) /\ Len(a) = k - 1
      /\ \A i \in 1 .. k - 1 : a[i] = s[i]
  OBVIOUS
<1>2. /\ b \in Seq(T) /\ Len(b) = Len(s) - k + 1
      /\ \A i \in 1 .. Len(s) - k + 1 : b[i] = s[k + i - 1]
  OBVIOUS
<1>. HIDE DEF a, b
<1>3. /\ c \in Seq(T) /\ Len(c) = k /\ c[k] = e
      /\ \A i \in 1 .. k - 1 : c[i] = s[i]
  BY <1>1
<1>4. r = c \o b
  BY DEF InsertAt, a, b
<1>. HIDE DEF c, r
<1>5. r \in Seq(T) /\ Len(r) = Len(s) + 1
  BY <1>2, <1>3, <1>4
<1>6. ASSUME NEW i \in 1 .. Len(s) + 1
      PROVE  r[i] = IF i < k THEN s[i] ELSE IF i = k THEN e ELSE s[i - 1]
  <2>1. CASE i <= k
    BY <2>1, <1>2, <1>3, <1>4
  <2>2. CASE i > k
    <3>1. r[i] = b[i - Len(c)]
      <4>1. i \in 1 .. Len(c) + Len(b) /\ ~(i <= Len(c))
        BY <2>2, <1>2, <1>3
      <4>. QED  BY <4>1, <1>2, <1>3, <1>4
    <3>2. i - k \in 1 .. Len(s) - k + 1
      BY <2>2
    <3>. QED  BY <2>2, <3>1, <3>2, <1>2, <1>3
  <2>. QED  BY <2>1, <2>2
<1>. QED  BY <1>5, <1>6 DEF r, Inserted

\* What holds of 0 and, with a number, of the next, holds of all up to N.
LEMMA UpTo ==
  ASSUME NEW N \in Nat, NEW Q, 0 \in Q, \A n \in 0 .. N - 1 : n \in Q => n + 1 \in Q
  PROVE  \A n \in 0 .. N : n \in Q
<1>. DEFINE out == {n \in 0 .. N : n \notin Q}
<1>1. SUFFICES ASSUME out # {} PROVE FALSE
  OBVIOUS
<1>2. out \in SUBSET Nat
  OBVIOUS
<1>3. PICK m \in out : \A y \in out : m <= y
  BY <1>1, <1>2, LeastPosition
<1>4. m \in 1 .. N /\ m - 1 \in 0 .. N - 1
  BY <1>3
<1>5. m - 1 \notin out
  BY <1>3, <1>4
<1>6. m - 1 \in Q
  BY <1>4, <1>5
<1>7. (m - 1) + 1 \in Q
  BY <1>4, <1>6
<1>. QED  BY <1>3, <1>4, <1>7

\* A set of positions in a list that is not empty has a greatest element.
LEMMA GreatestPosition ==
  ASSUME NEW N \in Nat, NEW S \in SUBSET (0 .. N), S # {}
  PROVE  Max(S) \in S /\ \A y \in S : Max(S) >= y
<1>. DEFINE Q == {n \in 0 .. N : N - n \in S}
<1>1. Q \in SUBSET Nat /\ Q # {}
  <2>1. PICK y \in S : TRUE
    OBVIOUS
  <2>2. N - y \in 0 .. N /\ N - (N - y) = y
    OBVIOUS
  <2>. QED  BY <2>2
<1>2. PICK m \in Q : \A y \in Q : m <= y
  BY <1>1, LeastPosition
<1>3. N - m \in S
  BY <1>2
<1>4. \A y \in S : N - m >= y
  <2>1. SUFFICES ASSUME NEW y \in S PROVE N - m >= y
    OBVIOUS
  <2>2. y \in 0 .. N /\ N - (N - y) = y /\ N - y \in 0 .. N
    OBVIOUS
  <2>3. m <= N - y
    BY <1>2, <2>2
  <2>. QED  BY <1>2, <2>2, <2>3
<1>. QED  BY <1>3, <1>4 DEF Max

\* Picked is what its loop computes.
KeepNext(list, S, kept, n) ==
  IF list[n + 1] \in S THEN Append(kept[n], list[n + 1]) ELSE kept[n]

LEMMA PickedLoop ==
  ASSUME NEW T, NEW list \in Seq(T), NEW S
  PROVE  \E kept \in [0 .. Len(list) -> Seq(T)] :
           /\ kept[0] = <<>>
           /\ \A n \in 0 .. Len(list) - 1 : kept[n + 1] = KeepNext(list, S, kept, n)
           /\ Picked(list, S) = kept[Len(list)]
<1>. DEFINE N == Len(list)
            Up(kept, m) == /\ kept \in [0 .. m -> Seq(T)] /\ kept[0] = <<>>
                           /\ \A n \in 0 .. m - 1 : kept[n + 1] = KeepNext(list, S, kept, n)
            Q == {m \in 0 .. N : \E kept : Up(kept, m)}
<1>1. N \in Nat
  OBVIOUS
<1>2. 0 \in Q
  <2>1. Up([i \in 0 .. 0 |-> <<>>], 0)
    BY <1>1
  <2>. HIDE DEF Up
  <2>. QED  BY <1>1, <2>1
<1>3. ASSUME NEW m \in 0 .. N - 1, m \in Q
      PROVE  m + 1 \in Q
  <2>1. PICK kept : Up(kept, m)
    BY <1>3
  <2>. DEFINE more == [i \in 0 .. m + 1 |-> IF i <= m THEN kept[i] ELSE KeepNext(list, S, kept, m)]
  <2>2. KeepNext(list, S, kept, m) \in Seq(T)
    <3>1. kept[m] \in Seq(T) /\ list[m + 1] \in T
      BY <1>1, <2>1
    <3>. QED  BY <3>1 DEF KeepNext
  <2>3. more \in [0 .. m + 1 -> Seq(T)] /\ more[0] = <<>>
    BY <1>1, <2>1, <2>2
  <2>4. \A n \in 0 .. m : more[n + 1] = KeepNext(list, S, more, n)
    <3>1. ASSUME NEW n \in 0 .. m PROVE more[n + 1] = KeepNext(list, S, more, n)
      <4>1. more[n] = kept[n]
        OBVIOUS
      <4>2. KeepNext(list, S, more, n) = KeepNext(list, S, kept, n)
        BY <4>1 DEF KeepNext
      <4>3. CASE n < m
        <5>1. more[n + 1] = kept[n + 1] /\ n \in 0 .. m - 1
          BY <4>3
        <5>. QED  BY <2>1, <4>2, <5>1
      <4>4. CASE n = m
        BY <4>2, <4>4
      <4>. QED  BY <4>3, <4>4
    <3>. QED  BY <3>1
  <2>5. Up(more, m + 1)
    <3>1. (m + 1) - 1 = m
      OBVIOUS
    <3>. HIDE DEF more
    <3>. QED  BY <2>3, <2>4, <3>1
  <2>. HIDE DEF Up, more
  <2>. QED  BY <1>1, <2>5
<1>4. N \in Q
  <2>. HIDE DEF Q
  <2>1. \A n \in 0 .. N : n \in Q
    BY <1>1, <1>2, <1>3, UpTo
  <2>. QED  BY <1>1, <2>1
<1>5. PICK kept : Up(kept, N)
  BY <1>4
<1>. DEFINE Loop(f) == [n \in 0 .. Len(list) |->
                          IF n = 0 THEN <<>>
                          ELSE IF list[n] \in S THEN Append(f[n - 1], list[n]) ELSE f[n - 1]]
<1>6. ASSUME NEW f
      PROVE  f = Loop(f) => f = kept
  <2>1. SUFFICES ASSUME f = Loop(f) PROVE f = kept
    OBVIOUS
  <2>2. DOMAIN f = 0 .. N /\ f[0] = <<>>
    BY <1>1, <2>1
  <2>3. \A n \in 0 .. N - 1 : f[n + 1] = KeepNext(list, S, f, n)
    <3>1. ASSUME NEW n \in 0 .. N - 1 PROVE f[n + 1] = KeepNext(list, S, f, n)
      <4>1. n + 1 \in 0 .. Len(list) /\ n + 1 # 0 /\ (n + 1) - 1 = n
        BY <1>1
      <4>2. f[n + 1] = IF list[n + 1] \in S THEN Append(f[n], list[n + 1]) ELSE f[n]
        BY <2>1, <4>1
      <4>. QED  BY <4>2 DEF KeepNext
    <3>. QED  BY <3>1
  <2>. DEFINE E == {n \in 0 .. N : f[n] = kept[n]}
  <2>4. 0 \in E
    BY <1>1, <1>5, <2>2
  <2>5. ASSUME NEW n \in 0 .. N - 1, n \in E PROVE n + 1 \in E
    <3>1. f[n + 1] = kept[n + 1]
      BY <1>5, <2>3, <2>5 DEF KeepNext
    <3>. QED  BY <1>1, <3>1
  <2>6. \A n \in 0 .. N : n \in E
    <3>. HIDE DEF E
    <3>. QED  BY <1>1, <2>4, <2>5, UpTo
  <2>. QED  BY <1>5, <2>1, <2>6
<1>7. kept = Loop(kept)
  <2>1. ASSUME NEW n \in 0 .. N PROVE kept[n] = Loop(kept)[n]
    <3>1. CASE n = 0
      BY <1>5, <3>1
    <3>2. CASE n # 0
      <4>1. n - 1 \in 0 .. N - 1 /\ (n - 1) + 1 = n
        BY <1>1, <3>2
      <4>2. kept[n] = KeepNext(list, S, kept, n - 1)
        BY <1>5, <4>1
      <4>. QED  BY <3>2, <4>1, <4>2 DEF KeepNext
    <3>. QED  BY <3>1, <3>2
  <2>. QED  BY <1>5, <2>1
<1>8. Picked(list, S) = (CHOOSE f : f = Loop(f))[Len(list)]
  BY DEF Picked
<1>9. (CHOOSE f : f = Loop(f)) = kept
  <2>. HIDE DEF Loop
  <2>. QED  BY <1>6, <1>7
<1>. QED  BY <1>5, <1>8, <1>9

\* r is what the members of S among the first m of list make, and h says where each
\* comes from.
Keeps(r, list, S, m, h) ==
  /\ h \in [1 .. Len(r) -> 1 .. m]
  /\ \A i, j \in 1 .. Len(r) : i < j => h[i] < h[j]
  /\ \A i \in 1 .. Len(r) : r[i] = list[h[i]] /\ list[h[i]] \in S
  /\ \A p \in 1 .. m : list[p] \in S => \E i \in 1 .. Len(r) : h[i] = p

\* What is picked keeps its order and is all there is.
LEMMA PickedKeeps ==
  ASSUME NEW T, NEW list \in Seq(T), NEW S
  PROVE  /\ Picked(list, S) \in Seq(T)
         /\ \E h : Keeps(Picked(list, S), list, S, Len(list), h)
<1>1. PICK kept \in [0 .. Len(list) -> Seq(T)] :
           /\ kept[0] = <<>>
           /\ \A n \in 0 .. Len(list) - 1 : kept[n + 1] = KeepNext(list, S, kept, n)
           /\ Picked(list, S) = kept[Len(list)]
  BY PickedLoop
<1>. DEFINE N == Len(list)
            Q == {m \in 0 .. N : \E h : Keeps(kept[m], list, S, m, h)}
<1>2. N \in Nat
  OBVIOUS
<1>3. 0 \in Q
  <2>1. Keeps(<<>>, list, S, 0, <<>>)
    BY DEF Keeps
  <2>. QED  BY <1>1, <1>2, <2>1
<1>4. ASSUME NEW m \in 0 .. N - 1, m \in Q
      PROVE  m + 1 \in Q
  <2>1. PICK h : Keeps(kept[m], list, S, m, h)
    BY <1>4
  <2>2. PICK r \in Seq(T) : r = kept[m]
    BY <1>1, <1>2
  <2>3. PICK l \in Nat : l = Len(r)
    BY <2>2
  <2>4. m \in Nat /\ m + 1 \in 1 .. N /\ list[m + 1] \in T
    BY <1>2
  <2>5. kept[m + 1] = IF list[m + 1] \in S THEN Append(r, list[m + 1]) ELSE r
    BY <1>1, <2>2 DEF KeepNext
  <2>6. Keeps(r, list, S, m, h)
    BY <2>1, <2>2
  <2>7. CASE list[m + 1] \in S
    <3>. DEFINE s == Append(r, list[m + 1])
                g == [i \in 1 .. l + 1 |-> IF i <= l THEN h[i] ELSE m + 1]
    <3>1. /\ s \in Seq(T) /\ Len(s) = l + 1 /\ s[l + 1] = list[m + 1]
          /\ \A i \in 1 .. l : s[i] = r[i]
      BY <2>3, <2>4
    <3>. HIDE DEF s
    <3>2. g \in [1 .. l + 1 -> 1 .. m + 1]
      BY <2>3, <2>4, <2>6 DEF Keeps
    <3>3. \A i, j \in 1 .. l + 1 : i < j => g[i] < g[j]
      <4>1. SUFFICES ASSUME NEW i \in 1 .. l + 1, NEW j \in 1 .. l + 1, i < j PROVE g[i] < g[j]
        OBVIOUS
      <4>2. i \in 1 .. l /\ g[i] = h[i] /\ h[i] \in 1 .. m
        <5>1. i <= l /\ i \in 1 .. l
          BY <4>1
        <5>. QED  BY <5>1, <2>3, <2>6 DEF Keeps
      <4>3. CASE j <= l
        BY <4>1, <4>2, <4>3, <2>3, <2>6 DEF Keeps
      <4>4. CASE j = l + 1
        BY <4>2, <4>4, <2>4
      <4>. QED  BY <4>3, <4>4
    <3>4. \A i \in 1 .. l + 1 : s[i] = list[g[i]] /\ list[g[i]] \in S
      <4>1. SUFFICES ASSUME NEW i \in 1 .. l + 1 PROVE s[i] = list[g[i]] /\ list[g[i]] \in S
        OBVIOUS
      <4>2. CASE i <= l
        BY <4>2, <3>1, <2>3, <2>6 DEF Keeps
      <4>3. CASE i = l + 1
        BY <4>3, <3>1, <2>7
      <4>. QED  BY <4>2, <4>3
    <3>5. \A p \in 1 .. m + 1 : list[p] \in S => \E i \in 1 .. l + 1 : g[i] = p
      <4>1. SUFFICES ASSUME NEW p \in 1 .. m + 1, list[p] \in S PROVE \E i \in 1 .. l + 1 : g[i] = p
        OBVIOUS
      <4>2. CASE p = m + 1
        <5>1. l + 1 \in 1 .. l + 1 /\ g[l + 1] = m + 1
          OBVIOUS
        <5>. QED  BY <4>2, <5>1
      <4>3. CASE p # m + 1
        <5>. p \in 1 .. m
          BY <4>1, <4>3, <2>4
        <5>1. PICK i \in 1 .. l : h[i] = p
          BY <4>1, <2>3, <2>6 DEF Keeps
        <5>2. i \in 1 .. l + 1 /\ g[i] = p
          BY <5>1
        <5>. QED  BY <5>2
      <4>. QED  BY <4>2, <4>3
    <3>. HIDE DEF g
    <3>6. Keeps(s, list, S, m + 1, g)
      BY <3>1, <3>2, <3>3, <3>4, <3>5 DEF Keeps
    <3>7. kept[m + 1] = s
      BY <2>5, <2>7 DEF s
    <3>8. \E h1 : Keeps(kept[m + 1], list, S, m + 1, h1)
      BY <3>6, <3>7
    <3>. QED  BY <1>2, <2>4, <3>8
  <2>8. CASE list[m + 1] \notin S
    <3>1. h \in [1 .. Len(r) -> 1 .. m + 1]
      BY <2>3, <2>4, <2>6 DEF Keeps
    <3>2. \A p \in 1 .. m + 1 : list[p] \in S => p \in 1 .. m
      BY <2>4, <2>8
    <3>3. Keeps(r, list, S, m + 1, h)
      BY <2>6, <3>1, <3>2 DEF Keeps
    <3>. QED  BY <1>2, <2>4, <2>5, <2>8, <3>3
  <2>. QED  BY <2>7, <2>8
<1>5. N \in Q
  <2>. HIDE DEF Q
  <2>1. \A n \in 0 .. N : n \in Q
    BY <1>2, <1>3, <1>4, UpTo
  <2>. QED  BY <1>2, <2>1
<1>. QED  BY <1>1, <1>2, <1>5

\* The execute list as it is rebuilt: every device once, those that run before those that
\* do not, each group in the order of the tree.
InOrder(list, dv) ==
  /\ list \in Seq(Devices) /\ IsInjective(list) /\ ToSet(list) = Devices
  /\ \A i, j \in DOMAIN list :
       i < j => \/ dv[list[i]].suspend = {} /\ dv[list[j]].suspend # {}
                \/ /\ (dv[list[i]].suspend = {}) = (dv[list[j]].suspend = {})
                   /\ \A m, n \in DOMAIN DeviceOrder :
                        DeviceOrder[m] = list[i] /\ DeviceOrder[n] = list[j] => m < n

LEMMA TreeOrder ==
  /\ DeviceOrder \in Seq(Devices) /\ Len(DeviceOrder) \in Nat \ {0}
  /\ DOMAIN DeviceOrder = 1 .. Len(DeviceOrder)
  /\ \A m, n \in 1 .. Len(DeviceOrder) : DeviceOrder[m] = DeviceOrder[n] => m = n
  /\ \A d : d \in Devices <=> \E m \in 1 .. Len(DeviceOrder) : DeviceOrder[m] = d
  /\ \A m \in 1 .. Len(DeviceOrder) : DeviceOrder[m] \in Devices
<1>1. DeviceOrder \in Seq(Devices) /\ IsInjective(DeviceOrder) /\ DeviceOrder # <<>>
  BY SchedulerAssumption
<1>2. Len(DeviceOrder) \in Nat \ {0} /\ DOMAIN DeviceOrder = 1 .. Len(DeviceOrder)
  BY <1>1
<1>3. Devices = {DeviceOrder[i] : i \in DOMAIN DeviceOrder}
  BY DEF Devices, ToSet
<1>. QED  BY <1>1, <1>2, <1>3 DEF IsInjective

LEMMA RebuiltInOrder ==
  ASSUME NEW dv
  PROVE  InOrder(Rebuilt(dv), dv)
<1>. DEFINE o == DeviceOrder
            N == Len(DeviceOrder)
            running == {d \in Devices : dv[d].suspend = {}}
            rest == Devices \ running
<1>1. PICK a \in Seq(Devices) :
        a = Picked(o, running) /\ \E h : Keeps(a, o, running, N, h)
  BY TreeOrder, PickedKeeps
<1>2. PICK b \in Seq(Devices) : b = Picked(o, rest) /\ \E h : Keeps(b, o, rest, N, h)
  BY TreeOrder, PickedKeeps
<1>14. PICK ha : Keeps(a, o, running, N, ha)
  BY <1>1
<1>15. PICK hb : Keeps(b, o, rest, N, hb)
  BY <1>2
<1>3. PICK k \in Nat : k = Len(a)
  OBVIOUS
<1>17. PICK l \in Nat : l = Len(b)
  OBVIOUS
<1>. DEFINE r == a \o b
<1>4. /\ r \in Seq(Devices) /\ Len(r) = k + l /\ DOMAIN r = 1 .. k + l
      /\ \A i \in 1 .. k : r[i] = a[i]
      /\ \A i \in 1 .. k + l : ~(i <= k) => i - k \in 1 .. l /\ r[i] = b[i - k]
  BY <1>3, <1>17
<1>5. Rebuilt(dv) = r
  BY <1>1, <1>2 DEF Rebuilt
<1>. HIDE DEF r
<1>. DEFINE g == [i \in 1 .. k + l |-> IF i <= k THEN ha[i] ELSE hb[i - k]]
<1>6. ASSUME NEW i \in 1 .. k
      PROVE  /\ g[i] = ha[i] /\ g[i] \in 1 .. N /\ r[i] = o[g[i]] /\ r[i] \in running
             /\ \A j \in 1 .. k : i < j => g[i] < g[j]
  <2>1. i \in 1 .. k + l /\ r[i] = a[i] /\ g[i] = ha[i]
    BY <1>4
  <2>2. ha[i] \in 1 .. N /\ a[i] = o[ha[i]] /\ o[ha[i]] \in running
    BY <1>3, <1>14 DEF Keeps
  <2>3. ASSUME NEW j \in 1 .. k, i < j PROVE g[i] < g[j]
    <3>1. j \in 1 .. k + l /\ g[j] = ha[j]
      OBVIOUS
    <3>. QED  BY <1>3, <1>14, <2>1, <2>3, <3>1 DEF Keeps
  <2>. QED  BY <2>1, <2>2, <2>3
<1>7. ASSUME NEW i \in 1 .. k + l, ~(i <= k)
      PROVE  /\ g[i] = hb[i - k] /\ g[i] \in 1 .. N /\ r[i] = o[g[i]] /\ r[i] \in rest
             /\ \A j \in 1 .. k + l : i < j => g[i] < g[j]
  <2>1. i - k \in 1 .. Len(b) /\ r[i] = b[i - k] /\ g[i] = hb[i - k]
    BY <1>3, <1>17, <1>4, <1>7
  <2>2. hb[i - k] \in 1 .. N /\ b[i - k] = o[hb[i - k]] /\ o[hb[i - k]] \in rest
    BY <1>15, <2>1 DEF Keeps
  <2>3. ASSUME NEW j \in 1 .. k + l, i < j PROVE g[i] < g[j]
    <3>1. j - k \in 1 .. Len(b) /\ g[j] = hb[j - k] /\ i - k < j - k
      BY <1>3, <1>17, <1>4, <1>7, <2>3
    <3>. QED  BY <1>15, <2>1, <3>1 DEF Keeps
  <2>. QED  BY <2>1, <2>2, <2>3
<1>. HIDE DEF g
<1>8. \A i \in 1 .. k + l : g[i] \in 1 .. N /\ r[i] = o[g[i]]
  BY <1>6, <1>7
<1>9. \A i, j \in 1 .. k + l : r[i] = r[j] => g[i] = g[j]
  BY <1>8, TreeOrder
<1>10. ASSUME NEW i \in 1 .. k + l, NEW j \in 1 .. k + l, i < j
       PROVE  r[i] # r[j]
  <2>1. CASE j <= k
    <3>1. g[i] < g[j]
      BY <1>6, <1>10, <2>1
    <3>. QED  BY <1>8, <1>9, <3>1
  <2>2. CASE ~(i <= k)
    <3>1. g[i] < g[j]
      BY <1>7, <1>10, <2>2
    <3>. QED  BY <1>8, <1>9, <3>1
  <2>3. CASE i <= k /\ ~(j <= k)
    <3>1. i \in 1 .. k
      BY <2>3
    <3>. QED  BY <1>6, <1>7, <2>3, <3>1
  <2>. QED  BY <2>1, <2>2, <2>3
<1>11. IsInjective(r)
  <2>1. ASSUME NEW i \in 1 .. k + l, NEW j \in 1 .. k + l, r[i] = r[j] PROVE i = j
    <3>1. ~(i < j) /\ ~(j < i)
      BY <1>10, <2>1
    <3>. QED  BY <3>1
  <2>. QED  BY <1>4, <2>1 DEF IsInjective
<1>12. ToSet(r) = Devices
  <2>1. ASSUME NEW d \in Devices PROVE \E i \in 1 .. k + l : r[i] = d
    <3>1. PICK p \in 1 .. N : o[p] = d
      BY TreeOrder
    <3>2. CASE d \in running
      <4>1. PICK i \in 1 .. k : ha[i] = p
        BY <1>14, <1>3, <3>1, <3>2 DEF Keeps
      <4>2. r[i] = d /\ i \in 1 .. k + l
        BY <1>6, <3>1, <4>1
      <4>. QED  BY <4>2
    <3>3. CASE d \in rest
      <4>1. PICK i \in 1 .. l : hb[i] = p
        BY <1>15, <1>17, <3>1, <3>3 DEF Keeps
      <4>2. i + k \in 1 .. k + l /\ ~(i + k <= k) /\ (i + k) - k = i
        OBVIOUS
      <4>3. r[i + k] = d
        BY <1>7, <3>1, <4>1, <4>2
      <4>. QED  BY <4>2, <4>3
    <3>. QED  BY <3>2, <3>3
  <2>2. \A i \in 1 .. k + l : r[i] \in Devices
    BY <1>4
  <2>3. DOMAIN r = 1 .. k + l
    BY <1>4
  <2>. QED  BY <2>1, <2>2, <2>3 DEF ToSet
<1>13. ASSUME NEW i \in DOMAIN r, NEW j \in DOMAIN r, i < j
       PROVE  \/ dv[r[i]].suspend = {} /\ dv[r[j]].suspend # {}
              \/ /\ (dv[r[i]].suspend = {}) = (dv[r[j]].suspend = {})
                 /\ \A m, n \in DOMAIN DeviceOrder :
                        DeviceOrder[m] = r[i] /\ DeviceOrder[n] = r[j] => m < n
  <2>1. i \in 1 .. k + l /\ j \in 1 .. k + l
    BY <1>4
  <2>2. \A m, n \in DOMAIN DeviceOrder : DeviceOrder[m] = r[i] /\ DeviceOrder[n] = r[j]
                                            => m = g[i] /\ n = g[j]
    BY <1>8, <2>1, TreeOrder
  <2>3. CASE j <= k
    <3>1. i \in 1 .. k /\ j \in 1 .. k
      BY <1>13, <2>1, <2>3
    <3>2. g[i] < g[j] /\ r[i] \in running /\ r[j] \in running
      BY <1>6, <1>13, <3>1
    <3>. QED  BY <2>2, <3>2
  <2>4. CASE ~(i <= k)
    <3>1. ~(j <= k)
      BY <1>13, <2>1, <2>4
    <3>2. g[i] < g[j] /\ r[i] \in rest /\ r[j] \in rest
      BY <1>7, <1>13, <2>1, <2>4, <3>1
    <3>. QED  BY <2>2, <3>2
  <2>5. CASE i <= k /\ ~(j <= k)
    <3>1. i \in 1 .. k
      BY <2>1, <2>5
    <3>2. r[i] \in running /\ r[j] \in rest
      BY <1>6, <1>7, <2>1, <2>5, <3>1
    <3>. QED  BY <3>2
  <2>. QED  BY <2>3, <2>4, <2>5
<1>16. InOrder(r, dv)
  BY <1>4, <1>11, <1>12, <1>13, Zenon DEF InOrder
<1>. QED  BY <1>5, <1>16

-----------------------------------------------------------------------------
\* Perfect is what its loop computes.
ScanNext(dv, list, best, n) ==
  LET q == MinimumQuantum(dv, list[n + 1]) IN
  IF q < best[n].smallest THEN [smallest |-> q, perfect |-> best[n].smallest]
  ELSE IF q < best[n].perfect THEN [smallest |-> best[n].smallest, perfect |-> q]
  ELSE best[n]

Bests == [smallest : Nat, perfect : Nat]

LEMMA PerfectLoop ==
  ASSUME NEW dv, NEW list \in Seq(Devices), list # <<>>,
         \A d \in Devices : MinimumQuantum(dv, d) \in Nat
  PROVE  \E best \in [1 .. Len(list) -> Bests] :
           /\ best[1] = [smallest |-> MinimumQuantum(dv, list[1]), perfect |-> Second - 1]
           /\ \A n \in 1 .. Len(list) - 1 : best[n + 1] = ScanNext(dv, list, best, n)
           /\ Perfect(dv, list) = best[Len(list)].perfect
<1>. DEFINE N == Len(list)
            first == [smallest |-> MinimumQuantum(dv, list[1]), perfect |-> Second - 1]
            Up(best, m) == /\ best \in [1 .. m + 1 -> Bests] /\ best[1] = first
                           /\ \A n \in 1 .. m : best[n + 1] = ScanNext(dv, list, best, n)
            Q == {m \in 0 .. N - 1 : \E best : Up(best, m)}
<1>1. N \in Nat \ {0} /\ \A n \in 1 .. N : list[n] \in Devices
  OBVIOUS
<1>2. first \in Bests
  BY <1>1, SchedulerAssumption DEF Bests
<1>3. 0 \in Q
  <2>1. Up([i \in 1 .. 1 |-> first], 0)
    BY <1>2
  <2>. HIDE DEF Up
  <2>. QED  BY <1>1, <2>1
<1>4. ASSUME NEW m \in 0 .. (N - 1) - 1, m \in Q
      PROVE  m + 1 \in Q
  <2>1. PICK best : Up(best, m)
    BY <1>4
  <2>. DEFINE new == ScanNext(dv, list, best, m + 1)
              more == [i \in 1 .. (m + 1) + 1 |-> IF i <= m + 1 THEN best[i] ELSE new]
  <2>2. new \in Bests
    <3>1. best[m + 1] \in Bests /\ list[(m + 1) + 1] \in Devices
      BY <1>1, <2>1
    <3>2. MinimumQuantum(dv, list[(m + 1) + 1]) \in Nat
      BY <3>1
    <3>. QED  BY <3>1, <3>2 DEF ScanNext, Bests
  <2>3. more \in [1 .. (m + 1) + 1 -> Bests] /\ more[1] = first
    <3>. HIDE DEF new, first
    <3>. QED  BY <1>1, <2>1, <2>2
  <2>4. ASSUME NEW n \in 1 .. m + 1 PROVE more[n + 1] = ScanNext(dv, list, more, n)
    <3>1. more[n] = best[n]
      BY <1>1
    <3>2. ScanNext(dv, list, more, n) = ScanNext(dv, list, best, n)
      <4>. HIDE DEF more
      <4>. QED  BY <3>1 DEF ScanNext
    <3>3. CASE n <= m
      <4>1. n + 1 \in 1 .. (m + 1) + 1 /\ n + 1 <= m + 1 /\ n \in 1 .. m
        BY <1>1, <3>3
      <4>2. more[n + 1] = best[n + 1]
        <5>. HIDE DEF new
        <5>. QED  BY <4>1
      <4>. QED  BY <2>1, <3>2, <4>1, <4>2
    <3>4. CASE ~(n <= m)
      <4>1. n = m + 1 /\ ~(n + 1 <= m + 1) /\ n + 1 \in 1 .. (m + 1) + 1
        BY <1>1, <3>4
      <4>2. more[n + 1] = new
        <5>. HIDE DEF new
        <5>. QED  BY <4>1
      <4>. QED  BY <3>2, <4>1, <4>2
    <3>. QED  BY <3>3, <3>4
  <2>5. Up(more, m + 1)
    <3>. HIDE DEF more, first
    <3>. QED  BY <2>3, <2>4
  <2>. HIDE DEF Up, more
  <2>. QED  BY <1>1, <2>5
<1>5. N - 1 \in Q
  <2>. HIDE DEF Q
  <2>1. \A n \in 0 .. N - 1 : n \in Q
    <3>. DEFINE M == N - 1
    <3>1. M \in Nat
      BY <1>1
    <3>2. \A n \in 0 .. M - 1 : n \in Q => n + 1 \in Q
      BY <1>4
    <3>. HIDE DEF M
    <3>3. \A n \in 0 .. M : n \in Q
      BY <1>3, <3>1, <3>2, UpTo
    <3>. QED  BY <3>3 DEF M
  <2>. QED  BY <1>1, <2>1
<1>6. PICK best : Up(best, N - 1)
  BY <1>5
<1>7. /\ best \in [1 .. N -> Bests] /\ best[1] = first
      /\ \A n \in 1 .. N - 1 : best[n + 1] = ScanNext(dv, list, best, n)
  <2>1. (N - 1) + 1 = N
    BY <1>1
  <2>. HIDE DEF first
  <2>. QED  BY <1>6, <2>1
<1>. DEFINE Loop(f) ==
       [n \in 1 .. Len(list) |->
          LET q == MinimumQuantum(dv, list[n]) IN
          IF n = 1 THEN [smallest |-> q, perfect |-> Second - 1]
          ELSE IF q < f[n - 1].smallest
               THEN [smallest |-> q, perfect |-> f[n - 1].smallest]
          ELSE IF q < f[n - 1].perfect THEN [f[n - 1] EXCEPT !.perfect = q]
          ELSE f[n - 1]]
<1>8. ASSUME NEW f, NEW n \in 1 .. N, n # 1, f[n - 1] \in Bests
      PROVE  Loop(f)[n] = ScanNext(dv, list, f, n - 1)
  <2>1. (n - 1) + 1 = n
    BY <1>8
  <2>2. [f[n - 1] EXCEPT !.perfect = MinimumQuantum(dv, list[n])]
          = [smallest |-> f[n - 1].smallest, perfect |-> MinimumQuantum(dv, list[n])]
    BY <1>8 DEF Bests
  <2>. QED  BY <1>8, <2>1, <2>2 DEF ScanNext
<1>9. ASSUME NEW f
      PROVE  f = Loop(f) => f = best
  <2>1. SUFFICES ASSUME f = Loop(f) PROVE f = best
    OBVIOUS
  <2>2. DOMAIN f = 1 .. N /\ f[1] = first
    BY <1>1, <2>1
  <2>. DEFINE E == {n \in 0 .. N - 1 : f[n + 1] = best[n + 1]}
  <2>3. 0 \in E
    BY <1>1, <1>7, <2>2
  <2>4. ASSUME NEW n \in 0 .. (N - 1) - 1, n \in E PROVE n + 1 \in E
    <3>1. /\ (n + 1) + 1 \in 1 .. N /\ (n + 1) + 1 # 1 /\ ((n + 1) + 1) - 1 = n + 1
          /\ n + 1 \in 1 .. N - 1 /\ n + 1 \in 0 .. N - 1 /\ n + 1 \in 1 .. N
      BY <1>1
    <3>2. f[n + 1] = best[n + 1] /\ best[n + 1] \in Bests
      BY <1>7, <2>4, <3>1
    <3>3. Loop(f)[(n + 1) + 1] = ScanNext(dv, list, f, n + 1)
      <4>. HIDE DEF Loop
      <4>1. f[((n + 1) + 1) - 1] \in Bests
        BY <3>1, <3>2
      <4>2. Loop(f)[(n + 1) + 1] = ScanNext(dv, list, f, ((n + 1) + 1) - 1)
        BY <1>8, <3>1, <4>1
      <4>. QED  BY <3>1, <4>2
    <3>4. f[(n + 1) + 1] = ScanNext(dv, list, f, n + 1)
      <4>. HIDE DEF Loop
      <4>. QED  BY <2>1, <3>3
    <3>5. f[(n + 1) + 1] = best[(n + 1) + 1]
      BY <1>7, <3>1, <3>2, <3>4 DEF ScanNext
    <3>. QED  BY <3>1, <3>5
  <2>5. \A n \in 0 .. N - 1 : n \in E
    <3>. DEFINE M == N - 1
    <3>1. M \in Nat
      BY <1>1
    <3>. HIDE DEF E
    <3>2. \A n \in 0 .. M - 1 : n \in E => n + 1 \in E
      BY <2>4
    <3>. HIDE DEF M
    <3>3. \A n \in 0 .. M : n \in E
      BY <2>3, <3>1, <3>2, UpTo
    <3>. QED  BY <3>3 DEF M
  <2>6. \A n \in 1 .. N : f[n] = best[n]
    <3>1. ASSUME NEW n \in 1 .. N PROVE f[n] = best[n]
      <4>1. n - 1 \in 0 .. N - 1 /\ (n - 1) + 1 = n
        BY <1>1
      <4>. QED  BY <2>5, <4>1
    <3>. QED  BY <3>1
  <2>7. f = [n \in 1 .. N |-> f[n]]
    <3>. HIDE DEF Loop
    <3>1. Loop(f) = [n \in 1 .. N |-> Loop(f)[n]]
      BY DEF Loop
    <3>. QED  BY <2>1, <3>1
  <2>. QED  BY <1>7, <2>6, <2>7
<1>10. best = Loop(best)
  <2>1. ASSUME NEW n \in 1 .. N PROVE best[n] = Loop(best)[n]
    <3>1. CASE n = 1
      BY <1>7, <3>1
    <3>2. CASE n # 1
      <4>1. n - 1 \in 1 .. N - 1 /\ (n - 1) + 1 = n /\ n - 1 \in 1 .. N
        BY <1>1, <3>2
      <4>. HIDE DEF Loop
      <4>2. best[n - 1] \in Bests
        BY <1>7, <4>1
      <4>3. best[n] = ScanNext(dv, list, best, n - 1)
        BY <1>7, <4>1
      <4>. QED  BY <1>8, <3>2, <4>2, <4>3
    <3>. QED  BY <3>1, <3>2
  <2>2. DOMAIN Loop(best) = 1 .. N /\ Loop(best) = [n \in 1 .. N |-> Loop(best)[n]]
    OBVIOUS
  <2>3. best = [n \in 1 .. N |-> best[n]]
    BY <1>7
  <2>. HIDE DEF Loop
  <2>. QED  BY <2>1, <2>2, <2>3
<1>11. Perfect(dv, list) = (CHOOSE f : f = Loop(f))[Len(list)].perfect
  BY DEF Perfect
<1>12. (CHOOSE f : f = Loop(f)) = best
  <2>. HIDE DEF Loop
  <2>. QED  BY <1>9, <1>10
<1>. QED  BY <1>7, <1>11, <1>12

LEMMA PerfectType ==
  ASSUME NEW dv, NEW list \in Seq(Devices), list # <<>>,
         \A d \in Devices : MinimumQuantum(dv, d) \in Nat
  PROVE  Perfect(dv, list) \in Nat
<1>1. PICK best \in [1 .. Len(list) -> Bests] : Perfect(dv, list) = best[Len(list)].perfect
  BY PerfectLoop
<1>2. Len(list) \in 1 .. Len(list)
  OBVIOUS
<1>3. best[Len(list)] \in Bests
  BY <1>1, <1>2
<1>. QED  BY <1>1, <1>3 DEF Bests

\* s is the smallest of q[1] to q[n], the one at i, and p the smallest of the others, or top.
TwoBest(q, top, n, i, s, p) ==
  /\ i \in 1 .. n /\ q[i] = s /\ s <= p /\ p <= top
  /\ \A j \in 1 .. n : j # i => p <= q[j]
  /\ p = top \/ \E j \in 1 .. n : j # i /\ q[j] = p

LEMMA NextBest ==
  ASSUME NEW top \in Nat, NEW n \in Nat, NEW q \in [1 .. n + 1 -> 0 .. top], NEW i,
         NEW s \in Nat, NEW p \in Nat, TwoBest(q, top, n, i, s, p), NEW x, x = q[n + 1]
  PROVE  /\ x < s => TwoBest(q, top, n + 1, n + 1, x, s)
         /\ ~(x < s) /\ x < p => TwoBest(q, top, n + 1, i, s, x)
         /\ ~(x < p) => TwoBest(q, top, n + 1, i, s, p)
<1>1. x \in Nat /\ x <= top /\ n + 1 \in 1 .. n + 1
  OBVIOUS
<1>2. /\ i \in 1 .. n /\ q[i] = s /\ s <= p /\ p <= top
      /\ \A j \in 1 .. n : j # i => p <= q[j]
      /\ p = top \/ \E j \in 1 .. n : j # i /\ q[j] = p
  BY DEF TwoBest
<1>3. \A j \in 1 .. n : j \in 1 .. n + 1 /\ j # n + 1 /\ q[j] \in Nat
  OBVIOUS
<1>4. \A j \in 1 .. n + 1 : j # n + 1 => j \in 1 .. n
  OBVIOUS
<1>5. ASSUME x < s PROVE TwoBest(q, top, n + 1, n + 1, x, s)
  <2>1. \A j \in 1 .. n + 1 : j # n + 1 => s <= q[j]
    <3>1. SUFFICES ASSUME NEW j \in 1 .. n + 1, j # n + 1 PROVE s <= q[j]
      OBVIOUS
    <3>2. j \in 1 .. n /\ q[j] \in Nat
      BY <1>3, <1>4, <3>1
    <3>3. CASE j = i
      BY <1>2, <3>3
    <3>4. CASE j # i
      <4>1. p <= q[j]
        BY <1>2, <3>2, <3>4
      <4>. QED  BY <1>2, <3>2, <4>1
    <3>. QED  BY <3>3, <3>4
  <2>2. i \in 1 .. n + 1 /\ i # n + 1 /\ q[i] = s
    BY <1>2, <1>3
  <2>3. x <= s /\ s <= top
    BY <1>1, <1>2, <1>5
  <2>. QED  BY <1>1, <2>1, <2>2, <2>3 DEF TwoBest
<1>6. ASSUME ~(x < s), x < p PROVE TwoBest(q, top, n + 1, i, s, x)
  <2>1. \A j \in 1 .. n + 1 : j # i => x <= q[j]
    <3>1. SUFFICES ASSUME NEW j \in 1 .. n + 1, j # i PROVE x <= q[j]
      OBVIOUS
    <3>2. CASE j = n + 1
      BY <1>1, <3>2
    <3>3. CASE j # n + 1
      <4>1. p <= q[j] /\ q[j] \in Nat
        BY <1>2, <1>3, <1>4, <3>1, <3>3
      <4>. QED  BY <1>1, <1>6, <4>1
    <3>. QED  BY <3>2, <3>3
  <2>2. i \in 1 .. n + 1 /\ i # n + 1
    BY <1>2, <1>3
  <2>3. s <= x /\ x <= top
    BY <1>1, <1>6
  <2>. QED  BY <1>1, <1>2, <2>1, <2>2, <2>3 DEF TwoBest
<1>7. ASSUME ~(x < p) PROVE TwoBest(q, top, n + 1, i, s, p)
  <2>1. \A j \in 1 .. n + 1 : j # i => p <= q[j]
    <3>1. SUFFICES ASSUME NEW j \in 1 .. n + 1, j # i PROVE p <= q[j]
      OBVIOUS
    <3>2. CASE j = n + 1
      BY <1>1, <1>7, <3>2
    <3>3. CASE j # n + 1
      BY <1>2, <1>4, <3>1, <3>3
    <3>. QED  BY <3>2, <3>3
  <2>2. i \in 1 .. n + 1
    BY <1>2, <1>3
  <2>. QED  BY <1>2, <1>3, <2>1, <2>2 DEF TwoBest
<1>. QED  BY <1>5, <1>6, <1>7

LEMMA DevicesFinite == IsFiniteSet(Devices)
<1>. DEFINE place == [m \in 1 .. Len(DeviceOrder) |-> DeviceOrder[m]]
<1>1. IsFiniteSet(1 .. Len(DeviceOrder))
  BY TreeOrder, FS_Interval
<1>2. place \in Surjection(1 .. Len(DeviceOrder), Devices)
  BY TreeOrder DEF Surjection
<1>. QED  BY <1>1, <1>2, FS_Surjection

\* A set with two members or more, and one with at most one.
LEMMA TwoMembers ==
  ASSUME NEW S, IsFiniteSet(S)
  PROVE  Cardinality(S) \in Nat /\ (Cardinality(S) >= 2 <=> \E x, y \in S : x # y)
<1>1. Cardinality(S) \in Nat
  BY FS_CardinalityType
<1>2. ASSUME NEW x \in S, NEW y \in S, x # y PROVE Cardinality(S) >= 2
  <2>1. S # {} /\ ~ \E z : S = {z}
    BY <1>2
  <2>2. Cardinality(S) # 0 /\ Cardinality(S) # 1
    BY <2>1, FS_EmptySet, FS_Singleton
  <2>. QED  BY <1>1, <2>2
<1>3. ASSUME Cardinality(S) >= 2 PROVE \E x, y \in S : x # y
  <2>1. Cardinality(S) # 0 /\ Cardinality(S) # 1
    BY <1>1, <1>3
  <2>2. S # {} /\ ~ \E z : S = {z}
    BY <2>1, FS_EmptySet, FS_Singleton
  <2>. QED  BY <2>2
<1>. QED  BY <1>1, <1>2, <1>3

\* The perfect interleave is the second smallest cycle time of all devices, however they
\* are listed.
LEMMA PerfectSecond ==
  ASSUME NEW dv, NEW list \in Seq(Devices), IsInjective(list), ToSet(list) = Devices,
         \A d \in Devices : MinimumQuantum(dv, d) \in 0 .. Second - 1
  PROVE  Perfect(dv, list) = SecondSmallest(dv) /\ Perfect(dv, list) \in 0 .. Second - 1
<1>. DEFINE N == Len(list)
            q == [j \in 1 .. N |-> MinimumQuantum(dv, list[j])]
            top == Second - 1
<1>1. /\ N \in Nat \ {0} /\ DOMAIN list = 1 .. N /\ list # <<>>
      /\ \A j \in 1 .. N : list[j] \in Devices
      /\ \A d \in Devices : \E j \in 1 .. N : list[j] = d
      /\ \A i, j \in 1 .. N : list[i] = list[j] => i = j
  <2>1. Devices = {list[j] : j \in DOMAIN list} /\ DOMAIN list = 1 .. N /\ N \in Nat
    BY DEF ToSet
  <2>2. Devices # {}
    BY TreeOrder
  <2>. QED  BY <2>1, <2>2 DEF IsInjective
<1>2. top \in Nat /\ q \in [1 .. N -> 0 .. top]
  BY <1>1, SchedulerAssumption
<1>3. \A j \in 1 .. N : q[j] = MinimumQuantum(dv, list[j])
  OBVIOUS
<1>4. PICK best \in [1 .. N -> Bests] :
        /\ best[1] = [smallest |-> MinimumQuantum(dv, list[1]), perfect |-> Second - 1]
        /\ \A n \in 1 .. N - 1 : best[n + 1] = ScanNext(dv, list, best, n)
        /\ Perfect(dv, list) = best[N].perfect
  <2>1. \A d \in Devices : MinimumQuantum(dv, d) \in Nat
    BY SchedulerAssumption
  <2>. QED  BY <1>1, <2>1, PerfectLoop
<1>5. best[1] = [smallest |-> q[1], perfect |-> top]
  BY <1>1, <1>3, <1>4
<1>6. \A n \in 1 .. N - 1 :
        best[n + 1] = IF q[n + 1] < best[n].smallest
                      THEN [smallest |-> q[n + 1], perfect |-> best[n].smallest]
                      ELSE IF q[n + 1] < best[n].perfect
                      THEN [smallest |-> best[n].smallest, perfect |-> q[n + 1]]
                      ELSE best[n]
  <2>1. ASSUME NEW n \in 1 .. N - 1 PROVE n + 1 \in 1 .. N
    BY <1>1
  <2>. HIDE DEF q
  <2>. QED  BY <1>3, <1>4, <2>1 DEF ScanNext
<1>. HIDE DEF q, top
<1>. DEFINE Good(n) == \E i : TwoBest(q, top, n, i, best[n].smallest, best[n].perfect)
            M == N - 1
            Q == {n \in 0 .. M : Good(n + 1)}
<1>7. 0 \in Q
  <2>1. TwoBest(q, top, 1, 1, q[1], top)
    <3>1. 1 \in 1 .. 1 /\ q[1] <= top /\ top <= top /\ \A j \in 1 .. 1 : j = 1
      BY <1>1, <1>2
    <3>. QED  BY <3>1 DEF TwoBest
  <2>2. Good(0 + 1)
    BY <1>5, <2>1
  <2>. QED  BY <1>1, <2>2
<1>8. ASSUME NEW m \in 0 .. M - 1, m \in Q PROVE m + 1 \in Q
  <2>1. PICK n \in 1 .. N - 1 : n = m + 1
    BY <1>1
  <2>2. n \in 1 .. N /\ n + 1 \in 1 .. N /\ n \in Nat /\ 1 .. n + 1 \subseteq 1 .. N
    BY <1>1, <2>1
  <2>3. PICK i : TwoBest(q, top, n, i, best[n].smallest, best[n].perfect)
    BY <1>8, <2>1
  <2>4. PICK s \in Nat, p \in Nat : s = best[n].smallest /\ p = best[n].perfect
    <3>1. best[n] \in Bests
      BY <1>4, <2>2
    <3>. QED  BY <3>1 DEF Bests
  <2>. DEFINE r == [j \in 1 .. n + 1 |-> q[j]]
  <2>5. r \in [1 .. n + 1 -> 0 .. top] /\ \A j \in 1 .. n + 1 : r[j] = q[j]
    BY <1>2, <2>2
  <2>6. \A k \in 1 .. n + 1 : \A i1, s1, p1 :
          TwoBest(r, top, k, i1, s1, p1) <=> TwoBest(q, top, k, i1, s1, p1)
    <3>1. SUFFICES ASSUME NEW k \in 1 .. n + 1, NEW i1, NEW s1, NEW p1
                   PROVE  TwoBest(r, top, k, i1, s1, p1) <=> TwoBest(q, top, k, i1, s1, p1)
      OBVIOUS
    <3>2. \A j \in 1 .. k : r[j] = q[j]
      BY <2>2, <2>5
    <3>. HIDE DEF r
    <3>. QED  BY <3>2 DEF TwoBest
  <2>. HIDE DEF r
  <2>7. n \in 1 .. n + 1 /\ n + 1 \in 1 .. n + 1
    BY <2>2
  <2>8. TwoBest(r, top, n, i, s, p) /\ r[n + 1] = q[n + 1]
    BY <2>3, <2>4, <2>5, <2>6, <2>7
  <2>9. PICK x : x = q[n + 1]
    OBVIOUS
  <2>10. /\ x < s => TwoBest(r, top, n + 1, n + 1, x, s)
         /\ ~(x < s) /\ x < p => TwoBest(r, top, n + 1, i, s, x)
         /\ ~(x < p) => TwoBest(r, top, n + 1, i, s, p)
    BY <1>2, <2>2, <2>5, <2>8, <2>9, NextBest
  <2>11. /\ x < s => best[n + 1].smallest = x /\ best[n + 1].perfect = s
         /\ ~(x < s) /\ x < p => best[n + 1].smallest = s /\ best[n + 1].perfect = x
         /\ ~(x < s) /\ ~(x < p) => best[n + 1].smallest = s /\ best[n + 1].perfect = p
    <3>1. best[n + 1] = IF x < s THEN [smallest |-> x, perfect |-> s]
                        ELSE IF x < p THEN [smallest |-> s, perfect |-> x] ELSE best[n]
      BY <1>6, <2>4, <2>9
    <3>2. CASE x < s
      BY <3>1, <3>2, <2>4
    <3>3. CASE ~(x < s) /\ x < p
      BY <3>1, <3>3, <2>4
    <3>4. CASE ~(x < s) /\ ~(x < p)
      BY <3>1, <3>4, <2>4
    <3>. QED  BY <2>2, <3>2, <3>3, <3>4
  <2>12. Good(n + 1)
    <3>1. CASE x < s
      BY <3>1, <2>6, <2>7, <2>10, <2>11
    <3>2. CASE ~(x < s) /\ x < p
      BY <3>2, <2>6, <2>7, <2>10, <2>11
    <3>3. CASE ~(x < s) /\ ~(x < p)
      BY <3>3, <2>6, <2>7, <2>10, <2>11
    <3>. QED  BY <3>1, <3>2, <3>3
  <2>. HIDE DEF Good
  <2>. QED  BY <1>1, <2>1, <2>12
<1>9. Good(N)
  <2>1. M \in Nat /\ M + 1 = N
    BY <1>1
  <2>. HIDE DEF M, Good
  <2>2. \A n \in 0 .. M : n \in Q
    <3>. HIDE DEF Q
    <3>. QED  BY <1>7, <1>8, <2>1, UpTo
  <2>3. M \in Q
    BY <2>1, <2>2
  <2>. QED  BY <2>1, <2>3
<1>10. PICK i, s \in Nat, p \in Nat : TwoBest(q, top, N, i, s, p) /\ Perfect(dv, list) = p
  <2>1. best[N] \in Bests
    BY <1>1, <1>4
  <2>2. PICK s \in Nat, p \in Nat : s = best[N].smallest /\ p = best[N].perfect
    BY <2>1 DEF Bests
  <2>3. PICK i : TwoBest(q, top, N, i, s, p)
    BY <1>9, <2>2
  <2>4. i \in Nat
    BY <2>3, <1>1 DEF TwoBest
  <2>. QED  BY <1>4, <2>2, <2>3, <2>4
<1>. DEFINE upto(x) == {d \in Devices : MinimumQuantum(dv, d) <= x}
            reached == {x \in {MinimumQuantum(dv, d) : d \in Devices} : Cardinality(upto(x)) >= 2}
<1>11. \A x : IsFiniteSet(upto(x))
  BY DevicesFinite, FS_Subset
<1>12. \A x : Cardinality(upto(x)) >= 2 <=> \E d, e \in upto(x) : d # e
  <2>. HIDE DEF upto
  <2>. QED  BY <1>11, TwoMembers
<1>13. p \in {Second - 1} \cup reached
  <2>1. CASE p = top
    BY <2>1 DEF top
  <2>2. CASE p # top
    <3>1. PICK j \in 1 .. N : j # i /\ q[j] = p
      BY <1>10, <2>2 DEF TwoBest
    <3>2. i \in 1 .. N /\ q[i] = s /\ s <= p
      BY <1>10 DEF TwoBest
    <3>3. list[i] \in upto(p) /\ list[j] \in upto(p) /\ list[i] # list[j]
      BY <1>1, <1>3, <1>10, <3>1, <3>2
    <3>4. p \in {MinimumQuantum(dv, d) : d \in Devices}
      BY <1>1, <1>3, <3>1
    <3>5. Cardinality(upto(p)) >= 2
      BY <1>12, <3>3
    <3>. QED  BY <3>4, <3>5
  <2>. QED  BY <2>1, <2>2
<1>14. ASSUME NEW x \in {Second - 1} \cup reached PROVE x \in Int /\ p <= x
  <2>1. CASE x = Second - 1
    BY <1>2, <1>10, <2>1 DEF TwoBest, top
  <2>2. CASE x \in reached
    <3>1. x \in Nat
      BY <2>2, SchedulerAssumption
    <3>2. PICK d \in upto(x), e \in upto(x) : d # e
      BY <1>12, <2>2
    <3>3. PICK j \in 1 .. N : j # i /\ list[j] \in upto(x)
      <4>1. PICK j \in 1 .. N, k \in 1 .. N : list[j] = d /\ list[k] = e
        BY <1>1, <3>2
      <4>2. j # k
        BY <3>2, <4>1
      <4>. QED  BY <3>2, <4>1, <4>2
    <3>4. p <= q[j] /\ q[j] <= x /\ q[j] \in Nat
      BY <1>2, <1>3, <1>10, <3>3 DEF TwoBest
    <3>. QED  BY <1>10, <3>1, <3>4
  <2>. QED  BY <2>1, <2>2
<1>15. SecondSmallest(dv) = Min({Second - 1} \cup reached)
  BY DEF SecondSmallest
<1>. DEFINE all == {Second - 1} \cup reached
<1>16. Min(all) = p
  <2>1. p \in all /\ \A x \in all : x \in Int /\ p <= x
    BY <1>13, <1>14
  <2>. HIDE DEF all
  <2>2. \A x \in all : (\A y \in all : x <= y) => x = p
    BY <1>10, <2>1
  <2>. QED  BY <2>1, <2>2 DEF Min
<1>17. p \in 0 .. Second - 1
  BY <1>2, <1>10 DEF TwoBest, top
<1>. QED  BY <1>10, <1>15, <1>16, <1>17

-----------------------------------------------------------------------------
\* The list of quanta: in strict order, each cut to the minimum, and one of them for ever.
QuantaSound(list, min) ==
  /\ list \in Seq(QuantumRec)
  /\ \A i, j \in DOMAIN list : i < j => list[i].requested < list[j].requested
  /\ \A i \in DOMAIN list : list[i].actual = Larger(list[i].requested, min)
  /\ \E i \in DOMAIN list : list[i].requested = machine.quantum /\ list[i].expire = Never

LEMMA LargerFacts ==
  ASSUME NEW x \in Int, NEW y \in Int
  PROVE  /\ Larger(x, y) \in {x, y} /\ x <= Larger(x, y) /\ y <= Larger(x, y)
         /\ \A z \in Int : x <= z /\ y <= z => Larger(x, y) <= z
BY DEF Larger

\* A quantum goes between those that are shorter and those that are longer.
LEMMA InsertSound ==
  ASSUME NEW s, NEW min, QuantaSound(s, min), NEW e \in QuantumRec, NEW m \in 0 .. Len(s),
         \A i \in 1 .. m : s[i].requested < e.requested,
         \A i \in 1 .. Len(s) : i > m => e.requested < s[i].requested,
         e.actual = Larger(e.requested, min)
  PROVE  QuantaSound(InsertAt(s, m + 1, e), min)
<1>1. PICK N \in Nat : N = Len(s) /\ DOMAIN s = 1 .. N /\ s \in Seq(QuantumRec)
  BY DEF QuantaSound
<1>2. PICK k \in 1 .. Len(s) + 1 : k = m + 1
  BY <1>1
<1>3. PICK r : r = InsertAt(s, k, e)
  OBVIOUS
<1>4. /\ r \in Seq(QuantumRec) /\ DOMAIN r = 1 .. Len(s) + 1
      /\ \A i \in 1 .. Len(s) + 1 :
           r[i] = IF i < k THEN s[i] ELSE IF i = k THEN e ELSE s[i - 1]
  <2>1. Inserted(InsertAt(s, k, e), QuantumRec, s, k, e)
    BY <1>1, InsertAtEntries
  <2>. QED  BY <1>3, <2>1 DEF Inserted
<1>5. \A i \in 1 .. N : s[i].requested \in Nat
  <2>1. \A q \in QuantumRec : q.requested \in Nat
    BY DEF QuantumRec
  <2>. QED  BY <1>1, <2>1
<1>6. e.requested \in Nat
  BY DEF QuantumRec
<1>7. \A i \in 1 .. N + 1 :
        \/ i \in 1 .. m /\ i \in 1 .. N /\ r[i] = s[i]
        \/ i = m + 1 /\ r[i] = e
        \/ i > m + 1 /\ i - 1 \in 1 .. N /\ i - 1 > m /\ r[i] = s[i - 1]
  BY <1>1, <1>2, <1>4
<1>8. ASSUME NEW i \in 1 .. N + 1, NEW j \in 1 .. N + 1, i < j
      PROVE  r[i].requested < r[j].requested
  <2>0. \A x, y \in 1 .. N : x < y => s[x].requested < s[y].requested
    BY <1>1 DEF QuantaSound
  <2>1. CASE i \in 1 .. m /\ i \in 1 .. N /\ r[i] = s[i]
    <3>1. CASE j \in 1 .. m /\ j \in 1 .. N /\ r[j] = s[j]
      BY <1>8, <2>0, <2>1, <3>1
    <3>2. CASE j = m + 1 /\ r[j] = e
      BY <2>1, <3>2
    <3>3. CASE j > m + 1 /\ j - 1 \in 1 .. N /\ j - 1 > m /\ r[j] = s[j - 1]
      <4>1. i < j - 1
        BY <1>1, <2>1, <3>3
      <4>. QED  BY <2>0, <2>1, <3>3, <4>1
    <3>. QED  BY <1>7, <3>1, <3>2, <3>3
  <2>2. CASE i = m + 1 /\ r[i] = e
    <3>1. j - 1 \in 1 .. N /\ j - 1 > m /\ r[j] = s[j - 1]
      BY <1>1, <1>7, <1>8, <2>2
    <3>. QED  BY <1>1, <2>2, <3>1
  <2>3. CASE i > m + 1 /\ i - 1 \in 1 .. N /\ i - 1 > m /\ r[i] = s[i - 1]
    <3>1. j - 1 \in 1 .. N /\ r[j] = s[j - 1] /\ i - 1 < j - 1
      BY <1>1, <1>7, <1>8, <2>3
    <3>. QED  BY <2>0, <2>3, <3>1
  <2>. QED  BY <1>7, <2>1, <2>2, <2>3
<1>9. \A i \in 1 .. N + 1 : r[i].actual = Larger(r[i].requested, min)
  <2>1. \A x \in 1 .. N : s[x].actual = Larger(s[x].requested, min)
    BY <1>1 DEF QuantaSound
  <2>. QED  BY <1>7, <2>1
<1>10. \E i \in 1 .. N + 1 : r[i].requested = machine.quantum /\ r[i].expire = Never
  <2>1. PICK f \in 1 .. N : s[f].requested = machine.quantum /\ s[f].expire = Never
    BY <1>1 DEF QuantaSound
  <2>2. CASE f <= m
    <3>1. f \in 1 .. N + 1 /\ f < k
      BY <1>2, <2>2
    <3>2. r[f] = s[f]
      BY <1>1, <1>4, <3>1
    <3>. QED  BY <2>1, <3>1, <3>2
  <2>3. CASE ~(f <= m)
    <3>1. f + 1 \in 1 .. N + 1 /\ ~(f + 1 < k) /\ f + 1 # k /\ (f + 1) - 1 = f
      BY <1>1, <1>2, <2>3
    <3>2. r[f + 1] = s[f]
      BY <1>1, <1>4, <3>1
    <3>. QED  BY <2>1, <3>1, <3>2
  <2>. QED  BY <2>2, <2>3
<1>11. DOMAIN r = 1 .. N + 1
  BY <1>1, <1>4
<1>12. QuantaSound(r, min)
  BY <1>4, <1>8, <1>9, <1>10, <1>11 DEF QuantaSound
<1>. QED  BY <1>2, <1>3, <1>12

\* Adding a quantum drops those that have expired, and the one that never does is kept.
LEMMA AddQuantumSound ==
  ASSUME NEW list, NEW min \in Nat, QuantaSound(list, min), NEW time \in Nat,
         NEW quantum \in Nat, NEW expire \in Nat
  PROVE  QuantaSound(AddQuantum(list, min, time, quantum, expire), min)
<1>. DEFINE live == {q \in ToSet(list) : ~Expired(q, time)}
<1>1. list \in Seq(QuantumRec) /\ Len(list) \in Nat /\ DOMAIN list = 1 .. Len(list)
  BY DEF QuantaSound
<1>2. PICK valid \in Seq(QuantumRec) :
        valid = Picked(list, live) /\ \E h : Keeps(valid, list, live, Len(list), h)
  BY <1>1, PickedKeeps
<1>3. PICK h : Keeps(valid, list, live, Len(list), h)
  BY <1>2
<1>4. PICK N \in Nat : N = Len(valid) /\ DOMAIN valid = 1 .. N
  OBVIOUS
<1>5. \A i \in 1 .. N : valid[i] \in QuantumRec /\ valid[i].requested \in Nat
  <2>1. \A i \in 1 .. N : valid[i] \in QuantumRec
    BY <1>4
  <2>2. \A q \in QuantumRec : q.requested \in Nat
    BY DEF QuantumRec
  <2>. QED  BY <2>1, <2>2
<1>6. \A i, j \in 1 .. N : i < j => valid[i].requested < valid[j].requested
  <2>1. SUFFICES ASSUME NEW i \in 1 .. N, NEW j \in 1 .. N, i < j
                 PROVE  valid[i].requested < valid[j].requested
    OBVIOUS
  <2>2. h[i] \in 1 .. Len(list) /\ h[j] \in 1 .. Len(list) /\ h[i] < h[j]
        /\ valid[i] = list[h[i]] /\ valid[j] = list[h[j]]
    BY <1>3, <1>4, <2>1 DEF Keeps
  <2>. QED  BY <1>1, <2>2 DEF QuantaSound
<1>7. \A i \in 1 .. N : valid[i].actual = Larger(valid[i].requested, min)
  <2>1. SUFFICES ASSUME NEW i \in 1 .. N PROVE valid[i].actual = Larger(valid[i].requested, min)
    OBVIOUS
  <2>2. h[i] \in 1 .. Len(list) /\ valid[i] = list[h[i]]
    BY <1>3, <1>4 DEF Keeps
  <2>. QED  BY <1>1, <2>2 DEF QuantaSound
<1>8. PICK f \in 1 .. N : valid[f].requested = machine.quantum /\ valid[f].expire = Never
  <2>1. PICK p \in 1 .. Len(list) : list[p].requested = machine.quantum /\ list[p].expire = Never
    BY <1>1 DEF QuantaSound
  <2>2. list[p] \in live
    BY <1>1, <2>1 DEF Expired, ToSet
  <2>3. PICK i \in 1 .. N : h[i] = p
    BY <1>3, <1>4, <2>2 DEF Keeps
  <2>4. valid[i] = list[p]
    BY <1>3, <1>4, <2>3 DEF Keeps
  <2>. QED  BY <2>1, <2>4
<1>. DEFINE before == {i \in DOMAIN valid : valid[i].requested <= quantum}
            after == Max(before \cup {0})
<1>9. after \in 0 .. N /\ after \in before \cup {0} /\ \A y \in before : after >= y
  <2>. DEFINE all == before \cup {0}
  <2>1. all \in SUBSET (0 .. N) /\ all # {}
    BY <1>4
  <2>. HIDE DEF all
  <2>2. Max(all) \in all /\ \A y \in all : Max(all) >= y
    BY <2>1, GreatestPosition
  <2>. QED  BY <2>1, <2>2 DEF all
<1>10. AddQuantum(list, min, time, quantum, expire) =
         IF after # 0 /\ valid[after].requested = quantum
         THEN [valid EXCEPT ![after].expire = LaterExpiry(@, expire)]
         ELSE InsertAt(valid, after + 1, [requested |-> quantum,
                                          actual |-> Larger(quantum, min),
                                          expire |-> expire])
  BY <1>2 DEF AddQuantum
<1>. HIDE DEF before, after
<1>11. CASE after # 0 /\ valid[after].requested = quantum
  <2>. DEFINE r == [valid EXCEPT ![after].expire = LaterExpiry(@, expire)]
  <2>1. after \in 1 .. N /\ valid[after] \in QuantumRec
    BY <1>5, <1>9, <1>11
  <2>2. LaterExpiry(valid[after].expire, expire) \in Nat \cup {Never}
    <3>1. valid[after].expire \in Nat \cup {Never} /\ Never \notin Nat
      BY <2>1, SchedulerAssumption DEF QuantumRec
    <3>. QED  BY <3>1 DEF LaterExpiry, Larger
  <2>. HIDE DEF live
  <2>3. /\ r \in Seq(QuantumRec) /\ DOMAIN r = 1 .. N
        /\ \A i \in 1 .. N : i # after => r[i] = valid[i]
    <3>1. [valid[after] EXCEPT !.expire = LaterExpiry(@, expire)] \in QuantumRec
      BY <2>1, <2>2 DEF QuantumRec
    <3>. QED  BY <1>4, <2>1, <3>1
  <2>4. /\ r[after].requested = valid[after].requested
        /\ r[after].actual = valid[after].actual
        /\ valid[after].expire = Never => r[after].expire = Never
    BY <1>4, <2>1 DEF QuantumRec, LaterExpiry
  <2>. HIDE DEF r
  <2>5. \A i \in 1 .. N : /\ r[i].requested = valid[i].requested /\ r[i].actual = valid[i].actual
                          /\ valid[i].expire = Never => r[i].expire = Never
    BY <2>3, <2>4
  <2>6. QuantaSound(r, min)
    BY <1>6, <1>7, <1>8, <2>3, <2>5 DEF QuantaSound
  <2>. QED  BY <1>10, <1>11, <2>6 DEF r
<1>12. CASE ~(after # 0 /\ valid[after].requested = quantum)
  <2>. DEFINE new == [requested |-> quantum, actual |-> Larger(quantum, min), expire |-> expire]
  <2>1. new \in QuantumRec
    BY LargerFacts DEF QuantumRec
  <2>2. new.requested = quantum /\ new.actual = Larger(quantum, min)
    OBVIOUS
  <2>. HIDE DEF new
  <2>5. \A i \in 1 .. after : i \in 1 .. N /\ valid[i].requested < quantum
    <3>1. SUFFICES ASSUME NEW i \in 1 .. after PROVE i \in 1 .. N /\ valid[i].requested < quantum
      OBVIOUS
    <3>2. i \in 1 .. N /\ after \in 1 .. N /\ after # 0
      BY <1>9
    <3>3. valid[after].requested < quantum
      <4>1. after \in before
        BY <1>9, <3>2
      <4>2. valid[after].requested <= quantum /\ valid[after].requested \in Nat
        BY <1>5, <3>2, <4>1 DEF before
      <4>. QED  BY <1>12, <3>2, <4>2
    <3>4. i < after => valid[i].requested < valid[after].requested
      BY <1>6, <3>2
    <3>. QED  BY <1>5, <3>2, <3>3, <3>4
  <2>6. \A i \in 1 .. N : i > after => quantum < valid[i].requested
    <3>1. SUFFICES ASSUME NEW i \in 1 .. N, i > after PROVE quantum < valid[i].requested
      OBVIOUS
    <3>2. i \notin before
      BY <1>9, <3>1
    <3>3. ~(valid[i].requested <= quantum)
      BY <1>4, <3>2 DEF before
    <3>. QED  BY <1>5, <3>3
  <2>7. QuantaSound(InsertAt(valid, after + 1, new), min)
    <3>1. PICK m \in 0 .. Len(valid) : m = after
      BY <1>4, <1>9
    <3>2. /\ \A i \in 1 .. m : valid[i].requested < new.requested
          /\ \A i \in 1 .. Len(valid) : i > m => new.requested < valid[i].requested
          /\ new.actual = Larger(new.requested, min)
      BY <1>4, <2>2, <2>5, <2>6, <3>1
    <3>3. QuantaSound(valid, min)
      BY <1>4, <1>6, <1>7, <1>8 DEF QuantaSound
    <3>4. QuantaSound(InsertAt(valid, m + 1, new), min)
      BY <2>1, <3>2, <3>3, InsertSound
    <3>. QED  BY <3>1, <3>4
  <2>. QED  BY <1>10, <1>12, <2>7 DEF new
<1>. QED  BY <1>11, <1>12

\* The loop in timeslice that drops expired quanta ends at one that has not expired.
LEMMA UnexpiredSound ==
  ASSUME NEW list, NEW min, QuantaSound(list, min), NEW time \in Nat
  PROVE  QuantaSound(UnexpiredFrom(list, time), min)
<1>. DEFINE valid == {i \in DOMAIN list : ~Expired(list[i], time)}
<1>1. list \in Seq(QuantumRec) /\ Len(list) \in Nat /\ DOMAIN list = 1 .. Len(list)
  BY DEF QuantaSound
<1>2. PICK f \in 1 .. Len(list) : list[f].requested = machine.quantum /\ list[f].expire = Never
  BY <1>1 DEF QuantaSound
<1>3. f \in valid
  BY <1>1, <1>2 DEF Expired
<1>4. valid \in SUBSET Nat /\ valid # {}
  BY <1>1, <1>3
<1>5. UnexpiredFrom(list, time) = SubSeq(list, Min(valid), Len(list))
  BY DEF UnexpiredFrom
<1>6. Min(valid) \in valid /\ Min(valid) <= f
  <2>. HIDE DEF valid
  <2>. QED  BY <1>3, <1>4, LeastPosition
<1>7. PICK k \in 1 .. Len(list) : k = Min(valid)
  BY <1>1, <1>6
<1>. DEFINE r == SubSeq(list, k, Len(list))
<1>8. /\ r \in Seq(QuantumRec) /\ DOMAIN r = 1 .. (Len(list) + 1) - k
      /\ \A i \in 1 .. (Len(list) + 1) - k : k + i - 1 \in 1 .. Len(list) /\ r[i] = list[k + i - 1]
  BY <1>1
<1>. HIDE DEF r, valid
<1>9. \A i, j \in DOMAIN r : i < j => r[i].requested < r[j].requested
  <2>1. SUFFICES ASSUME NEW i \in DOMAIN r, NEW j \in DOMAIN r, i < j
                 PROVE  r[i].requested < r[j].requested
    OBVIOUS
  <2>2. /\ k + i - 1 \in 1 .. Len(list) /\ k + j - 1 \in 1 .. Len(list)
        /\ k + i - 1 < k + j - 1 /\ r[i] = list[k + i - 1] /\ r[j] = list[k + j - 1]
    BY <1>8, <2>1
  <2>. QED  BY <1>1, <2>2 DEF QuantaSound
<1>10. \A i \in DOMAIN r : r[i].actual = Larger(r[i].requested, min)
  BY <1>1, <1>8 DEF QuantaSound
<1>11. \E i \in DOMAIN r : r[i] = list[f]
  <2>1. (f + 1) - k \in 1 .. (Len(list) + 1) - k /\ k + ((f + 1) - k) - 1 = f
    BY <1>1, <1>6, <1>7
  <2>2. r[(f + 1) - k] = list[f]
    BY <1>8, <2>1
  <2>. QED  BY <1>8, <2>1, <2>2
<1>12. QuantaSound(r, min)
  BY <1>2, <1>8, <1>9, <1>10, <1>11 DEF QuantaSound
<1>. QED  BY <1>5, <1>7, <1>12 DEF r

\* The actual quanta follow the minimum.
LEMMA RescaledSound ==
  ASSUME NEW list, NEW min, QuantaSound(list, min), NEW new \in Nat
  PROVE  QuantaSound([i \in DOMAIN list |->
                        [list[i] EXCEPT !.actual = Larger(list[i].requested, new)]], new)
<1>. DEFINE r == [i \in DOMAIN list |->
                    [list[i] EXCEPT !.actual = Larger(list[i].requested, new)]]
<1>1. list \in Seq(QuantumRec) /\ Len(list) \in Nat /\ DOMAIN list = 1 .. Len(list)
  BY DEF QuantaSound
<1>2. ASSUME NEW i \in 1 .. Len(list)
      PROVE  /\ r[i] \in QuantumRec /\ r[i].requested = list[i].requested
             /\ r[i].expire = list[i].expire /\ r[i].actual = Larger(list[i].requested, new)
  <2>1. list[i] \in QuantumRec /\ list[i].requested \in Nat
    <3>1. list[i] \in QuantumRec
      BY <1>1
    <3>. QED  BY <3>1 DEF QuantumRec
  <2>2. Larger(list[i].requested, new) \in Nat
    BY <2>1, LargerFacts
  <2>3. r[i] = [list[i] EXCEPT !.actual = Larger(list[i].requested, new)]
    BY <1>1
  <2>. QED  BY <2>1, <2>2, <2>3 DEF QuantumRec
<1>3. r \in Seq(QuantumRec) /\ DOMAIN r = 1 .. Len(list)
  <2>1. r = [i \in 1 .. Len(list) |-> r[i]] /\ DOMAIN r = 1 .. Len(list)
    BY <1>1
  <2>. HIDE DEF r
  <2>. QED  BY <1>1, <1>2, <2>1
<1>. HIDE DEF r
<1>4. QuantaSound(r, new)
  BY <1>1, <1>2, <1>3 DEF QuantaSound
<1>. QED  BY <1>4 DEF r

-----------------------------------------------------------------------------
\* The shape of things: what TypeOK says and what it rests on.
Ticking == \A d \in Devices : dev[d].cycle \in Clocks(d) \ {0}
InTurn == /\ phase \in {"pass", "run"} => turn >= 1
          /\ phase = "run" => turn <= Len(execlist)
Sound == TypeOK /\ Ticking /\ SuspendedLast /\ InTurn /\ QuantaSound(quanta, qmin)

\* The pass over the devices: where the target is, and what those have reached that had
\* their turn.
Passing == phase \in {"pass", "run"}
InReach(d) == base + LongestSlice < dev[d].time + Second
Reached(d) == \E cycle \in Clocks(d) : dev[d].time + cycle > target
HadTurn ==
  target = base \/ \A i \in 1 .. Len(execlist) :
                     i < turn /\ Runs(execlist[i]) /\ InReach(execlist[i])
                       => Reached(execlist[i])
Heard(a) ==
  \/ target = base
  \/ \E d \in Devices, n \in machine.cycles : target <= a.at + n * dev[d].cycle
  \/ phase = "run" /\ limit = used /\ Now <= a.at
Pace ==
  /\ qmin <= Second - 1
  /\ IF phase = "run" THEN used <= limit ELSE used = 0
  /\ Passing => /\ base <= target /\ target <= base + LongestSlice
                /\ HadTurn
                /\ "clock" \notin machine.ops => \A a \in alarms : Heard(a)

LEMMA DevFacts ==
  ASSUME NEW dv \in [Devices -> DevRec], NEW d \in Devices
  PROVE  /\ DOMAIN dv = Devices /\ dv[d] \in DevRec
         /\ DOMAIN dv[d] = {"suspend", "next", "eat", "nexteat", "waiting", "time", "period",
                            "cycle"}
         /\ dv[d].suspend \in SUBSET Reasons /\ dv[d].next \in SUBSET Reasons
         /\ dv[d].eat \in BOOLEAN /\ dv[d].nexteat \in BOOLEAN
         /\ dv[d].waiting \in TriggerIds \cup {None}
         /\ dv[d].time \in Nat /\ dv[d].period \in Nat /\ dv[d].cycle \in Nat
<1>1. dv[d] \in DevRec
  OBVIOUS
<1>. QED  BY <1>1 DEF DevRec

LEMMA MachineFacts ==
  ASSUME machine \in Machines
  PROVE  /\ machine.period \in [Devices -> Nat \ {0}] /\ machine.disabled \subseteq Devices
         /\ machine.cycles \subseteq Nat \ {0} /\ machine.cycles # {}
         /\ machine.quantum \in 1 .. Second - 1 /\ machine.quantum \in Nat
         /\ Second \in Nat \ {0}
BY SchedulerAssumption

LEMMA MinimumNat ==
  ASSUME NEW dv \in [Devices -> DevRec]
  PROVE  \A d \in Devices : MinimumQuantum(dv, d) \in Nat
BY DevFacts, SchedulerAssumption DEF MinimumQuantum

\* The execute list is a list of all devices.
LEMMA ListFacts ==
  ASSUME TypeOK, SuspendedLast
  PROVE  /\ execlist \in Seq(Devices) /\ execlist # <<>> /\ Len(execlist) \in Nat
         /\ DOMAIN execlist = 1 .. Len(execlist)
         /\ \A i \in 1 .. Len(execlist) : execlist[i] \in Devices
         /\ \A d \in Devices : \E i \in 1 .. Len(execlist) : execlist[i] = d
         /\ \A i, j \in 1 .. Len(execlist) : execlist[i] = execlist[j] => i = j
<1>1. execlist \in Seq(Devices)
  BY DEF TypeOK
<1>2. DOMAIN execlist = 1 .. Len(execlist) /\ Len(execlist) \in Nat
  BY <1>1
<1>3. Devices = {execlist[i] : i \in 1 .. Len(execlist)}
  BY <1>2 DEF SuspendedLast, ToSet
<1>4. \A i, j \in 1 .. Len(execlist) : execlist[i] = execlist[j] => i = j
  BY <1>2 DEF SuspendedLast, IsInjective
<1>5. execlist # <<>>
  BY <1>2, <1>3, TreeOrder
<1>. QED  BY <1>1, <1>2, <1>3, <1>4, <1>5

LEMMA InOrderIsSuspendedLast ==
  SuspendedLast /\ execlist \in Seq(Devices) <=> InOrder(execlist, dev)
BY DEF SuspendedLast, InOrder

\* While a device executes it is one of the devices, and the time is its own.
LEMMA Running ==
  ASSUME Sound
  PROVE  /\ phase = "run" => /\ turn \in 1 .. Len(execlist) /\ Executing = execlist[turn]
                             /\ Executing \in Devices
                             /\ Now = dev[Executing].time + used * dev[Executing].cycle
         /\ phase # "run" => Executing = None /\ Executing \notin Devices
         /\ Now \in Nat /\ Spinners \subseteq Devices
<1>1. CASE phase = "run"
  <2>1. turn \in 1 .. Len(execlist)
    BY <1>1 DEF Sound, TypeOK, InTurn
  <2>2. Executing = execlist[turn] /\ Executing \in Devices
    BY <1>1, <2>1, ListFacts DEF Sound, Executing
  <2>3. Now = dev[Executing].time + used * dev[Executing].cycle
    BY <1>1 DEF Now
  <2>4. Now \in Nat
    <3>1. PICK t \in Nat, c \in Nat, u \in Nat :
            t = dev[Executing].time /\ c = dev[Executing].cycle /\ u = used
      BY <2>2, DevFacts DEF Sound, TypeOK
    <3>2. t + u * c \in Nat
      OBVIOUS
    <3>. QED  BY <2>3, <3>1, <3>2
  <2>. QED  BY <1>1, <2>1, <2>2, <2>3, <2>4 DEF Spinners
<1>2. CASE phase # "run"
  <2>1. Executing = None /\ None \notin Devices
    BY <1>2, SchedulerAssumption DEF Executing
  <2>2. Now \in Nat
    BY <1>2 DEF Now, Sound, TypeOK
  <2>. QED  BY <1>2, <2>1, <2>2 DEF Spinners
<1>. QED  BY <1>1, <1>2

-----------------------------------------------------------------------------
\* What device code leaves alone, and what it may change.
Quiet ==
  /\ UNCHANGED <<machine, execlist, base, target, turn, calling, phase, files>>
  /\ \A d \in Devices : /\ dev'[d].suspend = dev[d].suspend /\ dev'[d].eat = dev[d].eat
                        /\ dev'[d].time = dev[d].time
                        /\ dev'[d].cycle \in Clocks(d) \ {0}
                        /\ "clock" \notin machine.ops => dev'[d].cycle = dev[d].cycle
  /\ dev' \in [Devices -> DevRec] /\ pending' \in BOOLEAN
  /\ used' \in Nat /\ limit' \in Nat
  /\ alarms' \in SUBSET AlarmRec /\ timetrig' \in 0 .. TimeTriggers - 1
  /\ qmin' \in Nat /\ QuantaSound(quanta', qmin')
  /\ "clock" \notin machine.ops => qmin' = qmin

LEMMA QuietKeeps ==
  ASSUME Sound, Quiet
  PROVE  Sound'
<1>1. TypeOK'
  <2>1. quanta' \in Seq(QuantumRec)
    BY DEF Quiet, QuantaSound
  <2>. QED  BY <2>1 DEF Sound, TypeOK, Quiet
<1>2. Ticking'
  BY DEF Sound, Ticking, Quiet, Clocks
<1>3. SuspendedLast'
  <2>1. \A i \in 1 .. Len(execlist) : dev'[execlist[i]].suspend = dev[execlist[i]].suspend
    BY ListFacts DEF Sound, Quiet
  <2>2. execlist' = execlist /\ DOMAIN execlist = 1 .. Len(execlist)
    BY ListFacts DEF Sound, Quiet
  <2>. QED  BY <2>1, <2>2 DEF Sound, SuspendedLast
<1>4. InTurn'
  BY DEF Sound, Quiet, InTurn
<1>5. QuantaSound(quanta, qmin)'
  BY DEF Quiet, QuantaSound
<1>. QED  BY <1>1, <1>2, <1>3, <1>4, <1>5 DEF Sound

\* Of calls that only change what holds from the next slice on.
Later ==
  /\ dev' \in [Devices -> DevRec]
  /\ \A d \in Devices : /\ dev'[d].suspend = dev[d].suspend /\ dev'[d].eat = dev[d].eat
                        /\ dev'[d].time = dev[d].time /\ dev'[d].cycle = dev[d].cycle

LEMMA LaterIsQuiet ==
  ASSUME Sound, Later, pending' \in BOOLEAN, limit' \in Nat, alarms' \in SUBSET AlarmRec,
         timetrig' \in 0 .. TimeTriggers - 1, UNCHANGED <<machine, sliceVars, quanta, qmin>>
  PROVE  Quiet
<1>1. QuantaSound(quanta', qmin')
  BY DEF Sound, QuantaSound
<1>. QED  BY <1>1 DEF Sound, TypeOK, Ticking, Later, Quiet, sliceVars

LEMMA LimitNat ==
  ASSUME Sound, NEW told, Abort(told)
  PROVE  limit' \in Nat
BY DEF Abort, Sound, TypeOK

LEMMA SuspendLater ==
  ASSUME Sound, NEW e \in Devices, NEW reason \in Reasons, NEW eatcycles \in BOOLEAN,
         Suspend(e, reason, eatcycles)
  PROVE  Later /\ pending' \in BOOLEAN /\ limit' \in Nat
<1>1. dev \in [Devices -> DevRec]
  BY DEF Sound, TypeOK
<1>2. dev' = [dev EXCEPT ![e] = [dev[e] EXCEPT !.next = dev[e].next \cup {reason},
                                              !.nexteat = eatcycles]]
  BY <1>1, DevFacts DEF Suspend
<1>3. dev[e].next \cup {reason} \in SUBSET Reasons
  BY <1>1, DevFacts
<1>4. [dev[e] EXCEPT !.next = dev[e].next \cup {reason}, !.nexteat = eatcycles] \in DevRec
  BY <1>1, <1>3 DEF DevRec
<1>5. Later
  BY <1>1, <1>2, <1>4, DevFacts DEF Later
<1>. QED  BY <1>5, LimitNat DEF Suspend

LEMMA ResumeLater ==
  ASSUME Sound, NEW e \in Devices, NEW reasons, Resume(e, reasons)
  PROVE  Later /\ pending' \in BOOLEAN /\ limit' \in Nat
<1>1. dev \in [Devices -> DevRec]
  BY DEF Sound, TypeOK
<1>2. dev' = [dev EXCEPT ![e] = [dev[e] EXCEPT !.next = dev[e].next \ reasons]]
  BY <1>1, DevFacts DEF Resume
<1>3. dev[e].next \ reasons \in SUBSET Reasons
  BY <1>1, DevFacts
<1>4. [dev[e] EXCEPT !.next = dev[e].next \ reasons] \in DevRec
  BY <1>1, <1>3 DEF DevRec
<1>5. Later
  BY <1>1, <1>2, <1>4, DevFacts DEF Later
<1>. QED  BY <1>5, LimitNat DEF Resume

LEMMA WaitForLater ==
  ASSUME Sound, NEW e \in Devices, NEW id \in TriggerIds, NEW eatcycles \in BOOLEAN,
         WaitFor(e, id, eatcycles)
  PROVE  Later /\ pending' \in BOOLEAN
<1>1. dev \in [Devices -> DevRec]
  BY DEF Sound, TypeOK
<1>2. dev' = [dev EXCEPT ![e] = [dev[e] EXCEPT !.next = dev[e].next \cup {"TRIGGER"},
                                              !.nexteat = eatcycles, !.waiting = id]]
  BY <1>1, DevFacts DEF WaitFor
<1>3. dev[e].next \cup {"TRIGGER"} \in SUBSET Reasons
  BY <1>1, DevFacts DEF Reasons
<1>4. [dev[e] EXCEPT !.next = dev[e].next \cup {"TRIGGER"}, !.nexteat = eatcycles,
                     !.waiting = id] \in DevRec
  BY <1>1, <1>3 DEF DevRec
<1>5. Later
  BY <1>1, <1>2, <1>4, DevFacts DEF Later
<1>. QED  BY <1>5 DEF WaitFor

LEMMA FiredLater ==
  ASSUME Sound, NEW id, NEW told, dev' = Fired(dev, id, told)
  PROVE  Later
<1>1. dev \in [Devices -> DevRec]
  BY DEF Sound, TypeOK
<1>2. ASSUME NEW d \in Devices
      PROVE  /\ dev'[d] \in DevRec
             /\ dev'[d].suspend = dev[d].suspend /\ dev'[d].eat = dev[d].eat
             /\ dev'[d].time = dev[d].time /\ dev'[d].cycle = dev[d].cycle
  <2>1. [dev[d] EXCEPT !.next = dev[d].next \ {"TRIGGER"}, !.waiting = None] \in DevRec
    <3>1. dev[d].next \ {"TRIGGER"} \in SUBSET Reasons
      BY <1>1, DevFacts
    <3>. QED  BY <1>1, <3>1 DEF DevRec
  <2>2. CASE d \in told /\ "TRIGGER" \in dev[d].next /\ dev[d].waiting = id
    <3>1. dev'[d] = [dev[d] EXCEPT !.next = dev[d].next \ {"TRIGGER"}, !.waiting = None]
      BY <1>1, <2>2, DevFacts DEF Fired
    <3>. QED  BY <1>1, <2>1, <3>1, DevFacts
  <2>3. CASE ~(d \in told /\ "TRIGGER" \in dev[d].next /\ dev[d].waiting = id)
    <3>1. dev'[d] = dev[d]
      BY <2>3 DEF Fired
    <3>. QED  BY <1>1, <3>1
  <2>. QED  BY <2>2, <2>3
<1>3. dev' = [d \in Devices |-> dev'[d]]
  BY DEF Fired
<1>. QED  BY <1>2, <1>3 DEF Later

LEMMA SetAlarmType ==
  ASSUME Sound, NEW at \in Nat, NEW id \in TriggerIds, NEW to \in SUBSET Devices,
         SetAlarm(at, id, to)
  PROVE  alarms' \in SUBSET AlarmRec
BY DEF SetAlarm, Sound, TypeOK, AlarmRec

\* A trigger id that device code can use.
LEMMA TriggersAreIds ==
  ASSUME NEW id, id \in Triggers \cup Devices \/ id = timetrig, Sound
  PROVE  id \in TriggerIds
BY DEF TriggerIds, Sound, TypeOK

LEMMA SetClockQuiet ==
  ASSUME Sound, NEW e \in Devices, NEW period \in Periods, SetClock(e, period)
  PROVE  Quiet
<1>1. /\ dev \in [Devices -> DevRec] /\ period \in Nat /\ period \in Clocks(e)
      /\ "clock" \in machine.ops /\ pending \in BOOLEAN /\ limit \in Nat
  BY SchedulerAssumption DEF Sound, TypeOK, SetClock, Clocks
<1>2. UNCHANGED <<machine, execlist, base, target, turn, used, calling, phase, files,
                  alarms, timetrig>>
  BY DEF SetClock, sliceVars
<1>3. CASE period = 0
  <2>1. dev' = [dev EXCEPT ![e] = [dev[e] EXCEPT !.period = 0, !.next = dev[e].next \cup {"CLOCK"},
                                                 !.nexteat = TRUE]]
    BY <1>1, <1>3, DevFacts DEF SetClock
  <2>2. pending' = TRUE /\ limit' \in Nat /\ UNCHANGED <<quanta, qmin>>
    BY <1>3, LimitNat DEF SetClock
  <2>3. dev[e].next \cup {"CLOCK"} \in SUBSET Reasons
    BY <1>1, DevFacts DEF Reasons
  <2>4. [dev[e] EXCEPT !.period = 0, !.next = dev[e].next \cup {"CLOCK"}, !.nexteat = TRUE]
          \in DevRec
    BY <1>1, <2>3 DEF DevRec
  <2>5. Later
    BY <1>1, <2>1, <2>4, DevFacts DEF Later
  <2>6. pending' \in BOOLEAN /\ limit' \in Nat /\ alarms' \in SUBSET AlarmRec
        /\ timetrig' \in 0 .. TimeTriggers - 1
        /\ UNCHANGED <<machine, sliceVars, quanta, qmin>>
    BY <1>1, <1>2, <2>2 DEF sliceVars, Sound, TypeOK
  <2>. QED  BY <2>5, <2>6, LaterIsQuiet
<1>4. CASE period # 0
  <2>1. dev' = [dev EXCEPT ![e] = [dev[e] EXCEPT !.period = period, !.cycle = period,
                                                 !.next = dev[e].next \ {"CLOCK"}]]
    BY <1>1, <1>4, DevFacts DEF SetClock
  <2>2. dev[e].next \ {"CLOCK"} \in SUBSET Reasons
    BY <1>1, DevFacts
  <2>3. [dev[e] EXCEPT !.period = period, !.cycle = period, !.next = dev[e].next \ {"CLOCK"}]
          \in DevRec
    BY <1>1, <2>2 DEF DevRec
  <2>4. dev' \in [Devices -> DevRec]
    BY <1>1, <2>1, <2>3
  <2>5. \A d \in Devices : /\ dev'[d].suspend = dev[d].suspend /\ dev'[d].eat = dev[d].eat
                           /\ dev'[d].time = dev[d].time
                           /\ dev'[d].cycle \in Clocks(d) \ {0}
    <3>1. SUFFICES ASSUME NEW d \in Devices
                   PROVE  /\ dev'[d].suspend = dev[d].suspend /\ dev'[d].eat = dev[d].eat
                          /\ dev'[d].time = dev[d].time
                          /\ dev'[d].cycle \in Clocks(d) \ {0}
      OBVIOUS
    <3>2. dev[d].cycle \in Clocks(d) \ {0}
      BY DEF Sound, Ticking
    <3>. QED  BY <1>1, <1>4, <2>1, <3>2, DevFacts
  <2>6. pending' \in BOOLEAN
    BY <1>4 DEF SetClock
  <2>7. limit' \in Nat
    BY <1>4, LimitNat DEF SetClock
  <2>8. qmin' \in Nat
    <3>1. \A d \in Devices : MinimumQuantum(dev', d) \in Nat
      BY <2>4, MinimumNat
    <3>2. execlist \in Seq(Devices) /\ execlist # <<>>
      BY ListFacts DEF Sound
    <3>3. qmin' = Perfect(dev', execlist)
      BY <1>4 DEF SetClock
    <3>4. PICK dv : dv = dev'
      OBVIOUS
    <3>5. Perfect(dv, execlist) \in Nat
      BY <3>1, <3>2, <3>4, PerfectType
    <3>. QED  BY <3>3, <3>4, <3>5
  <2>9. QuantaSound(quanta', qmin')
    <3>1. QuantaSound(quanta, qmin)
      BY DEF Sound
    <3>2. quanta' = IF qmin' = qmin THEN quanta
                    ELSE [i \in DOMAIN quanta |->
                            [quanta[i] EXCEPT !.actual = Larger(quanta[i].requested, qmin')]]
      BY <1>4 DEF SetClock
    <3>3. PICK m \in Nat : m = qmin'
      BY <2>8
    <3>4. QuantaSound([i \in DOMAIN quanta |->
                         [quanta[i] EXCEPT !.actual = Larger(quanta[i].requested, m)]], m)
      BY <3>1, <3>3, RescaledSound
    <3>5. CASE m = qmin
      BY <3>1, <3>2, <3>3, <3>5
    <3>6. CASE m # qmin
      BY <3>2, <3>3, <3>4, <3>6
    <3>. QED  BY <3>5, <3>6
  <2>. QED  BY <1>1, <1>2, <2>4, <2>5, <2>6, <2>7, <2>8, <2>9 DEF Quiet, Sound, TypeOK
<1>. QED  BY <1>3, <1>4

LEMMA BoostQuiet ==
  ASSUME Sound, NEW boost \in Boosts, Boost(boost[1], boost[2])
  PROVE  Quiet
<1>1. boost[1] \in Nat /\ boost[2] \in Nat
  BY SchedulerAssumption
<1>2. Now \in Nat /\ Now + boost[2] \in Nat
  BY <1>1, Running
<1>3. PICK now \in Nat : now = Now
  BY <1>2
<1>4. QuantaSound(quanta, qmin) /\ qmin \in Nat
  BY DEF Sound, TypeOK
<1>5. now + boost[2] \in Nat
  BY <1>1
<1>6. QuantaSound(AddQuantum(quanta, qmin, now, boost[1], now + boost[2]), qmin)
  BY <1>1, <1>4, <1>5, AddQuantumSound
<1>7. quanta' = AddQuantum(quanta, qmin, now, boost[1], now + boost[2])
  BY <1>3 DEF Boost
<1>8. QuantaSound(quanta', qmin')
  BY <1>6, <1>7 DEF Boost, QuantaSound
<1>. QED  BY <1>8 DEF Boost, Sound, TypeOK, Ticking, Quiet, sliceVars

LEMMA EatCyclesQuiet ==
  ASSUME Sound, NEW cycles \in {1, limit}, EatCycles(cycles)
  PROVE  Quiet /\ (used <= limit => used' <= limit /\ used <= used')
<1>1. used \in Nat /\ limit \in Nat /\ cycles \in Nat
  BY DEF Sound, TypeOK
<1>. DEFINE S == {used + cycles, limit}
<1>2. S \in SUBSET Nat /\ S # {}
  BY <1>1
<1>3. Min(S) \in S /\ \A x \in S : Min(S) <= x
  <2>. HIDE DEF S
  <2>. QED  BY <1>2, LeastPosition
<1>4. used' = Min(S)
  BY DEF EatCycles
<1>5. used' \in Nat /\ used' <= limit /\ (used <= limit => used <= used')
  BY <1>1, <1>3, <1>4
<1>6. QuantaSound(quanta', qmin')
  BY DEF EatCycles, Sound, QuantaSound
<1>. QED  BY <1>5, <1>6 DEF EatCycles, Sound, TypeOK, Ticking, Quiet

\* What device code does is quiet.
LEMMA OperationQuiet == Sound /\ Operation => Quiet
<1>. SUFFICES ASSUME Sound, Operation PROVE Quiet
  OBVIOUS
<1>0. /\ Spinners \subseteq Devices /\ Now \in Nat /\ alarms \in SUBSET AlarmRec
      /\ timetrig \in 0 .. TimeTriggers - 1 /\ pending \in BOOLEAN /\ limit \in Nat
  BY Running DEF Sound, TypeOK
<1>1. ASSUME NEW e \in Spinners, NEW eatcycles \in BOOLEAN, Yield(e, eatcycles) PROVE Quiet
  <2>1. Suspend(e, "TIMESLICE", eatcycles) /\ "TIMESLICE" \in Reasons /\ e \in Devices
    BY <1>0, <1>1 DEF Yield, Reasons
  <2>2. Later /\ pending' \in BOOLEAN /\ limit' \in Nat
    BY <2>1, SuspendLater
  <2>3. alarms' \in SUBSET AlarmRec /\ timetrig' \in 0 .. TimeTriggers - 1
        /\ UNCHANGED <<machine, sliceVars, quanta, qmin>>
    BY <1>0, <1>1 DEF Yield
  <2>. QED  BY <2>2, <2>3, LaterIsQuiet
<1>2. ASSUME NEW e \in Spinners, NEW id \in Triggers \cup {e}, SpinUntilTrigger(e, id) PROVE Quiet
  <2>1. WaitFor(e, id, TRUE) /\ e \in Devices /\ id \in TriggerIds /\ Abort({e})
    BY <1>0, <1>2 DEF SpinUntilTrigger, TriggerIds
  <2>2. Later /\ pending' \in BOOLEAN /\ limit' \in Nat
    BY <2>1, WaitForLater, LimitNat
  <2>3. alarms' \in SUBSET AlarmRec /\ timetrig' \in 0 .. TimeTriggers - 1
        /\ UNCHANGED <<machine, sliceVars, quanta, qmin>>
    BY <1>0, <1>2 DEF SpinUntilTrigger
  <2>. QED  BY <2>2, <2>3, LaterIsQuiet
<1>3. ASSUME NEW e \in Spinners, NEW duration \in Durations, SpinUntilTime(e, duration) PROVE Quiet
  <2>1. /\ WaitFor(e, timetrig, TRUE) /\ e \in Devices /\ timetrig \in TriggerIds
        /\ SetAlarm(Now + duration, timetrig, {e})
        /\ timetrig' = (timetrig + 1) % TimeTriggers
    BY <1>0, <1>3 DEF SpinUntilTime, TriggerIds
  <2>2. Later /\ pending' \in BOOLEAN
    BY <2>1, WaitForLater
  <2>3. Now + duration \in Nat
    BY <1>0, SchedulerAssumption
  <2>4. alarms' \in SUBSET AlarmRec
    BY <2>1, <2>3, SetAlarmType
  <2>5. timetrig' \in 0 .. TimeTriggers - 1
    BY <1>0, <2>1, SchedulerAssumption
  <2>6. limit' \in Nat
    BY <1>3, LimitNat DEF SpinUntilTime
  <2>7. UNCHANGED <<machine, sliceVars, quanta, qmin>>
    BY <1>3 DEF SpinUntilTime
  <2>. QED  BY <2>2, <2>4, <2>5, <2>6, <2>7, LaterIsQuiet
<1>4. ASSUME NEW id, NEW told, Trigger(id, told) PROVE Quiet
  <2>1. dev' = Fired(dev, id, told) /\ Abort(told)
    BY <1>4 DEF Trigger
  <2>2. Later /\ limit' \in Nat
    BY <2>1, FiredLater, LimitNat
  <2>3. pending' \in BOOLEAN
    BY <1>0, <1>4 DEF Trigger
  <2>4. alarms' \in SUBSET AlarmRec /\ timetrig' \in 0 .. TimeTriggers - 1
        /\ UNCHANGED <<machine, sliceVars, quanta, qmin>>
    BY <1>0, <1>4 DEF Trigger
  <2>. QED  BY <2>2, <2>3, <2>4, LaterIsQuiet
<1>5. ASSUME NEW id \in Triggers, NEW after \in Durations, TriggerAfter(id, after) PROVE Quiet
  <2>1. SetAlarm(Now + after, id, Devices) /\ Now + after \in Nat /\ id \in TriggerIds
    BY <1>0, <1>5, SchedulerAssumption DEF TriggerAfter, TriggerIds
  <2>2. alarms' \in SUBSET AlarmRec
    BY <2>1, SetAlarmType
  <2>3. limit' \in Nat
    BY <1>5, LimitNat DEF TriggerAfter
  <2>4. Later
    BY <1>5 DEF TriggerAfter, Later, Sound, TypeOK
  <2>5. pending' \in BOOLEAN /\ timetrig' \in 0 .. TimeTriggers - 1
        /\ UNCHANGED <<machine, sliceVars, quanta, qmin>>
    BY <1>0, <1>5 DEF TriggerAfter
  <2>. QED  BY <2>2, <2>3, <2>4, <2>5, LaterIsQuiet
<1>6. ASSUME NEW e \in Devices, NEW asserted \in BOOLEAN, Halt(e, asserted) PROVE Quiet
  <2>1. Later /\ pending' \in BOOLEAN /\ limit' \in Nat
    <3>1. CASE asserted
      BY <1>6, <3>1, SuspendLater DEF Halt, Reasons
    <3>2. CASE ~asserted
      BY <1>6, <3>2, ResumeLater DEF Halt
    <3>. QED  BY <3>1, <3>2
  <2>2. alarms' \in SUBSET AlarmRec /\ timetrig' \in 0 .. TimeTriggers - 1
        /\ UNCHANGED <<machine, sliceVars, quanta, qmin>>
    BY <1>0, <1>6 DEF Halt
  <2>. QED  BY <2>1, <2>2, LaterIsQuiet
<1>7. ASSUME NEW e \in Devices, ResetDevice(e) PROVE Quiet
  <2>1. Later /\ pending' \in BOOLEAN /\ limit' \in Nat
    <3>1. CASE e \in machine.disabled
      BY <1>7, <3>1, SuspendLater DEF ResetDevice, Reasons
    <3>2. CASE e \notin machine.disabled
      BY <1>7, <3>2, ResumeLater DEF ResetDevice
    <3>. QED  BY <3>1, <3>2
  <2>2. alarms' \in SUBSET AlarmRec /\ timetrig' \in 0 .. TimeTriggers - 1
        /\ UNCHANGED <<machine, sliceVars, quanta, qmin>>
    BY <1>0, <1>7 DEF ResetDevice
  <2>. QED  BY <2>1, <2>2, LaterIsQuiet
<1>. QED  BY <1>1, <1>2, <1>3, <1>4, <1>5, <1>6, <1>7, SetClockQuiet, BoostQuiet,
             EatCyclesQuiet DEF Operation

-----------------------------------------------------------------------------
\* The slice loop.
LEMMA QuantumAtHead ==
  ASSUME Sound
  PROVE  /\ Head(quanta).actual \in Nat
         /\ Head(quanta).actual <= Larger(machine.quantum, qmin)
<1>1. quanta \in Seq(QuantumRec) /\ Len(quanta) \in Nat /\ DOMAIN quanta = 1 .. Len(quanta)
  BY DEF Sound, QuantaSound
<1>2. PICK f \in 1 .. Len(quanta) : quanta[f].requested = machine.quantum
  BY <1>1 DEF Sound, QuantaSound
<1>3. 1 \in 1 .. Len(quanta) /\ Head(quanta) = quanta[1]
  BY <1>1, <1>2
<1>4. quanta[1] \in QuantumRec /\ quanta[f] \in QuantumRec
  BY <1>1, <1>3
<1>5. quanta[1].actual = Larger(quanta[1].requested, qmin)
  BY <1>1, <1>3 DEF Sound, QuantaSound
<1>6. 1 < f => quanta[1].requested < quanta[f].requested
  BY <1>1, <1>2, <1>3 DEF Sound, QuantaSound
<1>7. /\ quanta[1].requested \in Nat /\ quanta[1].actual \in Nat
      /\ quanta[f].requested \in Nat /\ qmin \in Nat
  BY <1>4 DEF QuantumRec, Sound, TypeOK
<1>8. quanta[1].requested <= machine.quantum
  BY <1>2, <1>6, <1>7
<1>9. Larger(quanta[1].requested, qmin) <= Larger(machine.quantum, qmin)
  BY <1>2, <1>7, <1>8 DEF Larger
<1>. QED  BY <1>3, <1>5, <1>7, <1>9

LEMMA TargetFacts ==
  ASSUME Sound
  PROVE  /\ NextTarget \in Nat /\ NextTarget <= base + Larger(machine.quantum, qmin)
         /\ \A a \in alarms : NextTarget <= a.at
         /\ NoAlarmBefore(base + 1) => base <= NextTarget
<1>. DEFINE ends == {base + Head(quanta).actual} \cup {a.at : a \in alarms}
<1>1. PICK q \in Nat : q = Head(quanta).actual /\ q <= Larger(machine.quantum, qmin)
  BY QuantumAtHead
<1>2. base \in Nat /\ \A a \in alarms : a.at \in Nat
  <2>1. \A a \in AlarmRec : a.at \in Nat
    BY DEF AlarmRec
  <2>. QED  BY <2>1 DEF Sound, TypeOK
<1>3. base + q \in ends
  BY <1>1
<1>4. ends \in SUBSET Nat /\ ends # {}
  BY <1>1, <1>2
<1>5. \A a \in alarms : a.at \in ends
  OBVIOUS
<1>6. NoAlarmBefore(base + 1) => \A x \in ends : base <= x
  <2>1. ASSUME NoAlarmBefore(base + 1), NEW x \in ends PROVE base <= x
    <3>1. CASE x = base + q
      BY <1>1, <1>2, <3>1
    <3>2. CASE x # base + q
      <4>1. PICK a \in alarms : x = a.at
        BY <1>1, <2>1, <3>2
      <4>. QED  BY <1>2, <2>1, <4>1 DEF NoAlarmBefore
    <3>. QED  BY <3>1, <3>2
  <2>. QED  BY <2>1
<1>7. NextTarget = Min(ends)
  BY DEF NextTarget
<1>8. Min(ends) \in ends /\ \A x \in ends : Min(ends) <= x
  <2>. HIDE DEF ends
  <2>. QED  BY <1>4, LeastPosition
<1>9. NextTarget \in ends /\ NextTarget \in Nat /\ \A x \in ends : NextTarget <= x
  <2>. HIDE DEF ends
  <2>. QED  BY <1>4, <1>7, <1>8
<1>10. NextTarget <= base + q
  BY <1>3, <1>9
<1>11. Larger(machine.quantum, qmin) \in Nat
  BY MachineFacts DEF Sound, TypeOK, Larger
<1>12. NextTarget <= base + Larger(machine.quantum, qmin)
  BY <1>1, <1>2, <1>9, <1>10, <1>11
<1>. HIDE DEF ends
<1>. QED  BY <1>5, <1>6, <1>9, <1>12

\* Steps that change no reason in force and no clock leave the execute list in order.
LEMMA ListKeeps ==
  ASSUME Sound, UNCHANGED <<machine, execlist>>,
         \A d \in Devices : dev'[d].suspend = dev[d].suspend /\ dev'[d].cycle = dev[d].cycle
  PROVE  SuspendedLast' /\ Ticking'
<1>1. \A i \in 1 .. Len(execlist) : dev'[execlist[i]].suspend = dev[execlist[i]].suspend
  BY ListFacts DEF Sound
<1>2. SuspendedLast'
  BY <1>1, ListFacts DEF Sound, SuspendedLast
<1>3. Ticking'
  BY DEF Sound, Ticking, Clocks
<1>. QED  BY <1>2, <1>3

\* The steps that only move on from one place to the next.
LEMMA MoveSound ==
  ASSUME Sound, UNCHANGED <<machine, dev, execlist, pending, qmin, alarms, timetrig, files>>,
         QuantaSound(quanta', qmin),
         base' \in Nat, target' \in Nat, turn' \in Nat, used' \in Nat, limit' \in Nat,
         calling' \in Nat, phase' \in Phases, InTurn'
  PROVE  Sound'
<1>1. SuspendedLast' /\ Ticking'
  BY ListKeeps
<1>2. TypeOK'
  BY DEF Sound, TypeOK, QuantaSound
<1>3. QuantaSound(quanta, qmin)'
  BY DEF QuantaSound
<1>. QED  BY <1>1, <1>2, <1>3 DEF Sound

LEMMA DeltaFacts ==
  ASSUME Sound, NEW d \in Devices
  PROVE  Delta(d) \in Int /\ (TakesTurn(d) => Cycles(d) \in Nat /\ Delta(d) >= dev[d].cycle)
<1>1. target \in Nat /\ dev[d].time \in Nat /\ dev[d].cycle \in Nat \ {0} /\ Second \in Nat \ {0}
  BY DevFacts, SchedulerAssumption DEF Sound, TypeOK, Ticking
<1>2. target % Second \in Nat /\ dev[d].time % Second \in Nat
  BY <1>1
<1>3. Delta(d) \in Int
  BY <1>1, <1>2 DEF Delta
<1>4. ASSUME TakesTurn(d) PROVE Cycles(d) \in Nat /\ Delta(d) >= dev[d].cycle
  <2>1. Delta(d) >= dev[d].cycle /\ Delta(d) \in Nat
    BY <1>1, <1>3, <1>4 DEF TakesTurn
  <2>. QED  BY <1>1, <2>1 DEF Cycles
<1>. QED  BY <1>3, <1>4

\* A device's turn ends: its local time, the target and the turn move on.
LEMMA AccountSound ==
  ASSUME Sound, NEW d \in Devices, NEW ran \in Nat, Account(d, ran),
         UNCHANGED <<machine, execlist, pending, quanta, qmin, base, alarms, calling, timetrig,
                     files>>,
         used' \in Nat, limit' \in Nat, phase' = "pass"
  PROVE  /\ Sound'
         /\ dev'[d].time = dev[d].time + ran * dev[d].cycle
         /\ \A e \in Devices : /\ e # d => dev'[e] = dev[e]
                               /\ dev'[e].suspend = dev[e].suspend /\ dev'[e].eat = dev[e].eat
                               /\ dev'[e].cycle = dev[e].cycle
<1>1. dev \in [Devices -> DevRec] /\ dev[d].time \in Nat /\ dev[d].cycle \in Nat
  BY DevFacts DEF Sound, TypeOK
<1>2. PICK t \in Nat : t = dev[d].time + ran * dev[d].cycle
  <2>1. PICK x \in Nat, y \in Nat : x = dev[d].time /\ y = dev[d].cycle
    BY <1>1
  <2>2. x + ran * y \in Nat
    OBVIOUS
  <2>. QED  BY <2>1, <2>2
<1>3. dev' = [dev EXCEPT ![d] = [dev[d] EXCEPT !.time = t]]
  BY <1>1, <1>2, DevFacts DEF Account
<1>4. [dev[d] EXCEPT !.time = t] \in DevRec
  BY <1>1 DEF DevRec
<1>5. dev' \in [Devices -> DevRec]
  BY <1>1, <1>3, <1>4
<1>6. \A e \in Devices : /\ e # d => dev'[e] = dev[e]
                         /\ dev'[e].suspend = dev[e].suspend /\ dev'[e].eat = dev[e].eat
                         /\ dev'[e].cycle = dev[e].cycle
  BY <1>1, <1>3, DevFacts
<1>7. dev'[d].time = t
  BY <1>1, <1>3, DevFacts
<1>8. target' \in Nat /\ turn' \in Nat /\ turn' >= 1
  BY <1>5, <1>7 DEF Account, Sound, TypeOK, Larger
<1>9. SuspendedLast' /\ Ticking'
  BY <1>6, ListKeeps
<1>10. TypeOK'
  BY <1>5, <1>8 DEF Sound, TypeOK, Phases
<1>11. InTurn' /\ QuantaSound(quanta, qmin)'
  BY <1>8 DEF InTurn, Sound, QuantaSound
<1>12. Sound'
  BY <1>9, <1>10, <1>11 DEF Sound
<1>. QED  BY <1>2, <1>6, <1>7, <1>12

LEMMA AppliedType ==
  ASSUME NEW dv \in [Devices -> DevRec]
  PROVE  /\ Applied(dv) \in [Devices -> DevRec]
         /\ \A d \in Devices : /\ Applied(dv)[d].suspend = dv[d].next
                               /\ Applied(dv)[d].time = dv[d].time
                               /\ Applied(dv)[d].cycle = dv[d].cycle
<1>1. ASSUME NEW d \in Devices
      PROVE  /\ Applied(dv)[d] \in DevRec
             /\ Applied(dv)[d].suspend = dv[d].next
             /\ Applied(dv)[d].time = dv[d].time /\ Applied(dv)[d].cycle = dv[d].cycle
  <2>1. Applied(dv)[d] = [dv[d] EXCEPT !.suspend = dv[d].next,
                                       !.next = dv[d].next \ {"TIMESLICE"}, !.eat = dv[d].nexteat]
    BY DevFacts DEF Applied
  <2>2. dv[d].next \in SUBSET Reasons /\ dv[d].next \ {"TIMESLICE"} \in SUBSET Reasons
        /\ dv[d].nexteat \in BOOLEAN
    BY DevFacts
  <2>3. [dv[d] EXCEPT !.suspend = dv[d].next, !.next = dv[d].next \ {"TIMESLICE"},
                      !.eat = dv[d].nexteat] \in DevRec
    BY <2>2 DEF DevRec
  <2>. QED  BY <2>1, <2>3, DevFacts
<1>2. Applied(dv) = [d \in Devices |-> Applied(dv)[d]]
  BY DEF Applied
<1>. QED  BY <1>1, <1>2

LEMMA BeginPassSound ==
  ASSUME Sound, BeginPass
  PROVE  Sound'
<1>1. dev \in [Devices -> DevRec]
  BY DEF Sound, TypeOK
<1>2. /\ dev' \in [Devices -> DevRec] /\ pending' \in BOOLEAN
      /\ InOrder(execlist', dev')
      /\ \A d \in Devices : dev'[d].cycle = dev[d].cycle
  <2>0. InOrder(execlist, dev)
    BY InOrderIsSuspendedLast DEF Sound, TypeOK
  <2>1. CASE pending
    <3>1. /\ dev' = Applied(dev)
          /\ execlist' = IF Changes(dev) THEN Rebuilt(dev') ELSE execlist
          /\ pending' = StillPending(dev)
      BY <2>1 DEF BeginPass
    <3>2. \A d \in Devices : dev'[d].suspend = dev[d].next /\ dev'[d].cycle = dev[d].cycle
      BY <1>1, <3>1, AppliedType
    <3>3. dev' \in [Devices -> DevRec] /\ pending' \in BOOLEAN
      BY <1>1, <3>1, AppliedType DEF StillPending, Changes
    <3>4. InOrder(execlist', dev')
      <4>1. CASE Changes(dev)
        BY <3>1, <4>1, RebuiltInOrder
      <4>2. CASE ~Changes(dev)
        <5>1. \A d \in Devices : dev'[d].suspend = dev[d].suspend
          BY <3>2, <4>2 DEF Changes
        <5>2. \A i \in DOMAIN execlist : dev'[execlist[i]].suspend = dev[execlist[i]].suspend
          BY <5>1, ListFacts DEF Sound
        <5>3. execlist' = execlist
          BY <3>1, <4>2
        <5>. QED  BY <2>0, <5>2, <5>3 DEF InOrder
      <4>. QED  BY <4>1, <4>2
    <3>. QED  BY <3>2, <3>3, <3>4
  <2>2. CASE ~pending
    BY <1>1, <2>0, <2>2 DEF BeginPass, Sound, TypeOK
  <2>. QED  BY <2>1, <2>2
<1>3. target' \in Nat
  BY TargetFacts DEF BeginPass
<1>4. SuspendedLast' /\ execlist' \in Seq(Devices)
  BY <1>2 DEF InOrder, SuspendedLast
<1>5. Ticking'
  BY <1>2 DEF BeginPass, Ticking, Sound, Clocks
<1>6. TypeOK'
  BY <1>2, <1>3, <1>4 DEF BeginPass, Sound, TypeOK, Phases
<1>7. InTurn'
  BY DEF BeginPass, InTurn
<1>8. QuantaSound(quanta, qmin)'
  BY DEF BeginPass, Sound, QuantaSound
<1>. QED  BY <1>4, <1>5, <1>6, <1>7, <1>8 DEF Sound

LEMMA LeaveFacts ==
  ASSUME Sound, LeaveDevice
  PROVE  /\ turn \in 1 .. Len(execlist) /\ Executing = execlist[turn] /\ Executing \in Devices
         /\ \E n \in machine.cycles : used + n \in Nat /\ used + n >= limit
                                      /\ Account(Executing, used + n)
<1>1. \A n \in machine.cycles : used + n \in Nat
  BY MachineFacts DEF Sound, TypeOK
<1>. QED  BY <1>1, Running DEF LeaveDevice

LEMMA TimesliceSound == Sound /\ Timeslice => Sound'
<1>. SUFFICES ASSUME Sound, Timeslice PROVE Sound'
  OBVIOUS
<1>. USE DEF clockVars, codeVars
<1>0. QuantaSound(quanta, qmin) /\ InTurn /\ TypeOK
  BY DEF Sound
<1>1. CASE BeginTimeslice
  <2>1. QuantaSound(quanta', qmin)
    BY <1>0, <1>1, UnexpiredSound DEF BeginTimeslice, TypeOK
  <2>2. InTurn' /\ phase' \in Phases
    BY <1>1 DEF BeginTimeslice, InTurn, Phases
  <2>. QED  BY <1>0, <1>1, <2>1, <2>2, MoveSound DEF BeginTimeslice, TypeOK
<1>2. CASE BeginPass
  BY <1>2, BeginPassSound
<1>3. CASE PassOver
  <2>1. turn' \in Nat /\ InTurn' /\ phase' \in Phases /\ QuantaSound(quanta', qmin)
    BY <1>0, <1>3 DEF PassOver, TypeOK, InTurn
  <2>. QED  BY <1>0, <1>3, <2>1, MoveSound DEF PassOver, TypeOK
<1>4. CASE IdleDevice
  <2>1. PICK d : d = execlist[turn]
    OBVIOUS
  <2>2. d \in Devices /\ TakesTurn(d) /\ Account(d, Cycles(d))
    BY <1>0, <1>4, <2>1, ListFacts DEF IdleDevice, Sound, TypeOK, InTurn
  <2>3. Cycles(d) \in Nat
    BY <2>2, DeltaFacts
  <2>4. used' \in Nat /\ limit' \in Nat /\ phase' = "pass"
        /\ UNCHANGED <<machine, execlist, pending, quanta, qmin, base, alarms, calling, timetrig,
                       files>>
    BY <1>0, <1>4 DEF IdleDevice, TypeOK
  <2>. QED  BY <2>2, <2>3, <2>4, AccountSound
<1>5. CASE EnterDevice
  <2>1. PICK d : d = execlist[turn]
    OBVIOUS
  <2>2. d \in Devices /\ TakesTurn(d) /\ limit' = Cycles(d)
    BY <1>0, <1>5, <2>1, ListFacts DEF EnterDevice, Sound, TypeOK, InTurn
  <2>3. limit' \in Nat
    BY <2>2, DeltaFacts
  <2>4. InTurn' /\ phase' \in Phases /\ QuantaSound(quanta', qmin)
    BY <1>0, <1>5 DEF EnterDevice, InTurn, Phases
  <2>. QED  BY <1>0, <1>5, <2>3, <2>4, MoveSound DEF EnterDevice, TypeOK
<1>6. CASE NextInstruction
  <2>1. used' \in Nat
    BY <1>0, <1>6, MachineFacts DEF NextInstruction, TypeOK
  <2>2. InTurn' /\ phase' \in Phases /\ QuantaSound(quanta', qmin)
    BY <1>0, <1>6 DEF NextInstruction, InTurn, TypeOK
  <2>. QED  BY <1>0, <1>6, <2>1, <2>2, MoveSound DEF NextInstruction, TypeOK
<1>7. CASE LeaveDevice
  <2>1. PICK d \in Devices, ran \in Nat : Account(d, ran)
    BY <1>7, LeaveFacts
  <2>2. used' \in Nat /\ limit' \in Nat /\ phase' = "pass"
        /\ UNCHANGED <<machine, execlist, pending, quanta, qmin, base, alarms, calling, timetrig,
                       files>>
    BY <1>7 DEF LeaveDevice
  <2>. QED  BY <2>1, <2>2, AccountSound
<1>8. CASE EndPass
  <2>1. InTurn' /\ phase' \in Phases /\ QuantaSound(quanta', qmin)
    BY <1>0, <1>8 DEF EndPass, InTurn, Phases
  <2>. QED  BY <1>0, <1>8, <2>1, MoveSound DEF EndPass, TypeOK
<1>9. CASE BeginTimers
  <2>1. InTurn' /\ phase' \in Phases /\ QuantaSound(quanta', qmin)
    BY <1>0, <1>9 DEF BeginTimers, InTurn, Phases
  <2>. QED  BY <1>0, <1>9, <2>1, MoveSound DEF BeginTimers, TypeOK
<1>10. CASE Ring
  <2>1. PICK a \in alarms : alarms' = alarms \ {a} /\ dev' = Fired(dev, a.trig, a.to)
                            /\ calling' = a.at
    BY <1>10 DEF Ring
  <2>2. Later
    BY <2>1, FiredLater
  <2>3. SuspendedLast' /\ Ticking'
    BY <1>10, <2>2, ListKeeps DEF Later, Ring
  <2>4. a.at \in Nat
    <3>1. a \in AlarmRec
      BY <1>0 DEF TypeOK
    <3>. QED  BY <3>1 DEF AlarmRec
  <2>5. TypeOK'
    BY <1>0, <1>10, <2>1, <2>2, <2>4 DEF Ring, TypeOK, Later, Phases
  <2>6. InTurn' /\ QuantaSound(quanta, qmin)'
    BY <1>0, <1>10 DEF Ring, InTurn, QuantaSound
  <2>. QED  BY <2>3, <2>5, <2>6 DEF Sound
<1>11. CASE EndCallback
  <2>1. InTurn' /\ phase' \in Phases /\ QuantaSound(quanta', qmin)
    BY <1>0, <1>11 DEF EndCallback, InTurn, Phases
  <2>. QED  BY <1>0, <1>11, <2>1, MoveSound DEF EndCallback, TypeOK
<1>12. CASE EndTimers
  <2>1. InTurn' /\ phase' \in Phases /\ QuantaSound(quanta', qmin)
    BY <1>0, <1>12 DEF EndTimers, InTurn, Phases
  <2>. QED  BY <1>0, <1>12, <2>1, MoveSound DEF EndTimers, TypeOK
<1>. QED  BY <1>1, <1>2, <1>3, <1>4, <1>5, <1>6, <1>7, <1>8, <1>9, <1>10, <1>11, <1>12
          DEF Timeslice

LEMMA FilesSound ==
  ASSUME Sound, SaveState \/ LoadState
  PROVE  Sound'
<1>. USE DEF clockVars, codeVars
<1>0. TypeOK /\ InTurn /\ QuantaSound(quanta, qmin)
  BY DEF Sound
<1>1. CASE SaveState
  <2>1. files' \in SUBSET FileRec
    BY <1>0, <1>1 DEF SaveState, TypeOK, FileRec
  <2>2. UNCHANGED <<machine, dev, execlist, quanta, qmin, phase, turn>>
    BY <1>1 DEF SaveState
  <2>3. SuspendedLast' /\ Ticking' /\ InTurn' /\ QuantaSound(quanta, qmin)'
    BY <1>0, <2>2, ListKeeps DEF InTurn, QuantaSound
  <2>4. TypeOK'
    BY <1>0, <1>1, <2>1 DEF SaveState, TypeOK
  <2>. QED  BY <2>3, <2>4 DEF Sound
<1>2. CASE LoadState
  <2>1. PICK f \in files : /\ dev' = [d \in Devices |-> [f.dev[d] EXCEPT !.cycle = dev[d].cycle]]
                           /\ base' = f.base
    BY <1>2 DEF LoadState
  <2>2. f.dev \in [Devices -> DevRec] /\ f.base \in Nat
    <3>1. f \in FileRec
      BY <1>0 DEF TypeOK
    <3>. QED  BY <3>1 DEF FileRec
  <2>3. \A d \in Devices : dev'[d] \in DevRec /\ dev'[d].cycle = dev[d].cycle
    <3>1. SUFFICES ASSUME NEW d \in Devices
                   PROVE  dev'[d] \in DevRec /\ dev'[d].cycle = dev[d].cycle
      OBVIOUS
    <3>2. f.dev[d] \in DevRec /\ dev[d].cycle \in Nat
      BY <1>0, <2>2, DevFacts DEF TypeOK
    <3>3. dev'[d] = [f.dev[d] EXCEPT !.cycle = dev[d].cycle]
      BY <2>1
    <3>. QED  BY <3>2, <3>3 DEF DevRec
  <2>4. dev' \in [Devices -> DevRec]
    BY <2>1, <2>3
  <2>5. InOrder(execlist', dev')
    BY <1>2, RebuiltInOrder DEF LoadState
  <2>6. SuspendedLast' /\ execlist' \in Seq(Devices)
    BY <2>5 DEF InOrder, SuspendedLast
  <2>7. Ticking'
    BY <1>2, <2>3 DEF LoadState, Sound, Ticking, Clocks
  <2>8. TypeOK'
    BY <1>0, <1>2, <2>1, <2>2, <2>4, <2>6 DEF LoadState, TypeOK
  <2>9. InTurn' /\ QuantaSound(quanta, qmin)'
    BY <1>0, <1>2 DEF LoadState, InTurn, QuantaSound
  <2>. QED  BY <2>6, <2>7, <2>8, <2>9 DEF Sound
<1>. QED  BY <1>1, <1>2

LEMMA InitSound == Init => Sound
<1>. SUFFICES ASSUME Init PROVE Sound
  OBVIOUS
<1>1. machine \in Machines /\ machine.period \in [Devices -> Nat \ {0}]
  BY MachineFacts DEF Init
<1>2. ASSUME NEW d \in Devices
      PROVE  /\ dev[d] \in DevRec /\ dev[d].suspend = {"RESET"}
             /\ dev[d].cycle = machine.period[d] /\ machine.period[d] \in Nat \ {0}
  BY <1>1 DEF Init, DevRec, Reasons
<1>3. dev \in [Devices -> DevRec]
  <2>1. dev = [d \in Devices |-> dev[d]]
    BY DEF Init
  <2>. QED  BY <1>2, <2>1
<1>4. execlist = DeviceOrder /\ execlist \in Seq(Devices) /\ execlist # <<>>
  BY TreeOrder DEF Init
<1>5. SuspendedLast
  <2>1. IsInjective(execlist) /\ ToSet(execlist) = Devices
    BY <1>4, SchedulerAssumption DEF Devices
  <2>2. \A i \in DOMAIN execlist : dev[execlist[i]].suspend # {}
    <3>1. \A i \in DOMAIN execlist : execlist[i] \in Devices
      BY <1>4
    <3>. QED  BY <1>2, <3>1
  <2>3. \A m, n, i, j \in DOMAIN DeviceOrder :
          i < j /\ DeviceOrder[m] = execlist[i] /\ DeviceOrder[n] = execlist[j] => m < n
    BY <1>4, TreeOrder
  <2>. QED  BY <1>4, <2>1, <2>2, <2>3 DEF SuspendedLast
<1>6. qmin \in Nat
  <2>1. \A d \in Devices : MinimumQuantum(dev, d) \in Nat
    BY <1>3, MinimumNat
  <2>. QED  BY <1>4, <2>1, PerfectType DEF Init
<1>7. QuantaSound(quanta, qmin)
  <2>. DEFINE q == [requested |-> machine.quantum, actual |-> Larger(machine.quantum, qmin),
                    expire |-> Never]
  <2>1. machine.quantum \in Nat /\ Larger(machine.quantum, qmin) \in Nat
    BY <1>1, <1>6, MachineFacts DEF Larger
  <2>2. q \in QuantumRec
    BY <2>1 DEF QuantumRec
  <2>3. /\ q.requested = machine.quantum /\ q.actual = Larger(machine.quantum, qmin)
        /\ q.expire = Never
    OBVIOUS
  <2>4. quanta = <<q>>
    BY DEF Init
  <2>. HIDE DEF q
  <2>5. quanta \in Seq(QuantumRec) /\ DOMAIN quanta = {1} /\ quanta[1] = q
    BY <2>2, <2>4
  <2>6. \A i, j \in DOMAIN quanta : ~(i < j)
    BY <2>5
  <2>. QED  BY <2>3, <2>5, <2>6 DEF QuantaSound
<1>8. TypeOK
  <2>1. quanta \in Seq(QuantumRec)
    BY <1>7 DEF QuantaSound
  <2>2. /\ pending = TRUE /\ base = 0 /\ target = 0 /\ turn = 0 /\ used = 0 /\ limit = 0
        /\ alarms = {} /\ calling = 0 /\ timetrig = 0 /\ phase = "top" /\ files = {}
    BY DEF Init
  <2>3. 0 \in 0 .. TimeTriggers - 1
    BY SchedulerAssumption
  <2>. QED  BY <1>1, <1>3, <1>4, <1>6, <2>1, <2>2, <2>3 DEF TypeOK, Phases
<1>9. Ticking /\ InTurn
  BY <1>2 DEF Ticking, Clocks, InTurn, Init
<1>. QED  BY <1>5, <1>7, <1>8, <1>9 DEF Sound

LEMMA NextSound == Sound /\ [Next]_vars => Sound'
<1>. SUFFICES ASSUME Sound, [Next]_vars PROVE Sound'
  OBVIOUS
<1>1. CASE Timeslice
  BY <1>1, TimesliceSound
<1>2. CASE Operation
  BY <1>2, OperationQuiet, QuietKeeps
<1>3. CASE SaveState \/ LoadState
  BY <1>3, FilesSound
<1>4. CASE AtHorizon \/ UNCHANGED vars
  <2>1. UNCHANGED vars
    BY <1>4 DEF AtHorizon
  <2>2. QuantaSound(quanta', qmin) /\ InTurn'
    BY <2>1 DEF vars, Sound, InTurn
  <2>. QED  BY <2>1, <2>2, MoveSound DEF vars, Sound, TypeOK
<1>. QED  BY <1>1, <1>2, <1>3, <1>4 DEF Next

LEMMA Soundness == Spec => []Sound
<1>. QED  BY InitSound, NextSound, PTL DEF Spec

\* Every variable keeps its type: among them the devices' records, the list of quanta,
\* which is never empty, and the execute list.
THEOREM TypeCorrect == Spec => []TypeOK
<1>1. Sound => TypeOK
  BY DEF Sound
<1>. QED  BY <1>1, Soundness, PTL

\* The execute list has all devices in it, once each, the suspended ones last.
THEOREM SuspendedDevicesLast == Spec => []SuspendedLast
<1>1. Sound => SuspendedLast
  BY DEF Sound
<1>. QED  BY <1>1, Soundness, PTL

-----------------------------------------------------------------------------
\* All clocks are faster than 1 Hz, so that a cycle is less than a second.
Fast == /\ \A m \in Machines, d \in Devices : m.period[d] < Second
        /\ \A period \in Periods : period < Second

LEMMA FastCycles ==
  ASSUME Fast, NEW dv \in [Devices -> DevRec], machine \in Machines,
         \A d \in Devices : dv[d].cycle \in Clocks(d)
  PROVE  \A d \in Devices : MinimumQuantum(dv, d) \in 0 .. Second - 1
<1>1. SUFFICES ASSUME NEW d \in Devices PROVE MinimumQuantum(dv, d) \in 0 .. Second - 1
  OBVIOUS
<1>2. dv[d].cycle \in Nat /\ dv[d].cycle < Second /\ Second \in Nat \ {0}
  BY DevFacts, SchedulerAssumption DEF Fast, Clocks
<1>. QED  BY <1>2 DEF MinimumQuantum

LEMMA MachineStays ==
  ASSUME [Next]_vars
  PROVE  machine' = machine
<1>1. CASE Timeslice
  BY <1>1 DEF Timeslice, BeginTimeslice, BeginPass, PassOver, IdleDevice, EnterDevice,
     NextInstruction, LeaveDevice, EndPass, BeginTimers, Ring, EndCallback, EndTimers
<1>2. CASE Operation
  BY <1>2 DEF Operation, Yield, SpinUntilTrigger, SpinUntilTime, Trigger, TriggerAfter, Halt,
     ResetDevice, SetClock, Boost, EatCycles
<1>3. CASE SaveState \/ LoadState \/ AtHorizon \/ UNCHANGED vars
  BY <1>3 DEF SaveState, LoadState, AtHorizon, vars
<1>. QED  BY <1>1, <1>2, <1>3 DEF Next

\* Only a change of clock changes the minimum, to the perfect interleave.
LEMMA MinimumFollows ==
  ASSUME Fast, Sound, Sound', [Next]_vars, qmin' # qmin
  PROVE  qmin' = SecondSmallest(dev') /\ qmin' \in 0 .. Second - 1
<1>1. PICK e \in Devices, period \in Periods : SetClock(e, period)
  <2>1. CASE Timeslice
    BY <2>1 DEF Timeslice, BeginTimeslice, BeginPass, PassOver, IdleDevice, EnterDevice,
       NextInstruction, LeaveDevice, EndPass, BeginTimers, Ring, EndCallback, EndTimers, clockVars
  <2>2. CASE Operation
    BY <2>2 DEF Operation, Yield, SpinUntilTrigger, SpinUntilTime, Trigger, TriggerAfter, Halt,
       ResetDevice, Boost, EatCycles
  <2>3. CASE SaveState \/ LoadState \/ AtHorizon \/ UNCHANGED vars
    BY <2>3 DEF SaveState, LoadState, AtHorizon, vars, clockVars
  <2>. QED  BY <2>1, <2>2, <2>3 DEF Next
<1>2. qmin' = Perfect(dev', execlist)
  BY <1>1 DEF SetClock
<1>3. PICK dv \in [Devices -> DevRec] : dv = dev'
  BY DEF Sound, TypeOK
<1>4. \A d \in Devices : dv[d].cycle \in Clocks(d)
  BY <1>1, <1>3 DEF Sound, Ticking, Clocks, SetClock
<1>5. \A d \in Devices : MinimumQuantum(dv, d) \in 0 .. Second - 1
  BY <1>3, <1>4, FastCycles DEF Sound, TypeOK
<1>6. execlist \in Seq(Devices) /\ IsInjective(execlist) /\ ToSet(execlist) = Devices
  BY DEF Sound, TypeOK, SuspendedLast
<1>7. Perfect(dv, execlist) = SecondSmallest(dv) /\ Perfect(dv, execlist) \in 0 .. Second - 1
  BY <1>5, <1>6, PerfectSecond
<1>. QED  BY <1>2, <1>3, <1>7

\* The list of quanta is in strict order, cut to the minimum, and has one that never
\* expires; the minimum follows the clocks.
THEOREM QuantaInOrder ==
  ASSUME Fast
  PROVE  Spec => QuantaAgree
<1>. DEFINE Agree ==
       /\ \A i, j \in DOMAIN quanta' :
            i < j => quanta'[i].requested < quanta'[j].requested
       /\ \A i \in DOMAIN quanta' :
            quanta'[i].actual = Larger(quanta'[i].requested, qmin')
       /\ \E i \in DOMAIN quanta' :
            quanta'[i].requested = machine.quantum /\ quanta'[i].expire = Never
       /\ qmin' # qmin => qmin' = SecondSmallest(dev')
<1>1. Sound /\ [Next]_vars => [Agree]_vars
  <2>1. SUFFICES ASSUME Sound, [Next]_vars PROVE Agree
    OBVIOUS
  <2>2. Sound'
    BY <2>1, NextSound
  <2>3. machine' = machine
    BY <2>1, MachineStays
  <2>4. QuantaSound(quanta, qmin)'
    BY <2>2 DEF Sound
  <2>5. qmin' # qmin => qmin' = SecondSmallest(dev')
    BY <2>1, <2>2, MinimumFollows
  <2>. QED  BY <2>3, <2>4, <2>5 DEF QuantaSound
<1>2. QuantaAgree <=> [][Agree]_vars
  BY DEF QuantaAgree
<1>. HIDE DEF Agree
<1>. QED  BY <1>1, <1>2, Soundness, PTL DEF Spec

-----------------------------------------------------------------------------
\* The time a device has left in the slice is computed right if it is less than a second.
LEMMA DivisionFacts ==
  ASSUME NEW S \in Nat \ {0}, NEW t \in Nat
  PROVE  /\ t \div S \in Nat /\ t % S \in 0 .. S - 1
         /\ t = S * (t \div S) + (t % S)
OBVIOUS

LEMMA Monotonic ==
  ASSUME NEW S \in Nat, NEW x \in Nat, NEW y \in Nat, x <= y
  PROVE  S * x <= S * y
OBVIOUS

LEMMA ShortDelta ==
  ASSUME Sound, NEW d \in Devices, dev[d].time <= target, target < dev[d].time + Second
  PROVE  Delta(d) = target - dev[d].time /\ target \div Second >= dev[d].time \div Second
<1>1. PICK S \in Nat \ {0} : S = Second
  BY SchedulerAssumption
<1>2. PICK T \in Nat, t \in Nat : T = target /\ t = dev[d].time
  BY DevFacts DEF Sound, TypeOK
<1>3. PICK a \in Nat, b \in Nat, r \in 0 .. S - 1, s \in 0 .. S - 1 :
        /\ a = T \div S /\ r = T % S /\ T = S * a + r
        /\ b = t \div S /\ s = t % S /\ t = S * b + s
  <2>1. PICK a, r : a = T \div S /\ r = T % S
    OBVIOUS
  <2>2. PICK b, s : b = t \div S /\ s = t % S
    OBVIOUS
  <2>3. a \in Nat /\ r \in 0 .. S - 1 /\ T = S * a + r
    BY <2>1, DivisionFacts
  <2>4. b \in Nat /\ s \in 0 .. S - 1 /\ t = S * b + s
    BY <2>2, DivisionFacts
  <2>. QED  BY <2>1, <2>2, <2>3, <2>4
<1>4. t <= T /\ T < t + S
  BY <1>1, <1>2
<1>5. b <= a
  <2>1. SUFFICES ASSUME a + 1 <= b PROVE FALSE
    OBVIOUS
  <2>2. S * (a + 1) <= S * b
    BY <2>1, Monotonic
  <2>3. S * (a + 1) = S * a + S /\ S * a \in Nat /\ S * b \in Nat
    OBVIOUS
  <2>. QED  BY <1>3, <1>4, <2>2, <2>3
<1>6. a <= b + 1
  <2>1. SUFFICES ASSUME b + 2 <= a PROVE FALSE
    OBVIOUS
  <2>2. S * (b + 2) <= S * a
    BY <2>1, Monotonic
  <2>3. S * (b + 2) = S * b + S + S /\ S * a \in Nat /\ S * b \in Nat
    OBVIOUS
  <2>. QED  BY <1>3, <1>4, <2>2, <2>3
<1>7. /\ Delta(d) = IF r - s < 0 /\ a > b THEN (r - s) + S ELSE r - s
      /\ target \div Second = a /\ dev[d].time \div Second = b
  BY <1>1, <1>2, <1>3 DEF Delta
<1>8. CASE a = b
  <2>1. r - s = T - t
    BY <1>3, <1>8
  <2>. QED  BY <1>2, <1>4, <1>7, <1>8, <2>1
<1>9. CASE a = b + 1
  <2>1. S * (b + 1) = S * b + S /\ S * b \in Nat
    OBVIOUS
  <2>2. T - t = (r - s) + S
    BY <1>3, <1>9, <2>1
  <2>3. r - s < 0 /\ a > b
    BY <1>3, <1>4, <1>9, <2>2
  <2>. QED  BY <1>2, <1>7, <2>2, <2>3
<1>. QED  BY <1>5, <1>6, <1>8, <1>9

LEMMA SliceFacts ==
  ASSUME Sound, qmin <= Second - 1
  PROVE  LongestSlice \in Nat /\ Larger(machine.quantum, qmin) <= LongestSlice
<1>1. /\ machine.quantum \in Nat /\ machine.quantum <= Second - 1 /\ qmin \in Nat
      /\ Second \in Nat \ {0}
  BY MachineFacts DEF Sound, TypeOK
<1>2. Larger(machine.quantum, qmin) \in Nat /\ Larger(machine.quantum, qmin) <= Second - 1
  BY <1>1 DEF Larger
<1>. QED  BY <1>1, <1>2 DEF LongestSlice

LEMMA TimesNat ==
  ASSUME Sound
  PROVE  /\ base \in Nat /\ target \in Nat /\ turn \in Nat /\ used \in Nat /\ limit \in Nat
         /\ Second \in Nat \ {0}
         /\ \A d \in Devices : dev[d].time \in Nat /\ dev[d].cycle \in Nat \ {0}
                               /\ dev[d].cycle \in Clocks(d) /\ Clocks(d) \subseteq Nat
         /\ \A a \in alarms : a.at \in Nat
         /\ machine.cycles \subseteq Nat \ {0} /\ machine.cycles # {}
<1>1. \A d \in Devices : dev[d].time \in Nat /\ dev[d].cycle \in Nat \ {0}
                         /\ dev[d].cycle \in Clocks(d) /\ Clocks(d) \subseteq Nat
  <2>1. SUFFICES ASSUME NEW d \in Devices
                 PROVE  dev[d].time \in Nat /\ dev[d].cycle \in Nat \ {0}
                        /\ dev[d].cycle \in Clocks(d) /\ Clocks(d) \subseteq Nat
    OBVIOUS
  <2>2. dev[d].time \in Nat /\ dev[d].cycle \in Nat
    BY DevFacts DEF Sound, TypeOK
  <2>3. dev[d].cycle \in Clocks(d) /\ dev[d].cycle # 0
    BY DEF Sound, Ticking
  <2>4. Clocks(d) \subseteq Nat
    <3>1. machine \in Machines
      BY DEF Sound, TypeOK
    <3>2. machine.period[d] \in Nat /\ Periods \subseteq Nat
      BY <3>1, MachineFacts, SchedulerAssumption
    <3>. QED  BY <3>2 DEF Clocks
  <2>. QED  BY <2>2, <2>3, <2>4
<1>2. \A a \in AlarmRec : a.at \in Nat
  BY DEF AlarmRec
<1>. QED  BY <1>1, <1>2, MachineFacts DEF Sound, TypeOK

\* After a device's turn the target is what it has reached, or all it could reach.
LEMMA AccountPace ==
  ASSUME Sound, Sound', Pace, Passing, turn \in 1 .. Len(execlist), NEW d \in Devices,
         d = execlist[turn], NEW ran \in Nat, Account(d, ran),
         \A e \in Devices : /\ e # d => dev'[e] = dev[e]
                            /\ dev'[e].cycle = dev[e].cycle,
         UNCHANGED <<machine, execlist, qmin, base>>, phase' = "pass"
  PROVE  /\ base <= target' /\ target' <= target /\ (target' <= dev'[d].time \/ target' = base)
         /\ HadTurn'
<1>1. /\ base \in Nat /\ target \in Nat /\ target' \in Nat /\ dev'[d].time \in Nat
      /\ dev[d].cycle \in Nat \ {0} /\ dev[d].cycle \in Clocks(d) /\ turn' = turn + 1
      /\ turn \in Nat
  <2>1. dev'[d].time \in Nat /\ target' \in Nat
    BY DevFacts DEF Sound, TypeOK
  <2>. QED  BY <2>1, TimesNat DEF Account
<1>2. base <= target
  BY DEF Pace
<1>3. target' = IF dev'[d].time < target THEN Larger(dev'[d].time, base) ELSE target
  BY DEF Account
<1>4. base <= target' /\ target' <= target /\ (target' <= dev'[d].time \/ target' = base)
  BY <1>1, <1>2, <1>3 DEF Larger
<1>5. ASSUME target' # base, NEW i \in 1 .. Len(execlist), i < turn',
             Runs(execlist[i])', InReach(execlist[i])'
      PROVE  Reached(execlist[i])'
  <2>1. CASE i = turn
    <3>1. dev'[d].time + dev[d].cycle > target'
      <4>1. target' <= dev'[d].time
        BY <1>4, <1>5
      <4>2. \A t, u, c \in Nat : t <= u /\ c # 0 => u + c > t
        OBVIOUS
      <4>. QED  BY <1>1, <4>1, <4>2
    <3>2. dev[d].cycle \in Clocks(d)'
      BY <1>1 DEF Clocks
    <3>. QED  BY <2>1, <3>1, <3>2 DEF Reached
  <2>2. CASE i # turn
    <3>1. i < turn
      BY <1>1, <1>5, <2>2, ListFacts DEF Sound
    <3>2. PICK e \in Devices : e = execlist[i] /\ e # d
      BY <2>2, ListFacts DEF Sound
    <3>3. dev'[e] = dev[e]
      BY <3>2
    <3>4. Runs(e) /\ InReach(e)
      BY <1>5, <3>2, <3>3 DEF Runs, InReach, LongestSlice
    <3>5. target # base
      BY <1>1, <1>4, <1>5
    <3>6. Reached(e)
      BY <3>1, <3>2, <3>4, <3>5 DEF Pace, HadTurn
    <3>7. PICK cycle \in Clocks(e) : dev[e].time + cycle > target
      BY <3>6 DEF Reached
    <3>8. dev'[e].time + cycle > target'
      <4>1. dev[e].time \in Nat /\ cycle \in Nat
        BY TimesNat
      <4>. QED  BY <1>1, <1>4, <3>3, <3>7, <4>1
    <3>9. cycle \in Clocks(e)'
      BY DEF Clocks
    <3>. QED  BY <3>2, <3>8, <3>9 DEF Reached
  <2>. QED  BY <2>1, <2>2
<1>6. HadTurn'
  BY <1>5 DEF HadTurn
<1>. QED  BY <1>4, <1>6

\* Who does not get a turn has reached the target, or is a second or more away from it.
LEMMA PassOverPace ==
  ASSUME Sound, Pace, PassOver
  PROVE  HadTurn'
<1>1. turn \in 1 .. Len(execlist) /\ turn \in Nat /\ ~TakesTurn(execlist[turn]) /\ Passing
      /\ turn' = turn + 1
  BY DEF PassOver, Sound, TypeOK, InTurn, Passing
<1>2. PICK d \in Devices : d = execlist[turn]
  BY <1>1, ListFacts DEF Sound
<1>3. UNCHANGED <<machine, dev, execlist, qmin, base, target>>
  BY DEF PassOver, clockVars
<1>4. ASSUME Runs(d), InReach(d) PROVE Reached(d)
  <2>1. /\ dev[d].time \in Nat /\ dev[d].cycle \in Nat \ {0} /\ dev[d].cycle \in Clocks(d)
        /\ target \in Nat /\ base \in Nat /\ Second \in Nat
    BY TimesNat
  <2>2. LongestSlice \in Nat /\ target <= base + LongestSlice
    BY <1>1, SliceFacts DEF Pace
  <2>3. target < dev[d].time + Second
    BY <1>4, <2>1, <2>2 DEF InReach
  <2>4. CASE dev[d].time <= target
    <3>1. Delta(d) = target - dev[d].time /\ target \div Second >= dev[d].time \div Second
      BY <2>3, <2>4, ShortDelta
    <3>2. ~(Delta(d) >= dev[d].cycle)
      BY <1>1, <1>2, <1>4, <3>1 DEF TakesTurn
    <3>3. dev[d].time + dev[d].cycle > target
      BY <2>1, <3>1, <3>2
    <3>. QED  BY <2>1, <3>3 DEF Reached
  <2>5. CASE ~(dev[d].time <= target)
    <3>1. dev[d].time + dev[d].cycle > target
      BY <2>1, <2>5
    <3>. QED  BY <2>1, <3>1 DEF Reached
  <2>. QED  BY <2>4, <2>5
<1>5. ASSUME target # base, NEW i \in 1 .. Len(execlist), i < turn', Runs(execlist[i]),
             InReach(execlist[i])
      PROVE  Reached(execlist[i])
  <2>1. CASE i = turn
    BY <1>2, <1>4, <1>5, <2>1
  <2>2. CASE i # turn
    <3>1. i < turn
      BY <1>1, <1>5, <2>2, ListFacts DEF Sound
    <3>. QED  BY <1>1, <1>5, <3>1 DEF Pace, HadTurn
  <2>. QED  BY <2>1, <2>2
<1>6. target = base \/ \A i \in 1 .. Len(execlist) :
                         i < turn' /\ Runs(execlist[i]) /\ InReach(execlist[i])
                           => Reached(execlist[i])
  BY <1>5
<1>. QED  BY <1>3, <1>6 DEF HadTurn, Runs, InReach, Reached, LongestSlice, Clocks

\* The alarms: those the next target has not been past, and those set since.
LEMMA TimesNonneg ==
  ASSUME Sound, NEW d \in Devices, NEW n \in machine.cycles, NEW t \in Nat
  PROVE  t <= t + n * dev[d].cycle /\ t + n * dev[d].cycle \in Nat
<1>1. PICK c \in Nat, m \in Nat : c = dev[d].cycle /\ m = n
  BY TimesNat
<1>2. m * c \in Nat
  OBVIOUS
<1>. QED  BY <1>1, <1>2

\* Device code takes cycles away from the device executing or leaves it those it has, and
\* none are left to it once the slice is ended.
LEMMA OperationLimit ==
  ASSUME Sound, Operation, IF phase = "run" THEN used <= limit ELSE used = 0
  PROVE  /\ IF phase = "run" THEN used' <= limit' ELSE used' = 0
         /\ limit = used => limit' = used /\ used' = used
<1>0. used \in Nat /\ limit \in Nat
  BY TimesNat
<1>1. ASSUME used' = used, limit' \in {used, limit}
      PROVE  /\ IF phase = "run" THEN used' <= limit' ELSE used' = 0
             /\ limit = used => limit' = used /\ used' = used
  BY <1>0, <1>1
<1>2. ASSUME NEW told, Abort(told) PROVE limit' \in {used, limit}
  BY <1>2 DEF Abort
<1>3. CASE \E cycles \in {1, limit} : EatCycles(cycles)
  <2>1. PICK cycles \in {1, limit} : EatCycles(cycles)
    BY <1>3
  <2>2. phase = "run" /\ used' <= limit /\ used <= used' /\ limit' = limit /\ used' \in Nat
    <3>1. phase = "run" /\ limit' = limit
      BY <2>1 DEF EatCycles
    <3>2. Quiet /\ (used <= limit => used' <= limit /\ used <= used')
      BY <2>1, EatCyclesQuiet
    <3>. QED  BY <3>1, <3>2 DEF Quiet
  <2>. QED  BY <1>0, <2>2
<1>4. CASE ~ \E cycles \in {1, limit} : EatCycles(cycles)
  <2>1. used' = used /\ limit' \in {used, limit}
    <3>1. ASSUME NEW e \in Spinners, NEW eatcycles \in BOOLEAN, Yield(e, eatcycles)
          PROVE  used' = used /\ limit' \in {used, limit}
      BY <1>2, <3>1 DEF Yield, Suspend, sliceVars
    <3>2. ASSUME NEW e, NEW id, SpinUntilTrigger(e, id)
          PROVE  used' = used /\ limit' \in {used, limit}
      BY <1>2, <3>2 DEF SpinUntilTrigger, sliceVars
    <3>3. ASSUME NEW e, NEW duration, SpinUntilTime(e, duration)
          PROVE  used' = used /\ limit' \in {used, limit}
      BY <1>2, <3>3 DEF SpinUntilTime, sliceVars
    <3>4. ASSUME NEW id, NEW told, Trigger(id, told)
          PROVE  used' = used /\ limit' \in {used, limit}
      BY <1>2, <3>4 DEF Trigger, sliceVars
    <3>5. ASSUME NEW id, NEW after, TriggerAfter(id, after)
          PROVE  used' = used /\ limit' \in {used, limit}
      BY <1>2, <3>5 DEF TriggerAfter, sliceVars
    <3>6. ASSUME NEW e, NEW asserted, Halt(e, asserted)
          PROVE  used' = used /\ limit' \in {used, limit}
      BY <1>2, <3>6 DEF Halt, Suspend, Resume, sliceVars
    <3>7. ASSUME NEW e, ResetDevice(e)
          PROVE  used' = used /\ limit' \in {used, limit}
      BY <1>2, <3>7 DEF ResetDevice, Suspend, Resume, sliceVars
    <3>8. ASSUME NEW e, NEW period, SetClock(e, period)
          PROVE  used' = used /\ limit' \in {used, limit}
      BY <1>2, <3>8 DEF SetClock, sliceVars
    <3>9. ASSUME NEW quantum, NEW duration, Boost(quantum, duration)
          PROVE  used' = used /\ limit' \in {used, limit}
      BY <3>9 DEF Boost, sliceVars
    <3>. QED  BY <1>4, <3>1, <3>2, <3>3, <3>4, <3>5, <3>6, <3>7, <3>8, <3>9 DEF Operation
  <2>. QED  BY <1>1, <2>1
<1>. QED  BY <1>3, <1>4

\* An alarm set in the middle of a slice is for now or later, and if it comes before those
\* that were set, the device executing has no cycles left.
LEMMA OperationAlarms ==
  ASSUME Sound, Operation, phase = "run", NEW a \in alarms'
  PROVE  \/ a \in alarms
         \/ Now <= a.at /\ ((limit' = used /\ used' = used) \/ \E b \in alarms : b.at <= a.at)
<1>. DEFINE HeardOf(x) ==
       \/ x \in alarms
       \/ Now <= x.at /\ ((limit' = used /\ used' = used) \/ \E b \in alarms : b.at <= x.at)
<1>0. Now \in Nat /\ Executing \in Devices /\ \A b \in alarms : b.at \in Nat
  BY Running, TimesNat
<1>1. ASSUME NEW at, NEW id, NEW to, NEW duration \in Durations, at = Now + duration,
             SetAlarm(at, id, to), NEW others, Abort(IF IsNext(at) THEN Devices ELSE others),
             used' = used
      PROVE  HeardOf(a)
  <2>1. SUFFICES ASSUME a \notin alarms
                 PROVE  Now <= a.at /\ (limit' = used \/ \E b \in alarms : b.at <= a.at)
    BY <1>1
  <2>2. a = [at |-> at, trig |-> id, to |-> to]
    BY <1>1, <2>1 DEF SetAlarm
  <2>3. duration \in Nat /\ at \in Nat /\ a.at = at /\ Now <= at
    BY <1>0, <1>1, <2>2, SchedulerAssumption
  <2>4. CASE IsNext(at)
    BY <1>0, <1>1, <2>3, <2>4 DEF Abort
  <2>5. CASE ~IsNext(at)
    <3>1. PICK b \in alarms : ~(at < b.at)
      BY <2>5 DEF IsNext
    <3>. QED  BY <1>0, <2>3, <3>1
  <2>. QED  BY <2>4, <2>5
<1>2. ASSUME NEW e \in Spinners, NEW duration \in Durations, SpinUntilTime(e, duration)
      PROVE  HeardOf(a)
  <2>1. /\ SetAlarm(Now + duration, timetrig, {e}) /\ used' = used
        /\ Abort(IF IsNext(Now + duration) THEN Devices ELSE {e})
    BY <1>2 DEF SpinUntilTime, sliceVars
  <2>2. PICK at : at = Now + duration
    OBVIOUS
  <2>3. SetAlarm(at, timetrig, {e}) /\ Abort(IF IsNext(at) THEN Devices ELSE {e})
    BY <2>1, <2>2
  <2>. QED  BY <1>1, <2>1, <2>2, <2>3
<1>3. ASSUME NEW id \in Triggers, NEW after \in Durations, TriggerAfter(id, after)
      PROVE  HeardOf(a)
  <2>1. /\ SetAlarm(Now + after, id, Devices) /\ used' = used
        /\ Abort(IF IsNext(Now + after) THEN Devices ELSE {})
    BY <1>3 DEF TriggerAfter, sliceVars
  <2>2. PICK at : at = Now + after
    OBVIOUS
  <2>3. SetAlarm(at, id, Devices) /\ Abort(IF IsNext(at) THEN Devices ELSE {})
    BY <2>1, <2>2
  <2>. QED  BY <1>1, <2>1, <2>2, <2>3
<1>4. CASE \E e \in Spinners, duration \in Durations : SpinUntilTime(e, duration)
  BY <1>2, <1>4
<1>5. CASE \E id \in Triggers, after \in Durations : TriggerAfter(id, after)
  BY <1>3, <1>5
<1>6. CASE ~(\E e \in Spinners, duration \in Durations : SpinUntilTime(e, duration))
           /\ ~(\E id \in Triggers, after \in Durations : TriggerAfter(id, after))
  <2>1. alarms' = alarms
    BY <1>6 DEF Operation, Yield, SpinUntilTrigger, Trigger, Halt, ResetDevice, SetClock, Boost,
       EatCycles
  <2>. QED  BY <2>1
<1>. QED  BY <1>4, <1>5, <1>6

LEMMA OperationPace ==
  ASSUME Fast, Sound, Sound', Pace, Operation
  PROVE  Pace'
<1>1. Quiet
  BY OperationQuiet
<1>2. /\ UNCHANGED <<machine, execlist, base, target, turn, phase>>
      /\ \A d \in Devices : /\ dev'[d].suspend = dev[d].suspend /\ dev'[d].eat = dev[d].eat
                            /\ dev'[d].time = dev[d].time
                            /\ "clock" \notin machine.ops => dev'[d].cycle = dev[d].cycle
      /\ "clock" \notin machine.ops => qmin' = qmin
  BY <1>1 DEF Quiet
<1>3. qmin' <= Second - 1
  <2>1. CASE qmin' = qmin
    BY <2>1 DEF Pace
  <2>2. CASE qmin' # qmin
    <3>1. qmin' \in 0 .. Second - 1
      BY <2>2, MinimumFollows DEF Next
    <3>. QED  BY <3>1, SchedulerAssumption
  <2>. QED  BY <2>1, <2>2
<1>4. /\ IF phase = "run" THEN used' <= limit' ELSE used' = 0
      /\ limit = used => limit' = used /\ used' = used
  BY OperationLimit DEF Pace
<1>5. LongestSlice' = LongestSlice
  BY <1>2 DEF LongestSlice
<1>6. ASSUME Passing
      PROVE  /\ base <= target /\ target <= base + LongestSlice
             /\ HadTurn'
  <2>1. HadTurn /\ base <= target /\ target <= base + LongestSlice
    BY <1>6 DEF Pace
  <2>2. ASSUME target # base, NEW i \in 1 .. Len(execlist), i < turn, Runs(execlist[i])',
               InReach(execlist[i])'
        PROVE  Reached(execlist[i])'
    <3>1. PICK d \in Devices : d = execlist[i]
      BY ListFacts DEF Sound
    <3>2. Runs(d) /\ InReach(d)
      BY <1>2, <1>5, <2>2, <3>1 DEF Runs, InReach
    <3>3. Reached(d)
      BY <2>1, <2>2, <3>1, <3>2 DEF HadTurn
    <3>4. Reached(d)'
      BY <1>2, <3>3 DEF Reached, Clocks
    <3>. QED  BY <1>2, <3>1, <3>4
  <2>. QED  BY <1>2, <2>1, <2>2 DEF HadTurn
<1>7. ASSUME Passing, "clock" \notin machine.ops, NEW a \in alarms'
      PROVE  Heard(a)'
  <2>0. phase = "run"
    BY <1>7 DEF Passing, CodeRuns, Operation, Yield, SpinUntilTrigger, SpinUntilTime, Trigger,
       TriggerAfter, Halt, ResetDevice, SetClock, Boost, EatCycles
  <2>1. target \in Nat /\ a.at \in Nat /\ used \in Nat /\ \A b \in alarms : b.at \in Nat
    <3>1. a \in AlarmRec
      BY <1>7 DEF Sound, TypeOK
    <3>. QED  BY <3>1, TimesNat DEF AlarmRec
  <2>2. used' = used => Now' = Now
    <3>1. Executing \in Devices /\ Executing' = Executing
      BY <1>2, <2>0, Running DEF Executing
    <3>. QED  BY <1>2, <1>7, <2>0, <3>1 DEF Now
  <2>3. ASSUME Now <= a.at, limit' = used, used' = used PROVE Heard(a)'
    BY <1>2, <2>0, <2>2, <2>3 DEF Heard
  <2>4. ASSUME NEW b \in alarms, b.at <= a.at PROVE Heard(a)'
    <3>1. Heard(b)
      BY <1>7 DEF Pace
    <3>2. CASE target = base
      BY <1>2, <3>2 DEF Heard
    <3>3. CASE \E d \in Devices, n \in machine.cycles : target <= b.at + n * dev[d].cycle
      <4>1. PICK d \in Devices, n \in machine.cycles : target <= b.at + n * dev[d].cycle
        BY <3>3
      <4>2. PICK m \in Nat : m = n * dev[d].cycle
        <5>1. n \in Nat /\ dev[d].cycle \in Nat
          BY TimesNat
        <5>. QED  BY <5>1
      <4>3. target <= a.at + m
        BY <2>1, <2>4, <4>1, <4>2
      <4>4. target' <= a.at + n * dev'[d].cycle
        BY <1>2, <1>7, <4>2, <4>3
      <4>. QED  BY <1>2, <4>4 DEF Heard
    <3>4. CASE phase = "run" /\ limit = used /\ Now <= b.at
      <4>1. limit' = used /\ used' = used
        BY <1>4, <3>4
      <4>2. Now <= a.at
        BY <2>1, <2>4, <3>4, Running
      <4>. QED  BY <2>3, <4>1, <4>2
    <3>. QED  BY <3>1, <3>2, <3>3, <3>4 DEF Heard
  <2>. QED  BY <2>0, <2>1, <2>3, <2>4, OperationAlarms
<1>8. Passing' <=> Passing
  BY <1>2 DEF Passing
<1>. QED  BY <1>2, <1>3, <1>4, <1>5, <1>6, <1>7, <1>8 DEF Pace

\* Between the passes the invariant speaks of the minimum alone.
LEMMA BetweenPace ==
  ASSUME Pace, UNCHANGED <<machine, qmin>>, phase' \notin {"pass", "run"}, used' = 0
  PROVE  Pace'
BY DEF Pace, Passing

\* Whether an alarm is heard of before the target, in the terms of the next state.
LEMMA HeardLater ==
  ASSUME Sound, UNCHANGED <<machine, base, alarms>>, NEW a \in alarms,
         \A d \in Devices : dev'[d].cycle = dev[d].cycle, target' \in Nat,
         \/ target' = base
         \/ target' <= target /\ target = base /\ base <= target'
         \/ \E d \in Devices, n \in machine.cycles :
              target' <= target /\ target <= a.at + n * dev[d].cycle
         \/ \E d \in Devices, n \in machine.cycles : target' <= a.at + n * dev[d].cycle
  PROVE  Heard(a)'
<1>0. target \in Nat /\ base \in Nat /\ a.at \in Nat
  BY TimesNat
<1>1. CASE target' = base
  BY <1>1 DEF Heard
<1>2. CASE target' <= target /\ target = base /\ base <= target'
  BY <1>0, <1>2 DEF Heard
<1>3. ASSUME NEW d \in Devices, NEW n \in machine.cycles,
             target' <= target, target <= a.at + n * dev[d].cycle
      PROVE  target' <= a.at + n * dev[d].cycle
  BY <1>0, <1>3, TimesNonneg
<1>4. ASSUME NEW d \in Devices, NEW n \in machine.cycles, target' <= a.at + n * dev[d].cycle
      PROVE  Heard(a)'
  <2>1. target' <= a.at + n * dev'[d].cycle
    BY <1>4
  <2>. QED  BY <2>1 DEF Heard
<1>. QED  BY <1>1, <1>2, <1>3, <1>4

LEMMA BeginPassPace ==
  ASSUME Sound, Sound', Pace, BeginPass
  PROVE  Pace'
<1>1. /\ UNCHANGED <<machine, qmin, base, used, alarms>> /\ target' = NextTarget
      /\ NoAlarmBefore(base + 1) /\ turn' = 1 /\ phase' = "pass" /\ phase = "loop"
  BY DEF BeginPass
<1>2. qmin <= Second - 1 /\ used = 0
  BY <1>1 DEF Pace
<1>3. /\ NextTarget \in Nat /\ base <= NextTarget
      /\ NextTarget <= base + Larger(machine.quantum, qmin)
      /\ \A a \in alarms : NextTarget <= a.at
  BY <1>1, TargetFacts
<1>4. base <= target' /\ target' <= base + LongestSlice
  <2>1. LongestSlice \in Nat /\ Larger(machine.quantum, qmin) <= LongestSlice
    BY <1>2, SliceFacts
  <2>2. Larger(machine.quantum, qmin) \in Nat /\ base \in Nat
    BY MachineFacts DEF Sound, TypeOK, Larger
  <2>. QED  BY <1>1, <1>3, <2>1, <2>2
<1>5. HadTurn'
  <2>1. \A i \in 1 .. Len(execlist') : ~(i < turn')
    BY <1>1, ListFacts DEF Sound
  <2>. QED  BY <2>1 DEF HadTurn
<1>6. ASSUME NEW a \in alarms' PROVE Heard(a)'
  <2>1. PICK d \in Devices, n \in machine.cycles : TRUE
    BY TreeOrder, TimesNat
  <2>2. PICK c \in Nat, m \in Nat : c = dev'[d].cycle /\ m = n
    BY TimesNat, DevFacts DEF Sound, TypeOK
  <2>3. m * c \in Nat
    OBVIOUS
  <2>4. target' <= a.at + n * dev'[d].cycle
    <3>1. a.at \in Nat /\ target' <= a.at
      BY <1>1, <1>3, <1>6, TimesNat
    <3>2. target' <= a.at + m * c
      BY <1>1, <1>3, <2>3, <3>1
    <3>. QED  BY <2>2, <3>2
  <2>. QED  BY <1>1, <2>4 DEF Heard
<1>7. LongestSlice' = LongestSlice
  BY <1>1 DEF LongestSlice
<1>. QED  BY <1>1, <1>2, <1>4, <1>5, <1>6, <1>7 DEF Pace

LEMMA IdlePace ==
  ASSUME Sound, Sound', Pace, IdleDevice
  PROVE  Pace'
<1>1. /\ turn \in 1 .. Len(execlist) /\ Passing /\ phase = "pass" /\ phase' = "pass"
      /\ UNCHANGED <<machine, execlist, qmin, base, used, limit, alarms, pending, quanta, calling,
                     timetrig, files>>
  BY DEF IdleDevice, codeVars, Sound, TypeOK, InTurn, Passing
<1>2. PICK d \in Devices : d = execlist[turn]
  BY <1>1, ListFacts DEF Sound
<1>3. TakesTurn(d) /\ Account(d, Cycles(d))
  BY <1>2 DEF IdleDevice
<1>4. Cycles(d) \in Nat
  BY <1>3, DeltaFacts
<1>5. PICK ran \in Nat : Account(d, ran)
  BY <1>3, <1>4
<1>6. \A e \in Devices : (e # d => dev'[e] = dev[e]) /\ dev'[e].cycle = dev[e].cycle
  <2>1. used' \in Nat /\ limit' \in Nat
    BY <1>1, TimesNat
  <2>. QED  BY <1>1, <1>5, <2>1, AccountSound
<1>7. base <= target' /\ target' <= target /\ HadTurn'
  BY <1>1, <1>2, <1>5, <1>6, AccountPace
<1>8. ASSUME "clock" \notin machine.ops, NEW a \in alarms PROVE Heard(a)'
  <2>1. Heard(a)
    BY <1>1, <1>8 DEF Pace
  <2>2. target' \in Nat
    BY DEF Sound, TypeOK
  <2>. QED  BY <1>1, <1>6, <1>7, <2>1, <2>2, HeardLater DEF Heard
<1>9. LongestSlice' = LongestSlice /\ target' <= base + LongestSlice
  <2>1. LongestSlice' = LongestSlice
    BY <1>1 DEF LongestSlice
  <2>2. target <= base + LongestSlice /\ LongestSlice \in Nat
    BY <1>1, SliceFacts DEF Pace
  <2>3. target \in Nat /\ base \in Nat /\ target' \in Nat
    BY TimesNat DEF Sound, TypeOK
  <2>. QED  BY <1>7, <2>1, <2>2, <2>3
<1>. QED  BY <1>1, <1>7, <1>8, <1>9 DEF Pace

LEMMA LeavePace ==
  ASSUME Sound, Sound', Pace, LeaveDevice
  PROVE  Pace'
<1>1. /\ turn \in 1 .. Len(execlist) /\ Passing /\ phase = "run" /\ phase' = "pass"
      /\ used' = 0 /\ limit' = 0
      /\ UNCHANGED <<machine, execlist, qmin, base, alarms, pending, quanta, calling, timetrig,
                     files>>
  BY LeaveFacts DEF LeaveDevice, codeVars, Passing
<1>2. PICK d \in Devices : d = execlist[turn] /\ d = Executing
  BY LeaveFacts
<1>3. PICK n \in machine.cycles : used + n \in Nat /\ used + n >= limit /\ Account(d, used + n)
  BY <1>2, LeaveFacts
<1>4. PICK ran \in Nat : ran = used + n /\ Account(d, ran)
  BY <1>3
<1>5. /\ \A e \in Devices : (e # d => dev'[e] = dev[e]) /\ dev'[e].cycle = dev[e].cycle
      /\ dev'[d].time = dev[d].time + ran * dev[d].cycle
  <2>1. used' \in Nat /\ limit' \in Nat
    BY <1>1
  <2>. QED  BY <1>1, <1>4, <2>1, AccountSound
<1>6. base <= target' /\ target' <= target /\ (target' <= dev'[d].time \/ target' = base)
      /\ HadTurn'
  BY <1>1, <1>2, <1>4, <1>5, AccountPace
<1>7. ASSUME "clock" \notin machine.ops, NEW a \in alarms PROVE Heard(a)'
  <2>1. Heard(a)
    BY <1>1, <1>7 DEF Pace
  <2>2. target' \in Nat
    BY DEF Sound, TypeOK
  <2>3. CASE limit = used /\ Now <= a.at
    <3>1. Now = dev[d].time + used * dev[d].cycle
      BY <1>1, <1>2, Running
    <3>2. dev'[d].time <= a.at + n * dev[d].cycle
      <4>1. PICK t \in Nat, c \in Nat, u \in Nat, m \in Nat, x \in Nat :
              t = dev[d].time /\ c = dev[d].cycle /\ u = used /\ m = n /\ x = a.at
        BY TimesNat
      <4>2. t + u * c <= x /\ dev'[d].time = t + (u + m) * c
        BY <1>4, <1>5, <2>3, <3>1, <4>1
      <4>3. (u + m) * c = u * c + m * c /\ u * c \in Nat /\ m * c \in Nat
        OBVIOUS
      <4>4. t + (u + m) * c <= x + m * c
        BY <4>2, <4>3
      <4>. QED  BY <4>1, <4>2, <4>4
    <3>3. target' = base \/ target' <= a.at + n * dev[d].cycle
      <4>1. CASE target' = base
        BY <4>1
      <4>2. CASE target' <= dev'[d].time
        <5>1. dev'[d].time \in Nat /\ a.at + n * dev[d].cycle \in Nat
          <6>1. dev'[d].time \in Nat
            BY DevFacts DEF Sound, TypeOK
          <6>. QED  BY <6>1, TimesNat, TimesNonneg
        <5>. QED  BY <2>2, <3>2, <4>2, <5>1
      <4>. QED  BY <1>6, <4>1, <4>2
    <3>. QED  BY <1>1, <1>5, <2>2, <3>3, HeardLater
  <2>4. CASE ~(limit = used /\ Now <= a.at)
    BY <1>1, <1>5, <1>6, <2>1, <2>2, <2>4, HeardLater DEF Heard
  <2>. QED  BY <2>3, <2>4
<1>8. LongestSlice' = LongestSlice /\ target' <= base + LongestSlice
  <2>1. LongestSlice' = LongestSlice
    BY <1>1 DEF LongestSlice
  <2>2. target <= base + LongestSlice /\ LongestSlice \in Nat
    BY <1>1, SliceFacts DEF Pace
  <2>3. target \in Nat /\ base \in Nat /\ target' \in Nat
    BY TimesNat DEF Sound, TypeOK
  <2>. QED  BY <1>6, <2>1, <2>2, <2>3
<1>. QED  BY <1>1, <1>6, <1>7, <1>8 DEF Pace

\* The steps in a pass that change neither the target nor a local time.
LEMMA StayPace ==
  ASSUME Sound, Pace, UNCHANGED <<machine, dev, execlist, qmin, base, target, alarms>>,
         IF phase' = "run" THEN used' <= limit' ELSE used' = 0,
         Passing, HadTurn',
         phase = "run" => limit # used
  PROVE  Pace'
<1>1. LongestSlice' = LongestSlice
  BY DEF LongestSlice
<1>2. ASSUME "clock" \notin machine.ops, NEW a \in alarms PROVE Heard(a)'
  <2>1. Heard(a)
    BY <1>2 DEF Pace
  <2>. QED  BY <2>1 DEF Heard
<1>. QED  BY <1>1, <1>2 DEF Pace

LEMMA TimeslicePace ==
  ASSUME Sound, Sound', Pace, Timeslice
  PROVE  Pace'
<1>. USE DEF clockVars, codeVars
<1>0. used \in Nat /\ limit \in Nat /\ limit' \in Nat /\ used' \in Nat
  BY TimesNat DEF Sound, TypeOK
<1>1. CASE BeginTimeslice \/ EndPass \/ BeginTimers \/ Ring \/ EndCallback \/ EndTimers
  <2>1. UNCHANGED <<machine, qmin, used>> /\ phase' \notin {"pass", "run"} /\ phase # "run"
    BY <1>1 DEF BeginTimeslice, EndPass, BeginTimers, Ring, EndCallback, EndTimers
  <2>2. used' = 0
    BY <2>1 DEF Pace
  <2>. QED  BY <2>1, <2>2, BetweenPace
<1>2. CASE BeginPass
  BY <1>2, BeginPassPace
<1>3. CASE PassOver
  <2>1. UNCHANGED <<machine, dev, execlist, qmin, base, target, alarms, used>>
        /\ phase = "pass" /\ phase' = "pass"
    BY <1>3 DEF PassOver
  <2>2. used' = 0 /\ Passing
    BY <2>1 DEF Pace, Passing
  <2>3. HadTurn'
    BY <1>3, PassOverPace
  <2>. QED  BY <2>1, <2>2, <2>3, StayPace
<1>4. CASE IdleDevice
  BY <1>4, IdlePace
<1>5. CASE EnterDevice
  <2>1. UNCHANGED <<machine, dev, execlist, qmin, base, target, alarms, used, turn>>
        /\ phase = "pass" /\ phase' = "run"
    BY <1>5 DEF EnterDevice
  <2>2. used' <= limit' /\ Passing
    BY <1>0, <2>1 DEF Pace, Passing
  <2>3. HadTurn'
    BY <2>1, <2>2 DEF Pace, HadTurn, Runs, InReach, Reached, LongestSlice, Clocks
  <2>. QED  BY <2>1, <2>2, <2>3, StayPace
<1>6. CASE NextInstruction
  <2>1. UNCHANGED <<machine, dev, execlist, qmin, base, target, alarms, limit, turn>>
        /\ phase = "run" /\ phase' = "run" /\ used' < limit
    BY <1>6 DEF NextInstruction
  <2>2. limit # used
    <3>1. PICK n \in machine.cycles : used' = used + n
      BY <1>6 DEF NextInstruction
    <3>. QED  BY <1>0, <2>1, <3>1, TimesNat
  <2>3. used' <= limit' /\ Passing
    BY <1>0, <2>1 DEF Passing
  <2>4. HadTurn'
    BY <2>1, <2>3 DEF Pace, HadTurn, Runs, InReach, Reached, LongestSlice, Clocks
  <2>. QED  BY <2>1, <2>2, <2>3, <2>4, StayPace
<1>7. CASE LeaveDevice
  BY <1>7, LeavePace
<1>. QED  BY <1>1, <1>2, <1>3, <1>4, <1>5, <1>6, <1>7 DEF Timeslice

LEMMA InitPace == Fast /\ Init => Sound /\ Pace
<1>. SUFFICES ASSUME Fast, Init PROVE Sound /\ Pace
  OBVIOUS
<1>1. Sound
  BY InitSound
<1>2. \A d \in Devices : MinimumQuantum(dev, d) \in 0 .. Second - 1
  BY <1>1, FastCycles DEF Sound, TypeOK, Ticking
<1>3. qmin = Perfect(dev, DeviceOrder) /\ DeviceOrder \in Seq(Devices)
      /\ IsInjective(DeviceOrder) /\ ToSet(DeviceOrder) = Devices
  BY SchedulerAssumption DEF Init, Devices
<1>4. qmin \in 0 .. Second - 1
  BY <1>2, <1>3, PerfectSecond
<1>5. qmin <= Second - 1
  BY <1>4, SchedulerAssumption
<1>6. phase = "top" /\ used = 0
  BY DEF Init
<1>7. Pace
  BY <1>5, <1>6 DEF Pace, Passing
<1>. QED  BY <1>1, <1>7

LEMMA NextPace ==
  ASSUME Fast, Sound, Pace, [Next]_vars
  PROVE  Sound' /\ Pace'
<1>0. Sound'
  BY NextSound
<1>1. CASE Timeslice
  BY <1>0, <1>1, TimeslicePace
<1>2. CASE Operation
  BY <1>0, <1>2, OperationPace
<1>3. CASE SaveState \/ LoadState
  <2>1. UNCHANGED <<machine, qmin, used, phase>> /\ phase = "top"
    BY <1>3 DEF SaveState, LoadState, clockVars
  <2>2. used' = 0
    BY <2>1 DEF Pace
  <2>. QED  BY <1>0, <2>1, <2>2, BetweenPace
<1>4. CASE AtHorizon \/ UNCHANGED vars
  <2>1. UNCHANGED vars
    BY <1>4 DEF AtHorizon
  <2>2. Pace'
    BY <2>1 DEF vars, Pace, Passing, HadTurn, Runs, InReach, Reached, Heard, LongestSlice, Clocks,
       Now, Executing
  <2>. QED  BY <1>0, <2>2
<1>. QED  BY <1>1, <1>2, <1>3, <1>4 DEF Next

\* The base time keeps pace with the devices and their triggers.
THEOREM BaseInStep ==
  ASSUME Fast
  PROVE  Spec => BaseKeepsPace
<1>. DEFINE Step ==
       /\ phase = "pass" /\ base' > base =>
            /\ \A d \in Devices :
                 Runs(d) /\ base + LongestSlice < dev[d].time + Second
                   => \E cycle \in Clocks(d) : dev[d].time + cycle > base'
            /\ "clock" \notin machine.ops =>
                 \A a \in alarms : \E d \in Devices, n \in machine.cycles :
                   base' <= a.at + n * dev[d].cycle
       /\ base' < base => phase = "top" /\ files' # {}
<1>1. ASSUME Sound, Pace, [Next]_vars PROVE Step
  <2>0. base \in Nat /\ target \in Nat
    BY <1>1, TimesNat
  <2>1. CASE EndPass
    <3>1. phase = "pass" /\ turn > Len(execlist) /\ base' = target /\ Passing
      BY <2>1 DEF EndPass, Passing
    <3>2. base <= target /\ HadTurn
          /\ ("clock" \notin machine.ops => \A a \in alarms : Heard(a))
      BY <1>1, <3>1 DEF Pace
    <3>3. ASSUME base' > base, NEW d \in Devices, Runs(d), InReach(d) PROVE Reached(d)
      <4>1. PICK i \in 1 .. Len(execlist) : execlist[i] = d
        BY <1>1, ListFacts DEF Sound
      <4>2. i < turn /\ target # base
        BY <1>1, <2>0, <3>1, <3>3, ListFacts, TimesNat DEF Sound
      <4>. QED  BY <3>2, <3>3, <4>1, <4>2 DEF HadTurn
    <3>4. ASSUME base' > base, "clock" \notin machine.ops, NEW a \in alarms
          PROVE  \E d \in Devices, n \in machine.cycles : base' <= a.at + n * dev[d].cycle
      <4>1. target # base
        BY <2>0, <3>1, <3>4
      <4>. QED  BY <3>1, <3>2, <3>4, <4>1 DEF Heard
    <3>5. ~(base' < base)
      BY <2>0, <3>1, <3>2
    <3>. QED  BY <3>1, <3>3, <3>4, <3>5 DEF InReach, Reached
  <2>2. CASE LoadState
    BY <2>2 DEF LoadState
  <2>3. CASE ~EndPass /\ ~LoadState
    <3>1. base' = base
      BY <1>1, <2>3 DEF Next, Timeslice, BeginTimeslice, BeginPass, PassOver, IdleDevice,
         EnterDevice, NextInstruction, LeaveDevice, BeginTimers, Ring, EndCallback, EndTimers,
         SaveState, AtHorizon, vars, Operation, Yield, SpinUntilTrigger, SpinUntilTime, Trigger,
         TriggerAfter, Halt, ResetDevice, SetClock, Boost, EatCycles, sliceVars
    <3>. QED  BY <2>0, <3>1
  <2>. QED  BY <2>1, <2>2, <2>3
<1>2. Sound /\ Pace /\ [Next]_vars => [Step]_vars
  BY <1>1
<1>3. BaseKeepsPace <=> [][Step]_vars
  BY DEF BaseKeepsPace
<1>4. Sound /\ Pace /\ [Next]_vars => (Sound /\ Pace)'
  BY NextPace
<1>5. Init => Sound /\ Pace
  BY InitPace
<1>. HIDE DEF Step
<1>. QED  BY <1>2, <1>3, <1>4, <1>5, PTL DEF Spec
=============================================================================
