----------------------------- MODULE Scheduler -----------------------------
(***************************************************************************)
(* The scheduler of executing devices: the slice loop of                   *)
(* device_scheduler (schedule.cpp) with the suspension, trigger and cycle  *)
(* accounting of device_execute_interface (diexec.cpp).                    *)
(*                                                                         *)
(* A device executes instructions up to the target of the slice; in the    *)
(* middle of one, and in timer callbacks, code runs that suspends, resumes *)
(* or triggers this device or others, whose effect comes later: suspend    *)
(* and resume only change the next set of reasons, which becomes the       *)
(* current one at the head of the slice loop.                              *)
(*                                                                         *)
(* Time is counted in attoseconds, Second of them to a second.  Of the     *)
(* timers only the anonymous ones that deliver triggers are kept, as a set *)
(* of alarms; the list they live in is the subject of TimerQueue.          *)
(***************************************************************************)
EXTENDS Integers, SequencesExt

CONSTANTS
  DeviceOrder,    \* the executing devices, in device tree order
  Machines,       \* the machines to look at: records with the Fields below
  Periods,        \* the clock periods a device may be set to; 0 is no clock
  Second,         \* ATTOSECONDS_PER_SECOND
  Boosts,         \* the quanta and durations given to boost_interleave
  Triggers,       \* ids of the triggers that are sent to every device
  Durations,      \* how far ahead a trigger is scheduled
  None,           \* no trigger; no executing device
  Never,          \* attotime::never
  TimeTriggers    \* number of ids for timed triggers (256)

Devices == ToSet(DeviceOrder)

Operations == {"yield", "spin", "trigger", "time", "after", "halt", "reset", "clock",
               "boost", "eat"}

\* Of a machine: the devices configured as disabled, the attoseconds per clock of each
\* at the start, the cycles an instruction can take, the scheduling quantum, the
\* operations its devices' code uses, and whether a device makes another one yield or
\* spin.  Bounds: the base time, the triggers scheduled at a time, the state files.
Fields == {"disabled", "period", "cycles", "quantum", "ops", "others", "horizon", "alarms",
           "saves"}

ASSUME SchedulerAssumption ==
  /\ DeviceOrder \in Seq(Devices) /\ IsInjective(DeviceOrder) /\ DeviceOrder # <<>>
  /\ Second \in Nat \ {0} /\ Periods \subseteq Nat
  /\ \A m \in Machines :
       /\ DOMAIN m = Fields
       /\ m.disabled \subseteq Devices /\ m.period \in [Devices -> Nat \ {0}]
       /\ m.cycles \subseteq Nat \ {0} /\ m.cycles # {}
       /\ m.quantum \in 1 .. Second - 1
       /\ m.ops \subseteq Operations /\ m.others \in BOOLEAN
       /\ {m.horizon, m.alarms, m.saves} \subseteq Nat
  /\ Boosts \subseteq (1 .. Second - 1) \X Nat
  /\ Durations \subseteq Nat
  /\ TimeTriggers \in Nat \ {0}
  /\ None \notin Devices \cup Triggers \cup Nat /\ Never \notin Nat
  /\ \A id \in Triggers \cup Devices : id \notin Nat

VARIABLES
  machine,    \* the machine
  dev,        \* the execute interface of each device
  execlist,   \* m_execute_list
  pending,    \* m_suspend_changes_pending
  quanta,     \* m_quantum_list
  qmin,       \* m_quantum_minimum
  base,       \* m_basetime
  target,     \* target in timeslice
  turn,       \* the place in execlist of the device whose turn it is
  used,       \* cycles it has used in this slice
  limit,      \* m_cycles_running: the cycles it may use
  alarms,     \* the anonymous timers that will deliver a trigger
  calling,    \* m_callback_timer_expire_time
  timetrig,   \* timetrig in spin_until_time
  phase,      \* where the program is
  files       \* the state files written so far

vars == <<machine, dev, execlist, pending, quanta, qmin, base, target, turn, used, limit,
          alarms, calling, timetrig, phase, files>>

Reasons == {"HALT", "RESET", "TRIGGER", "DISABLE", "TIMESLICE", "CLOCK"}

\* Trigger ids: those anybody may wait for, one per device for its interrupts
\* (m_inttrigger), and the ones spin_until_time goes through.
TriggerIds == Triggers \cup Devices \cup (0 .. TimeTriggers - 1)

\* The fields of a device: its suspend reasons now and from the next slice on,
\* whether it eats cycles while suspended, the trigger it waits for, its local
\* time, and its clock period with m_attoseconds_per_cycle, derived from it.
DevRec ==
  [suspend : SUBSET Reasons, next : SUBSET Reasons,
   eat : BOOLEAN, nexteat : BOOLEAN, waiting : TriggerIds \cup {None},
   time : Nat, period : Nat, cycle : Nat]

QuantumRec == [requested : Nat, actual : Nat, expire : Nat \cup {Never}]
AlarmRec == [at : Nat, trig : TriggerIds, to : SUBSET Devices]
FileRec == [dev : [Devices -> DevRec], base : Nat]

Phases == {"top", "loop", "pass", "run", "timers", "callback"}

\* m_executing_device
Executing == IF phase = "run" THEN execlist[turn] ELSE None

\* device_scheduler::time and device_execute_interface::local_time
Now == CASE phase = "callback" -> calling
         [] phase = "run" -> dev[Executing].time + used * dev[Executing].cycle
         [] OTHER -> base

Larger(a, b) == IF a > b THEN a ELSE b

----------------------------------------------------------------------------
\* What a loop over list keeps, of the members of S, in the order of the list.
Picked(list, S) ==
  LET kept[n \in 0 .. Len(list)] ==
        IF n = 0 THEN <<>>
        ELSE IF list[n] \in S THEN Append(kept[n - 1], list[n]) ELSE kept[n - 1]
  IN  kept[Len(list)]

\* Mutant of Rebuilt: the suspended devices stay where they are in the tree.
RebuiltInTreeOrder(dv) == DeviceOrder

\* The execute list: the devices in tree order, the suspended ones last.
Rebuilt(dv) ==
  LET running == {d \in Devices : dv[d].suspend = {}}
  IN  Picked(DeviceOrder, running) \o Picked(DeviceOrder, Devices \ running)

\* Mutant of Applied: a device that waits for the next slice goes on waiting.
AppliedForGood(dv) ==
  [d \in Devices |-> [dv[d] EXCEPT !.suspend = dv[d].next, !.eat = dv[d].nexteat]]

\* apply_suspend_changes: the pending reasons become the current ones, and the
\* wait for the next time slice ends with the slice that starts now.
Applied(dv) ==
  [d \in Devices |-> [dv[d] EXCEPT !.suspend = dv[d].next,
                                   !.next = @ \ {"TIMESLICE"},
                                   !.eat = dv[d].nexteat]]

\* Whether a reason changed, which leaves the changes pending for another look.
Changes(dv) == \E d \in Devices : dv[d].suspend # dv[d].next

\* Mutant of StillPending: once applied, nothing is pending.
NonePending(dv) == FALSE

StillPending(dv) == Changes(dv)

\* minimum_quantum of a device.
MinimumQuantum(dv, d) == IF dv[d].period = 0 THEN Second - 1 ELSE dv[d].cycle

\* Mutant of Perfect: the smallest is replaced but not kept as second smallest.
PerfectForgets(dv, list) ==
  LET best[n \in 1 .. Len(list)] ==
        LET q == MinimumQuantum(dv, list[n]) IN
        IF n = 1 THEN [smallest |-> q, perfect |-> Second - 1]
        ELSE IF q < best[n - 1].smallest THEN [best[n - 1] EXCEPT !.smallest = q]
        ELSE IF q < best[n - 1].perfect THEN [best[n - 1] EXCEPT !.perfect = q]
        ELSE best[n - 1]
  IN  best[Len(list)].perfect

\* compute_perfect_interleave: the second smallest cycle time of all devices.
Perfect(dv, list) ==
  LET best[n \in 1 .. Len(list)] ==
        LET q == MinimumQuantum(dv, list[n]) IN
        IF n = 1 THEN [smallest |-> q, perfect |-> Second - 1]
        ELSE IF q < best[n - 1].smallest
             THEN [smallest |-> q, perfect |-> best[n - 1].smallest]
        ELSE IF q < best[n - 1].perfect THEN [best[n - 1] EXCEPT !.perfect = q]
        ELSE best[n - 1]
  IN  best[Len(list)].perfect

Expired(q, time) == q.expire # Never /\ time >= q.expire

LaterExpiry(a, b) == IF Never \in {a, b} THEN Never ELSE Larger(a, b)

\* Mutant of AddQuantum: an exact match takes the new expiry time.
AddQuantumOver(list, min, time, quantum, expire) ==
  LET valid  == Picked(list, {q \in ToSet(list) : ~Expired(q, time)})
      before == {i \in DOMAIN valid : valid[i].requested <= quantum}
      after  == Max(before \cup {0})
  IN  IF after # 0 /\ valid[after].requested = quantum
      THEN [valid EXCEPT ![after].expire = expire]
      ELSE InsertAt(valid, after + 1, [requested |-> quantum,
                                       actual |-> Larger(quantum, min),
                                       expire |-> expire])

\* add_scheduling_quantum: expired quanta go; an exact match keeps the later
\* expiry time, another quantum goes behind those that are shorter.
AddQuantum(list, min, time, quantum, expire) ==
  LET valid  == Picked(list, {q \in ToSet(list) : ~Expired(q, time)})
      before == {i \in DOMAIN valid : valid[i].requested <= quantum}
      after  == Max(before \cup {0})
  IN  IF after # 0 /\ valid[after].requested = quantum
      THEN [valid EXCEPT ![after].expire = LaterExpiry(@, expire)]
      ELSE InsertAt(valid, after + 1, [requested |-> quantum,
                                       actual |-> Larger(quantum, min),
                                       expire |-> expire])

----------------------------------------------------------------------------
\* What device code does, in the middle of an instruction or in a callback.

CodeRuns == phase \in {"run", "callback"}

\* Whom the code may make yield or spin: itself, unless machine.others.
Spinners == IF machine.others THEN Devices ELSE {Executing} \ {None}

\* The device executing now is among those told, and gives up the rest of its
\* slice: abort_timeslice steals the cycles it has not used.
Abort(told) == limit' = IF Executing \in told THEN used ELSE limit

sliceVars == <<execlist, base, target, turn, used, calling, phase, files>>

\* suspend and resume: they set what will hold from the next slice on, tell the
\* scheduler, and end the slice of the device if it is the one executing.
Suspend(e, reason, eatcycles) ==
  /\ dev' = [dev EXCEPT ![e].next = @ \cup {reason}, ![e].nexteat = eatcycles]
  /\ pending' = TRUE
  /\ Abort({e})

Resume(e, reasons) ==
  /\ dev' = [dev EXCEPT ![e].next = @ \ reasons]
  /\ pending' = TRUE
  /\ Abort({e})

\* yield and spin: until the next time slice.
Yield(e, eatcycles) ==
  /\ CodeRuns /\ (IF eatcycles THEN "spin" ELSE "yield") \in machine.ops
  /\ Suspend(e, "TIMESLICE", eatcycles)
  /\ UNCHANGED <<machine, sliceVars, quanta, qmin, alarms, timetrig>>

\* suspend_until_trigger, with the trigger set in the same call.
WaitFor(e, id, eatcycles) ==
  /\ dev' = [dev EXCEPT ![e].next = @ \cup {"TRIGGER"}, ![e].nexteat = eatcycles,
                        ![e].waiting = id]
  /\ pending' = TRUE

SpinUntilTrigger(e, id) ==
  /\ CodeRuns /\ "trigger" \in machine.ops
  /\ WaitFor(e, id, TRUE)
  /\ Abort({e})
  /\ UNCHANGED <<machine, sliceVars, quanta, qmin, alarms, timetrig>>

\* The alarm is the new head of the timer list, so adjust aborts the slice.
SetAlarm(at, id, to) ==
  /\ Cardinality(alarms) < machine.alarms
  /\ alarms' = alarms \cup {[at |-> at, trig |-> id, to |-> to]}

\* Mutant of IsNext: a new alarm does not end the slice.
NeverNext(at) == FALSE

IsNext(at) == \A a \in alarms : at < a.at

\* Mutant of SpinUntilTime: the ids do not wrap.
SpinUntilTimeNoWrap(e, duration) ==
  /\ CodeRuns /\ "time" \in machine.ops
  /\ WaitFor(e, timetrig, TRUE)
  /\ SetAlarm(Now + duration, timetrig, {e})
  /\ Abort(IF IsNext(Now + duration) THEN Devices ELSE {e})
  /\ timetrig' = timetrig + 1
  /\ UNCHANGED <<machine, sliceVars, quanta, qmin>>

\* spin_until_time: wait for a trigger of its own and schedule it.
SpinUntilTime(e, duration) ==
  /\ CodeRuns /\ "time" \in machine.ops
  /\ WaitFor(e, timetrig, TRUE)
  /\ SetAlarm(Now + duration, timetrig, {e})
  /\ Abort(IF IsNext(Now + duration) THEN Devices ELSE {e})
  /\ timetrig' = (timetrig + 1) % TimeTriggers
  /\ UNCHANGED <<machine, sliceVars, quanta, qmin>>

\* Mutant of Fired: the trigger is compared with the reasons in force.
FiredNow(dv, id, told) ==
  [d \in Devices |->
     IF d \in told /\ "TRIGGER" \in dv[d].suspend /\ dv[d].waiting = id
     THEN [dv[d] EXCEPT !.next = @ \ {"TRIGGER"}, !.waiting = None] ELSE dv[d]]

\* A trigger resumes the devices that wait, or are about to wait, for it.
Fired(dv, id, told) ==
  [d \in Devices |->
     IF d \in told /\ "TRIGGER" \in dv[d].next /\ dv[d].waiting = id
     THEN [dv[d] EXCEPT !.next = @ \ {"TRIGGER"}, !.waiting = None] ELSE dv[d]]

\* trigger, of the scheduler (to all devices) and of one device (its interrupt
\* trigger); the device executing now gives up its slice in either case.
Trigger(id, told) ==
  /\ CodeRuns /\ "trigger" \in machine.ops
  /\ dev' = Fired(dev, id, told)
  /\ pending' = (pending \/ dev' # dev)
  /\ Abort(told)
  /\ UNCHANGED <<machine, sliceVars, quanta, qmin, alarms, timetrig>>

TriggerAfter(id, after) ==
  /\ CodeRuns /\ "after" \in machine.ops
  /\ SetAlarm(Now + after, id, Devices)
  /\ Abort(IF IsNext(Now + after) THEN Devices ELSE {})
  /\ UNCHANGED <<machine, sliceVars, dev, pending, quanta, qmin, timetrig>>

\* A device is halted, by its HALT line or by driver code, or let go.
Halt(e, asserted) ==
  /\ CodeRuns /\ "halt" \in machine.ops
  /\ IF asserted THEN Suspend(e, "HALT", TRUE) ELSE Resume(e, {"HALT"})
  /\ UNCHANGED <<machine, sliceVars, quanta, qmin, alarms, timetrig>>

\* A reset of the device enables it, unless it is configured as disabled.
ResetDevice(e) ==
  /\ CodeRuns /\ "reset" \in machine.ops
  /\ IF e \in machine.disabled THEN Suspend(e, "DISABLE", TRUE) ELSE Resume(e, Reasons)
  /\ UNCHANGED <<machine, sliceVars, quanta, qmin, alarms, timetrig>>

\* The clock is set; the quanta in use change with it.  Without a clock the device is
\* suspended, and keeps its last cycle time and quanta.
SetClock(e, period) ==
  /\ CodeRuns /\ "clock" \in machine.ops
  /\ IF period = 0
     THEN /\ dev' = [dev EXCEPT ![e].period = 0, ![e].next = @ \cup {"CLOCK"},
                                ![e].nexteat = TRUE]
          /\ pending' = TRUE /\ Abort({e})
          /\ UNCHANGED <<quanta, qmin>>
     ELSE /\ dev' = [dev EXCEPT ![e].period = period, ![e].cycle = period,
                                ![e].next = @ \ {"CLOCK"}]
          /\ pending' = (pending \/ "CLOCK" \in dev[e].next)
          /\ Abort(IF "CLOCK" \in dev[e].next THEN {e} ELSE {})
          /\ qmin' = Perfect(dev', execlist)
          /\ quanta' = IF qmin' = qmin THEN quanta
                       ELSE [i \in DOMAIN quanta |->
                               [quanta[i] EXCEPT !.actual =
                                  Larger(quanta[i].requested, qmin')]]
  /\ UNCHANGED <<machine, sliceVars, alarms, timetrig>>

Boost(quantum, duration) ==
  /\ CodeRuns /\ "boost" \in machine.ops
  /\ quanta' = AddQuantum(quanta, qmin, Now, quantum, Now + duration)
  /\ UNCHANGED <<machine, sliceVars, dev, pending, qmin, limit, alarms, timetrig>>

\* eat_cycles and eat_all_cycles, which do not cross the end of the slice.
EatCycles(cycles) ==
  /\ phase = "run" /\ "eat" \in machine.ops
  /\ used' = Min({used + cycles, limit})
  /\ UNCHANGED <<machine, dev, execlist, pending, quanta, qmin, base, target, turn,
                 limit, alarms, calling, timetrig, phase, files>>

Operation ==
  \/ \E e \in Spinners, eatcycles \in BOOLEAN : Yield(e, eatcycles)
  \/ \E e \in Spinners :
       \/ \E id \in Triggers \cup {e} : SpinUntilTrigger(e, id)
       \/ \E duration \in Durations : SpinUntilTime(e, duration)
  \/ \E id \in Triggers : Trigger(id, Devices)
  \/ \E e \in Devices : Trigger(e, {e})
  \/ \E id \in Triggers, after \in Durations : TriggerAfter(id, after)
  \/ \E e \in Devices, asserted \in BOOLEAN : Halt(e, asserted)
  \/ \E e \in Devices : ResetDevice(e)
  \/ \E e \in Devices, period \in Periods : SetClock(e, period)
  \/ \E boost \in Boosts : Boost(boost[1], boost[2])
  \/ \E cycles \in {1, limit} : EatCycles(cycles)

----------------------------------------------------------------------------
\* timeslice.

codeVars == <<pending, alarms, timetrig>>
clockVars == <<dev, qmin>>

NoAlarmBefore(t) == \A a \in alarms : a.at >= t

\* Quanta at the head that have expired are dropped on entry.
UnexpiredFrom(list, time) ==
  SubSeq(list, Min({i \in DOMAIN list : ~Expired(list[i], time)}), Len(list))

BeginTimeslice ==
  /\ phase = "top"
  /\ quanta' = UnexpiredFrom(quanta, base)
  /\ phase' = "loop"
  /\ UNCHANGED <<machine, clockVars, codeVars, execlist, base, target, turn, used,
                 limit, calling, files>>

\* The end of the quantum or the next timer, whichever comes first.
NextTarget == Min({base + Head(quanta).actual} \cup {a.at : a \in alarms})

\* One turn of the loop begins: pending suspend changes are applied.  They stay
\* pending until a turn finds none.
BeginPass ==
  /\ phase = "loop" /\ NoAlarmBefore(base + 1)
  /\ target' = NextTarget /\ target' <= machine.horizon
  /\ IF pending
     THEN /\ dev' = Applied(dev)
          /\ execlist' = IF Changes(dev) THEN Rebuilt(dev') ELSE execlist
          /\ pending' = StillPending(dev)
     ELSE UNCHANGED <<dev, execlist, pending>>
  /\ turn' = 1
  /\ phase' = "pass"
  /\ UNCHANGED <<machine, quanta, qmin, base, used, limit, alarms, calling, timetrig,
                 files>>

\* The time from the device's local time to the target, computed from the parts
\* of a second alone; the whole seconds are only compared.
Delta(d) ==
  LET delta == (target % Second) - (dev[d].time % Second)
  IN  IF delta < 0 /\ target \div Second > dev[d].time \div Second
      THEN delta + Second ELSE delta

\* Whether the device gets to run or to eat a cycle at all.
Runs(d) == dev[d].suspend = {} \/ dev[d].eat

\* Mutant of TakesTurn: any time left at all is enough.
TakesTurnAlways(d) ==
  /\ Runs(d)
  /\ target \div Second >= dev[d].time \div Second
  /\ Delta(d) > 0

TakesTurn(d) ==
  /\ Runs(d)
  /\ target \div Second >= dev[d].time \div Second
  /\ Delta(d) >= dev[d].cycle

Cycles(d) == Delta(d) \div dev[d].cycle

PassOver ==
  /\ phase = "pass" /\ turn <= Len(execlist)
  /\ ~TakesTurn(execlist[turn])
  /\ turn' = turn + 1
  /\ UNCHANGED <<machine, clockVars, codeVars, quanta, execlist, base, target, used,
                 limit, calling, phase, files>>

\* Mutant of Account: the target of the slice stays where it was.
AccountOnly(d, ran) ==
  /\ dev' = [dev EXCEPT ![d].time = @ + ran * dev[d].cycle]
  /\ UNCHANGED target
  /\ turn' = turn + 1

\* Mutant of Account: the target follows a lagging device behind the base.
AccountBelowBase(d, ran) ==
  /\ dev' = [dev EXCEPT ![d].time = @ + ran * dev[d].cycle]
  /\ target' = IF dev'[d].time < target THEN dev'[d].time ELSE target
  /\ turn' = turn + 1

\* The cycles are accounted for, and a local time short of the target becomes
\* the target for the devices that follow, but not before the base.
Account(d, ran) ==
  /\ dev' = [dev EXCEPT ![d].time = @ + ran * dev[d].cycle]
  /\ target' = IF dev'[d].time < target THEN Larger(dev'[d].time, base)
                                        ELSE target
  /\ turn' = turn + 1

\* A suspended device that eats cycles eats all it could have run.
IdleDevice ==
  /\ phase = "pass" /\ turn <= Len(execlist)
  /\ LET d == execlist[turn] IN
       /\ TakesTurn(d) /\ dev[d].suspend # {}
       /\ Account(d, Cycles(d))
  /\ UNCHANGED <<machine, codeVars, qmin, quanta, execlist, base, used, limit, calling,
                 phase, files>>

\* A device starts to execute its first instruction.
EnterDevice ==
  /\ phase = "pass" /\ turn <= Len(execlist)
  /\ LET d == execlist[turn] IN
       /\ TakesTurn(d) /\ dev[d].suspend = {}
       /\ limit' = Cycles(d)
  /\ phase' = "run"
  /\ UNCHANGED <<machine, clockVars, codeVars, quanta, execlist, base, target, turn,
                 used, calling, files>>

\* An instruction ends and there are cycles left for another.
NextInstruction ==
  /\ phase = "run"
  /\ \E n \in machine.cycles : used' = used + n
  /\ used' < limit
  /\ UNCHANGED <<machine, clockVars, codeVars, quanta, execlist, base, target, turn,
                 limit, calling, phase, files>>

\* An instruction ends, and with it the device's turn.
LeaveDevice ==
  /\ phase = "run"
  /\ \E n \in machine.cycles :
       /\ used + n >= limit
       /\ Account(Executing, used + n)
  /\ used' = 0 /\ limit' = 0
  /\ phase' = "pass"
  /\ UNCHANGED <<machine, codeVars, qmin, quanta, execlist, base, calling, files>>

EndPass ==
  /\ phase = "pass" /\ turn > Len(execlist)
  /\ base' = target
  /\ target' = 0 /\ turn' = 0
  /\ phase' = "loop"
  /\ UNCHANGED <<machine, clockVars, codeVars, quanta, execlist, used, limit, calling,
                 files>>

BeginTimers ==
  /\ phase = "loop" /\ ~NoAlarmBefore(base + 1)
  /\ phase' = "timers"
  /\ UNCHANGED <<machine, clockVars, codeVars, quanta, execlist, base, target, turn,
                 used, limit, calling, files>>

\* The next due alarm fires; more code may run in its callback.
Ring ==
  /\ phase = "timers"
  /\ \E a \in alarms :
       /\ a.at <= base /\ NoAlarmBefore(a.at)
       /\ alarms' = alarms \ {a}
       /\ dev' = Fired(dev, a.trig, a.to)
       /\ calling' = a.at
  /\ pending' = (pending \/ dev' # dev)
  /\ phase' = "callback"
  /\ UNCHANGED <<machine, execlist, quanta, qmin, base, target, turn, used, limit,
                 timetrig, files>>

EndCallback ==
  /\ phase = "callback"
  /\ calling' = 0
  /\ phase' = "timers"
  /\ UNCHANGED <<machine, clockVars, codeVars, quanta, execlist, base, target, turn,
                 used, limit, files>>

EndTimers ==
  /\ phase = "timers" /\ NoAlarmBefore(base + 1)
  /\ phase' = "top"
  /\ UNCHANGED <<machine, clockVars, codeVars, quanta, execlist, base, target, turn,
                 used, limit, calling, files>>

----------------------------------------------------------------------------
\* State files, between time slices and with no anonymous timer pending.

SaveState ==
  /\ phase = "top" /\ alarms = {}
  /\ Cardinality(files) < machine.saves
  /\ files' = files \cup {[dev |-> dev, base |-> base]}
  /\ UNCHANGED <<machine, clockVars, codeVars, quanta, execlist, base, target, turn,
                 used, limit, calling, phase>>

\* Mutant of LoadState: pending changes are those of before.
LoadStateKeepsPending ==
  /\ phase = "top" /\ alarms = {}
  /\ \E f \in files :
       /\ dev' = [d \in Devices |-> [f.dev[d] EXCEPT !.cycle = dev[d].cycle]]
       /\ base' = f.base
  /\ execlist' = Rebuilt(dev')
  /\ UNCHANGED <<machine, pending, quanta, qmin, target, turn, used, limit, alarms,
                 calling, timetrig, phase, files>>

\* Everything about a device is in the file but m_attoseconds_per_cycle; the
\* quanta are not.  postload rebuilds the execute list.
LoadState ==
  /\ phase = "top" /\ alarms = {}
  /\ \E f \in files :
       /\ dev' = [d \in Devices |-> [f.dev[d] EXCEPT !.cycle = dev[d].cycle]]
       /\ base' = f.base
  /\ pending' = TRUE
  /\ execlist' = Rebuilt(dev')
  /\ UNCHANGED <<machine, quanta, qmin, target, turn, used, limit, alarms, calling,
                 timetrig, phase, files>>

----------------------------------------------------------------------------
\* The end of the model: the next slice would pass the horizon.
AtHorizon ==
  /\ phase = "loop" /\ NoAlarmBefore(base + 1) /\ NextTarget > machine.horizon
  /\ UNCHANGED vars

\* The devices have started, which leaves them suspended for reset, and have
\* been reset, which lets them go with the next slice.
Init ==
  /\ machine \in Machines
  /\ dev = [d \in Devices |->
              [suspend |-> {"RESET"},
               next    |-> IF d \in machine.disabled THEN {"DISABLE"} ELSE {},
               eat     |-> FALSE, nexteat |-> d \in machine.disabled,
               waiting |-> None, time |-> 0,
               period  |-> machine.period[d], cycle |-> machine.period[d]]]
  /\ execlist = DeviceOrder
  /\ pending = TRUE
  /\ qmin = Perfect(dev, DeviceOrder)
  /\ quanta = <<[requested |-> machine.quantum, actual |-> Larger(machine.quantum, qmin),
                 expire |-> Never]>>
  /\ base = 0 /\ target = 0 /\ turn = 0 /\ used = 0 /\ limit = 0
  /\ alarms = {} /\ calling = 0
  /\ timetrig = 0
  /\ phase = "top"
  /\ files = {}

Timeslice ==
  \/ BeginTimeslice \/ BeginPass \/ PassOver \/ IdleDevice \/ EnterDevice
  \/ NextInstruction \/ LeaveDevice \/ EndPass
  \/ BeginTimers \/ Ring \/ EndCallback \/ EndTimers

Next == Timeslice \/ Operation \/ SaveState \/ LoadState \/ AtHorizon

Spec == Init /\ [][Next]_vars

\* The machine runs on one thread, which never stops; what device code does in
\* between is up to the device.
FairSpec == Spec /\ WF_vars(Timeslice)

----------------------------------------------------------------------------
TypeOK ==
  /\ machine \in Machines
  /\ dev \in [Devices -> DevRec]
  /\ execlist \in Seq(Devices)
  /\ pending \in BOOLEAN
  /\ quanta \in Seq(QuantumRec) /\ qmin \in Nat
  /\ base \in Nat /\ target \in Nat /\ turn \in Nat
  /\ used \in Nat /\ limit \in Nat
  /\ alarms \in SUBSET AlarmRec /\ calling \in Nat
  /\ timetrig \in 0 .. TimeTriggers - 1
  /\ phase \in Phases
  /\ files \in SUBSET FileRec

\* No request to suspend or resume is forgotten: while one has not taken effect,
\* m_suspend_changes_pending makes the slice loop look for it.
\* apply_suspend_changes may clear the flag only when nothing is left to do.
PendingWhenDiffer ==
  (\E d \in Devices : \/ dev[d].suspend # dev[d].next
                      \/ dev[d].eat # dev[d].nexteat) => pending

\* The execute list holds every device once, those that run before those that
\* are suspended, each group in the order of the device tree, also after a state
\* file has replaced the reasons (schedule.cpp: "moving suspended CPUs to the
\* end"): a suspended device eats up to the target the running ones have left.
SuspendedLast ==
  /\ IsInjective(execlist) /\ ToSet(execlist) = Devices
  /\ \A i, j \in DOMAIN execlist :
       i < j => \/ dev[execlist[i]].suspend = {} /\ dev[execlist[j]].suspend # {}
                \/ /\ (dev[execlist[i]].suspend = {}) = (dev[execlist[j]].suspend = {})
                   /\ \A m, n \in DOMAIN DeviceOrder :
                        DeviceOrder[m] = execlist[i] /\ DeviceOrder[n] = execlist[j]
                          => m < n

\* The cycle times the clock of d can have had when its turn came.
Clocks(d) == {machine.period[d]} \cup (IF "clock" \in machine.ops THEN Periods ELSE {})

\* The longest time a pass over the devices can take on: the quantum that never
\* expires, or what the devices' clocks allow.
LongestSlice ==
  IF "clock" \in machine.ops THEN Second - 1 ELSE Larger(machine.quantum, qmin)

\* The base time keeps pace with the devices and their triggers.  When a pass over
\* the devices moves it on, each device that executes or eats cycles has come to
\* less than a cycle (as its clock was then) from it, however early some device behind
\* it in the list gave up, unless the slice ended a second or more ahead of it; as
\* long as the clocks stay as they are, it does not pass a trigger that device code has
\* scheduled in the middle of the slice by more than the instruction that scheduled
\* it; and it moves back only where a state file is read.
BaseKeepsPace ==
  [][/\ phase = "pass" /\ base' > base =>
          /\ \A d \in Devices :
               Runs(d) /\ base + LongestSlice < dev[d].time + Second
                 => \E cycle \in Clocks(d) : dev[d].time + cycle > base'
          /\ "clock" \notin machine.ops =>
               \A a \in alarms : \E d \in Devices, n \in machine.cycles :
                 base' <= a.at + n * dev[d].cycle
     /\ base' < base => phase = "top" /\ files' # {}]_vars

\* Who spins until a time is released in the end: as long as a device waits for
\* one of the triggers spin_until_time makes, the timer that sends it is pending,
\* whatever came between, resets and state files included (a file that held such
\* a device would let it sleep forever, for the timers are not in it).
SpinHasAlarm ==
  \A d \in Devices :
    "TRIGGER" \in dev[d].next /\ dev[d].waiting \in 0 .. TimeTriggers - 1
      => \E a \in alarms : a.trig = dev[d].waiting /\ a.to = {d}

\* The perfect interleave is the second smallest cycle time: the smallest one
\* that at least two devices do not exceed.
SecondSmallest(dv) ==
  Min({Second - 1} \cup
      {q \in {MinimumQuantum(dv, d) : d \in Devices} :
         Cardinality({d \in Devices : MinimumQuantum(dv, d) <= q}) >= 2})

\* The quanta are in order and no longer than the devices' clocks allow.  There is
\* always one: the list is in strict order of the requested quanta, each is cut to
\* the minimum in force, and a quantum that never expires is among them, so that the
\* loop in timeslice that drops expired quanta finds an end (schedule.cpp: "if the
\* current quantum has expired, find a new one"); and the minimum, when it changes,
\* is the perfect interleave of the devices as they are then.
QuantaAgree ==
  [][/\ \A i, j \in DOMAIN quanta' :
          i < j => quanta'[i].requested < quanta'[j].requested
     /\ \A i \in DOMAIN quanta' :
          quanta'[i].actual = Larger(quanta'[i].requested, qmin')
     /\ \E i \in DOMAIN quanta' :
          quanta'[i].requested = machine.quantum /\ quanta'[i].expire = Never
     /\ qmin' # qmin => qmin' = SecondSmallest(dev')]_vars

\* A yield lasts one pass over the devices: whoever was made to wait for the
\* next time slice does not wait for it in the following pass too.
YieldLastsOnePass ==
  [][phase = "loop" /\ phase' = "pass" =>
       \A d \in Devices : "TIMESLICE" \in dev[d].suspend
                           => "TIMESLICE" \notin dev'[d].suspend]_vars

\* Emulated time advances: no pattern of yields, spins, triggers and lagging devices
\* makes the slice loop turn for ever on one instant (of a machine that reads no
\* state files, which set the time back).
TimeAdvances ==
  (machine.saves = 0) ~> (phase = "loop" /\ NextTarget > machine.horizon)
=============================================================================
