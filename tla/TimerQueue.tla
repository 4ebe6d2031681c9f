----------------------------- MODULE TimerQueue -----------------------------
(***************************************************************************)
(* The timers of a running machine: emu_timer, and the part of             *)
(* device_scheduler that keeps them in order, advances the base time       *)
(* towards the next one and calls back those that are due (schedule.cpp).  *)
(*                                                                         *)
(* The program is sequential: the interleaving that matters is that of     *)
(* code run on behalf of devices (in a CPU's slice, in a callback, between *)
(* two time slices), which may change any timer at any time, with the two  *)
(* loops timeslice and execute_timers.  A device's own progress is left    *)
(* abstract here: it reads some local time and returns at some later one.  *)
(***************************************************************************)
EXTENDS TimerList

CONSTANTS
  Dummy,        \* the never-expiring timer the constructor appends
  Permanent,    \* the timers timer_alloc and timer_pulse hand out
  Temporary,    \* slots of the allocator for anonymous timers
  Periods,      \* the periods devices pass to adjust
  Quanta,       \* the scheduling quanta in use
  Overrun,      \* ticks an instruction may take beyond the end of a slice
  Sessions      \* the sessions to look at: records with the Fields below

\* Of a session: the delays devices pass to adjust.  Bounds: how far the base time
\* and local times go, and how many state files are written.
Fields == {"delays", "horizon", "saves"}

ASSUME TimerQueueAssumption ==
  /\ Permanent \cap Temporary = {} /\ Dummy \notin Permanent \cup Temporary
  /\ Periods \subseteq Time
  /\ Quanta \subseteq Nat \ {0}
  /\ Overrun \in Nat
  /\ \A s \in Sessions :
       /\ DOMAIN s = Fields
       /\ s.delays \subseteq Int
       /\ s.horizon \in Nat /\ s.horizon < Never
       /\ s.saves \in Nat

Timers == Permanent \cup Temporary \cup {Dummy}

VARIABLES
  session,      \* the session
  timer,        \* the state of every timer slot
  tlist,        \* m_timer_list
  private,      \* private_list in postload
  basetime,     \* m_basetime
  target,       \* target in timeslice
  local,        \* local_time() of the executing device
  aborted,      \* whether its slice was cut short
  cb,           \* m_callback_timer, its expire time and modified flag
  phase,        \* where the program is
  files,        \* the state files written so far
  lapses        \* history: see Lapses

vars == <<session, timer, tlist, private, basetime, target, local, aborted, cb, phase,
          files, lapses>>

\* Where the program can be.  "start" is device start, "top" the run loop of
\* the machine, "loop" the head of timeslice's loop, "slice" between two
\* devices of it, "execute" inside a device, "timers" the head of
\* execute_timers' loop, "callback" inside a callback, "drain" and "reinsert"
\* the two loops of postload.
Phases == {"start", "top", "loop", "slice", "execute", "timers", "callback",
           "drain", "reinsert"}

\* What the properties allow for, and nothing in the code notices: "read", a file
\* that failed half way through and that no later load has made up for; "idle", a
\* file with a timer in it that is off and holds an instant, read last; "enable",
\* a timer that a device switched on during the slice.
Lapses == {"read", "idle", "enable"}

\* m_callback_timer is null: no timer's callback runs.
NoCallback == [timer |-> Dummy, expire |-> 0, modified |-> FALSE]

CbRec == [timer : Timers, expire : Time, modified : BOOLEAN]
FileRec == [timer : [Permanent -> TimerRec], base : Time]

Live == ToSet(tlist)
HeadExpire == timer[Head(tlist)].expire      \* m_timer_list->m_expire

\* device_scheduler::time
Now == IF phase = "callback" THEN cb.expire
       ELSE IF phase = "execute" THEN local ELSE basetime

\* Device code runs, and can call the timer operations.
CodeRuns == phase \in {"start", "top", "execute", "callback"}

\* The permanent timers somebody holds a pointer to.  Anonymous timers are
\* handed to nobody.
Handles == Permanent \cap Live

----------------------------------------------------------------------------
\* Timer operations, as device code calls them.

\* timer_alloc: a clean timer, not enabled, linked into the list.
AllocTimer(t) ==
  /\ phase = "start"
  /\ t \in Permanent \ Live
  /\ timer' = [timer EXCEPT ![t] = Idle]
  /\ tlist' = InsertTimer(tlist, timer', t)
  /\ UNCHANGED <<session, private, basetime, target, local, aborted, cb, phase, files,
                 lapses>>

\* Mutant of AdjustIn: a timer that becomes the head does not abort the slice.
AdjustNoResync(list, t, delay, period) ==
  /\ timer' = [timer EXCEPT ![t] = [enabled |-> TRUE,
                                    expire  |-> Plus(Now, Clamp(delay)),
                                    period  |-> period]]
  /\ tlist' = Relink(list, timer', t)
  /\ cb' = [cb EXCEPT !.modified = @ \/ (phase = "callback" /\ cb.timer = t)]
  /\ UNCHANGED <<session, private, basetime, target, local, aborted, phase, files,
                 lapses>>

\* The effect of emu_timer::adjust on a timer that list already links.
AdjustIn(list, t, delay, period) ==
  /\ timer' = [timer EXCEPT ![t] = [enabled |-> TRUE,
                                    expire  |-> Plus(Now, Clamp(delay)),
                                    period  |-> period]]
  /\ tlist' = Relink(list, timer', t)
  /\ cb' = [cb EXCEPT !.modified = @ \/ (phase = "callback" /\ cb.timer = t)]
  /\ aborted' = (aborted \/ (phase = "execute" /\ Head(tlist') = t))
  /\ UNCHANGED <<session, private, basetime, target, local, phase, files, lapses>>

Adjust(t, delay, period) ==
  /\ CodeRuns /\ t \in Handles
  /\ AdjustIn(tlist, t, delay, period)

\* emu_timer::reset: adjust again with the period the timer already has.
ResetTimer(t, delay) ==
  /\ CodeRuns /\ t \in Handles
  /\ AdjustIn(tlist, t, delay, timer[t].period)

\* timer_pulse: alloc and adjust in one call, with the period as the delay.
TimerPulse(t, period) ==
  /\ phase = "start"
  /\ t \in Permanent \ Live
  /\ AdjustIn(Append(tlist, t), t, period, period)

\* timer_set (and synchronize, with a delay of zero): an anonymous one-shot.
TimerSet(t, delay) ==
  /\ CodeRuns
  /\ t \in Temporary \ Live
  /\ AdjustIn(Append(tlist, t), t, delay, Never)

\* Mutant of Enable: the timer keeps its place in the list.
EnableInPlace(t, flag) ==
  /\ CodeRuns /\ t \in Handles
  /\ timer[t].enabled # flag
  /\ timer' = [timer EXCEPT ![t].enabled = flag]
  /\ UNCHANGED <<session, tlist, private, basetime, target, local, aborted, cb, phase,
                 files, lapses>>

\* emu_timer::enable: it keeps the expire time it finds, and neither marks
\* the callback timer nor aborts the slice.
Enable(t, flag) ==
  /\ CodeRuns /\ t \in Handles
  /\ timer[t].enabled # flag
  /\ timer' = [timer EXCEPT ![t].enabled = flag]
  /\ tlist' = Relink(tlist, timer', t)
  /\ lapses' = IF flag /\ phase = "execute" THEN lapses \cup {"enable"} ELSE lapses
  /\ UNCHANGED <<session, private, basetime, target, local, aborted, cb, phase, files>>

TimerOperation ==
  \/ \E t \in Permanent : AllocTimer(t)
  \/ \E t \in Permanent, d \in session.delays, p \in Periods : Adjust(t, d, p)
  \/ \E t \in Permanent, d \in session.delays : ResetTimer(t, d)
  \/ \E t \in Permanent, p \in Periods \ {0, Never} : TimerPulse(t, p)
  \/ \E t \in Temporary, d \in session.delays \ {Never} : TimerSet(t, d)
  \/ \E t \in Permanent, flag \in BOOLEAN : Enable(t, flag)

----------------------------------------------------------------------------
\* timeslice: run the devices up to the next timer, then the timers.

\* The machine's run loop enters once every device has started.
BeginTimeslice ==
  /\ phase \in {"start", "top"}
  /\ phase' = "loop"
  /\ UNCHANGED <<session, timer, tlist, private, basetime, target, local, aborted, cb,
                 files, lapses>>

\* One turn of the loop, which the next timer bounds.
BeginSlice ==
  /\ phase = "loop" /\ basetime < HeadExpire
  /\ \E quantum \in Quanta :
       target' = Lesser(Plus(basetime, quantum), HeadExpire)
  /\ target' <= session.horizon
  /\ phase' = "slice"
  /\ UNCHANGED <<session, timer, tlist, private, basetime, local, aborted, cb, files,
                 lapses>>

\* A device is entered at a local time of its own, which may lag behind the
\* base time when it was suspended without eating cycles.
EnterDevice ==
  /\ phase = "slice"
  /\ local' \in 0 .. target
  /\ aborted' = FALSE
  /\ phase' = "execute"
  /\ UNCHANGED <<session, timer, tlist, private, basetime, target, cb, files, lapses>>

\* It executes up to its target and to the end of the instruction it is in, or
\* until something aborts its slice.
Execute ==
  /\ phase = "execute" /\ ~aborted
  /\ local < target + Overrun /\ local < session.horizon
  /\ local' = local + 1
  /\ UNCHANGED <<session, timer, tlist, private, basetime, target, aborted, cb, phase,
                 files, lapses>>

\* Mutant of LeaveDevice: the target may fall behind the base.
LeaveDeviceBehind ==
  /\ phase = "execute" /\ (aborted \/ local >= target)
  /\ \E final \in local .. local + Overrun : target' = Lesser(final, target)
  /\ local' = 0
  /\ aborted' = FALSE
  /\ phase' = "slice"
  /\ UNCHANGED <<session, timer, tlist, private, basetime, cb, files, lapses>>

\* It returns, once it has used its cycles or was aborted and has finished its
\* instruction.  A local time short of the target moves the target, but not
\* before the base.
LeaveDevice ==
  /\ phase = "execute" /\ (aborted \/ local >= target)
  /\ \E final \in local .. local + Overrun :
       target' = IF final < target THEN Greater(final, basetime) ELSE target
  /\ local' = 0
  /\ aborted' = FALSE
  /\ phase' = "slice"
  /\ UNCHANGED <<session, timer, tlist, private, basetime, cb, files, lapses>>

\* All devices have had their turn.
EndSlice ==
  /\ phase = "slice"
  /\ basetime' = target
  /\ lapses' = lapses \ {"enable"}
  /\ phase' = "loop"
  /\ UNCHANGED <<session, timer, tlist, private, target, local, aborted, cb, files>>

BeginTimers ==
  /\ phase = "loop" /\ basetime >= HeadExpire
  /\ phase' = "timers"
  /\ UNCHANGED <<session, timer, tlist, private, basetime, target, local, aborted, cb,
                 files, lapses>>

----------------------------------------------------------------------------
\* execute_timers: one turn per overdue timer.

\* Mutant of Retire: an anonymous timer moves on like any other.
RetireNone(tm, t) ==
  /\ timer' = [tm EXCEPT ![t].expire = Plus(@, tm[t].period)]
  /\ tlist' = Relink(tlist, timer', t)

\* What follows a callback that left its timer alone: an anonymous timer is
\* reclaimed, any other moves on by one period from the instant it had.
Retire(tm, t) ==
  IF t \in Permanent
  THEN /\ timer' = [tm EXCEPT ![t].expire = Plus(@, tm[t].period)]
       /\ tlist' = Relink(tlist, timer', t)
  ELSE /\ timer' = [tm EXCEPT ![t] = Idle]
       /\ tlist' = RemoveTimer(tlist, t)

\* The head is overdue and enabled: a one-shot is disabled, then called back.
BeginCallback ==
  /\ phase = "timers" /\ HeadExpire <= basetime
  /\ LET t == Head(tlist) IN
       /\ timer[t].enabled
       /\ timer' = [timer EXCEPT ![t].enabled = ~OneShot(timer[t])]
       /\ cb' = [timer |-> t, expire |-> timer[t].expire, modified |-> FALSE]
  /\ phase' = "callback"
  /\ UNCHANGED <<session, tlist, private, basetime, target, local, aborted, files,
                 lapses>>

\* The head is overdue but disabled: nothing is called, and it moves on.
SkipDisabled ==
  /\ phase = "timers" /\ HeadExpire <= basetime
  /\ ~timer[Head(tlist)].enabled
  /\ Retire(timer, Head(tlist))
  /\ UNCHANGED <<session, private, basetime, target, local, aborted, cb, phase, files,
                 lapses>>

\* The callback returns.  If it adjusted its own timer, the timer stays as set.
EndCallback ==
  /\ phase = "callback"
  /\ IF cb.modified THEN UNCHANGED <<timer, tlist>> ELSE Retire(timer, cb.timer)
  /\ cb' = NoCallback
  /\ phase' = "timers"
  /\ UNCHANGED <<session, private, basetime, target, local, aborted, files, lapses>>

\* Mutant of EndTimers: a timer due at the base time itself can wait.
EndTimersEarly ==
  /\ phase = "timers" /\ HeadExpire >= basetime
  /\ phase' = "top"
  /\ UNCHANGED <<session, timer, tlist, private, basetime, target, local, aborted, cb,
                 files, lapses>>

EndTimers ==
  /\ phase = "timers" /\ HeadExpire > basetime
  /\ phase' = "top"
  /\ UNCHANGED <<session, timer, tlist, private, basetime, target, local, aborted, cb,
                 files, lapses>>

----------------------------------------------------------------------------
\* State files, written and read by the run loop between two time slices.

\* No anonymous timer is outstanding.
CanSave == \A t \in Live \cap Temporary : timer[t].expire = Never

SaveState ==
  /\ phase = "top" /\ CanSave
  /\ Cardinality(files) < session.saves
  /\ files' = files \cup {[timer |-> [t \in Permanent |-> timer[t]],
                            base  |-> basetime]}
  /\ UNCHANGED <<session, timer, tlist, private, basetime, target, local, aborted, cb,
                 phase, lapses>>

\* The fields of every registered timer and the base time are overwritten in
\* place; then postload starts.
LoadState ==
  /\ phase = "top" /\ CanSave
  /\ \E f \in files :
       /\ timer' = [t \in Timers |-> IF t \in Handles THEN f.timer[t]
                                                     ELSE timer[t]]
       /\ basetime' = f.base
       /\ target' = f.base
       /\ lapses' = IF \E t \in Handles : ~f.timer[t].enabled /\ f.timer[t].expire # Never
                    THEN {"idle"} ELSE {}
  /\ phase' = "drain"
  /\ UNCHANGED <<session, tlist, private, local, aborted, cb, files>>

\* Mutant of LoadFails: a failed load drops the timers it had not yet read.
LoadFailsDropping ==
  /\ phase = "top" /\ CanSave
  /\ \E f \in files, read \in SUBSET Handles :
       /\ timer' = [t \in Timers |-> IF t \in read THEN f.timer[t] ELSE timer[t]]
       /\ tlist' = SelectSeq(tlist, LAMBDA t : t \in read \cup {Dummy})
       /\ basetime' \in {basetime, f.base}
  /\ target' = basetime'
  /\ lapses' = {"read"}
  /\ UNCHANGED <<session, private, local, aborted, cb, phase, files>>

\* The file ends early: some of the fields are overwritten, and read_file
\* returns its error without a call of postload.
LoadFails ==
  /\ phase = "top" /\ CanSave
  /\ \E f \in files, read \in SUBSET Handles :
       /\ timer' = [t \in Timers |-> IF t \in read THEN f.timer[t] ELSE timer[t]]
       /\ basetime' \in {basetime, f.base}
  /\ target' = basetime'
  /\ lapses' = {"read"}
  /\ UNCHANGED <<session, tlist, private, local, aborted, cb, phase, files>>

\* Mutant of Drain: whatever is armed is taken for an anonymous timer.
DrainArmed ==
  /\ phase = "drain" /\ tlist # <<>>
  /\ LET t == Head(tlist) IN
       IF t # Dummy /\ timer[t].expire # Never
       THEN timer' = [timer EXCEPT ![t] = Idle] /\ UNCHANGED private
       ELSE private' = Append(private, t) /\ UNCHANGED timer
  /\ tlist' = Tail(tlist)
  /\ UNCHANGED <<session, basetime, target, local, aborted, cb, phase, files, lapses>>

\* postload, first loop: take the timers off the list, dropping anonymous ones.
Drain ==
  /\ phase = "drain" /\ tlist # <<>>
  /\ LET t == Head(tlist) IN
       IF t \in Temporary /\ timer[t].expire # Never
       THEN timer' = [timer EXCEPT ![t] = Idle] /\ UNCHANGED private
       ELSE private' = Append(private, t) /\ UNCHANGED timer
  /\ tlist' = Tail(tlist)
  /\ UNCHANGED <<session, basetime, target, local, aborted, cb, phase, files, lapses>>

DrainDone ==
  /\ phase = "drain" /\ tlist = <<>>
  /\ phase' = "reinsert"
  /\ UNCHANGED <<session, timer, tlist, private, basetime, target, local, aborted, cb,
                 files, lapses>>

\* Mutant of Reinsert: the timers go back in the order they were drained in.
ReinsertInOrder ==
  /\ phase = "reinsert" /\ private # <<>>
  /\ tlist' = Append(tlist, Head(private))
  /\ private' = Tail(private)
  /\ UNCHANGED <<session, timer, basetime, target, local, aborted, cb, phase, files,
                 lapses>>

\* postload, second loop: insert them again, which sorts them.
Reinsert ==
  /\ phase = "reinsert" /\ private # <<>>
  /\ tlist' = InsertTimer(tlist, timer, Head(private))
  /\ private' = Tail(private)
  /\ UNCHANGED <<session, timer, basetime, target, local, aborted, cb, phase, files,
                 lapses>>

ReinsertDone ==
  /\ phase = "reinsert" /\ private = <<>>
  /\ phase' = "top"
  /\ UNCHANGED <<session, timer, tlist, private, basetime, target, local, aborted, cb,
                 files, lapses>>

----------------------------------------------------------------------------
\* The end of the model: the next slice would pass the horizon.
AtHorizon ==
  /\ phase = "loop" /\ basetime < HeadExpire
  /\ \A quantum \in Quanta :
       Lesser(Plus(basetime, quantum), HeadExpire) > session.horizon
  /\ UNCHANGED vars

\* The constructor: the dummy timer, adjusted to never.
Init ==
  /\ session \in Sessions
  /\ timer = [t \in Timers |-> IF t = Dummy THEN NeverDue ELSE Idle]
  /\ tlist = <<Dummy>>
  /\ private = <<>>
  /\ basetime = 0 /\ target = 0 /\ local = 0
  /\ aborted = FALSE
  /\ cb = NoCallback
  /\ phase = "start"
  /\ files = {}
  /\ lapses = {}

Next ==
  \/ TimerOperation
  \/ BeginTimeslice \/ BeginSlice \/ EnterDevice \/ Execute \/ LeaveDevice
  \/ EndSlice \/ BeginTimers
  \/ BeginCallback \/ SkipDisabled \/ EndCallback \/ EndTimers
  \/ SaveState \/ LoadState \/ LoadFails
  \/ Drain \/ DrainDone \/ Reinsert \/ ReinsertDone
  \/ AtHorizon

Spec == Init /\ [][Next]_vars

----------------------------------------------------------------------------
TypeOK ==
  /\ session \in Sessions
  /\ timer \in [Timers -> TimerRec]
  /\ tlist \in Seq(Timers) /\ private \in Seq(Timers)
  /\ basetime \in Time /\ target \in Time /\ local \in Time
  /\ aborted \in BOOLEAN
  /\ cb \in CbRec
  /\ phase \in Phases
  /\ files \in SUBSET FileRec
  /\ lapses \in SUBSET Lapses

Restoring == phase \in {"drain", "reinsert"}

\* A state file that could not be read to its end leaves timers behind that hold
\* instants of the file at the places of before, until another load succeeds.
Garbled == "read" \in lapses

\* The list is in order whenever it is used: no entry in front of an enabled
\* timer expires after it (timer_list_insert and every caller of it; the list
\* head is all that timeslice and execute_timers look at).  postload restores
\* the order whatever it finds.
Sorted == phase # "drain" /\ ~Garbled => OrderedList(tlist, timer)

\* Disabled timers sort to the end: none stands in front of an enabled timer
\* that has an instant, except the one-shot whose callback is running.  So the
\* head is the next timer to be called, which adjust relies on when it asks
\* whether to abort the slice.  It is not so after a load of disabled timers that
\* hold instants: postload may insert an enabled one behind them.
DisabledLast ==
  phase # "drain" /\ lapses \cap {"read", "idle"} = {} =>
    \A i, j \in DOMAIN tlist :
      /\ i < j
      /\ timer[tlist[j]].enabled /\ timer[tlist[j]].expire # Never
      => timer[tlist[i]].enabled \/ (phase = "callback" /\ cb.timer = tlist[i])

\* No timer is lost or linked twice, through any number of re-insertions,
\* through postload's two loops and through loads that fail half way: each
\* handed-out timer and the dummy stands exactly once in m_timer_list or in
\* postload's private list.
LinkedOnce ==
  /\ Distinct(tlist) /\ Distinct(private)
  /\ Live \cap ToSet(private) = {}
  /\ Dummy \in Live \cup ToSet(private)
  /\ \A t \in Timers : timer[t].enabled => t \in Live \cup ToSet(private)

\* An anonymous timer never outlives its callback: outside of it, every one
\* that is linked is still going to be called back, so CanSave, which a pending
\* save waits for, is not held up by a timer that nothing will ever call.
AnonymousPending ==
  \A t \in Temporary \cap Live :
    timer[t].enabled \/ (phase = "callback" /\ cb.timer = t)

\* Timers that are not armed are out of the way, of the timers behind them as of
\* the saves: enable, adjust and execute_timers leave none at the front of
\* m_timer_list and no spent anonymous one anywhere in it.
IdleOutOfTheWay == DisabledLast /\ AnonymousPending

\* When execute_timers is done, no enabled timer that is due is left behind:
\* looking at the head alone has found them all.
NothingDueLeft ==
  [][phase = "timers" /\ phase' = "top" /\ ~Garbled =>
       \A t \in Live : timer[t].enabled => timer[t].expire > basetime]_vars

\* A slice ends at the next timer, even one that a device arms during it: the
\* base time never moves past the instant of an armed timer by more than the
\* instruction in progress ("loop until we hit the next timer").  Only adjust
\* sees to that; a timer switched on by enable during the slice is passed, and one
\* that adjust inserts behind a disabled timer, after a load of such.
SliceStopsAtTimer ==
  [][basetime' > basetime /\ phase = "slice" /\ lapses = {} =>
       \A t \in Live : timer[t].enabled =>
                          basetime' <= timer[t].expire + Overrun]_vars

\* The list implements the alarm clock: callbacks come at the instant that was
\* asked for, in order, in the order of arming within one instant, and with
\* the period counted from the instant and not from the call.
Service == INSTANCE TimerService WITH
  order   <- IF Restoring \/ Garbled THEN {}
             ELSE {p \in Tied(Timers, timer) : Before(tlist, p[1], p[2])},
  clock   <- basetime,
  calling <- IF phase = "callback"
             THEN [timer |-> cb.timer, active |-> TRUE, rearmed |-> cb.modified]
             ELSE [timer |-> Dummy, active |-> FALSE, rearmed |-> FALSE],
  state   <- IF Restoring THEN "restoring" ELSE IF Garbled THEN "lost" ELSE "known"

KeepsAppointments == Service!Spec
=============================================================================
