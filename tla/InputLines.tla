----------------------------- MODULE InputLines -----------------------------
(***************************************************************************)
(* The input lines of an executing device (device_input in diexec.cpp).    *)
(* Setting a line only queues an event; an anonymous timer later empties   *)
(* the queue of the line, when all devices have reached the same time.     *)
(*                                                                         *)
(* The code re-enters itself: an event calls the device back, a clear of   *)
(* RESET resets it, both may set lines, and a full queue is emptied on the *)
(* spot.  The calls under way are therefore a stack.                       *)
(***************************************************************************)
EXTENDS Integers, SequencesExt

CONSTANTS
  Lines,          \* the lines that are used, of "IRQ", "NMI", "RESET", "HALT"
  Vectors,        \* interrupt vectors
  DefaultVector,  \* execute_default_irq_vector()
  UseStored,      \* USE_STORED_VECTOR
  QueueSize,      \* the length of m_queue
  Devices,        \* the devices to look at, of DeviceRec
  MaxPending,     \* bound: events that wait
  MaxTimers       \* bound: timers that wait for a line when another is set

\* The lines that are set and the vectors they are set with, whether the device sets
\* lines when it is called back, and whether its machine has state files.
DeviceRec == [lines : SUBSET Lines, vectors : SUBSET Vectors, calls : BOOLEAN,
              files : BOOLEAN]

ASSUME InputLinesAssumption ==
  /\ Lines \subseteq {"IRQ", "NMI", "RESET", "HALT"}
  /\ DefaultVector \in Vectors /\ UseStored \notin Vectors
  /\ QueueSize \in Nat \ {0} /\ MaxPending \in Nat /\ MaxTimers \in Nat \ {0}
  /\ Devices \subseteq DeviceRec

VARIABLES
  queue,      \* m_queue up to m_qindex, of each line
  curstate,   \* m_curstate
  curvector,  \* m_curvector
  stored,     \* m_stored_vector
  timers,     \* the timers that will empty the queue of each line
  suspend,    \* m_nextsuspend of the device, TRIGGER being its interrupt trigger
  cpuline,    \* whether the device was last told that the line is asserted
  stack,      \* the calls under way, innermost first
  asked,      \* the event that was queued last and not done away with by a reset
  file,       \* the saved fields in the state file
  device      \* the device

lineVars == <<curstate, curvector, stored>>
vars == <<queue, lineVars, timers, suspend, cpuline, stack, asked, file, device>>

\* The lines that execute_set_input passes on to the device.
Interrupts == Lines \ {"RESET", "HALT"}

States == {"ASSERT", "HOLD", "CLEAR"}
Event == [state : States, vector : Vectors]

\* The calls: set_state_synced with what is left of a pulse, empty_event_queue
\* with its curevent, and what calls into the device.
SetCall(l, todo, v) == [fn |-> "set", line |-> l, todo |-> todo, vector |-> v]
EmptyCall(l, cur) == [fn |-> "empty", line |-> l, curevent |-> cur]
InputCall(l) == [fn |-> "input", line |-> l]
AckCall(l) == [fn |-> "acknowledge", line |-> l]
ResetCall(byline) == [fn |-> "reset", byline |-> byline]

InCall(fn) == stack # <<>> /\ Head(stack).fn = fn

\* Code of the machine runs: a device, a timer callback, or a call back.
CodeRuns ==
  \/ stack = <<>>
  \/ device.calls /\ \E fn \in {"input", "reset", "acknowledge"} : InCall(fn)

Pending == FoldSet(LAMBDA l, n : n + Len(queue[l]), 0, Lines)

----------------------------------------------------------------------------
\* set_state_synced.  Bounds: what is pending; the timers of a line; and a queue is
\* not filled by a device that is called back.

Events(state) == IF state = "PULSE" THEN 2 ELSE 1

SetLine(l, state, v) ==
  /\ CodeRuns
  /\ l \in device.lines /\ v \in device.vectors \cup {UseStored}
  /\ Pending < MaxPending
  /\ timers[l] >= MaxTimers => Len(queue[l]) \in 1 .. QueueSize - Events(state)
  /\ stack # <<>> => Len(queue[l]) <= QueueSize - Events(state)
  /\ state = "PULSE" => l \in {"NMI", "RESET"}
  /\ stack' = <<SetCall(l, IF state = "PULSE" THEN <<"ASSERT", "CLEAR">> ELSE <<state>>,
                        v)>> \o stack
  /\ UNCHANGED <<queue, lineVars, timers, suspend, cpuline, asked, file, device>>

\* The vector is the one stored now, not the one stored when the event is applied.
EventOf(call) ==
  [state |-> Head(call.todo),
   vector |-> IF call.vector = UseStored THEN stored[call.line] ELSE call.vector]

\* The event is queued; the first one sets the timer.
Enqueue ==
  /\ InCall("set")
  /\ LET call == Head(stack)  l == call.line IN
       /\ call.todo # <<>> /\ Len(queue[l]) < QueueSize
       /\ queue' = [queue EXCEPT ![l] = Append(@, EventOf(call))]
       /\ timers' = [timers EXCEPT ![l] = IF queue[l] = <<>> THEN @ + 1 ELSE @]
       /\ asked' = [asked EXCEPT ![l] = EventOf(call)]
       /\ stack' = <<SetCall(l, Tail(call.todo), call.vector)>> \o Tail(stack)
  /\ UNCHANGED <<lineVars, suspend, cpuline, file, device>>

\* Mutant of Flush: an event for a full queue is dropped.
FlushNot ==
  /\ InCall("set")
  /\ LET call == Head(stack)  l == call.line IN
       /\ call.todo # <<>> /\ Len(queue[l]) = QueueSize
       /\ asked' = [asked EXCEPT ![l] = EventOf(call)]
       /\ stack' = <<SetCall(l, Tail(call.todo), call.vector)>> \o Tail(stack)
  /\ UNCHANGED <<queue, lineVars, timers, suspend, cpuline, file, device>>

\* A full queue is emptied first, whatever the time is.
Flush ==
  /\ InCall("set")
  /\ LET call == Head(stack) IN
       /\ call.todo # <<>> /\ Len(queue[call.line]) = QueueSize
       /\ stack' = <<EmptyCall(call.line, 0)>> \o stack
  /\ UNCHANGED <<queue, lineVars, timers, suspend, cpuline, asked, file, device>>

SetReturns ==
  /\ InCall("set") /\ Head(stack).todo = <<>>
  /\ stack' = Tail(stack)
  /\ UNCHANGED <<queue, lineVars, timers, suspend, cpuline, asked, file, device>>

----------------------------------------------------------------------------
\* empty_event_queue, called by the timer or by Flush.

FireTimer(l) ==
  /\ stack = <<>> /\ timers[l] > 0
  /\ timers' = [timers EXCEPT ![l] = @ - 1]
  /\ stack' = <<EmptyCall(l, 0)>>
  /\ UNCHANGED <<queue, lineVars, suspend, cpuline, asked, file, device>>

\* The loop takes the next event of line l; then it makes the calls given.
NextEvent(l, event, calls) ==
  /\ InCall("empty") /\ Head(stack).line = l
  /\ Head(stack).curevent < Len(queue[l])
  /\ event = queue[l][Head(stack).curevent + 1]
  /\ curstate' = [curstate EXCEPT ![l] = event.state]
  /\ curvector' = [curvector EXCEPT ![l] = event.vector]
  /\ stack' = calls \o <<EmptyCall(l, Head(stack).curevent + 1)>> \o Tail(stack)
  /\ UNCHANGED <<queue, stored, timers, asked, file, device>>

AssertReset ==
  \E event \in Event :
    /\ event.state = "ASSERT"
    /\ NextEvent("RESET", event, <<>>)
    /\ suspend' = suspend \cup {"RESET"}
    /\ UNCHANGED cpuline

\* A clear after an assert resets the device, which enables it first.
ClearReset ==
  \E event \in Event :
    /\ event.state # "ASSERT"
    /\ IF "RESET" \in suspend
       THEN /\ NextEvent("RESET", event, <<ResetCall(TRUE)>>)
            /\ suspend' = {}
       ELSE /\ NextEvent("RESET", event, <<>>)
            /\ UNCHANGED suspend
    /\ UNCHANGED cpuline

ApplyHalt ==
  \E event \in Event :
    /\ NextEvent("HALT", event, <<>>)
    /\ suspend' = CASE event.state = "ASSERT" -> suspend \cup {"HALT"}
                    [] event.state = "CLEAR" -> suspend \ {"HALT"}
                    [] OTHER -> suspend
    /\ UNCHANGED cpuline

\* Any other line is passed on to the device.
ApplyInput(l) ==
  \E event \in Event :
    /\ NextEvent(l, event, <<InputCall(l)>>)
    /\ cpuline' = [cpuline EXCEPT ![l] = event.state # "CLEAR"]
    /\ UNCHANGED suspend

\* Mutant of InputReturns: a line that is held does not wake the device.
InputReturnsNoHold ==
  /\ InCall("input")
  /\ suspend' = IF curstate[Head(stack).line] = "ASSERT" THEN suspend \ {"TRIGGER"}
                ELSE suspend
  /\ stack' = Tail(stack)
  /\ UNCHANGED <<queue, lineVars, timers, cpuline, asked, file, device>>

\* The device has been told; if the line is not clear (now), it wakes up.
InputReturns ==
  /\ InCall("input")
  /\ suspend' = IF curstate[Head(stack).line] = "CLEAR" THEN suspend
                ELSE suspend \ {"TRIGGER"}
  /\ stack' = Tail(stack)
  /\ UNCHANGED <<queue, lineVars, timers, cpuline, asked, file, device>>

\* Mutant of LoopEnds: the index is not reset.
LoopEndsKeeping ==
  /\ InCall("empty")
  /\ Head(stack).curevent >= Len(queue[Head(stack).line])
  /\ stack' = Tail(stack)
  /\ UNCHANGED <<queue, lineVars, timers, suspend, cpuline, asked, file, device>>

LoopEnds ==
  /\ InCall("empty")
  /\ LET l == Head(stack).line IN
       /\ Head(stack).curevent >= Len(queue[l])
       /\ queue' = [queue EXCEPT ![l] = <<>>]
  /\ stack' = Tail(stack)
  /\ UNCHANGED <<lineVars, timers, suspend, cpuline, asked, file, device>>

----------------------------------------------------------------------------
\* The device.

\* device_t::reset by a parent or the machine: interface_pre_reset enables it.
ResetDevice ==
  /\ stack = <<>>
  /\ suspend' = {}
  /\ stack' = <<ResetCall(FALSE)>>
  /\ UNCHANGED <<queue, lineVars, timers, cpuline, asked, file, device>>

\* interface_post_reset empties the queues, also the one being worked off: the reset
\* does away with what was asked of the lines, but not with what was asked of RESET
\* when it is that line's own event.
ResetReturns ==
  /\ InCall("reset")
  /\ queue' = [l \in Lines |-> <<>>]
  /\ curvector' = [l \in Lines |-> DefaultVector]
  /\ stored' = [l \in Lines |-> DefaultVector]
  /\ asked' = [l \in Lines |->
                 IF l = "RESET" /\ Head(stack).byline THEN asked[l]
                 ELSE [state |-> curstate[l], vector |-> DefaultVector]]
  /\ suspend' = IF Head(stack).byline THEN suspend \ {"RESET"} ELSE suspend
  /\ stack' = Tail(stack)
  /\ UNCHANGED <<curstate, timers, cpuline, file, device>>

\* default_irq_callback: the device takes the interrupt; a held line is let go.
TakeInterrupt(l) ==
  /\ stack = <<>> /\ suspend = {} /\ cpuline[l]
  /\ curstate[l] = "HOLD"
  /\ cpuline' = [cpuline EXCEPT ![l] = FALSE]
  /\ stack' = <<AckCall(l)>>
  /\ UNCHANGED <<queue, lineVars, timers, suspend, asked, file, device>>

\* Mutant of AckReturns: the state stays as it is.
AckReturnsHeld ==
  /\ InCall("acknowledge")
  /\ stack' = Tail(stack)
  /\ UNCHANGED <<queue, lineVars, timers, suspend, cpuline, asked, file, device>>

AckReturns ==
  /\ InCall("acknowledge")
  /\ curstate' = [curstate EXCEPT ![Head(stack).line] = "CLEAR"]
  /\ stack' = Tail(stack)
  /\ UNCHANGED <<queue, curvector, stored, timers, suspend, cpuline, asked, file, device>>

\* spin_until_interrupt.
WaitForInterrupt ==
  /\ stack = <<>> /\ suspend = {}
  /\ suspend' = {"TRIGGER"}
  /\ UNCHANGED <<queue, lineVars, timers, cpuline, stack, asked, file, device>>

\* set_vector.
SetVector(l, v) ==
  /\ CodeRuns
  /\ l \in device.lines /\ v \in device.vectors
  /\ stored' = [stored EXCEPT ![l] = v]
  /\ UNCHANGED <<queue, curstate, curvector, timers, suspend, cpuline, stack, asked, file, device>>

----------------------------------------------------------------------------
\* State files hold the three fields of a line, the reasons of the suspension and
\* what the device keeps, not the queue; there are none while a timer waits.
CanSave == device.files /\ stack = <<>> /\ \A l \in Lines : timers[l] = 0

Saved ==
  [curstate |-> curstate, curvector |-> curvector, stored |-> stored,
   suspend |-> suspend, cpuline |-> cpuline, asked |-> asked]

SaveState ==
  /\ CanSave
  /\ file' = Saved
  /\ UNCHANGED <<queue, lineVars, timers, suspend, cpuline, stack, asked, device>>

LoadState ==
  /\ CanSave
  /\ curstate' = file.curstate /\ curvector' = file.curvector /\ stored' = file.stored
  /\ suspend' = file.suspend /\ cpuline' = file.cpuline /\ asked' = file.asked
  /\ UNCHANGED <<queue, timers, stack, file, device>>

----------------------------------------------------------------------------
Init ==
  /\ device \in Devices
  /\ queue = [l \in Lines |-> <<>>]
  /\ curstate = [l \in Lines |-> "CLEAR"]
  /\ curvector = [l \in Lines |-> DefaultVector]
  /\ stored = [l \in Lines |-> DefaultVector]
  /\ timers = [l \in Lines |-> 0]
  /\ suspend = {}
  /\ cpuline = [l \in Lines |-> FALSE]
  /\ stack = <<>>
  /\ asked = [l \in Lines |-> [state |-> "CLEAR", vector |-> DefaultVector]]
  /\ file = Saved

\* A step of a call under way.
CallStep ==
  \/ Enqueue \/ Flush \/ SetReturns
  \/ AssertReset \/ ClearReset \/ ApplyHalt \/ \E l \in Interrupts : ApplyInput(l)
  \/ InputReturns \/ LoopEnds \/ ResetReturns \/ AckReturns

Next ==
  \/ \E l \in Lines, state \in States \cup {"PULSE"}, v \in Vectors \cup {UseStored} :
       SetLine(l, state, v)
  \/ \E l \in Lines, v \in Vectors : SetVector(l, v)
  \/ \E l \in Lines : FireTimer(l)
  \/ \E l \in Interrupts : TakeInterrupt(l)
  \/ CallStep \/ ResetDevice \/ WaitForInterrupt \/ SaveState \/ LoadState

Spec == Init /\ [][Next]_vars

\* Calls return, and a timer that is due at once fires.
FairSpec == Spec /\ WF_vars(CallStep) /\ \A l \in Lines : SF_vars(FireTimer(l))

----------------------------------------------------------------------------
Call ==
  UNION {
    {SetCall(l, todo, v) : l \in Lines, v \in Vectors \cup {UseStored},
                           todo \in {<<"ASSERT", "CLEAR">>, <<>>} \cup {<<s>> : s \in States}},
    {EmptyCall(l, n) : l \in Lines, n \in 0 .. QueueSize},
    {InputCall(l) : l \in Interrupts}, {AckCall(l) : l \in Interrupts},
    {ResetCall(b) : b \in BOOLEAN}}

SavedType ==
  [curstate : [Lines -> States], curvector : [Lines -> Vectors],
   stored : [Lines -> Vectors], suspend : SUBSET {"RESET", "HALT", "TRIGGER"},
   cpuline : [Lines -> BOOLEAN], asked : [Lines -> Event]]

\* Every variable has its type; no queue is longer than its array.
TypeOK ==
  /\ queue \in [Lines -> Seq(Event)]
  /\ \A l \in Lines : Len(queue[l]) <= QueueSize
  /\ Saved \in SavedType /\ file \in SavedType
  /\ timers \in [Lines -> Nat]
  /\ stack \in Seq(Call)
  /\ device \in Devices

Working(l) == \E i \in 1 .. Len(stack) : stack[i].fn = "empty" /\ stack[i].line = l

\* An event that is queued is not forgotten: a timer waits to empty the queue, or
\* its loop is under way.  (The queue is not saved; this is why it need not be.)
QueueHasTimer == \A l \in Lines : queue[l] # <<>> => timers[l] > 0 \/ Working(l)

Settled(l) ==
  stack = <<>> /\ queue[l] = <<>> =>
    /\ curstate[l] = asked[l].state
         \/ (asked[l].state = "HOLD" /\ curstate[l] = "CLEAR")
    /\ curvector[l] = asked[l].vector

\* Once nothing is queued for a line it has the state and the vector that it was
\* set to last, or is a held line that the device has acknowledged; and the device
\* was told so, also when its acknowledge let go of the line, and after a load.
SettledAsAsked ==
  /\ \A l \in Lines \ {"RESET"} : Settled(l)
  /\ stack = <<>> => \A l \in Interrupts : cpuline[l] <=> curstate[l] # "CLEAR"

\* A device that waits for an interrupt is woken by one that is on its way.
InterruptWakes ==
  \A l \in Interrupts :
    ("TRIGGER" \in suspend /\ \E i \in 1 .. Len(queue[l]) : queue[l][i].state # "CLEAR")
      ~> "TRIGGER" \notin suspend
=============================================================================
