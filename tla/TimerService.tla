---------------------------- MODULE TimerService ----------------------------
(***************************************************************************)
(* What the scheduler promises the users of its timers, with no list in    *)
(* it: an alarm clock.  Timers that are armed for the same instant are in  *)
(* the order in which they were armed.  The clock calls back the earliest  *)
(* one, the first of its instant, and none before its instant; a periodic  *)
(* timer is armed again exactly one period after the instant it was called *)
(* back for, however late the call was; whoever re-arms the timer it is    *)
(* called back for has the last word.                                      *)
(***************************************************************************)
EXTENDS TimerList

CONSTANTS Permanent, Temporary, Dummy

Timers == Permanent \cup Temporary \cup {Dummy}

VARIABLES
  timer,      \* what each timer was last told
  order,      \* the pairs of timers armed for one instant, the first one first
  clock,      \* the instant up to which timers may be called back
  calling,    \* the timer being called back, and whether it was re-armed
  files,      \* what was written to state files
  state       \* whether the order is "known", being rebuilt from a state file
              \* ("restoring"), or "lost" since one could not be read to its end

serviceVars == <<timer, order, clock, calling, files, state>>

Ties == Tied(Timers, timer)

\* t leaves its place, and if it is enabled comes after all others of its instant.
Queued(t) == {p \in Ties' : p[2] = t \/ (p[1] # t /\ p \in order)}

\* t is the first of the timers armed for the earliest instant.
First(t) ==
  /\ timer[t].enabled
  /\ \A u \in Timers : timer[u].enabled => /\ timer[t].expire <= timer[u].expire
                                           /\ <<u, t>> \notin order

Idling == [timer |-> Dummy, active |-> FALSE, rearmed |-> FALSE]

----------------------------------------------------------------------------
\* A user tells a timer an instant and a period, or to be off, or on again.
\* Arming the timer that is being called back counts as re-arming it.
Tell(t, rec, rearm) ==
  /\ state = "known"
  /\ timer' = [timer EXCEPT ![t] = rec]
  /\ order' = Queued(t)
  /\ calling' = [calling EXCEPT !.rearmed =
                   @ \/ (rearm /\ calling.active /\ calling.timer = t)]
  /\ UNCHANGED <<clock, files, state>>

Arm(t) ==
  \E rec \in TimerRec : rec.enabled /\ Tell(t, rec, TRUE)

Switch(t, flag) ==
  /\ timer[t].enabled # flag
  /\ Tell(t, [timer[t] EXCEPT !.enabled = flag], FALSE)

\* Time moves on.
Advance ==
  /\ ~calling.active /\ state = "known"
  /\ clock' \in {e \in Time : e >= clock}
  /\ UNCHANGED <<timer, order, calling, files, state>>

\* The first timer is called back, once its instant has come; a one-shot is off.
CallBack(t) ==
  /\ ~calling.active /\ state = "known"
  /\ First(t) /\ timer[t].expire <= clock
  /\ calling' = [timer |-> t, active |-> TRUE, rearmed |-> FALSE]
  /\ timer' = [timer EXCEPT ![t].enabled = ~OneShot(timer[t])]
  /\ order' = order \cap Ties'
  /\ UNCHANGED <<clock, files, state>>

\* The call returns: an anonymous timer is gone, a timer that was not re-armed
\* moves on by its period.
Return ==
  /\ calling.active /\ state = "known"
  /\ calling' = Idling
  /\ LET t == calling.timer
         moved == [timer[t] EXCEPT !.expire = Plus(@, timer[t].period)]
     IN  IF calling.rearmed THEN UNCHANGED <<timer, order>>
         ELSE /\ timer' = [timer EXCEPT ![t] = IF t \in Temporary THEN Idle
                                                                  ELSE moved]
              /\ order' = Queued(t)
  /\ UNCHANGED <<clock, files, state>>

\* A timer that is off may lose the instant it was last told.
Forget(t) ==
  /\ ~timer[t].enabled /\ state = "known"
  /\ \E e \in Time : timer' = [timer EXCEPT ![t].expire = e]
  /\ UNCHANGED <<order, clock, calling, files, state>>

Written == [timer |-> [t \in Permanent |-> timer[t]], base |-> clock]

\* A state file keeps the permanent timers and the time.
Save ==
  /\ ~calling.active /\ state = "known"
  /\ files' = files \cup {Written}
  /\ UNCHANGED <<timer, order, clock, calling, state>>

\* Reading one brings both back.
BeginRestore ==
  /\ ~calling.active /\ state # "restoring"
  /\ \E f \in files :
       /\ timer' = [t \in Timers |-> IF t \in Permanent THEN f.timer[t]
                                                       ELSE timer[t]]
       /\ clock' = f.base
  /\ order' = {}
  /\ state' = "restoring"
  /\ UNCHANGED <<calling, files>>

\* Reading one half way leaves a mixture, and the clock promises nothing until
\* a file has been read to its end, but that it writes down what it has.
Lose ==
  /\ ~calling.active /\ state # "restoring"
  /\ \E f \in files, read \in SUBSET Permanent :
       timer' = [t \in Timers |-> IF t \in read THEN f.timer[t] ELSE timer[t]]
  /\ state' = "lost"
  /\ UNCHANGED <<calling, files>>

Wander ==
  /\ state = "lost"
  /\ files' \in {files, files \cup {Written}}
  /\ UNCHANGED state

\* Every enabled timer is armed again for its instant.  Which of the timers of
\* one instant comes first is not kept in the file, but one does.
EndRestore ==
  /\ state = "restoring"
  /\ state' = "known"
  /\ order' \subseteq Ties
  /\ \A p \in Ties : p \in order' <=> <<p[2], p[1]>> \notin order'
  /\ \A t, u, v \in Timers :
       <<t, u>> \in order' /\ <<u, v>> \in order' => <<t, v>> \in order'
  /\ UNCHANGED <<timer, clock, calling, files>>

Init ==
  /\ timer = [t \in Timers |-> IF t = Dummy THEN NeverDue ELSE Idle]
  /\ order = {}
  /\ clock = 0
  /\ calling = Idling
  /\ files = {}
  /\ state = "known"

Next ==
  \/ \E t \in Permanent \cup Temporary : Arm(t)
  \/ \E t \in Permanent, flag \in BOOLEAN : Switch(t, flag)
  \/ \E t \in Timers : CallBack(t)
  \/ Advance \/ Return
  \/ \E t \in Permanent : Forget(t)
  \/ Save \/ BeginRestore \/ EndRestore \/ Lose \/ Wander

Spec == Init /\ [][Next]_serviceVars
=============================================================================
