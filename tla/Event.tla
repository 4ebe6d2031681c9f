------------------------------- MODULE Event -------------------------------
(***************************************************************************)
(* The event of sync_tc.cpp: a flag with a mutex and a condition variable. *)
(* Each step is a stretch of the code that holds the mutex; a thread that  *)
(* waits for the condition lets go of it.  A thread the condition has been *)
(* signalled to takes the mutex again later, after whoever comes before.   *)
(***************************************************************************)
EXTENDS FiniteSets

CONSTANTS
  Threads,    \* the threads that use the event
  Setters,    \* those that call osd_event_set
  Resetters,  \* those that call osd_event_reset
  Waiters,    \* those that call osd_event_wait
  Timeouts,   \* a wait may be over before the event is signalled
  Spurious    \* pthread_cond_timedwait may return 0 for no reason

ASSUME EventAssumption ==
  /\ Setters \cup Resetters \cup Waiters \subseteq Threads
  /\ {Timeouts, Spurious} \subseteq BOOLEAN

VARIABLES
  autoreset,  \* event->autoreset, for the life of the event
  signalled,  \* event->signalled
  sleeping,   \* the threads that are in pthread_cond_timedwait
  woken,      \* those of them that the condition was signalled to
  answer      \* what the last osd_event_wait of each thread returned

eventVars == <<autoreset, signalled, sleeping, woken, answer>>

Blocked == sleeping \cup woken

EventInit ==
  /\ autoreset \in BOOLEAN
  /\ signalled \in BOOLEAN /\ sleeping = {} /\ woken = {}
  /\ answer = [t \in Threads |-> "none"]

----------------------------------------------------------------------------
\* Mutant: pthread_cond_signal for every event.
SignalOne(chosen) == Cardinality(chosen) = 1

\* pthread_cond_signal wakes one thread, pthread_cond_broadcast all.
Signal(chosen) == IF autoreset THEN Cardinality(chosen) = 1 ELSE chosen = sleeping

\* osd_event_set.
Set(t) ==
  /\ t \notin Blocked
  /\ signalled' = TRUE
  /\ IF signalled \/ sleeping = {}
       THEN UNCHANGED <<sleeping, woken>>
       ELSE \E chosen \in SUBSET sleeping :
              /\ Signal(chosen)
              /\ sleeping' = sleeping \ chosen /\ woken' = woken \cup chosen
  /\ UNCHANGED <<autoreset, answer>>

\* osd_event_reset.
Reset(t) ==
  /\ t \notin Blocked
  /\ signalled' = FALSE /\ UNCHANGED <<autoreset, sleeping, woken, answer>>

\* Mutant: every event is reset by the wait.
ReturnReset(t, value) ==
  /\ answer' = [answer EXCEPT ![t] = value]
  /\ signalled' = (value # "true" /\ signalled)
  /\ sleeping' = sleeping \ {t} /\ woken' = woken \ {t} /\ UNCHANGED autoreset

\* The end of osd_event_wait.
Return(t, value) ==
  /\ answer' = [answer EXCEPT ![t] = value]
  /\ signalled' = IF value = "true" THEN signalled /\ ~autoreset ELSE signalled
  /\ sleeping' = sleeping \ {t} /\ woken' = woken \ {t} /\ UNCHANGED autoreset

\* Mutant: the flag is looked at before the mutex is taken.
WaitBlind(t) ==
  /\ t \notin Blocked
  /\ sleeping' = sleeping \cup {t} /\ answer' = [answer EXCEPT ![t] = "none"]
  /\ UNCHANGED <<autoreset, signalled, woken>>

\* osd_event_wait, up to its return or to the condition.  A timeout of 0 polls.
Wait(t) ==
  /\ t \notin Blocked
  /\ \/ signalled /\ Return(t, "true")
     \/ Timeouts /\ ~signalled /\ Return(t, "false")
     \/ /\ ~signalled
        /\ sleeping' = sleeping \cup {t} /\ answer' = [answer EXCEPT ![t] = "none"]
        /\ UNCHANGED <<autoreset, signalled, woken>>

\* pthread_cond_timedwait returns 0: the flag is not looked at again.
Awake(t) ==
  /\ t \in woken \/ (Spurious /\ t \in sleeping)
  /\ Return(t, "true")

\* pthread_cond_timedwait returns ETIMEDOUT.
Expire(t) ==
  /\ Timeouts /\ t \in sleeping
  /\ Return(t, IF signalled THEN "true" ELSE "false")

EventNext ==
  \/ \E t \in Setters : Set(t)
  \/ \E t \in Resetters : Reset(t)
  \/ \E t \in Waiters : Wait(t) \/ Awake(t) \/ Expire(t)

EventSpec == EventInit /\ [][EventNext]_eventVars

\* A thread that has been woken gets the mutex in the end.
EventFairSpec == EventSpec /\ \A t \in Waiters : WF_eventVars(t \in woken /\ Awake(t))

----------------------------------------------------------------------------
(* Properties. *)

\* The variables keep their types.
EventTypeOK ==
  /\ {autoreset, signalled} \subseteq BOOLEAN /\ sleeping \subseteq Waiters /\ woken \subseteq Waiters
  /\ sleeping \cap woken = {}
  /\ answer \in [Threads -> {"none", "true", "false"}]

\* No wake-up is lost: while the event is signalled no thread sleeps on, unless the
\* event is reset automatically and a thread that will take the signal is awake.
NoLostWake ==
  signalled /\ sleeping # {} => autoreset /\ woken # {}

\* Who waits for an event that is signalled and stays so is let go.
SetReleases ==
  \A t \in Waiters : (signalled /\ t \in Blocked) ~> (~signalled \/ t \notin Blocked)

\* The event that osdsync.h describes, with the sense of osd_event_alloc's parameter
\* turned round: what the header says of "manualreset" holds of autoreset, which is set
\* to its opposite.
Service == INSTANCE EventService
             WITH manualreset <- autoreset, waiting <- sleeping, released <- woken
Implements == Service!Spec

\* osd_event_set of an event that a wait resets signals one thread, or none when one
\* has been and is on its way, where the header says: all.
SetForOne == autoreset /\ signalled' /\ woken' # {} /\ UNCHANGED <<Blocked, autoreset, answer>>

\* The condition wakes a thread for no reason, and osd_event_wait returns TRUE.
WokenByChance(t) == t \notin woken /\ ~signalled /\ Awake(t)

\* Every step is one that osdsync.h describes, but for the two above.
AsDescribed ==
  [][\/ [Service!Next]_(Service!vars)
     \/ SetForOne
     \/ \E t \in Waiters : WokenByChance(t)]_eventVars
=============================================================================
