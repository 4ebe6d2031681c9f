---------------------------- MODULE EventService ----------------------------
(***************************************************************************)
(* The event of osdsync.h, by the comments of its functions.               *)
(***************************************************************************)
CONSTANTS Threads

VARIABLES manualreset, \* "the event will be automatically set to non-signalled
                       \* after a thread successfully waited for it"
          signalled,   \* whether the event is in signalled state
          waiting,     \* the threads that wait for the event to become signalled
          released,    \* the threads that have been signalled, and have yet to return
          answer       \* what the last wait of each thread returned

vars == <<manualreset, signalled, waiting, released, answer>>

Init ==
  /\ {manualreset, signalled} \subseteq BOOLEAN /\ waiting = {} /\ released = {}
  /\ answer = [t \in Threads |-> "none"]

\* "All threads waiting for the event will be signalled."
Set ==
  /\ signalled' = TRUE /\ released' = released \cup waiting /\ waiting' = {}
  /\ UNCHANGED <<manualreset, answer>>

\* "reset an event to non-signalled state"
Reset == signalled' = FALSE /\ UNCHANGED <<manualreset, waiting, released, answer>>

\* "If not it will wait for the event to become signalled."
Block(t) ==
  /\ t \notin waiting \cup released /\ ~signalled
  /\ waiting' = waiting \cup {t} /\ answer' = [answer EXCEPT ![t] = "none"]
  /\ UNCHANGED <<manualreset, signalled, released>>

Return(t, value) ==
  /\ waiting' = waiting \ {t} /\ released' = released \ {t}
  /\ answer' = [answer EXCEPT ![t] = value] /\ UNCHANGED manualreset

\* "TRUE: The event was signalled"
Succeed(t) ==
  /\ signalled \/ t \in released
  /\ signalled' = (signalled /\ ~manualreset) /\ Return(t, "true")

\* "FALSE: A timeout occurred"
TimeOut(t) ==
  /\ ~signalled /\ t \notin released
  /\ Return(t, "false") /\ UNCHANGED signalled

Next == Set \/ Reset \/ \E t \in Threads : Block(t) \/ Succeed(t) \/ TimeOut(t)

Spec == Init /\ [][Next]_vars
=============================================================================
