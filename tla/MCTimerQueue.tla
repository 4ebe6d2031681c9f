---------------------------- MODULE MCTimerQueue ----------------------------
(***************************************************************************)
(* Instances of TimerQueue for TLC.  The timers are model values, two      *)
(* permanent ones and a slot for anonymous ones, so that there are ties,   *)
(* re-insertions in front of and behind each other, and a timer armed from *)
(* the callback of another.  Permanent timers are interchangeable.         *)
(***************************************************************************)
EXTENDS TimerQueue

MCPeriods == {1, Never}

\* Timers armed in the past, clamped to now, for later and for never; and a session
\* with a state file.
MCSessions == {[delays |-> {-1, 1, Never}, horizon |-> 2, saves |-> 0],
               [delays |-> {1}, horizon |-> 1, saves |-> 1]}

Symmetry == Permutations(Permanent)
=============================================================================
