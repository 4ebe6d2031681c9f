----------------------------- MODULE TimerList -----------------------------
(***************************************************************************)
(* Emulated time (attotime.h) and the scheduler's sorted list of timers    *)
(* (device_scheduler::timer_list_insert and timer_list_remove in           *)
(* schedule.cpp), as operators on a sequence of timer names.               *)
(*                                                                         *)
(* An attotime is a natural number of abstract ticks.  The instant Never   *)
(* stands for attotime::never, and addition saturates there.  The doubly   *)
(* linked list m_timer_list is a sequence; the two fields of an emu_timer  *)
(* the list depends on, m_enabled and m_expire, come with m_period in a    *)
(* record per timer.                                                       *)
(***************************************************************************)
EXTENDS Integers, SequencesExt

CONSTANT Never      \* attotime::never, later than every instant reached

ASSUME NeverAssumption == Never \in Nat \ {0}

Time == 0 .. Never

\* operator+ on two attotimes: never absorbs, and an overflow is never.
Plus(a, b) == IF a + b >= Never THEN Never ELSE a + b

\* adjust clamps a negative delay to zero.
Clamp(d) == IF d < 0 THEN 0 ELSE d

Lesser(a, b) == IF a < b THEN a ELSE b
Greater(a, b) == IF a > b THEN a ELSE b

TimerRec == [enabled : BOOLEAN, expire : Time, period : Time]

\* What emu_timer::init leaves in a timer, permanent or temporary.
Idle == [enabled |-> FALSE, expire |-> Never, period |-> Never]

\* The constructor's dummy timer, adjusted to never.
NeverDue == [enabled |-> TRUE, expire |-> Never, period |-> Never]

\* A period of zero or never makes the timer a one-shot.
OneShot(rec) == rec.period \in {0, Never}

----------------------------------------------------------------------------
\* Mutant of SortKey: a disabled timer keeps sorting by the instant it holds.
SortKeyRaw(rec) == rec.expire

\* The instant a timer sorts by: disabled timers sort to the end.
SortKey(rec) == IF rec.enabled THEN rec.expire ELSE Never

\* Mutant of LaterThan: a timer goes in front of those of its own instant.
NotEarlierThan(list, tm, key) == {i \in DOMAIN list : tm[list[i]].expire >= key}

\* The entries of a list that expire after the given instant.  The
\* comparison reads the m_expire an entry holds, enabled or not.
LaterThan(list, tm, key) == {i \in DOMAIN list : tm[list[i]].expire > key}

\* Where timer_list_insert links a timer of state rec: in front of the
\* first entry that expires after it, or behind the last one.
InsertPos(list, tm, rec) ==
  LET later == LaterThan(list, tm, SortKey(rec))
  IN  IF later = {} THEN Len(list) + 1 ELSE Min(later)

InsertTimer(list, tm, t) == InsertAt(list, InsertPos(list, tm, tm[t]), t)

\* timer_list_remove unlinks one entry, wherever it stands.
RemoveTimer(list, t) == RemoveFirst(list, t)

\* Mutant of Relink: the timer is inserted without being removed.
RelinkTwice(list, tm, t) == InsertTimer(list, tm, t)

\* Every change of a timer removes it and inserts it in its new order.
Relink(list, tm, t) == InsertTimer(RemoveTimer(list, t), tm, t)

----------------------------------------------------------------------------
\* The order the list keeps: what stands in front of an enabled timer
\* does not expire after it.
OrderedList(list, tm) ==
  \A i, j \in DOMAIN list :
    i < j /\ tm[list[j]].enabled => tm[list[i]].expire <= tm[list[j]].expire

\* One timer stands somewhere in front of another.
Before(list, t, u) ==
  \E i, j \in DOMAIN list : i < j /\ list[i] = t /\ list[j] = u

\* The pairs of timers that are armed for the same instant.
Tied(T, tm) ==
  {p \in T \X T : /\ p[1] # p[2] /\ tm[p[1]].enabled /\ tm[p[2]].enabled
                  /\ tm[p[1]].expire = tm[p[2]].expire}

\* No timer is linked twice.
Distinct(list) == \A i, j \in DOMAIN list : list[i] = list[j] => i = j
=============================================================================
