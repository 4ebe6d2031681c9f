--------------------------- MODULE ServiceProofs ---------------------------
(***************************************************************************)
(* What two services of the core promise to those that use them, the event *)
(* of sync_tc.cpp and the save manager.  They share nothing.               *)
(*                                                                         *)
(* The event does what osdsync.h promises, but not always: it is set for   *)
(* one thread where the header says all, and a thread that is woken for no *)
(* reason does not look whether the event is signalled.                    *)
(*                                                                         *)
(* The save manager keeps its entries in the order of their names, so that *)
(* the set of them decides on the list, on the signature and on where in   *)
(* the file the bytes of each entry are; and a file that it has written    *)
(* holds there, as far as it goes, what was saved (SaveInv).               *)
(***************************************************************************)
EXTENDS Event, StateFile, WellFoundedInduction, FiniteSetTheorems, SequenceTheorems, TLAPS

----------------------------------------------------------------------------
(* No wake-up is lost, whatever the threads do. *)

LEMMA TypeStep ==
  ASSUME EventAssumption, EventTypeOK, [EventNext]_eventVars
  PROVE  EventTypeOK'
<1>. USE DEF EventTypeOK
<1>1. CASE UNCHANGED eventVars
  BY <1>1 DEF eventVars
<1>2. ASSUME NEW t \in Setters, Set(t) PROVE EventTypeOK'
  BY <1>2 DEF Set
<1>3. ASSUME NEW t \in Resetters, Reset(t) PROVE EventTypeOK'
  BY <1>3 DEF Reset
<1>4. ASSUME NEW t \in Waiters, Wait(t) PROVE EventTypeOK'
  BY <1>4, EventAssumption DEF Wait, Return, Blocked, EventAssumption
<1>5. ASSUME NEW t \in Waiters, Awake(t) PROVE EventTypeOK'
  BY <1>5, EventAssumption DEF Awake, Return, EventAssumption
<1>6. ASSUME NEW t \in Waiters, Expire(t) PROVE EventTypeOK'
  BY <1>6, EventAssumption DEF Expire, Return, EventAssumption
<1>. QED
  BY <1>1, <1>2, <1>3, <1>4, <1>5, <1>6 DEF EventNext

\* The variables keep their types: a thread that is woken leaves the condition.
THEOREM TypeCorrect ==
  ASSUME EventAssumption
  PROVE  EventSpec => []EventTypeOK
<1>1. EventInit => EventTypeOK
  BY DEF EventInit, EventTypeOK
<1>2. EventTypeOK /\ [EventNext]_eventVars => EventTypeOK'
  BY TypeStep, EventAssumption
<1>. QED
  BY <1>1, <1>2, PTL DEF EventSpec

\* Nobody sleeps on beside a signal that nobody is going to take, for any number
\* of threads and with wake-ups for no reason (osd_event_set and osd_event_wait).
THEOREM NoWakeLost == EventSpec => []NoLostWake
<1>1. EventInit => NoLostWake
  BY DEF EventInit, NoLostWake
<1>2. NoLostWake /\ [EventNext]_eventVars => NoLostWake'
  <2> SUFFICES ASSUME NoLostWake, [EventNext]_eventVars PROVE NoLostWake'
    OBVIOUS
  <2> USE DEF NoLostWake
  <2>1. CASE UNCHANGED eventVars
    BY <2>1 DEF eventVars
  <2>2. ASSUME NEW t \in Setters, Set(t) PROVE NoLostWake'
    <3>1. CASE signalled \/ sleeping = {}
      BY <2>2, <3>1 DEF Set
    <3>2. CASE ~(signalled \/ sleeping = {})
      <4>1. PICK chosen \in SUBSET sleeping :
              /\ Signal(chosen)
              /\ sleeping' = sleeping \ chosen /\ woken' = woken \cup chosen
        BY <2>2, <3>2 DEF Set
      <4>2. autoreset => chosen # {}
        BY <4>1, FS_EmptySet DEF Signal
      <4> QED
        BY <2>2, <4>1, <4>2 DEF Set, Signal
    <3> QED
      BY <3>1, <3>2
  <2>3. ASSUME NEW t \in Resetters, Reset(t) PROVE NoLostWake'
    BY <2>3 DEF Reset
  <2>4. ASSUME NEW t \in Waiters, Wait(t) PROVE NoLostWake'
    BY <2>4 DEF Wait, Return, Blocked
  <2>5. ASSUME NEW t \in Waiters, Awake(t) PROVE NoLostWake'
    BY <2>5 DEF Awake, Return
  <2>6. ASSUME NEW t \in Waiters, Expire(t) PROVE NoLostWake'
    BY <2>6 DEF Expire, Return
  <2> QED
    BY <2>1, <2>2, <2>3, <2>4, <2>5, <2>6 DEF EventNext
<1> QED
  BY <1>1, <1>2, PTL DEF EventSpec

----------------------------------------------------------------------------
(* The event as osdsync.h describes it. *)

LEMMA NextService ==
  ASSUME EventAssumption, EventTypeOK, NoLostWake, [EventNext]_eventVars
  PROVE  \/ [Service!Next]_(Service!vars)
         \/ SetForOne
         \/ \E t \in Waiters : WokenByChance(t)
<1>1. CASE UNCHANGED eventVars
  BY <1>1 DEF eventVars, Service!vars
<1>2. ASSUME NEW t \in Setters, Set(t) PROVE Service!Set \/ SetForOne
  <2>1. signalled' = TRUE /\ UNCHANGED <<autoreset, answer>>
    BY <1>2 DEF Set
  <2>2. CASE sleeping = {}
    BY <1>2, <2>1, <2>2 DEF Set, Service!Set
  <2>3. CASE signalled /\ sleeping # {}
    <3>1. autoreset /\ woken # {} /\ UNCHANGED <<sleeping, woken>>
      BY <1>2, <2>3 DEF Set, NoLostWake
    <3>. QED  BY <2>1, <3>1 DEF SetForOne, Blocked
  <2>4. CASE ~signalled /\ sleeping # {}
    <3>1. PICK chosen \in SUBSET sleeping :
            /\ Signal(chosen)
            /\ sleeping' = sleeping \ chosen /\ woken' = woken \cup chosen
      BY <1>2, <2>4 DEF Set
    <3>2. CASE autoreset
      <4>1. chosen # {}
        BY <3>1, <3>2, FS_EmptySet DEF Signal
      <4>2. Blocked' = Blocked
        BY <3>1 DEF Blocked
      <4>. QED  BY <2>1, <3>1, <3>2, <4>1, <4>2 DEF SetForOne
    <3>3. CASE ~autoreset
      <4>1. chosen = sleeping
        BY <3>1, <3>3 DEF Signal
      <4>. QED  BY <2>1, <3>1, <4>1 DEF Service!Set
    <3>. QED  BY <3>2, <3>3
  <2>. QED  BY <2>2, <2>3, <2>4
<1>3. ASSUME NEW t \in Resetters, Reset(t) PROVE Service!Reset
  BY <1>3 DEF Reset, Service!Reset
<1>4. ASSUME NEW t, Return(t, "true"), signalled \/ t \in woken PROVE Service!Succeed(t)
  BY <1>4 DEF Return, Service!Return, Service!Succeed
<1>5. ASSUME NEW t, Return(t, "false"), ~signalled, t \notin woken PROVE Service!TimeOut(t)
  BY <1>5 DEF Return, Service!Return, Service!TimeOut
<1>6. ASSUME NEW t \in Waiters, Wait(t)
      PROVE  Service!Block(t) \/ Service!Succeed(t) \/ Service!TimeOut(t)
  <2>1. t \notin woken
    BY <1>6 DEF Wait, Blocked
  <2>2. CASE /\ ~signalled /\ sleeping' = sleeping \cup {t}
             /\ answer' = [answer EXCEPT ![t] = "none"]
             /\ UNCHANGED <<autoreset, signalled, woken>>
    BY <1>6, <2>2 DEF Wait, Blocked, Service!Block
  <2>. QED  BY <1>4, <1>5, <1>6, <2>1, <2>2 DEF Wait
<1>7. ASSUME NEW t \in Waiters, Awake(t) PROVE Service!Succeed(t) \/ WokenByChance(t)
  BY <1>4, <1>7 DEF Awake, WokenByChance
<1>8. ASSUME NEW t \in Waiters, Expire(t)
      PROVE  Service!Succeed(t) \/ Service!TimeOut(t)
  BY <1>4, <1>5, <1>8 DEF Expire, EventTypeOK
<1>. QED
  BY <1>1, <1>2, <1>3, <1>6, <1>7, <1>8 DEF EventNext, Service!Next, EventAssumption

\* However the threads interleave, an event departs from the comments of osdsync.h,
\* read with the opposite of manualreset, in two ways only: a set of an event that a
\* wait resets is for one thread, never for none; and a thread that the condition wakes
\* for no reason returns TRUE (sync_tc.cpp).
THEOREM DepartsInTwoWays ==
  ASSUME EventAssumption
  PROVE  EventSpec => AsDescribed
<1>1. EventTypeOK /\ NoLostWake /\ [EventNext]_eventVars
        => \/ [Service!Next]_(Service!vars)
           \/ SetForOne
           \/ \E t \in Waiters : WokenByChance(t)
  BY NextService, EventAssumption
<1>. QED
  BY <1>1, TypeCorrect, NoWakeLost, EventAssumption, PTL DEF EventSpec, AsDescribed

\* Neither can happen: the condition does not wake for no reason, and the event is
\* reset by hand or has one thread that waits for it.
WithoutDepartures ==
  /\ ~Spurious
  /\ ~autoreset \/ \A t, u \in Waiters : t = u

\* A set of an event with one waiting thread is for all that wait.
LEMMA OneIsAll ==
  ASSUME EventAssumption, EventTypeOK, WithoutDepartures, NoLostWake, [EventNext]_eventVars
  PROVE  [Service!Next]_(Service!vars)
<1>1. ASSUME NEW t \in Waiters PROVE ~WokenByChance(t)
  BY DEF WithoutDepartures, WokenByChance, Awake
<1>2. ASSUME SetForOne, EventTypeOK' PROVE Service!Set \/ UNCHANGED Service!vars
  <2>1. autoreset /\ signalled' /\ UNCHANGED <<Blocked, autoreset, answer>>
    BY <1>2 DEF SetForOne
  <2>2. PICK t \in Waiters : t \in woken' /\ \A u \in Waiters : u = t
    BY <1>2, <2>1 DEF SetForOne, WithoutDepartures, EventTypeOK
  <2>3. woken' = {t} /\ sleeping' = {}
    BY <1>2, <2>2 DEF EventTypeOK
  <2>4. sleeping \cup woken = {t}
    BY <2>1, <2>3 DEF Blocked
  <2>. QED  BY <2>1, <2>3, <2>4 DEF Service!Set, EventTypeOK
<1>3. EventTypeOK'
  BY TypeStep
<1>. QED  BY <1>1, <1>2, <1>3, NextService DEF Service!Next

\* An event that a wait does not reset does all that the comments of osdsync.h say,
\* whoever sets and resets it and however many wait; so does one that a wait resets
\* with a single waiting thread (sync_tc.cpp).
THEOREM EventImplements ==
  ASSUME EventAssumption
  PROVE  EventSpec /\ WithoutDepartures => Implements
<1>1. EventInit => Service!Init
  BY DEF EventInit, Service!Init
<1>2. WithoutDepartures /\ [EventNext]_eventVars => WithoutDepartures'
  <2>1. [EventNext]_eventVars => autoreset' = autoreset
    BY DEF EventNext, eventVars, Set, Reset, Wait, Awake, Expire, Return
  <2>. QED  BY <2>1 DEF WithoutDepartures
<1>3. EventTypeOK /\ WithoutDepartures /\ NoLostWake /\ [EventNext]_eventVars
        => [Service!Next]_(Service!vars)
  BY OneIsAll, EventAssumption
<1>. QED
  BY <1>1, <1>2, <1>3, TypeCorrect, NoWakeLost, EventAssumption, PTL
  DEF EventSpec, Implements, Service!Spec

----------------------------------------------------------------------------
(* Numbers. *)

\* A set of numbers that is not empty has a least element.
LEMMA LeastNumber ==
  ASSUME NEW S \in SUBSET Nat, S # {}
  PROVE  \E x \in S : \A y \in S : x <= y
<1>. DEFINE R == {ss \in Nat \X Nat : ss[1] < ss[2]}
<1>1. IsWellFoundedOn(R, Nat)
  BY NatLessThanWellFounded DEF OpToRel
<1>2. PICK x \in S : \A y \in S : ~(<<y, x>> \in R)
  <2>. HIDE DEF R
  <2>. QED  BY <1>1, WFMin
<1>3. ASSUME NEW y \in S PROVE x <= y
  <2>1. <<y, x>> \in R <=> y < x
    OBVIOUS
  <2>2. ~(y < x) /\ x \in Nat /\ y \in Nat
    BY <1>2, <2>1
  <2>. QED  BY <2>2
<1>. QED  BY <1>3

\* What holds of 1 and, with a number, of the next, holds of all up to n.
LEMMA UpTo ==
  ASSUME NEW n \in Nat, NEW Q, 1 \in Q, \A i \in 1 .. n - 1 : i \in Q => i + 1 \in Q
  PROVE  \A i \in 1 .. n : i \in Q
<1>. DEFINE out == {i \in 1 .. n : i \notin Q}
<1>1. SUFFICES ASSUME out # {} PROVE FALSE
  OBVIOUS
<1>2. PICK m \in out : \A y \in out : m <= y
  <2>1. out \in SUBSET Nat
    OBVIOUS
  <2>. QED  BY <1>1, <2>1, LeastNumber
<1>3. m - 1 \in 1 .. n - 1 /\ m - 1 \notin out /\ (m - 1) + 1 = m
  BY <1>2
<1>. QED  BY <1>2, <1>3

----------------------------------------------------------------------------
(* Lists of entries. *)

Ordered(list) ==
  \A k, l \in DOMAIN list : k < l => list[k] < list[l]

Lists == {list \in Seq(Items) : Ordered(list)}

\* What a list of entries is.
LEMMA ListTypes ==
  ASSUME StateFileAssumption, NEW list \in Lists
  PROVE  /\ list \in Seq(Items) /\ Len(list) \in Nat /\ DOMAIN list = 1 .. Len(list)
         /\ list \in [1 .. Len(list) -> Nat] /\ list \in [1 .. Len(list) -> Items]
<1>1. Items \subseteq Nat
  BY DEF StateFileAssumption
<1>2. list \in Seq(Items)
  BY DEF Lists
<1>3. /\ Len(list) \in Nat /\ DOMAIN list = 1 .. Len(list)
      /\ list \in [1 .. Len(list) -> Items]
  BY <1>2
<1>. QED  BY <1>1, <1>2, <1>3

\* The numbers rise along f.
Rising(n, f) == \A k, l \in 1 .. n : k < l => f[k] < f[l]

\* Every number of f is one of g.
Within(n, f, p, g) == \A k \in 1 .. n : \E l \in 1 .. p : g[l] = f[k]

\* Up to a place where they differ, g has gone past nothing that f has.
LEMMA FirstDifference ==
  ASSUME NEW n \in Nat, NEW p \in Nat, NEW f \in [1 .. n -> Nat], NEW g \in [1 .. p -> Nat],
         Rising(n, f), Rising(p, g), Within(n, f, p, g),
         NEW k \in 1 .. n, k \in 1 .. p, \A l \in 1 .. k - 1 : f[l] = g[l]
  PROVE  g[k] <= f[k]
<1>1. PICK l \in 1 .. p : g[l] = f[k]
  BY DEF Within
<1>2. CASE l < k
  <2>1. l \in 1 .. n /\ l \in 1 .. k - 1
    BY <1>2
  <2>2. f[l] = f[k] /\ f[l] < f[k]
    BY <1>1, <1>2, <2>1 DEF Rising
  <2>. QED  BY <2>1, <2>2
<1>3. CASE l = k
  <2>1. g[k] = f[k] /\ f[k] \in Nat
    BY <1>1, <1>3
  <2>. QED  BY <2>1
<1>4. CASE k < l
  <2>1. g[k] < f[k] /\ f[k] \in Nat /\ g[k] \in Nat
    BY <1>1, <1>4 DEF Rising
  <2>. QED  BY <2>1
<1>. QED  BY <1>2, <1>3, <1>4

Alike(n, f, p, g) == \A k \in 1 .. n : k <= p => f[k] = g[k]

\* Rising functions with the same numbers agree as far as both go.
LEMMA SameBeginning ==
  ASSUME NEW n \in Nat, NEW p \in Nat, NEW f \in [1 .. n -> Nat], NEW g \in [1 .. p -> Nat],
         Rising(n, f), Rising(p, g), Within(n, f, p, g), Within(p, g, n, f)
  PROVE  Alike(n, f, p, g)
<1>. USE DEF Alike
<1>. DEFINE odd == {k \in 1 .. n : k <= p /\ f[k] # g[k]}
<1>1. SUFFICES ASSUME odd # {} PROVE FALSE
  OBVIOUS
<1>2. PICK k \in odd : \A l \in odd : k <= l
  <2>1. odd \in SUBSET Nat
    OBVIOUS
  <2>. QED  BY <1>1, <2>1, LeastNumber
<1>3. k \in 1 .. n /\ k \in 1 .. p /\ f[k] # g[k] /\ \A l \in 1 .. k - 1 : f[l] = g[l]
  <2>1. k \in 1 .. n /\ k \in 1 .. p /\ f[k] # g[k]
    BY <1>2
  <2>2. ASSUME NEW l \in 1 .. k - 1 PROVE f[l] = g[l]
    <3>1. l \in 1 .. n /\ l <= p /\ ~(k <= l)
      BY <2>1
    <3>. QED  BY <1>2, <3>1
  <2>. QED  BY <2>1, <2>2
<1>. HIDE DEF odd
<1>4. g[k] <= f[k]
  BY <1>3, FirstDifference
<1>5. f[k] <= g[k]
  <2>1. \A l \in 1 .. k - 1 : g[l] = f[l]
    BY <1>3
  <2>. QED  BY <1>3, <2>1, FirstDifference
<1>6. f[k] \in Nat /\ g[k] \in Nat
  BY <1>3
<1>. QED  BY <1>3, <1>4, <1>5, <1>6

\* And neither goes on.
LEMMA NotLonger ==
  ASSUME NEW n \in Nat, NEW p \in Nat, NEW f \in [1 .. n -> Nat], NEW g \in [1 .. p -> Nat],
         Rising(n, f), Rising(p, g), Within(n, f, p, g), Within(p, g, n, f)
  PROVE  ~(n < p)
<1>. SUFFICES ASSUME n < p PROVE FALSE
  OBVIOUS
<1>1. n + 1 \in 1 .. p
  OBVIOUS
<1>2. PICK l \in 1 .. n : f[l] = g[n + 1]
  BY <1>1 DEF Within
<1>3. l \in 1 .. p /\ l < n + 1 /\ l <= p
  OBVIOUS
<1>4. g[l] < g[n + 1] /\ f[l] = g[l] /\ g[l] \in Nat
  <2>1. g[l] < g[n + 1] /\ g[l] \in Nat
    BY <1>1, <1>3 DEF Rising
  <2>2. Alike(n, f, p, g)
    BY SameBeginning
  <2>. QED  BY <1>3, <2>1, <2>2 DEF Alike
<1>. QED  BY <1>2, <1>4

\* Entries in the order of their names: nothing but their set decides on the list.
LEMMA OneList ==
  ASSUME StateFileAssumption, NEW f \in Lists, NEW g \in Lists, ToSet(f) = ToSet(g)
  PROVE  f = g
<1>. DEFINE n == Len(f)
            p == Len(g)
<1>1. /\ n \in Nat /\ f \in [1 .. n -> Nat] /\ DOMAIN f = 1 .. n
      /\ p \in Nat /\ g \in [1 .. p -> Nat] /\ DOMAIN g = 1 .. p
  BY ListTypes
<1>. HIDE DEF n, p
<1>2. Rising(n, f) /\ Rising(p, g)
  BY <1>1 DEF Lists, Ordered, Rising
<1>3. Within(n, f, p, g)
  <2>1. ASSUME NEW k \in 1 .. n PROVE \E l \in 1 .. p : g[l] = f[k]
    <3>1. f[k] \in ToSet(g)
      BY <1>1 DEF ToSet
    <3>. QED  BY <1>1, <3>1 DEF ToSet
  <2>. QED  BY <2>1 DEF Within
<1>4. Within(p, g, n, f)
  <2>1. ASSUME NEW k \in 1 .. p PROVE \E l \in 1 .. n : f[l] = g[k]
    <3>1. g[k] \in ToSet(f)
      BY <1>1 DEF ToSet
    <3>. QED  BY <1>1, <3>1 DEF ToSet
  <2>. QED  BY <2>1 DEF Within
<1>5. n = p
  <2>1. ~(n < p)
    BY <1>1, <1>2, <1>3, <1>4, NotLonger
  <2>2. ~(p < n)
    BY <1>1, <1>2, <1>3, <1>4, NotLonger
  <2>. QED  BY <1>1, <2>1, <2>2
<1>6. \A k \in 1 .. n : f[k] = g[k]
  <2>1. \A k \in 1 .. n : k <= p => f[k] = g[k]
    <3>1. Alike(n, f, p, g)
      BY <1>1, <1>2, <1>3, <1>4, SameBeginning
    <3>. QED  BY <3>1 DEF Alike
  <2>. QED  BY <1>1, <1>5, <2>1
<1>. QED  BY <1>1, <1>5, <1>6

\* e comes into s at k.
Inserted(new, s, k, e) ==
  \A l \in 1 .. Len(s) + 1 : new[l] = IF l < k THEN s[l] ELSE IF l = k THEN e ELSE s[l - 1]

\* What InsertAt returns.
LEMMA InsertedAt ==
  ASSUME NEW S, NEW s \in Seq(S), NEW k \in 1 .. Len(s) + 1, NEW e \in S
  PROVE  /\ InsertAt(s, k, e) \in Seq(S) /\ Len(InsertAt(s, k, e)) = Len(s) + 1
         /\ Inserted(InsertAt(s, k, e), s, k, e)
<1>. DEFINE n == Len(s)
            a == SubSeq(s, 1, k - 1)
            b == SubSeq(s, k, n)
            one == <<e>>
            c == a \o one
<1>1. n \in Nat /\ k \in Int /\ k >= 1 /\ k <= n + 1 /\ \A l \in 1 .. n : s[l] \in S
  BY LenProperties
<1>. HIDE DEF n
<1>2. a \in Seq(S) /\ Len(a) = k - 1 /\ \A l \in 1 .. k - 1 : a[l] = s[l]
  <2>1. k - 1 \in Int /\ \A l \in 1 .. k - 1 : s[l] \in S
    BY <1>1
  <2>2. /\ a \in Seq(S) /\ Len(a) = IF 1 <= k - 1 THEN k - 1 - 1 + 1 ELSE 0
        /\ \A l \in 1 .. k - 1 - 1 + 1 : a[l] = s[1 + l - 1]
    BY <2>1, SubSeqProperties
  <2>. QED  BY <1>1, <2>2
<1>3. b \in Seq(S) /\ Len(b) = n - k + 1 /\ \A l \in 1 .. n - k + 1 : b[l] = s[k + l - 1]
  <2>1. \A l \in k .. n : s[l] \in S
    BY <1>1
  <2>2. /\ b \in Seq(S) /\ Len(b) = IF k <= n THEN n - k + 1 ELSE 0
        /\ \A l \in 1 .. n - k + 1 : b[l] = s[k + l - 1]
    BY <1>1, <2>1, SubSeqProperties
  <2>. QED  BY <1>1, <2>2
<1>. HIDE DEF a, b
<1>4. one \in Seq(S) /\ Len(one) = 1 /\ one[1] = e
  OBVIOUS
<1>. HIDE DEF one
<1>5. c \in Seq(S) /\ Len(c) = k /\ \A l \in 1 .. k : c[l] = IF l <= k - 1 THEN s[l] ELSE e
  <2>0. /\ c \in Seq(S) /\ Len(c) = Len(a) + Len(one)
        /\ \A l \in 1 .. Len(a) + Len(one) :
             c[l] = IF l <= Len(a) THEN a[l] ELSE one[l - Len(a)]
    BY <1>2, <1>4, ConcatProperties
  <2>. HIDE DEF c
  <2>1. /\ c \in Seq(S) /\ Len(c) = Len(a) + 1
        /\ \A l \in 1 .. Len(a) + 1 : c[l] = IF l <= Len(a) THEN a[l] ELSE one[l - Len(a)]
    BY <1>4, <2>0
  <2>2. Len(c) = k
    <3>1. Len(c) = Len(a) + 1 /\ Len(a) = k - 1
      BY <1>2, <2>1
    <3>2. k \in Int
      OBVIOUS
    <3>. QED  BY <3>1, <3>2
  <2>3. ASSUME NEW l \in 1 .. k PROVE c[l] = IF l <= k - 1 THEN s[l] ELSE e
    <3>1. c[l] = IF l <= k - 1 THEN a[l] ELSE one[l - (k - 1)]
      <4>1. Len(a) = k - 1
        BY <1>2
      <4>2. l \in 1 .. Len(a) + 1
        BY <1>1, <4>1
      <4>. QED  BY <2>1, <4>1, <4>2
    <3>2. ~(l <= k - 1) => l - (k - 1) = 1
      BY <1>1
    <3>. QED  BY <1>1, <1>2, <1>4, <3>1, <3>2
  <2>. QED  BY <2>1, <2>2, <2>3
<1>. HIDE DEF c
<1>6. /\ c \o b \in Seq(S) /\ Len(c \o b) = Len(c) + Len(b)
      /\ \A l \in 1 .. Len(c) + Len(b) : (c \o b)[l] = IF l <= Len(c) THEN c[l] ELSE b[l - Len(c)]
  BY <1>3, <1>5, ConcatProperties
<1>7. InsertAt(s, k, e) = c \o b
  BY DEF InsertAt, a, b, c, n, one
<1>8. Len(c \o b) = n + 1
  BY <1>1, <1>3, <1>5, <1>6
<1>9. ASSUME NEW l \in 1 .. n + 1
      PROVE  (c \o b)[l] = IF l < k THEN s[l] ELSE IF l = k THEN e ELSE s[l - 1]
  <2>1. (c \o b)[l] = IF l <= k THEN c[l] ELSE b[l - k]
    <3>1. Len(b) = n - k + 1 /\ Len(c) = k
      BY <1>3, <1>5
    <3>2. Len(c) + Len(b) = n + 1
      BY <1>1, <3>1
    <3>. QED  BY <1>6, <3>1, <3>2
  <2>2. ASSUME k < l PROVE b[l - k] = s[l - 1]
    <3>1. l - k \in 1 .. n - k + 1 /\ k + (l - k) - 1 = l - 1
      BY <1>1, <2>2
    <3>. QED  BY <1>3, <3>1
  <2>3. ASSUME l <= k PROVE c[l] = IF l < k THEN s[l] ELSE e
    <3>1. l \in 1 .. k /\ (l <= k - 1 <=> l < k)
      BY <1>1, <2>3
    <3>. QED  BY <1>5, <3>1
  <2>. QED  BY <1>1, <2>1, <2>2, <2>3
<1>. QED  BY <1>6, <1>7, <1>8, <1>9 DEF n, Inserted

\* A new entry finds its place.
LEMMA InsertOrdered ==
  ASSUME StateFileAssumption, NEW list \in Lists, NEW i \in Items, ~Contains(list, i)
  PROVE  Insert(list, i) \in Lists
<1>. DEFINE n == Len(list)
<1>1. /\ n \in Nat /\ i \in Nat /\ DOMAIN list = 1 .. n /\ list \in Seq(Items)
      /\ \A k \in 1 .. n : list[k] \in Nat
  <2>1. i \in Nat
    BY DEF StateFileAssumption
  <2>2. n \in Nat /\ DOMAIN list = 1 .. n /\ list \in Seq(Items) /\ list \in [1 .. n -> Nat]
    BY ListTypes
  <2>. HIDE DEF n
  <2>. QED  BY <2>1, <2>2
<1>2. \A k \in 1 .. n : list[k] # i
  BY DEF Contains
<1>3. \A k, l \in 1 .. n : k < l => list[k] < list[l]
  BY <1>1 DEF Lists, Ordered
<1>. DEFINE Here(k) == /\ \A l \in 1 .. k - 1 : list[l] < i
                       /\ k <= n => list[k] > i
<1>4. \E k \in 1 .. n + 1 : Here(k)
  <2>. HIDE DEF n
  <2>. DEFINE up == {k \in 1 .. n + 1 : k <= n => list[k] > i}
  <2>1. PICK k \in up : \A l \in up : k <= l
    <3>1. up \in SUBSET Nat /\ n + 1 \in up
      BY <1>1
    <3>. HIDE DEF up
    <3>. QED  BY <3>1, LeastNumber
  <2>2. ASSUME NEW l \in 1 .. k - 1 PROVE list[l] < i
    <3>1. l \in 1 .. n /\ l \in 1 .. n + 1 /\ ~(k <= l)
      BY <1>1, <2>1
    <3>2. ~ (list[l] > i)
      BY <2>1, <3>1
    <3>. QED  BY <1>1, <1>2, <3>1, <3>2
  <2>. QED  BY <2>1, <2>2
<1>5. PICK k \in 1 .. n + 1 : Here(k) /\ Insert(list, i) = InsertAt(list, k, i)
  BY <1>4 DEF Insert
<1>. DEFINE new == InsertAt(list, k, i)
<1>6. /\ new \in Seq(Items) /\ Len(new) = n + 1
      /\ \A l \in 1 .. n + 1 :
           new[l] = IF l < k THEN list[l] ELSE IF l = k THEN i ELSE list[l - 1]
  <2>1. Inserted(InsertAt(list, k, i), list, k, i)
    BY <1>1, <1>5, InsertedAt
  <2>2. InsertAt(list, k, i) \in Seq(Items) /\ Len(InsertAt(list, k, i)) = n + 1
    BY <1>1, <1>5, InsertedAt
  <2>. QED  BY <2>1, <2>2 DEF Inserted
<1>. HIDE DEF new, n
<1>7. ASSUME NEW l \in 1 .. n + 1, NEW m \in 1 .. n + 1, l < m
      PROVE  new[l] < new[m]
  <2>1. CASE m < k
    <3>1. l \in 1 .. n /\ m \in 1 .. n /\ new[l] = list[l] /\ new[m] = list[m]
      BY <1>1, <1>5, <1>6, <1>7, <2>1
    <3>. QED  BY <1>3, <1>7, <3>1
  <2>2. CASE m = k
    <3>1. l \in 1 .. k - 1 /\ new[l] = list[l] /\ new[m] = i
      BY <1>1, <1>5, <1>6, <1>7, <2>2
    <3>. QED  BY <1>5, <3>1
  <2>3. CASE m > k /\ l < k
    <3>1. l \in 1 .. n /\ m - 1 \in 1 .. n /\ l < m - 1 /\ new[l] = list[l] /\ new[m] = list[m - 1]
      <4>1. l \in 1 .. n /\ m - 1 \in 1 .. n /\ l < m - 1
        <5>1. n \in Nat /\ k <= n + 1
          BY <1>1
        <5>. QED  BY <1>7, <2>3, <5>1
      <4>2. ~(m < k) /\ m # k
        BY <2>3
      <4>. QED  BY <1>6, <2>3, <4>1, <4>2
    <3>. QED  BY <1>3, <3>1
  <2>4. CASE m > k /\ l = k
    <3>1. /\ k \in 1 .. n /\ m - 1 \in 1 .. n /\ k <= m - 1
          /\ new[m] = list[m - 1] /\ new[l] = i /\ k <= n
      BY <1>1, <1>5, <1>6, <1>7, <2>4
    <3>2. list[k] > i /\ list[k] \in Nat /\ list[m - 1] \in Nat
      BY <1>1, <1>5, <3>1
    <3>3. k = m - 1 \/ list[k] < list[m - 1]
      BY <1>3, <3>1
    <3>4. i < list[m - 1]
      <4>1. i \in Nat
        BY <1>1
      <4>. QED  BY <3>2, <3>3, <4>1
    <3>. QED  BY <3>1, <3>4
  <2>5. CASE m > k /\ l > k
    <3>1. /\ l - 1 \in 1 .. n /\ m - 1 \in 1 .. n /\ l - 1 < m - 1
          /\ new[l] = list[l - 1] /\ new[m] = list[m - 1]
      <4>1. l - 1 \in 1 .. n /\ m - 1 \in 1 .. n /\ l - 1 < m - 1
        <5>1. n \in Nat /\ k >= 1
          BY <1>1
        <5>. QED  BY <1>7, <2>5, <5>1
      <4>2. ~(l < k) /\ l # k /\ ~(m < k) /\ m # k
        BY <1>5, <2>5
      <4>. QED  BY <1>6, <4>1, <4>2
    <3>. QED  BY <1>3, <3>1
  <2>. QED  BY <1>1, <1>5, <2>1, <2>2, <2>3, <2>4, <2>5
<1>8. DOMAIN new = 1 .. n + 1
  BY <1>1, <1>6
<1>9. Ordered(new)
  BY <1>7, <1>8 DEF Ordered
<1>. QED  BY <1>5, <1>6, <1>9 DEF Lists, new

----------------------------------------------------------------------------
(* Bytes. *)

Stored(i) == [1 .. Total(i) -> 0 .. 255]

Bytes(msb, i, bytes) == IF msb THEN Flip(i, bytes) ELSE bytes

\* The sizes of an item.
LEMMA Sizes ==
  ASSUME StateFileAssumption, NEW i \in Items
  PROVE  /\ TypeSize[i] \in {1, 2, 4, 8} /\ TypeCount[i] \in Nat \ {0}
         /\ Total(i) \in Nat \ {0}
<1>1. TypeSize[i] \in {1, 2, 4, 8} /\ TypeCount[i] \in Nat \ {0}
  BY DEF StateFileAssumption
<1>. QED  BY <1>1 DEF Total

\* Where a byte of an element goes.
Place(size, n) ==
  LET first == ((n - 1) \div size) * size IN first + size - (n - 1 - first)

\* It stays within its element, and comes back from there.
LEMMA PlaceTwice ==
  ASSUME NEW size \in {1, 2, 4, 8}, NEW count \in Nat, NEW n \in 1 .. size * count
  PROVE  Place(size, n) \in 1 .. size * count /\ Place(size, Place(size, n)) = n
<1>1. CASE size = 1
  BY <1>1 DEF Place
<1>2. CASE size = 2
  BY <1>2 DEF Place
<1>3. CASE size = 4
  BY <1>3 DEF Place
<1>4. CASE size = 8
  BY <1>4 DEF Place
<1>. QED  BY <1>1, <1>2, <1>3, <1>4

\* The bytes of every element reversed, and reversed again.
LEMMA FlipTwice ==
  ASSUME StateFileAssumption, NEW i \in Items, NEW bytes \in Stored(i)
  PROVE  Flip(i, bytes) \in Stored(i) /\ Flip(i, Flip(i, bytes)) = bytes
<1>. DEFINE at(n) == Place(TypeSize[i], n)
            once == Flip(i, bytes)
<1>1. ASSUME NEW n \in 1 .. Total(i) PROVE at(n) \in 1 .. Total(i) /\ at(at(n)) = n
  <2>1. TypeSize[i] \in {1, 2, 4, 8} /\ TypeCount[i] \in Nat
    BY Sizes
  <2>2. n \in 1 .. TypeSize[i] * TypeCount[i]
    BY DEF Total
  <2>. QED  BY <2>1, <2>2, PlaceTwice DEF Total
<1>2. once = [n \in 1 .. Total(i) |-> bytes[at(n)]]
  BY DEF Flip, Place
<1>3. Flip(i, once) = [n \in 1 .. Total(i) |-> once[at(n)]]
  BY DEF Flip, Place
<1>. HIDE DEF at, once
<1>4. bytes \in [1 .. Total(i) -> 0 .. 255]
  BY DEF Stored
<1>5. once \in [1 .. Total(i) -> 0 .. 255]
  BY <1>1, <1>2, <1>4
<1>6. \A n \in 1 .. Total(i) : once[at(n)] = bytes[n]
  BY <1>1, <1>2
<1>7. Flip(i, once) = bytes
  BY <1>3, <1>4, <1>6
<1>. QED  BY <1>5, <1>7 DEF Stored, once

----------------------------------------------------------------------------
(* Where the data are. *)

\* at is the sum of the sizes before each entry.
Places(at, n, list) ==
  at = [k \in 1 .. n + 1 |-> IF k = 1 THEN 0 ELSE at[k - 1] + Total(list[k - 1])]

\* The recursion that defines Offset has a solution.
LEMMA PlacesExist ==
  ASSUME StateFileAssumption, NEW n \in Nat, NEW list \in [1 .. n -> Items]
  PROVE  \E at : Places(at, n, list)
<1>. DEFINE Q == {m \in 1 .. n + 1 : \E at \in [1 .. m -> Nat] :
                    at = [k \in 1 .. m |-> IF k = 1 THEN 0 ELSE at[k - 1] + Total(list[k - 1])]}
<1>1. 1 \in Q
  <2>. DEFINE at == [k \in 1 .. 1 |-> 0]
  <2>1. at \in [1 .. 1 -> Nat] /\ at = [k \in 1 .. 1 |-> at[k]]
        /\ \A k \in 1 .. 1 : k = 1 /\ at[k] = 0
    OBVIOUS
  <2>. HIDE DEF at
  <2>2. at = [k \in 1 .. 1 |-> IF k = 1 THEN 0 ELSE at[k - 1] + Total(list[k - 1])]
    BY <2>1
  <2>. QED  BY <2>1, <2>2
<1>2. ASSUME NEW m \in 1 .. n, m \in Q PROVE m + 1 \in Q
  <2>1. PICK at \in [1 .. m -> Nat] :
          at = [k \in 1 .. m |-> IF k = 1 THEN 0 ELSE at[k - 1] + Total(list[k - 1])]
    BY <1>2
  <2>2. Total(list[m]) \in Nat
    BY Sizes
  <2>. DEFINE new == [k \in 1 .. m + 1 |-> IF k <= m THEN at[k] ELSE at[m] + Total(list[m])]
  <2>3. new \in [1 .. m + 1 -> Nat]
    BY <2>2
  <2>4. ASSUME NEW k \in 1 .. m + 1
        PROVE  new[k] = IF k = 1 THEN 0 ELSE new[k - 1] + Total(list[k - 1])
    <3>1. CASE k <= m
      <4>1. k \in 1 .. m /\ new[k] = at[k] /\ (k # 1 => new[k - 1] = at[k - 1])
        BY <3>1
      <4>2. at[k] = IF k = 1 THEN 0 ELSE at[k - 1] + Total(list[k - 1])
        BY <2>1, <4>1
      <4>. QED  BY <4>1, <4>2
    <3>2. CASE k = m + 1
      <4>1. k # 1 /\ k - 1 = m /\ new[k] = at[m] + Total(list[m]) /\ new[k - 1] = at[m]
        BY <3>2
      <4>. QED  BY <4>1
    <3>. QED  BY <3>1, <3>2
  <2>5. new = [k \in 1 .. m + 1 |-> new[k]]
    OBVIOUS
  <2>. HIDE DEF new
  <2>6. new = [k \in 1 .. m + 1 |-> IF k = 1 THEN 0 ELSE new[k - 1] + Total(list[k - 1])]
    BY <2>4, <2>5
  <2>7. m + 1 \in 1 .. n + 1
    OBVIOUS
  <2>. QED  BY <2>3, <2>6, <2>7
<1>3. n + 1 \in Q
  <2>. HIDE DEF Q
  <2>1. n + 1 \in Nat /\ (n + 1) - 1 = n
    OBVIOUS
  <2>2. \A i \in 1 .. (n + 1) - 1 : i \in Q => i + 1 \in Q
    BY <1>2, <2>1
  <2>3. \A i \in 1 .. n + 1 : i \in Q
    BY <1>1, <2>1, <2>2, UpTo
  <2>. QED  BY <2>3
<1>. QED  BY <1>3 DEF Places

\* The data of an entry follow those of the entry before.
Follow(at, n, list) ==
  /\ at \in [1 .. n + 1 -> Nat] /\ at[1] = 0
  /\ \A k \in 1 .. n : at[k + 1] = at[k] + Total(list[k])

\* Offset is the sum of the sizes before each entry.
LEMMA OffsetFollows ==
  ASSUME StateFileAssumption, NEW list \in Seq(Items)
  PROVE  Follow(Offset(list), Len(list), list)
<1>. DEFINE n == Len(list)
            at == Offset(list)
<1>1. n \in Nat /\ list \in [1 .. n -> Items]
  BY LenProperties
<1>2. Places(at, n, list)
  <2>1. at = CHOOSE f : Places(f, n, list)
    BY DEF Offset, Places
  <2>. QED  BY <1>1, <2>1, PlacesExist
<1>. HIDE DEF n, at
<1>3. at[1] = 0
  BY <1>1, <1>2 DEF Places
<1>4. ASSUME NEW k \in 1 .. n PROVE at[k + 1] = at[k] + Total(list[k])
  <2>1. k + 1 \in 1 .. n + 1 /\ k + 1 # 1 /\ (k + 1) - 1 = k
    BY <1>1
  <2>. QED  BY <1>2, <2>1 DEF Places
<1>5. \A k \in 1 .. n + 1 : at[k] \in Nat
  <2>. DEFINE Q == {k \in 1 .. n + 1 : at[k] \in Nat}
  <2>1. 1 \in Q
    BY <1>1, <1>3
  <2>2. ASSUME NEW k \in 1 .. (n + 1) - 1, k \in Q PROVE k + 1 \in Q
    <3>1. k \in 1 .. n /\ k + 1 \in 1 .. n + 1 /\ at[k] \in Nat
      BY <1>1, <2>2
    <3>2. Total(list[k]) \in Nat
      BY <1>1, <3>1, Sizes
    <3>. QED  BY <1>4, <3>1, <3>2
  <2>3. n + 1 \in Nat
    BY <1>1
  <2>4. \A k \in 1 .. n + 1 : k \in Q
    <3>. HIDE DEF Q
    <3>. QED  BY <2>1, <2>2, <2>3, UpTo
  <2>. QED  BY <2>4
<1>6. at \in [1 .. n + 1 -> Nat]
  <2>1. at = [k \in 1 .. n + 1 |-> at[k]]
    BY <1>2 DEF Places
  <2>. QED  BY <1>5, <2>1
<1>. QED  BY <1>3, <1>4, <1>6 DEF Follow, n, at

\* They do not overlap.
LEMMA InTurn ==
  ASSUME StateFileAssumption, NEW n \in Nat, NEW list \in [1 .. n -> Items], NEW at,
         Follow(at, n, list), NEW k \in 1 .. n + 1, NEW l \in 1 .. n + 1, k <= l
  PROVE  at[k] <= at[l]
<1>. DEFINE Q == {m \in 1 .. n + 1 : k <= m => at[k] <= at[m]}
<1>1. at \in [1 .. n + 1 -> Nat] /\ n + 1 \in Nat
  BY DEF Follow
<1>2. 1 \in Q
  <2>1. k <= 1 => k = 1
    OBVIOUS
  <2>. QED  BY <1>1, <2>1
<1>3. ASSUME NEW m \in 1 .. (n + 1) - 1, m \in Q PROVE m + 1 \in Q
  <2>1. m \in 1 .. n /\ m + 1 \in 1 .. n + 1 /\ m \in 1 .. n + 1
    OBVIOUS
  <2>2. at[m + 1] = at[m] + Total(list[m]) /\ Total(list[m]) \in Nat
    BY <2>1, Sizes DEF Follow
  <2>3. at[k] \in Nat /\ at[m] \in Nat
    BY <1>1, <2>1
  <2>4. CASE k <= m
    BY <1>3, <2>1, <2>2, <2>3, <2>4
  <2>5. CASE k = m + 1
    BY <2>1, <2>2, <2>3, <2>5
  <2>6. CASE k > m + 1
    BY <2>1, <2>6
  <2>. QED  BY <2>4, <2>5, <2>6
<1>. HIDE DEF Q
<1>4. \A m \in 1 .. n + 1 : m \in Q
  BY <1>1, <1>2, <1>3, UpTo
<1>. QED  BY <1>4 DEF Q

\* Every byte is one of one entry.
LEMMA OneEntry ==
  ASSUME StateFileAssumption, NEW n \in Nat, NEW list \in [1 .. n -> Items], NEW at,
         Follow(at, n, list), NEW b \in 1 .. at[n + 1]
  PROVE  \E k \in 1 .. n : at[k] < b /\ b <= at[k + 1]
<1>1. at \in [1 .. n + 1 -> Nat] /\ at[1] = 0 /\ n + 1 \in 1 .. n + 1
  BY DEF Follow
<1>. DEFINE past == {k \in 1 .. n + 1 : b <= at[k]}
<1>2. past \in SUBSET Nat /\ n + 1 \in past
  BY <1>1
<1>3. PICK k \in past : \A l \in past : k <= l
  BY <1>2, LeastNumber
<1>4. k # 1 /\ k - 1 \in 1 .. n /\ k - 1 \in 1 .. n + 1 /\ (k - 1) + 1 = k /\ ~(k <= k - 1)
  BY <1>1, <1>3
<1>5. ~(b <= at[k - 1]) /\ at[k - 1] \in Nat /\ b \in Nat /\ b <= at[k]
  BY <1>1, <1>3, <1>4
<1>6. at[k - 1] < b
  BY <1>5
<1>. QED  BY <1>4, <1>5, <1>6

\* Every byte is one of one entry only.
LEMMA SameEntry ==
  ASSUME StateFileAssumption, NEW n \in Nat, NEW list \in [1 .. n -> Items], NEW at,
         Follow(at, n, list), NEW b \in Nat, NEW k \in 1 .. n, NEW l \in 1 .. n,
         at[k] < b, b <= at[k + 1], at[l] < b, b <= at[l + 1]
  PROVE  k = l
<1>1. at \in [1 .. n + 1 -> Nat]
  BY DEF Follow
<1>2. /\ k \in 1 .. n + 1 /\ k + 1 \in 1 .. n + 1 /\ l \in 1 .. n + 1 /\ l + 1 \in 1 .. n + 1
      /\ at[k] \in Nat /\ at[l] \in Nat /\ at[k + 1] \in Nat /\ at[l + 1] \in Nat
  BY <1>1
<1>3. ~(k < l)
  <2>. SUFFICES ASSUME k < l PROVE FALSE
    OBVIOUS
  <2>1. at[k + 1] <= at[l]
    <3>1. k + 1 <= l
      OBVIOUS
    <3>. QED  BY <1>2, <3>1, InTurn
  <2>. QED  BY <1>2, <2>1
<1>4. ~(l < k)
  <2>. SUFFICES ASSUME l < k PROVE FALSE
    OBVIOUS
  <2>1. at[l + 1] <= at[k]
    <3>1. l + 1 <= k
      OBVIOUS
    <3>. QED  BY <1>2, <3>1, InTurn
  <2>. QED  BY <1>2, <2>1
<1>. QED  BY <1>3, <1>4

\* Every item of mem has the bytes of an item.
Full(mem) == mem = [i \in Items |-> mem[i]] /\ \A i \in Items : mem[i] \in Stored(i)

\* The data have the bytes of every entry where the entry is.
Holds(data, list, mem) ==
  \A k \in 1 .. Len(list) : \A b \in 1 .. Total(list[k]) :
    data[Offset(list)[k] + b] = mem[list[k]][b]

\* What Data returns.
LEMMA DataHas ==
  ASSUME StateFileAssumption, NEW list \in Seq(Items), NEW mem, Full(mem)
  PROVE  Data(list, mem) \in Seq(0 .. 255) /\ Holds(Data(list, mem), list, mem)
<1>. DEFINE n == Len(list)
            at == Offset(list)
            Entry(b) == CHOOSE k \in 1 .. n : at[k] < b /\ b <= at[k + 1]
            data == Data(list, mem)
<1>1. n \in Nat /\ list \in [1 .. n -> Items] /\ DOMAIN list = 1 .. n
  BY LenProperties
<1>2. Follow(at, n, list)
  BY OffsetFollows
<1>3. data = [b \in 1 .. at[n + 1] |-> mem[list[Entry(b)]][b - at[Entry(b)]]]
  BY <1>1 DEF Data
<1>. HIDE DEF n, at, data
<1>4. at \in [1 .. n + 1 -> Nat] /\ at[n + 1] \in Nat
  BY <1>1, <1>2 DEF Follow
<1>5. ASSUME NEW b \in 1 .. at[n + 1] PROVE data[b] \in 0 .. 255
  <2>1. PICK k \in 1 .. n : Entry(b) = k /\ at[k] < b /\ b <= at[k + 1]
    BY <1>1, <1>2, OneEntry
  <2>. HIDE DEF Entry
  <2>2. at[k] \in Nat /\ at[k + 1] = at[k] + Total(list[k]) /\ list[k] \in Items
    BY <1>1, <1>2, <1>4 DEF Follow
  <2>3. b - at[k] \in 1 .. Total(list[k])
    <3>1. b \in Nat /\ Total(list[k]) \in Nat
      <4>1. b \in Nat
        BY <1>4
      <4>2. list[k] \in Items
        BY <2>2
      <4>. QED  BY <4>1, <4>2, Sizes
    <3>. QED  BY <2>1, <2>2, <3>1
  <2>4. data[b] = mem[list[k]][b - at[k]]
    BY <1>3, <2>1
  <2>5. mem[list[k]] \in [1 .. Total(list[k]) -> 0 .. 255]
    BY <2>2 DEF Full, Stored
  <2>. QED  BY <2>3, <2>4, <2>5
<1>6. data \in Seq(0 .. 255)
  <2>1. data \in [1 .. at[n + 1] -> 0 .. 255]
    BY <1>3, <1>5
  <2>2. \A m \in Nat : \A d \in [1 .. m -> 0 .. 255] : d \in Seq(0 .. 255)
    OBVIOUS
  <2>. QED  BY <1>4, <2>1, <2>2
<1>7. ASSUME NEW k \in 1 .. n, NEW b \in 1 .. Total(list[k])
      PROVE  data[at[k] + b] = mem[list[k]][b]
  <2>1. /\ at[k] \in Nat /\ at[k + 1] = at[k] + Total(list[k]) /\ list[k] \in Items
        /\ at[k + 1] \in Nat /\ at[k + 1] <= at[n + 1] /\ Total(list[k]) \in Nat
    <3>1. at[k + 1] <= at[n + 1]
      <4>1. k + 1 \in 1 .. n + 1 /\ n + 1 \in 1 .. n + 1 /\ k + 1 <= n + 1
        BY <1>1
      <4>. QED  BY <1>1, <1>2, <4>1, InTurn
    <3>2. list[k] \in Items /\ k \in 1 .. n + 1 /\ k + 1 \in 1 .. n + 1
      BY <1>1
    <3>3. Total(list[k]) \in Nat
      BY <3>2, Sizes
    <3>4. at[k + 1] = at[k] + Total(list[k])
      BY <1>2 DEF Follow
    <3>. QED  BY <1>4, <3>1, <3>2, <3>3, <3>4
  <2>. DEFINE c == at[k] + b
  <2>2. /\ c \in 1 .. at[n + 1] /\ c \in Nat /\ at[k] < c /\ c <= at[k + 1] /\ c - at[k] = b
    <3>1. at[n + 1] \in Nat
      BY <1>4
    <3>2. at[k] \in Nat /\ at[k + 1] = at[k] + Total(list[k]) /\ at[k + 1] <= at[n + 1]
          /\ Total(list[k]) \in Nat
      BY <2>1
    <3>3. b \in Nat /\ 1 <= b /\ b <= Total(list[k])
      BY <3>2
    <3>. QED  BY ONLY <3>1, <3>2, <3>3 DEF c
  <2>. HIDE DEF c
  <2>3. PICK l \in 1 .. n : Entry(c) = l /\ at[l] < c /\ c <= at[l + 1]
    BY <2>2
  <2>4. l = k
    BY <1>1, <1>2, <2>2, <2>3, SameEntry
  <2>. HIDE DEF Entry
  <2>5. data[c] = mem[list[k]][c - at[k]]
    BY <1>3, <2>2, <2>3, <2>4
  <2>. QED  BY <2>2, <2>5 DEF c
<1>. QED  BY <1>6, <1>7 DEF n, at, data, Holds

----------------------------------------------------------------------------
(* The inductive invariant. *)

SignatureOf(list) ==
  [k \in 1 .. Len(list) |-> <<list[k], TypeCount[list[k]], TypeSize[list[k]]>>]

\* f is a file of a machine that has registered the entries of the list: as far as it
\* goes it has the content saved, in the byte order of the host that wrote it.
Saves(f, list) ==
  /\ f.sig = SignatureOf(list) /\ f.msb \in BOOLEAN /\ f.data \in Seq(0 .. 255)
  /\ f.saved = [i \in ToSet(list) |-> f.saved[i]]
  /\ \A i \in ToSet(list) : f.saved[i] \in Stored(i)
  /\ \A k \in 1 .. Len(list) : list[k] # Packed \/ f.packed =>
       \A b \in 1 .. Total(list[k]) : Offset(list)[k] + b <= Len(f.data) =>
         f.data[Offset(list)[k] + b] = Bytes(f.msb, list[k], f.saved[list[k]])[b]

FileTrue == file.header => \E list \in Lists : Saves(file, list)

SaveInv ==
  /\ msbFirst \in BOOLEAN /\ registration \in {"open", "closed", "dead"}
  /\ entries \in Lists
  /\ Full(memory) /\ live \in Stored(Packed)
  /\ FileTrue

\* The packed item is an item.
LEMMA PackedItem ==
  ASSUME StateFileAssumption
  PROVE  Packed \in Items
BY DEF StateFileAssumption

\* A value keeps its length in either order.
LEMMA BytesStored ==
  ASSUME StateFileAssumption, NEW i \in Items, NEW bytes \in Stored(i), NEW msb
  PROVE  Bytes(msb, i, bytes) \in Stored(i) /\ Bytes(msb, i, Bytes(msb, i, bytes)) = bytes
BY FlipTwice DEF Bytes

\* From the order of one host to that of another.
LEMMA AcrossHosts ==
  ASSUME StateFileAssumption, NEW i \in Items, NEW bytes \in Stored(i),
         NEW from \in BOOLEAN, NEW to \in BOOLEAN
  PROVE  LET read == Bytes(from, i, bytes)
         IN  Bytes(to, i, IF from # to THEN Flip(i, read) ELSE read) = bytes
BY FlipTwice DEF Bytes

\* Zeros are bytes of an item.
LEMMA ZerosStored ==
  ASSUME StateFileAssumption, NEW i \in Items
  PROVE  Zeros(i) \in Stored(i)
BY DEF Zeros, Stored

\* A machine begins without entries.
LEMMA EmptyList == <<>> \in Lists
<1>1. <<>> \in Seq(Items) /\ DOMAIN <<>> = {}
  OBVIOUS
<1>. QED  BY <1>1 DEF Lists, Ordered

\* And with memory that is zero.
LEMMA NewMachine ==
  ASSUME StateFileAssumption
  PROVE  Full([i \in Items |-> Zeros(i)]) /\ Zeros(Packed) \in Stored(Packed)
BY ZerosStored, PackedItem DEF Full

\* What the presave callbacks leave.
LEMMA PresaveFull ==
  ASSUME StateFileAssumption, SaveInv
  PROVE  /\ Full(DispatchPresave)
         /\ \A i \in Items : i # Packed => DispatchPresave[i] = memory[i]
         /\ "presave" \in callbacks => DispatchPresave[Packed] = Native(Packed, live)
<1>1. /\ memory = [i \in Items |-> memory[i]] /\ \A i \in Items : memory[i] \in Stored(i)
      /\ live \in Stored(Packed)
  BY DEF SaveInv, Full
<1>2. Native(Packed, live) = Bytes(msbFirst, Packed, live)
  BY DEF Native, Bytes
<1>3. Native(Packed, live) \in Stored(Packed) /\ Packed \in Items
  BY <1>1, <1>2, PackedItem, BytesStored
<1>4. CASE "presave" \in callbacks
  <2>. DEFINE mem == [memory EXCEPT ![Packed] = Native(Packed, live)]
  <2>1. DispatchPresave = mem
    BY <1>4 DEF DispatchPresave
  <2>2. mem = [i \in Items |-> IF i = Packed THEN Native(Packed, live) ELSE memory[i]]
    BY <1>1
  <2>. HIDE DEF mem
  <2>. QED  BY <1>1, <1>3, <2>1, <2>2 DEF Full
<1>5. CASE "presave" \notin callbacks
  BY <1>1, <1>5 DEF DispatchPresave, Full
<1>. QED  BY <1>4, <1>5

\* A file that has been written is one of the machine that wrote it.
LEMMA WrittenSaves ==
  ASSUME StateFileAssumption, SaveInv
  PROVE  Saves(Written, entries)
<1>. DEFINE data == Data(entries, DispatchPresave)
<1>1. /\ Written.sig = Signature /\ Written.msb = msbFirst /\ Written.data = data
      /\ Written.saved = Content /\ Written.packed = ("presave" \in callbacks)
  BY DEF Written
<1>2. entries \in Lists /\ entries \in Seq(Items) /\ DOMAIN entries = 1 .. Len(entries)
      /\ \A k \in 1 .. Len(entries) : entries[k] \in Items
  BY ListTypes DEF SaveInv
<1>3. /\ Full(DispatchPresave)
      /\ \A i \in Items : i # Packed => DispatchPresave[i] = memory[i]
      /\ "presave" \in callbacks => DispatchPresave[Packed] = Native(Packed, live)
  BY PresaveFull
<1>4. /\ data \in Seq(0 .. 255)
      /\ \A k \in 1 .. Len(entries) : \A b \in 1 .. Total(entries[k]) :
           data[Offset(entries)[k] + b] = DispatchPresave[entries[k]][b]
  <2>1. entries \in Seq(Items)
    BY <1>2
  <2>2. Full(DispatchPresave)
    BY <1>3
  <2>3. data \in Seq(0 .. 255) /\ Holds(data, entries, DispatchPresave)
    BY <2>1, <2>2, DataHas
  <2>. QED  BY <2>3 DEF Holds
<1>5. \A i \in ToSet(entries) : i \in Items
  BY <1>2 DEF ToSet
<1>6. live \in Stored(Packed) /\ msbFirst \in BOOLEAN /\ \A i \in Items : memory[i] \in Stored(i)
  BY DEF SaveInv, Full
<1>7. ASSUME NEW i \in ToSet(entries)
      PROVE  /\ Content[i] = IF i = Packed THEN live ELSE Native(i, memory[i])
             /\ Content[i] \in Stored(i)
  <2>1. Content[i] = IF i = Packed THEN live ELSE Native(i, memory[i])
    BY DEF Content
  <2>2. Native(i, memory[i]) = Bytes(msbFirst, i, memory[i])
    BY DEF Native, Bytes
  <2>3. i \in Items /\ memory[i] \in Stored(i)
    BY <1>5, <1>6
  <2>4. Bytes(msbFirst, i, memory[i]) \in Stored(i)
    BY <2>3, BytesStored
  <2>. QED  BY <1>6, <2>1, <2>2, <2>4
<1>8. Content = [i \in ToSet(entries) |-> Content[i]]
  BY DEF Content
<1>9. Signature = SignatureOf(entries)
  BY DEF Signature, SignatureOf
<1>10. ASSUME NEW k \in 1 .. Len(entries), entries[k] # Packed \/ "presave" \in callbacks
       PROVE  DispatchPresave[entries[k]] = Bytes(msbFirst, entries[k], Content[entries[k]])
  <2>. DEFINE i == entries[k]
  <2>1. i \in ToSet(entries) /\ i \in Items
    BY <1>2 DEF ToSet
  <2>2. CASE i = Packed
    <3>1. Content[i] = live /\ DispatchPresave[i] = Native(Packed, live)
      BY <1>3, <1>7, <1>10, <2>1, <2>2
    <3>. QED  BY <2>2, <3>1 DEF Native, Bytes
  <2>3. CASE i # Packed
    <3>1. Content[i] = Native(i, memory[i]) /\ DispatchPresave[i] = memory[i]
      BY <1>3, <1>7, <2>1, <2>3
    <3>2. Native(i, memory[i]) = Bytes(msbFirst, i, memory[i]) /\ memory[i] \in Stored(i)
      BY <1>6, <2>1 DEF Native, Bytes
    <3>. HIDE DEF i
    <3>3. Bytes(msbFirst, i, Bytes(msbFirst, i, memory[i])) = memory[i]
      <4>1. i \in Items /\ memory[i] \in Stored(i)
        BY <2>1, <3>2
      <4>. QED  BY <4>1, BytesStored
    <3>. QED  BY <3>1, <3>2, <3>3 DEF i
  <2>. QED  BY <2>2, <2>3
<1>. HIDE DEF data
<1>11. \A k \in 1 .. Len(entries) : entries[k] # Packed \/ Written.packed =>
         \A b \in 1 .. Total(entries[k]) : Offset(entries)[k] + b <= Len(data) =>
           data[Offset(entries)[k] + b] = Bytes(msbFirst, entries[k], Content[entries[k]])[b]
  <2>. SUFFICES ASSUME NEW k \in 1 .. Len(entries), entries[k] # Packed \/ Written.packed,
                       NEW b \in 1 .. Total(entries[k])
                PROVE  data[Offset(entries)[k] + b]
                         = Bytes(msbFirst, entries[k], Content[entries[k]])[b]
    OBVIOUS
  <2>1. DispatchPresave[entries[k]] = Bytes(msbFirst, entries[k], Content[entries[k]])
    BY <1>1, <1>10
  <2>2. data[Offset(entries)[k] + b] = DispatchPresave[entries[k]][b]
    BY <1>4
  <2>. QED  BY <2>1, <2>2
<1>12. \A i \in ToSet(entries) : Content[i] \in Stored(i)
  BY <1>7
<1>. HIDE DEF Written, Content, Signature
<1>. QED  BY <1>1, <1>4, <1>6, <1>8, <1>9, <1>11, <1>12 DEF Saves

\* Where an entry is in its list.
LEMMA IndexOf ==
  ASSUME StateFileAssumption, SaveInv, NEW i \in ToSet(entries)
  PROVE  LET at == CHOOSE k \in DOMAIN entries : entries[k] = i
         IN  /\ at \in 1 .. Len(entries) /\ entries[at] = i /\ i \in Items
             /\ Contains(entries, i)
<1>1. /\ entries \in [1 .. Len(entries) -> Items] /\ DOMAIN entries = 1 .. Len(entries)
  BY ListTypes DEF SaveInv
<1>2. PICK k \in 1 .. Len(entries) : entries[k] = i
  BY <1>1 DEF ToSet
<1>. QED  BY <1>1, <1>2 DEF Contains

\* What is read over an entry keeps its length.
LEMMA ReadStored ==
  ASSUME StateFileAssumption, SaveInv, file.data \in Seq(0 .. 255), NEW k \in 1 .. Len(entries)
  PROVE  Read(k) \in Stored(entries[k])
<1>. DEFINE i == entries[k]
            from == Offset(entries)[k]
<1>1. i \in Items /\ entries \in Seq(Items) /\ Len(entries) \in Nat
  BY ListTypes DEF SaveInv
<1>2. Follow(Offset(entries), Len(entries), entries)
  BY <1>1, OffsetFollows
<1>3. k \in 1 .. Len(entries) + 1
  BY <1>1
<1>4. from \in Nat
  BY <1>2, <1>3 DEF Follow
<1>5. memory[i] \in [1 .. Total(i) -> 0 .. 255]
  BY <1>1 DEF SaveInv, Full, Stored
<1>6. Read(k) = [n \in 1 .. Total(i) |-> IF from + n <= Len(file.data) THEN file.data[from + n]
                                        ELSE memory[i][n]]
  BY DEF Read
<1>7. Total(i) \in Nat
  BY <1>1, Sizes
<1>8. Len(file.data) \in Nat /\ \A m \in 1 .. Len(file.data) : file.data[m] \in 0 .. 255
  <2>. DEFINE d == file.data
  <2>1. d \in Seq(0 .. 255)
    OBVIOUS
  <2>. HIDE DEF d
  <2>2. Len(d) \in Nat /\ \A m \in 1 .. Len(d) : d[m] \in 0 .. 255
    BY <2>1, ElementOfSeq, LenProperties
  <2>. QED  BY <2>2 DEF d
<1>. HIDE DEF i, from
<1>9. ASSUME NEW n \in 1 .. Total(i)
      PROVE  (IF from + n <= Len(file.data) THEN file.data[from + n] ELSE memory[i][n]) \in 0 .. 255
  <2>1. from + n <= Len(file.data) => from + n \in 1 .. Len(file.data)
    BY <1>4, <1>7, <1>8
  <2>. QED  BY <1>5, <1>8, <2>1
<1>10. Read(k) \in [1 .. Total(i) -> 0 .. 255]
  BY <1>6, <1>9
<1>. QED  BY <1>10 DEF Stored, i

\* What a load leaves in memory.
LEMMA ReadFull ==
  ASSUME StateFileAssumption, SaveInv, file.data \in Seq(0 .. 255)
  PROVE  /\ Full(ReadEntries)
         /\ \A i \in ToSet(entries) :
              LET k == CHOOSE k \in DOMAIN entries : entries[k] = i
              IN  Complete(k) => ReadEntries[i] = Loaded(i, Read(k))
<1>. DEFINE at(i) == CHOOSE k \in DOMAIN entries : entries[k] = i
<1>1. ReadEntries = [i \in Items |->
        IF ~Contains(entries, i) THEN memory[i]
        ELSE IF Complete(at(i)) THEN Loaded(i, Read(at(i))) ELSE Read(at(i))]
  BY DEF ReadEntries
<1>2. \A i \in ToSet(entries) : /\ at(i) \in 1 .. Len(entries) /\ entries[at(i)] = i /\ i \in Items
                               /\ Contains(entries, i)
  BY IndexOf
<1>3. \A i \in Items : Contains(entries, i) => i \in ToSet(entries)
  <2>1. DOMAIN entries = 1 .. Len(entries)
    BY ListTypes DEF SaveInv
  <2>2. ASSUME NEW i \in Items, Contains(entries, i) PROVE i \in ToSet(entries)
    <3>1. PICK k \in 1 .. Len(entries) : entries[k] = i
      BY <2>2 DEF Contains
    <3>. QED  BY <2>1, <3>1 DEF ToSet
  <2>. QED  BY <2>2
<1>. HIDE DEF at
<1>4. ASSUME NEW i \in ToSet(entries)
      PROVE  Read(at(i)) \in Stored(i) /\ Loaded(i, Read(at(i))) \in Stored(i)
  <2>1. Read(at(i)) \in Stored(i) /\ i \in Items
    BY <1>2, ReadStored
  <2>. QED  BY <2>1, FlipTwice DEF Loaded
<1>5. ASSUME NEW i \in Items PROVE ReadEntries[i] \in Stored(i)
  <2>1. memory[i] \in Stored(i)
    BY DEF SaveInv, Full
  <2>. QED  BY <1>1, <1>3, <1>4, <2>1
<1>6. ReadEntries = [i \in Items |-> ReadEntries[i]]
  BY <1>1
<1>7. \A i \in ToSet(entries) : Complete(at(i)) => ReadEntries[i] = Loaded(i, Read(at(i)))
  BY <1>1, <1>2
<1>. QED  BY <1>5, <1>6, <1>7 DEF Full, at

\* And in the live value.
LEMMA PostloadStored ==
  ASSUME StateFileAssumption, SaveInv, NEW mem, Full(mem)
  PROVE  DispatchPostload(mem) \in Stored(Packed)
<1>1. mem[Packed] \in Stored(Packed) /\ live \in Stored(Packed) /\ Packed \in Items
  BY PackedItem DEF Full, SaveInv
<1>2. Native(Packed, mem[Packed]) = Bytes(msbFirst, Packed, mem[Packed])
  BY DEF Native, Bytes
<1>. QED  BY <1>1, <1>2, BytesStored DEF DispatchPostload

----------------------------------------------------------------------------
(* The invariant is kept. *)

\* The invariant holds at first.
LEMMA InitSaves ==
  ASSUME StateFileAssumption, SaveInit
  PROVE  SaveInv
BY NewMachine, EmptyList DEF SaveInit, SaveInv, FileTrue, NoFile, StateFileAssumption

\* A registration keeps the list in the order of the names.
LEMMA SaveMemoryKeeps ==
  ASSUME StateFileAssumption, SaveInv, NEW i \in Items, SaveMemory(i)
  PROVE  SaveInv'
<1>1. UNCHANGED <<msbFirst, memory, live, file>>
  BY DEF SaveMemory
<1>2. entries' \in Lists /\ registration' \in {"open", "closed", "dead"}
  <2>1. CASE registration = "closed"
    BY <2>1 DEF SaveMemory, SaveInv
  <2>2. CASE registration = "open" /\ Contains(entries, i)
    BY <2>2 DEF SaveMemory, SaveInv
  <2>3. CASE registration = "open" /\ ~Contains(entries, i)
    <3>1. entries' = Insert(entries, i) /\ registration' = registration
      BY <2>3 DEF SaveMemory
    <3>. QED  BY <2>3, <3>1, InsertOrdered DEF SaveInv
  <2>. QED  BY <2>1, <2>2, <2>3 DEF SaveMemory, SaveInv
<1>. QED  BY <1>1, <1>2 DEF SaveInv, FileTrue, Full

\* A write that succeeds leaves a file of the content saved.
LEMMA WriteFileKeeps ==
  ASSUME StateFileAssumption, SaveInv, WriteFile
  PROVE  SaveInv'
<1>1. UNCHANGED <<msbFirst, entries, registration, live>>
  BY DEF WriteFile
<1>2. memory' \in {memory, DispatchPresave} /\ file' \in {NoFile, Written}
  BY DEF WriteFile
<1>3. Full(memory')
  BY <1>2, PresaveFull DEF SaveInv
<1>4. file'.header => \E list \in Lists : Saves(file', list)
  <2>1. ~NoFile.header
    BY DEF NoFile
  <2>2. file' = Written => Saves(file', entries)
    BY WrittenSaves
  <2>. QED  BY <1>2, <2>1, <2>2 DEF SaveInv
<1>. QED  BY <1>1, <1>3, <1>4 DEF SaveInv, FileTrue, Full, Saves

\* A file that is cut short has the bytes it still has where they were.
LEMMA CutShortKeeps ==
  ASSUME StateFileAssumption, SaveInv, CutShort
  PROVE  SaveInv'
<1>1. UNCHANGED <<msbFirst, entries, registration, live, memory>>
  BY DEF CutShort
<1>2. PICK list \in Lists : Saves(file, list)
  BY DEF CutShort, SaveInv, FileTrue
<1>3. PICK n \in {m \in Cuts : m < Len(file.data)} :
        file' \in {NoFile, [file EXCEPT !.data = SubSeq(file.data, 1, n)]}
  BY DEF CutShort
<1>4. CASE file' = NoFile
  BY <1>1, <1>4 DEF SaveInv, FileTrue, Full, NoFile
<1>5. CASE file' = [file EXCEPT !.data = SubSeq(file.data, 1, n)]
  <2>. DEFINE cut == SubSeq(file.data, 1, n)
              d == file.data
  <2>1. d \in Seq(0 .. 255) /\ n \in Nat /\ n < Len(d)
    BY <1>2, <1>3 DEF Saves, StateFileAssumption
  <2>2. cut \in Seq(0 .. 255) /\ Len(cut) = n /\ \A m \in 1 .. n : cut[m] = d[m]
    <3>. HIDE DEF d
    <3>0. Len(d) \in Nat
      BY <2>1, LenProperties
    <3>1. ASSUME NEW m \in 1 .. n PROVE d[m] \in 0 .. 255
      <4>1. m \in 1 .. Len(d)
        BY <2>1, <3>0
      <4>. QED  BY <2>1, <4>1, ElementOfSeq
    <3>2. /\ SubSeq(d, 1, n) \in Seq(0 .. 255)
          /\ Len(SubSeq(d, 1, n)) = IF 1 <= n THEN n - 1 + 1 ELSE 0
          /\ \A m \in 1 .. n - 1 + 1 : SubSeq(d, 1, n)[m] = d[1 + m - 1]
      BY <2>1, <3>1, SubSeqProperties
    <3>. QED  BY <2>1, <3>2 DEF d
  <2>3. /\ file'.sig = file.sig /\ file'.msb = file.msb /\ file'.saved = file.saved
        /\ file'.packed = file.packed /\ file'.data \in {cut, d}
    BY <1>5
  <2>4. Len(file'.data) <= Len(d) /\ \A m \in 1 .. Len(file'.data) : file'.data[m] = d[m]
    <3>. HIDE DEF cut, d
    <3>1. Len(d) \in Nat
      BY <2>1, LenProperties
    <3>. QED  BY <2>1, <2>2, <2>3, <3>1
  <2>5. Saves(file', list)
    <3>1. ASSUME NEW k \in 1 .. Len(list), list[k] # Packed \/ file.packed,
                 NEW b \in 1 .. Total(list[k]), Offset(list)[k] + b <= Len(file'.data)
          PROVE  file'.data[Offset(list)[k] + b] = Bytes(file.msb, list[k], file.saved[list[k]])[b]
      <4>1. /\ Offset(list)[k] \in Nat /\ b \in Nat /\ b >= 1
            /\ Len(file'.data) \in Nat /\ Len(d) \in Nat
        <5>1. list \in Seq(Items) /\ Len(list) \in Nat /\ list[k] \in Items
          <6>1. list \in [1 .. Len(list) -> Items] /\ list \in Seq(Items) /\ Len(list) \in Nat
            BY ListTypes
          <6>. QED  BY <6>1
        <5>2. Follow(Offset(list), Len(list), list)
          BY <5>1, OffsetFollows
        <5>3. k \in 1 .. Len(list) + 1
          BY <5>1
        <5>4. Offset(list)[k] \in Nat
          BY <5>2, <5>3 DEF Follow
        <5>5. b \in Nat /\ b >= 1
          BY <5>1, Sizes
        <5>. HIDE DEF d, cut
        <5>6. file'.data \in Seq(0 .. 255)
          BY <2>1, <2>2, <2>3
        <5>. QED  BY <2>1, <5>4, <5>5, <5>6, LenProperties
      <4>. DEFINE m == Offset(list)[k] + b
      <4>2. m \in 1 .. Len(file'.data) /\ m <= Len(d)
        <5>1. m \in Nat /\ m >= 1 /\ m <= Len(file'.data)
          BY <3>1, <4>1
        <5>2. Len(file'.data) <= Len(d)
          BY <2>4
        <5>. HIDE DEF m, d
        <5>. QED  BY <4>1, <5>1, <5>2
      <4>3. file'.data[m] = d[m]
        BY <2>4, <4>2
      <4>4. d[m] = Bytes(file.msb, list[k], file.saved[list[k]])[b]
        BY <1>2, <3>1, <4>2 DEF Saves
      <4>. QED  BY <4>3, <4>4
    <3>. HIDE DEF d, cut
    <3>. QED  BY <1>2, <2>1, <2>2, <2>3, <3>1 DEF Saves, d
  <2>. QED  BY <1>1, <2>5 DEF SaveInv, FileTrue, Full, Saves
<1>. QED  BY <1>3, <1>4, <1>5

\* A load, complete or not, keeps the lengths of the items.
LEMMA ReadFileKeeps ==
  ASSUME StateFileAssumption, SaveInv, ReadFile
  PROVE  SaveInv'
<1>1. UNCHANGED <<msbFirst, entries, registration, file>>
  BY DEF ReadFile
<1>2. CASE UNCHANGED <<memory, live>>
  BY <1>1, <1>2 DEF SaveInv, FileTrue, Full
<1>3. CASE /\ ~illegal /\ file.header /\ memory' = ReadEntries
           /\ live' \in {live, DispatchPostload(ReadEntries)}
  <2>1. file.data \in Seq(0 .. 255)
    BY <1>3 DEF SaveInv, FileTrue, Saves
  <2>2. Full(ReadEntries) /\ live \in Stored(Packed)
    BY <2>1, ReadFull DEF SaveInv
  <2>3. live' \in Stored(Packed)
    BY <1>3, <2>2, PostloadStored
  <2>4. Full(memory')
    BY <1>3, <2>2
  <2>. QED  BY <1>1, <2>3, <2>4 DEF SaveInv, FileTrue, Full
<1>. QED  BY <1>2, <1>3 DEF ReadFile

\* The devices change their values, not their lengths.
LEMMA RunKeeps ==
  ASSUME StateFileAssumption, SaveInv, Run
  PROVE  SaveInv'
<1>1. UNCHANGED <<msbFirst, entries, registration, file>>
  BY DEF Run
<1>2. ASSUME NEW i \in Items, NEW v \in Values[i] PROVE v \in Stored(i)
  <2>1. v \in Seq(0 .. 255) /\ Len(v) = Total(i)
    BY DEF StateFileAssumption
  <2>2. v \in [1 .. Len(v) -> 0 .. 255]
    BY ONLY <2>1, LenProperties
  <2>. QED  BY <2>1, <2>2 DEF Stored
<1>3. CASE \E v \in Values[Packed] : live' = v /\ UNCHANGED memory
  BY <1>1, <1>2, <1>3, PackedItem DEF SaveInv, FileTrue, Full
<1>4. ASSUME NEW i \in Items \ {Packed}, NEW v \in Values[i],
             memory' = [memory EXCEPT ![i] = Native(i, v)], UNCHANGED live
      PROVE  SaveInv'
  <2>1. memory = [j \in Items |-> memory[j]] /\ \A j \in Items : memory[j] \in Stored(j)
    BY DEF SaveInv, Full
  <2>2. Native(i, v) = Bytes(msbFirst, i, v)
    BY DEF Native, Bytes
  <2>3. Native(i, v) \in Stored(i)
    <3>1. v \in Stored(i)
      BY <1>2
    <3>. QED  BY <2>2, <3>1, BytesStored
  <2>4. memory' = [j \in Items |-> IF j = i THEN Native(i, v) ELSE memory[j]]
    BY <1>4, <2>1
  <2>5. Full(memory')
    BY <2>1, <2>3, <2>4 DEF Full
  <2>. QED  BY <1>1, <1>4, <2>5 DEF SaveInv, FileTrue, Full
<1>. QED  BY <1>3, <1>4 DEF Run

\* Every step keeps the invariant.
LEMMA StepSaves ==
  ASSUME StateFileAssumption, SaveInv, [SaveNext]_saveVars
  PROVE  SaveInv'
<1>1. ASSUME NEW i \in Items, SaveMemory(i) PROVE SaveInv'
  BY <1>1, SaveMemoryKeeps
<1>2. ASSUME NEW cb \in {"presave", "postload"}, RegisterCallback(cb) PROVE SaveInv'
  BY <1>2 DEF RegisterCallback, SaveInv, FileTrue, Full
<1>3. CASE CloseRegistration
  BY <1>3 DEF CloseRegistration, SaveInv, FileTrue, Full
<1>4. CASE WriteFile
  BY <1>4, WriteFileKeeps
<1>5. CASE ReadFile
  BY <1>5, ReadFileKeeps
<1>6. CASE Run
  BY <1>6, RunKeeps
<1>7. CASE NewRun
  BY <1>7, NewMachine, EmptyList DEF NewRun, SaveInv, FileTrue, StateFileAssumption
<1>8. CASE CutShort
  BY <1>8, CutShortKeeps
<1>9. CASE UNCHANGED saveVars
  BY <1>9 DEF saveVars, SaveInv, FileTrue, Full
<1>. QED  BY <1>1, <1>2, <1>3, <1>4, <1>5, <1>6, <1>7, <1>8, <1>9 DEF SaveNext

----------------------------------------------------------------------------
(* What the save manager promises. *)

\* A file holds what was saved, entry by entry, in the order of the host that wrote
\* it, and the registered entries are in the order of their names: the invariant
\* from which the other two follow (save_memory, write_file and read_file).
THEOREM FilesTrue ==
  ASSUME StateFileAssumption
  PROVE  SaveSpec => []SaveInv
<1>1. SaveInit => SaveInv
  BY InitSaves
<1>2. SaveInv /\ [SaveNext]_saveVars => SaveInv'
  BY StepSaves
<1>. QED  BY <1>1, <1>2, PTL DEF SaveSpec

\* Two lists of entries have the same signature only if they are the same.
LEMMA OneSignature ==
  ASSUME StateFileAssumption, NEW f \in Lists, NEW g \in Lists, SignatureOf(f) = SignatureOf(g)
  PROVE  f = g
<1>. DEFINE n == Len(f)
            p == Len(g)
            sf == SignatureOf(f)
            sg == SignatureOf(g)
<1>1. n \in Nat /\ f \in [1 .. n -> Nat] /\ p \in Nat /\ g \in [1 .. p -> Nat]
  BY ListTypes
<1>2. /\ DOMAIN sf = 1 .. n /\ DOMAIN sg = 1 .. p
      /\ \A k \in 1 .. n : sf[k][1] = f[k]
      /\ \A k \in 1 .. p : sg[k][1] = g[k]
  BY DEF SignatureOf
<1>3. sf = sg
  OBVIOUS
<1>. HIDE DEF n, p, sf, sg
<1>4. 1 .. n = 1 .. p
  BY <1>2, <1>3
<1>5. \A k \in 1 .. n : f[k] = g[k]
  BY <1>2, <1>3, <1>4
<1>6. g \in [1 .. n -> Nat]
  BY <1>1, <1>4
<1>. QED  BY <1>1, <1>5, <1>6

\* A file of other entries or of another game is not loaded.
LEMMA ForeignRefused ==
  ASSUME StateFileAssumption, SaveInv, ReadFile, file.header,
         file.game # game \/ (DOMAIN file.saved # ToSet(entries) /\ entries # <<>>)
  PROVE  UNCHANGED <<memory, live>>
<1>1. PICK list \in Lists : Saves(file, list)
  BY DEF SaveInv, FileTrue
<1>2. ~ValidateHeader
  <2>. SUFFICES ASSUME ValidateHeader, entries # <<>>, DOMAIN file.saved # ToSet(entries)
                PROVE  FALSE
    BY DEF ValidateHeader
  <2>1. SignatureOf(list) = SignatureOf(entries)
    BY <1>1 DEF ValidateHeader, Saves, Signature, SignatureOf
  <2>2. list = entries
    BY <2>1, OneSignature DEF SaveInv
  <2>3. DOMAIN file.saved = ToSet(list)
    BY <1>1 DEF Saves
  <2>. QED  BY <2>2, <2>3
<1>3. illegal => UNCHANGED <<memory, live>>
  BY DEF ReadFile
<1>4. ~illegal => UNCHANGED <<memory, live>>
  BY <1>2 DEF ReadFile
<1>. QED  BY <1>3, <1>4

\* The entries that are registered decide on the signature.
LEMMA OwnAccepted ==
  ASSUME StateFileAssumption, NEW f, NEW list \in Lists, \E other \in Lists : Saves(f, other),
         DOMAIN f.saved = ToSet(list)
  PROVE  f.sig = SignatureOf(list)
<1>1. PICK other \in Lists : Saves(f, other)
  OBVIOUS
<1>2. DOMAIN f.saved = ToSet(other)
  BY <1>1 DEF Saves
<1>3. list = other
  BY <1>2, OneList
<1>. QED  BY <1>1, <1>3 DEF Saves

\* Only a foreign file is refused, and always, for any items, any order in which the
\* devices register them and any hosts (validate_header, save_memory, signature).
THEOREM ForeignFiles ==
  ASSUME StateFileAssumption
  PROVE  SaveSpec => OnlyForeignRefused
<1>1. SaveInv /\ [SaveNext]_saveVars =>
        /\ (/\ ReadFile /\ file.header
            /\ file.game # game \/ (DOMAIN file.saved # ToSet(entries) /\ entries # <<>>))
           => memory' = memory /\ live' = live
        /\ file'.header /\ DOMAIN file'.saved = ToSet(entries') => file'.sig = Signature'
  <2>. SUFFICES ASSUME SaveInv, [SaveNext]_saveVars
                PROVE  /\ (/\ ReadFile /\ file.header
                           /\ file.game # game
                              \/ (DOMAIN file.saved # ToSet(entries) /\ entries # <<>>))
                          => memory' = memory /\ live' = live
                       /\ file'.header /\ DOMAIN file'.saved = ToSet(entries')
                          => file'.sig = Signature'
    OBVIOUS
  <2>1. SaveInv'
    BY StepSaves
  <2>2. ASSUME file'.header, DOMAIN file'.saved = ToSet(entries')
        PROVE  file'.sig = Signature'
    <3>1. entries' \in Lists /\ \E other \in Lists : Saves(file', other)
      BY <2>1, <2>2 DEF SaveInv, FileTrue, Saves
    <3>2. file'.sig = SignatureOf(entries')
      BY <2>2, <3>1, OwnAccepted
    <3>. QED  BY <3>2 DEF Signature, SignatureOf
  <2>. QED  BY <2>2, ForeignRefused
<1>. QED  BY <1>1, FilesTrue, PTL DEF SaveSpec, OnlyForeignRefused

\* What a load that reports success has read over an entry is what was saved of it.
LEMMA LoadedSaved ==
  ASSUME StateFileAssumption, SaveInv, NEW k \in 1 .. Len(entries), Saves(file, entries),
         entries[k] # Packed \/ file.packed, Complete(k)
  PROVE  Bytes(msbFirst, entries[k], Loaded(entries[k], Read(k))) = file.saved[entries[k]]
<1>. DEFINE i == entries[k]
            from == Offset(entries)[k]
            value == file.saved[i]
            d == file.data
<1>1. entries \in Seq(Items) /\ Len(entries) \in Nat /\ i \in Items /\ i \in ToSet(entries)
  <2>1. /\ entries \in Seq(Items) /\ Len(entries) \in Nat /\ DOMAIN entries = 1 .. Len(entries)
        /\ entries \in [1 .. Len(entries) -> Items]
    BY ListTypes DEF SaveInv
  <2>2. i \in Items
    BY <2>1
  <2>. QED  BY <2>1, <2>2 DEF ToSet
<1>2. Follow(Offset(entries), Len(entries), entries)
  BY <1>1, OffsetFollows
<1>3. from \in Nat /\ Offset(entries)[k + 1] = from + Total(i)
  <2>1. k \in 1 .. Len(entries) + 1
    BY <1>1
  <2>. QED  BY <1>2, <2>1 DEF Follow
<1>4. value \in Stored(i) /\ file.msb \in BOOLEAN /\ msbFirst \in BOOLEAN
  BY <1>1 DEF Saves, SaveInv
<1>5. from + Total(i) <= Len(d) /\ Len(d) \in Nat
  <2>1. d \in Seq(0 .. 255)
    BY DEF Saves
  <2>. QED  BY <1>3, <2>1, LenProperties DEF Complete
<1>6. Read(k) = [n \in 1 .. Total(i) |-> IF from + n <= Len(d) THEN d[from + n] ELSE memory[i][n]]
  BY DEF Read
<1>7. \A b \in 1 .. Total(i) : from + b <= Len(d) => d[from + b] = Bytes(file.msb, i, value)[b]
  BY DEF Saves
<1>8. Total(i) \in Nat
  BY <1>1, Sizes
<1>. HIDE DEF i, from, value, d
<1>9. Bytes(file.msb, i, value) \in [1 .. Total(i) -> 0 .. 255]
  BY <1>1, <1>4, BytesStored DEF Stored
<1>10. \A b \in 1 .. Total(i) : from + b <= Len(d)
  BY <1>3, <1>5, <1>8
<1>11. Read(k) = [n \in 1 .. Total(i) |-> Bytes(file.msb, i, value)[n]]
  BY <1>6, <1>7, <1>10
<1>12. Read(k) = Bytes(file.msb, i, value)
  BY <1>9, <1>11
<1>13. Loaded(i, Read(k))
         = IF file.msb # msbFirst THEN Flip(i, Bytes(file.msb, i, value))
           ELSE Bytes(file.msb, i, value)
  BY <1>12 DEF Loaded
<1>14. Bytes(msbFirst, i, Loaded(i, Read(k))) = value
  BY <1>1, <1>4, <1>13, AcrossHosts
<1>. QED  BY <1>14 DEF i, value

\* The content after a load that reports success.
LEMMA LoadSaved ==
  ASSUME StateFileAssumption, SaveInv, ReadFile, result' = "none", entries # <<>>,
         Packed \in ToSet(entries) => file.packed /\ "postload" \in callbacks
  PROVE  Content' = file.saved
<1>1. /\ file.header /\ ValidateHeader /\ memory' = ReadEntries
      /\ \A k \in DOMAIN entries : Complete(k)
      /\ live' = DispatchPostload(ReadEntries)
  <2>1. ~illegal
    BY DEF ReadFile
  <2>2. file.header
    BY <2>1 DEF ReadFile
  <2>3. ValidateHeader
    BY <2>1, <2>2 DEF ReadFile
  <2>. QED  BY <2>1, <2>2, <2>3 DEF ReadFile
<1>2. UNCHANGED <<msbFirst, entries, file>>
  BY DEF ReadFile
<1>3. Saves(file, entries)
  <2>1. PICK list \in Lists : Saves(file, list)
    BY <1>1 DEF SaveInv, FileTrue
  <2>2. SignatureOf(list) = SignatureOf(entries)
    BY <1>1, <2>1 DEF ValidateHeader, Saves, Signature, SignatureOf
  <2>3. list = entries
    BY <2>2, OneSignature DEF SaveInv
  <2>. QED  BY <2>1, <2>3
<1>4. file.saved = [i \in ToSet(entries) |-> file.saved[i]] /\ file.data \in Seq(0 .. 255)
  BY <1>3 DEF Saves
<1>5. ASSUME NEW i \in ToSet(entries), i # Packed \/ file.packed
      PROVE  Bytes(msbFirst, i, ReadEntries[i]) = file.saved[i]
  <2>. DEFINE k == CHOOSE k \in DOMAIN entries : entries[k] = i
  <2>1. k \in 1 .. Len(entries) /\ entries[k] = i
    BY IndexOf
  <2>2. Complete(k) => ReadEntries[i] = Loaded(i, Read(k))
    BY <1>4, ReadFull
  <2>3. DOMAIN entries = 1 .. Len(entries)
    BY ListTypes DEF SaveInv
  <2>. HIDE DEF k
  <2>4. Complete(k)
    BY <1>1, <2>1, <2>3
  <2>5. Bytes(msbFirst, entries[k], Loaded(entries[k], Read(k))) = file.saved[entries[k]]
    BY <1>3, <1>5, <2>1, <2>4, LoadedSaved
  <2>. QED  BY <2>1, <2>2, <2>4, <2>5
<1>6. Content' = [i \in ToSet(entries) |->
                   IF i = Packed THEN live'
                   ELSE IF msbFirst THEN Flip(i, memory'[i]) ELSE memory'[i]]
  BY <1>2 DEF Content, Native
<1>7. ASSUME NEW i \in ToSet(entries)
      PROVE  (IF i = Packed THEN live' ELSE IF msbFirst THEN Flip(i, memory'[i]) ELSE memory'[i])
               = file.saved[i]
  <2>1. CASE i = Packed
    <3>1. file.packed /\ "postload" \in callbacks
      BY <2>1
    <3>2. live' = Bytes(msbFirst, Packed, ReadEntries[Packed])
      BY <1>1, <3>1 DEF DispatchPostload, Native, Bytes
    <3>. QED  BY <1>5, <2>1, <3>1, <3>2
  <2>2. CASE i # Packed
    BY <1>1, <1>5, <2>2 DEF Bytes
  <2>. QED  BY <2>1, <2>2
<1>. QED  BY <1>4, <1>6, <1>7

\* A load that reports success leaves what the machine that wrote the file had, on
\* whatever hosts, for any items, of any size (write_file, read_file, flip_data).
THEOREM LoadsSaved ==
  ASSUME StateFileAssumption
  PROVE  SaveSpec => LoadsWhatWasSaved
<1>1. SaveInv /\ [SaveNext]_saveVars =>
        ((/\ ReadFile /\ result' = "none" /\ entries # <<>>
          /\ Packed \in ToSet(entries) => file.packed /\ "postload" \in callbacks)
         => Content' = file.saved)
  BY LoadSaved
<1>. QED  BY <1>1, FilesTrue, PTL DEF SaveSpec, LoadsWhatWasSaved
=============================================================================
