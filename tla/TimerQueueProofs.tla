-------------------------- MODULE TimerQueueProofs --------------------------
(***************************************************************************)
(* Theorems about TimerQueue, for any sets of timers, delays, periods and  *)
(* quanta: the list stays well-typed and complete whatever happens, and in *)
(* order, with nothing left behind that is due, unless a state file was    *)
(* read half way and no other since.  Timers that are off stand back, so   *)
(* slices stop at the next timer; and the whole implements the alarm clock *)
(* of TimerService.  First come facts about the timer list, for lists of   *)
(* every length: what inserting and removing a timer does to it.           *)
(***************************************************************************)
EXTENDS TimerQueue, WellFoundedInduction, TLAPS

\* A set of positions that is not empty has a least element.
LEMMA LeastPosition ==
  ASSUME NEW S \in SUBSET Nat, S # {}
  PROVE  Min(S) \in S /\ \A y \in S : Min(S) <= y
<1>. DEFINE R == {ss \in Nat \X Nat : ss[1] < ss[2]}
<1>1. IsWellFoundedOn(R, Nat)
  BY NatLessThanWellFounded DEF OpToRel
<1>2. \E x \in S : \A y \in S : ~(<<y, x>> \in R)
  <2>. HIDE DEF R
  <2>. QED  BY <1>1, WFMin
<1>3. \E x \in S : \A y \in S : x <= y
  <2>1. PICK x \in S : \A y \in S : ~(<<y, x>> \in R)
    BY <1>2
  <2>2. \A y \in S : <<y, x>> \in R <=> y < x
    OBVIOUS
  <2>3. ASSUME NEW y \in S PROVE x <= y
    <3>1. ~(y < x)
      BY <2>1, <2>2
    <3>2. x \in Nat /\ y \in Nat
      OBVIOUS
    <3>. QED  BY <3>1, <3>2
  <2>. QED  BY <2>3
<1>. QED  BY <1>3 DEF Min

\* What InsertAt puts where.
LEMMA InsertAtEntries ==
  ASSUME NEW T, NEW s \in Seq(T), NEW k \in 1 .. Len(s) + 1, NEW e \in T
  PROVE  /\ InsertAt(s, k, e) \in Seq(T)
         /\ Len(InsertAt(s, k, e)) = Len(s) + 1
         /\ DOMAIN InsertAt(s, k, e) = 1 .. Len(s) + 1
         /\ \A i \in 1 .. Len(s) + 1 :
              InsertAt(s, k, e)[i] = IF i < k THEN s[i]
                                     ELSE IF i = k THEN e ELSE s[i - 1]
<1>. DEFINE a == SubSeq(s, 1, k - 1)
            b == SubSeq(s, k, Len(s))
            c == a \o <<e>>
            r == InsertAt(s, k, e)
<1>1. /\ a \in Seq(T) /\ Len(a) = k - 1
      /\ \A i \in 1 .. k - 1 : a[i] = s[i]
  OBVIOUS
<1>2. /\ b \in Seq(T) /\ Len(b) = Len(s) - k + 1
      /\ \A i \in 1 .. Len(s) - k + 1 : b[i] = s[k + i - 1]
  OBVIOUS
<1>. HIDE DEF a, b
<1>3. /\ c \in Seq(T) /\ Len(c) = k /\ c[k] = e
      /\ \A i \in 1 .. k - 1 : c[i] = s[i]
  BY <1>1
<1>4. r = c \o b
  BY DEF InsertAt, a, b
<1>. HIDE DEF c, r
<1>5. r \in Seq(T) /\ Len(r) = Len(s) + 1
  BY <1>2, <1>3, <1>4
<1>6. ASSUME NEW i \in 1 .. Len(s) + 1
      PROVE  r[i] = IF i < k THEN s[i] ELSE IF i = k THEN e ELSE s[i - 1]
  <2>1. CASE i <= k
    BY <2>1, <1>2, <1>3, <1>4
  <2>2. CASE i > k
    <3>1. r[i] = b[i - Len(c)]
      <4>1. i \in 1 .. Len(c) + Len(b) /\ ~(i <= Len(c))
        BY <2>2, <1>2, <1>3
      <4>. QED  BY <4>1, <1>2, <1>3, <1>4
    <3>2. i - k \in 1 .. Len(s) - k + 1
      BY <2>2
    <3>. QED  BY <2>2, <3>1, <3>2, <1>2, <1>3
  <2>. QED  BY <2>1, <2>2
<1>. QED  BY <1>5, <1>6 DEF r

\* What RemoveAt leaves where.
LEMMA RemoveAtEntries ==
  ASSUME NEW T, NEW s \in Seq(T), NEW k \in 1 .. Len(s)
  PROVE  /\ RemoveAt(s, k) \in Seq(T)
         /\ Len(RemoveAt(s, k)) = Len(s) - 1
         /\ DOMAIN RemoveAt(s, k) = 1 .. Len(s) - 1
         /\ \A i \in 1 .. Len(s) - 1 :
              RemoveAt(s, k)[i] = IF i < k THEN s[i] ELSE s[i + 1]
<1>. DEFINE a == SubSeq(s, 1, k - 1)
            b == SubSeq(s, k + 1, Len(s))
            r == RemoveAt(s, k)
<1>1. /\ a \in Seq(T) /\ Len(a) = k - 1
      /\ \A i \in 1 .. k - 1 : a[i] = s[i]
  OBVIOUS
<1>2. /\ b \in Seq(T) /\ Len(b) = Len(s) - k
      /\ \A i \in 1 .. Len(s) - k : b[i] = s[k + i]
  OBVIOUS
<1>3. r = a \o b
  BY DEF RemoveAt
<1>. HIDE DEF a, b, r
<1>4. r \in Seq(T) /\ Len(r) = Len(s) - 1
  BY <1>1, <1>2, <1>3
<1>5. ASSUME NEW i \in 1 .. Len(s) - 1
      PROVE  r[i] = IF i < k THEN s[i] ELSE s[i + 1]
  <2>1. CASE i < k
    BY <2>1, <1>1, <1>2, <1>3
  <2>2. CASE i >= k
    <3>1. r[i] = b[i - (k - 1)]
      BY <2>2, <1>1, <1>2, <1>3
    <3>2. i - (k - 1) \in 1 .. Len(s) - k
      BY <2>2
    <3>. QED  BY <2>2, <3>1, <3>2, <1>2
  <2>. QED  BY <2>1, <2>2
<1>. QED  BY <1>4, <1>5 DEF r

----------------------------------------------------------------------------
\* Taking one entry out, or putting one in.

\* Where the entries behind a place k go, or come from.
Skip(i, k) == IF i < k THEN i ELSE i + 1

\* short is what is left of long when its k-th entry is taken out.
Without(long, k, short) ==
  /\ k \in DOMAIN long
  /\ Len(long) = Len(short) + 1
  /\ \A i \in DOMAIN short : short[i] = long[Skip(i, k)]

\* The places but k are those that Skip leads to, in their order.
LEMMA SkipPlaces ==
  ASSUME NEW T, NEW long \in Seq(T), NEW short \in Seq(T), NEW k \in Nat,
         Without(long, k, short)
  PROVE  /\ \A i \in DOMAIN short : /\ i \in Nat
                                   /\ Skip(i, k) \in DOMAIN long /\ Skip(i, k) # k
                                   /\ short[i] = long[Skip(i, k)]
         /\ \A i, j \in DOMAIN short : i < j <=> Skip(i, k) < Skip(j, k)
         /\ \A i, j \in DOMAIN short : Skip(i, k) = Skip(j, k) => i = j
         /\ \A i \in DOMAIN short : /\ Skip(i, k) < k <=> i < k
                                   /\ Skip(i, k) > k <=> i >= k
         /\ \A h \in DOMAIN long : h # k => \E i \in DOMAIN short : Skip(i, k) = h
<1>1. /\ DOMAIN short = 1 .. Len(short) /\ Len(short) \in Nat
      /\ DOMAIN long = 1 .. Len(short) + 1 /\ k \in 1 .. Len(short) + 1
      /\ \A i \in DOMAIN short : short[i] = long[Skip(i, k)]
  BY DEF Without
<1>2. ASSUME NEW h \in DOMAIN long, h # k PROVE \E i \in DOMAIN short : Skip(i, k) = h
  <2>1. CASE h < k
    <3>1. h \in DOMAIN short /\ Skip(h, k) = h
      BY <2>1, <1>1 DEF Skip
    <3>. QED  BY <3>1
  <2>2. CASE h > k
    <3>1. h - 1 \in DOMAIN short /\ Skip(h - 1, k) = h
      BY <2>2, <1>1 DEF Skip
    <3>. QED  BY <3>1
  <2>. QED  BY <2>1, <2>2, <1>1, <1>2
<1>3. \A i \in DOMAIN short : /\ i \in Nat
                              /\ Skip(i, k) \in DOMAIN long /\ Skip(i, k) # k
  BY <1>1 DEF Skip
<1>4. /\ \A i, j \in DOMAIN short : i < j <=> Skip(i, k) < Skip(j, k)
      /\ \A i, j \in DOMAIN short : Skip(i, k) = Skip(j, k) => i = j
  BY <1>1 DEF Skip
<1>5. \A i \in DOMAIN short : /\ Skip(i, k) < k <=> i < k
                              /\ Skip(i, k) > k <=> i >= k
  BY <1>1 DEF Skip
<1>. QED  BY <1>1, <1>2, <1>3, <1>4, <1>5

\* What remains of a list without repetitions when an entry is taken out: the
\* others, in the order they had, whatever the fields of its record.
LEMMA TakenOut ==
  ASSUME NEW T, NEW long \in Seq(T), NEW short \in Seq(T), NEW k \in Nat,
         Without(long, k, short), Distinct(long)
  PROVE  /\ Distinct(short)
         /\ long[k] \in ToSet(long)
         /\ ToSet(short) = ToSet(long) \ {long[k]}
         /\ \A tm : OrderedList(long, tm) => OrderedList(short, tm)
         /\ \A a, b : Before(short, a, b)
                        <=> a # long[k] /\ b # long[k] /\ Before(long, a, b)
<1>0. k \in DOMAIN long
  BY DEF Without
<1>1. /\ \A i \in DOMAIN short : Skip(i, k) \in DOMAIN long /\ Skip(i, k) # k
                                /\ short[i] = long[Skip(i, k)]
      /\ \A i, j \in DOMAIN short : i < j <=> Skip(i, k) < Skip(j, k)
      /\ \A i, j \in DOMAIN short : Skip(i, k) = Skip(j, k) => i = j
      /\ \A h \in DOMAIN long : h # k => \E i \in DOMAIN short : Skip(i, k) = h
  BY SkipPlaces
<1>2. \A i \in DOMAIN short : short[i] # long[k]
  BY <1>0, <1>1 DEF Distinct
<1>3. Distinct(short)
  BY <1>1 DEF Distinct
<1>4. ToSet(short) = ToSet(long) \ {long[k]}
  <2>1. ASSUME NEW u \in ToSet(short) PROVE u \in ToSet(long) /\ u # long[k]
    <3>1. PICK i \in DOMAIN short : u = short[i]
      BY DEF ToSet
    <3>. QED  BY <3>1, <1>1, <1>2 DEF ToSet
  <2>2. ASSUME NEW u \in ToSet(long), u # long[k] PROVE u \in ToSet(short)
    <3>1. PICK h \in DOMAIN long : u = long[h]
      BY DEF ToSet
    <3>2. PICK i \in DOMAIN short : Skip(i, k) = h
      BY <3>1, <2>2, <1>1
    <3>. QED  BY <3>1, <3>2, <1>1 DEF ToSet
  <2>. QED  BY <2>1, <2>2
<1>5. ASSUME NEW tm, OrderedList(long, tm) PROVE OrderedList(short, tm)
  BY <1>1, <1>5 DEF OrderedList
<1>6. ASSUME NEW a, NEW b, Before(short, a, b)
      PROVE  a # long[k] /\ b # long[k] /\ Before(long, a, b)
  <2>1. PICK i \in DOMAIN short, j \in DOMAIN short :
          i < j /\ short[i] = a /\ short[j] = b
    BY <1>6 DEF Before
  <2>2. /\ Skip(i, k) \in DOMAIN long /\ Skip(j, k) \in DOMAIN long
        /\ Skip(i, k) < Skip(j, k)
        /\ long[Skip(i, k)] = a /\ long[Skip(j, k)] = b
    BY <2>1, <1>1
  <2>. QED  BY <2>1, <2>2, <1>2 DEF Before
<1>7. ASSUME NEW a, NEW b, a # long[k], b # long[k], Before(long, a, b)
      PROVE  Before(short, a, b)
  <2>1. PICK g \in DOMAIN long, h \in DOMAIN long :
          g < h /\ long[g] = a /\ long[h] = b
    BY <1>7 DEF Before
  <2>2. PICK i \in DOMAIN short : Skip(i, k) = g
    BY <2>1, <1>1, <1>7
  <2>3. PICK j \in DOMAIN short : Skip(j, k) = h
    BY <2>1, <1>1, <1>7
  <2>4. i < j /\ short[i] = a /\ short[j] = b
    BY <2>1, <2>2, <2>3, <1>1
  <2>. QED  BY <2>4 DEF Before
<1>8. long[k] \in ToSet(long)
  BY <1>0 DEF ToSet
<1>. QED  BY <1>3, <1>4, <1>5, <1>6, <1>7, <1>8

\* An entry that is put into a list is linked once if it was not linked.
LEMMA PutIn ==
  ASSUME NEW T, NEW long \in Seq(T), NEW short \in Seq(T), NEW k \in Nat,
         Without(long, k, short), Distinct(short), long[k] \notin ToSet(short)
  PROVE  /\ Distinct(long)
         /\ ToSet(long) = ToSet(short) \cup {long[k]}
<1>1. /\ \A i \in DOMAIN short : short[i] = long[Skip(i, k)]
      /\ \A h \in DOMAIN long : h # k => \E i \in DOMAIN short : Skip(i, k) = h
  BY SkipPlaces
<1>2. \A i \in DOMAIN short : short[i] # long[k]
  BY DEF ToSet
<1>3. Distinct(long)
  <2>. SUFFICES ASSUME NEW g \in DOMAIN long, NEW h \in DOMAIN long, long[g] = long[h]
                PROVE  g = h
    BY DEF Distinct
  <2>1. CASE g # k /\ h # k
    <3>1. PICK i \in DOMAIN short : Skip(i, k) = g
      BY <2>1, <1>1
    <3>2. PICK j \in DOMAIN short : Skip(j, k) = h
      BY <2>1, <1>1
    <3>3. short[i] = short[j]
      BY <3>1, <3>2, <1>1
    <3>. QED  BY <3>1, <3>2, <3>3 DEF Distinct
  <2>2. CASE g = k /\ h # k
    <3>1. PICK j \in DOMAIN short : Skip(j, k) = h
      BY <2>2, <1>1
    <3>. QED  BY <2>2, <3>1, <1>1, <1>2
  <2>3. CASE g # k /\ h = k
    <3>1. PICK j \in DOMAIN short : Skip(j, k) = g
      BY <2>3, <1>1
    <3>. QED  BY <2>3, <3>1, <1>1, <1>2
  <2>. QED  BY <2>1, <2>2, <2>3
<1>4. long[k] \in ToSet(long) /\ ToSet(short) = ToSet(long) \ {long[k]}
  BY <1>3, TakenOut
<1>. QED  BY <1>3, <1>4

----------------------------------------------------------------------------
\* RemoveTimer finds the timer and closes the gap.
LEMMA RemoveTimerEntry ==
  ASSUME NEW T, NEW list \in Seq(T), NEW t \in ToSet(list)
  PROVE  /\ RemoveTimer(list, t) \in Seq(T)
         /\ \E k \in Nat : list[k] = t /\ Without(list, k, RemoveTimer(list, t))
<1>. DEFINE I == {i \in 1 .. Len(list) : list[i] = t}
            k == Min(I)
<1>1. I # {} /\ I \in SUBSET Nat
  BY DEF ToSet
<1>2. k \in I
  BY <1>1, LeastPosition
<1>3. RemoveTimer(list, t) = RemoveAt(list, k)
  BY <1>1 DEF RemoveTimer, RemoveFirst, SelectInSeq
<1>4. k \in 1 .. Len(list) /\ list[k] = t
  BY <1>2
<1>. HIDE DEF k
<1>5. /\ RemoveAt(list, k) \in Seq(T)
      /\ Len(RemoveAt(list, k)) = Len(list) - 1
      /\ DOMAIN RemoveAt(list, k) = 1 .. Len(list) - 1
      /\ \A i \in 1 .. Len(list) - 1 :
           RemoveAt(list, k)[i] = IF i < k THEN list[i] ELSE list[i + 1]
  BY <1>4, RemoveAtEntries
<1>6. Without(list, k, RemoveAt(list, k))
  BY <1>4, <1>5 DEF Without, Skip
<1>7. k \in Nat
  BY <1>4
<1>. QED  BY <1>3, <1>4, <1>5, <1>6, <1>7

\* Removing a timer that is linked once takes it off the list, and neither
\* disturbs the others nor their order, whatever the fields of its record.
LEMMA RemoveTimerKeeps ==
  ASSUME NEW T, NEW list \in Seq(T), NEW t \in ToSet(list), Distinct(list)
  PROVE  /\ RemoveTimer(list, t) \in Seq(T)
         /\ Distinct(RemoveTimer(list, t))
         /\ ToSet(RemoveTimer(list, t)) = ToSet(list) \ {t}
         /\ \A tm : OrderedList(list, tm) => OrderedList(RemoveTimer(list, t), tm)
         /\ \A a, b : Before(RemoveTimer(list, t), a, b)
                        <=> a # t /\ b # t /\ Before(list, a, b)
<1>. DEFINE r == RemoveTimer(list, t)
<1>1. r \in Seq(T) /\ \E k \in Nat : list[k] = t /\ Without(list, k, r)
  BY RemoveTimerEntry
<1>. HIDE DEF r
<1>2. PICK k \in Nat : list[k] = t /\ Without(list, k, r)
  BY <1>1
<1>3. /\ Distinct(r) /\ ToSet(r) = ToSet(list) \ {list[k]}
      /\ \A tm : OrderedList(list, tm) => OrderedList(r, tm)
      /\ \A a, b : Before(r, a, b)
                     <=> a # list[k] /\ b # list[k] /\ Before(list, a, b)
  BY <1>1, <1>2, TakenOut
<1>. QED  BY <1>1, <1>2, <1>3 DEF r

\* Where timer_list_insert links a timer: behind everything that does not expire
\* after it, and in front of an entry that does, or at the end.
LEMMA InsertTimerEntry ==
  ASSUME NEW T, NEW list \in Seq(T), NEW tm \in [T -> TimerRec], NEW t \in T
  PROVE  /\ InsertTimer(list, tm, t) \in Seq(T)
         /\ \E k \in Nat :
              /\ InsertTimer(list, tm, t)[k] = t
              /\ Without(InsertTimer(list, tm, t), k, list)
              /\ \A i \in DOMAIN list : i < k => tm[list[i]].expire <= SortKey(tm[t])
              /\ k \in DOMAIN list => tm[list[k]].expire > SortKey(tm[t])
<1>. DEFINE key == SortKey(tm[t])
            later == LaterThan(list, tm, key)
            k == InsertPos(list, tm, tm[t])
            r == InsertTimer(list, tm, t)
<1>1. key \in Nat /\ later \in SUBSET (1 .. Len(list))
  BY NeverAssumption DEF SortKey, LaterThan, TimerRec, Time
<1>2. /\ k \in 1 .. Len(list) + 1
      /\ \A i \in 1 .. Len(list) : i < k => tm[list[i]].expire <= key
      /\ k <= Len(list) => tm[list[k]].expire > key
  <2>1. \A i \in 1 .. Len(list) : tm[list[i]].expire \in Nat
    BY NeverAssumption DEF TimerRec, Time
  <2>2. CASE later = {}
    BY <2>1, <2>2, <1>1 DEF InsertPos, LaterThan
  <2>3. CASE later # {}
    <3>1. k \in later /\ \A i \in later : k <= i
      <4>1. later \in SUBSET Nat
        BY <1>1
      <4>2. k = Min(later)
        BY <2>3 DEF InsertPos
      <4>. HIDE DEF later, k
      <4>. QED  BY <2>3, <4>1, <4>2, LeastPosition
    <3>. QED  BY <3>1, <2>1, <1>1 DEF LaterThan
  <2>. QED  BY <2>2, <2>3
<1>3. r = InsertAt(list, k, t)
  BY DEF InsertTimer
<1>. HIDE DEF k, r, later
<1>4. /\ r \in Seq(T) /\ Len(r) = Len(list) + 1
      /\ DOMAIN r = 1 .. Len(list) + 1
      /\ \A i \in 1 .. Len(list) + 1 :
           r[i] = IF i < k THEN list[i] ELSE IF i = k THEN t ELSE list[i - 1]
  <2>1. k \in 1 .. Len(list) + 1
    BY <1>2
  <2>2. /\ InsertAt(list, k, t) \in Seq(T)
        /\ Len(InsertAt(list, k, t)) = Len(list) + 1
        /\ DOMAIN InsertAt(list, k, t) = 1 .. Len(list) + 1
        /\ \A i \in 1 .. Len(list) + 1 :
             InsertAt(list, k, t)[i] = IF i < k THEN list[i]
                                       ELSE IF i = k THEN t ELSE list[i - 1]
    BY <2>1, InsertAtEntries
  <2>. QED  BY <1>3, <2>2, Zenon
<1>5. Without(r, k, list)
  <2>1. \A i \in 1 .. Len(list) : list[i] = r[Skip(i, k)]
    BY <1>2, <1>4 DEF Skip
  <2>. QED  BY <1>2, <1>4, <2>1 DEF Without
<1>6. k \in Nat /\ r[k] = t
  BY <1>2, <1>4
<1>. HIDE DEF key
<1>7. /\ \A i \in DOMAIN list : i < k => tm[list[i]].expire <= key
      /\ k \in DOMAIN list => tm[list[k]].expire > key
  BY <1>2
<1>. QED  BY <1>4, <1>5, <1>6, <1>7 DEF key, r

\* Inserting a timer that is not linked links it once and leaves the order of the
\* others alone.  The timer goes behind all that do not expire after it; if the
\* list is in order it stays so, and of the enabled ones the timer has only later
\* ones behind it.
LEMMA InsertTimerKeeps ==
  ASSUME NEW T, NEW list \in Seq(T), NEW tm \in [T -> TimerRec],
         NEW t \in T, t \notin ToSet(list), Distinct(list)
  PROVE  LET r == InsertTimer(list, tm, t)
         IN  /\ r \in Seq(T) /\ r # <<>>
             /\ Distinct(r)
             /\ ToSet(r) = ToSet(list) \cup {t}
             /\ \A a, b : a # t /\ b # t => (Before(r, a, b) <=> Before(list, a, b))
             /\ \A a : Before(r, a, t) => tm[a].expire <= SortKey(tm[t])
             /\ \A b : Before(r, t, b) => SortKey(tm[t]) < Never
             /\ OrderedList(list, tm) =>
                  /\ OrderedList(r, tm)
                  /\ \A b : Before(r, t, b) /\ tm[b].enabled
                              => SortKey(tm[t]) < tm[b].expire
<1>. DEFINE key == SortKey(tm[t])
            r == InsertTimer(list, tm, t)
<1>1. /\ r \in Seq(T)
      /\ \E k \in Nat : /\ r[k] = t /\ Without(r, k, list)
                        /\ \A i \in DOMAIN list : i < k => tm[list[i]].expire <= key
                        /\ k \in DOMAIN list => tm[list[k]].expire > key
  BY InsertTimerEntry
<1>. HIDE DEF r, key
<1>2. PICK k \in Nat : /\ r[k] = t /\ Without(r, k, list)
                       /\ \A i \in DOMAIN list : i < k => tm[list[i]].expire <= key
                       /\ k \in DOMAIN list => tm[list[k]].expire > key
  BY <1>1
<1>3. Distinct(r) /\ ToSet(r) = ToSet(list) \cup {t}
  BY <1>1, <1>2, PutIn
<1>4. \A a, b : Before(list, a, b) <=> a # t /\ b # t /\ Before(r, a, b)
  <2>1. \A a, b : Before(list, a, b)
                    <=> a # r[k] /\ b # r[k] /\ Before(r, a, b)
    BY <1>1, <1>2, <1>3, TakenOut
  <2>. QED  BY <2>1, <1>2
<1>5. /\ \A i \in DOMAIN list : /\ i \in Nat /\ Skip(i, k) \in DOMAIN r
                               /\ list[i] = r[Skip(i, k)]
      /\ \A i, j \in DOMAIN list : i < j <=> Skip(i, k) < Skip(j, k)
      /\ \A i \in DOMAIN list : /\ Skip(i, k) < k <=> i < k
                               /\ Skip(i, k) > k <=> i >= k
      /\ \A h \in DOMAIN r : h # k => \E i \in DOMAIN list : Skip(i, k) = h
  BY <1>1, <1>2, SkipPlaces
<1>6. /\ \A u \in T : tm[u].expire \in Nat /\ tm[u].expire <= Never
      /\ Never \in Nat
      /\ key \in Nat /\ (~tm[t].enabled => key = Never)
      /\ (tm[t].enabled => key = tm[t].expire)
      /\ \A h \in DOMAIN list : list[h] \in T
  BY NeverAssumption DEF TimerRec, Time, key, SortKey
<1>7. k \in DOMAIN r /\ DOMAIN r \subseteq Nat
  BY <1>1, <1>2 DEF Without
\* what stands in front of the new entry, and what behind it
<1>8. ASSUME NEW a, Before(r, a, t) PROVE tm[a].expire <= key
  <2>1. PICK g \in DOMAIN r, h \in DOMAIN r : g < h /\ r[g] = a /\ r[h] = t
    BY <1>8 DEF Before
  <2>2. h = k /\ g < k /\ g # k
    BY <2>1, <1>2, <1>3, <1>7 DEF Distinct
  <2>3. PICK i \in DOMAIN list : Skip(i, k) = g
    BY <2>2, <1>5
  <2>. QED  BY <2>1, <2>2, <2>3, <1>2, <1>5
<1>9. ASSUME NEW b, Before(r, t, b)
      PROVE  /\ k \in DOMAIN list /\ tm[list[k]].expire > key
             /\ \E i \in DOMAIN list : i >= k /\ list[i] = b
  <2>1. PICK g \in DOMAIN r, h \in DOMAIN r : g < h /\ r[g] = t /\ r[h] = b
    BY <1>9 DEF Before
  <2>2. g = k /\ h > k /\ h # k
    BY <2>1, <1>2, <1>3, <1>7 DEF Distinct
  <2>3. PICK i \in DOMAIN list : Skip(i, k) = h
    BY <2>2, <1>5
  <2>4. i >= k
    <3>1. i \in Nat
      BY <1>5
    <3>. QED  BY <2>2, <2>3, <3>1 DEF Skip
  <2>5. list[i] = b
    BY <2>1, <2>3, <1>5
  <2>6. k \in DOMAIN list
    <3>1. DOMAIN list = 1 .. Len(list)
      OBVIOUS
    <3>2. k >= 1
      BY <1>1, <1>7
    <3>. QED  BY <2>4, <3>1, <3>2
  <2>. QED  BY <2>4, <2>5, <2>6, <1>2
<1>10. ASSUME NEW b, Before(r, t, b) PROVE key < Never
  BY <1>6, <1>9, <1>10
<1>11. ASSUME OrderedList(list, tm), NEW b, Before(r, t, b), tm[b].enabled
       PROVE  key < tm[b].expire
  <2>1. /\ k \in DOMAIN list /\ tm[list[k]].expire > key
        /\ \E i \in DOMAIN list : i >= k /\ list[i] = b
    BY <1>9, <1>11
  <2>2. PICK i \in DOMAIN list : i >= k /\ list[i] = b
    BY <2>1
  <2>3. CASE i = k
    BY <2>1, <2>2, <2>3, <1>6
  <2>4. CASE i > k
    <3>1. tm[list[k]].expire <= tm[b].expire
      BY <2>1, <2>2, <2>4, <1>11 DEF OrderedList
    <3>. QED  BY <2>1, <2>2, <3>1, <1>6
  <2>. QED  BY <2>2, <2>3, <2>4, <1>5
<1>12. ASSUME OrderedList(list, tm) PROVE OrderedList(r, tm)
  <2>. SUFFICES ASSUME NEW g \in DOMAIN r, NEW h \in DOMAIN r, g < h,
                       tm[r[h]].enabled
                PROVE  tm[r[g]].expire <= tm[r[h]].expire
    BY DEF OrderedList
  <2>1. CASE g = k
    <3>1. Before(r, t, r[h]) /\ r[h] \in T
      BY <2>1, <1>1, <1>2 DEF Before
    <3>2. key < tm[r[h]].expire
      BY <3>1, <1>11, <1>12
    <3>3. key < Never
      BY <3>1, <1>10
    <3>. QED  BY <2>1, <3>1, <3>2, <3>3, <1>2, <1>6
  <2>2. CASE h = k
    <3>1. Before(r, r[g], t)
      BY <2>2, <1>2 DEF Before
    <3>. QED  BY <2>2, <3>1, <1>2, <1>6, <1>8
  <2>3. CASE g # k /\ h # k
    <3>1. PICK i \in DOMAIN list : Skip(i, k) = g
      BY <2>3, <1>5
    <3>2. PICK j \in DOMAIN list : Skip(j, k) = h
      BY <2>3, <1>5
    <3>3. i < j /\ list[i] = r[g] /\ list[j] = r[h]
      BY <3>1, <3>2, <1>5
    <3>. QED  BY <3>3, <1>12 DEF OrderedList
  <2>. QED  BY <2>1, <2>2, <2>3
<1>13. r # <<>>
  BY <1>7
<1>. QED  BY <1>1, <1>3, <1>4, <1>8, <1>10, <1>11, <1>12, <1>13 DEF r, key

----------------------------------------------------------------------------
\* An order that speaks of two states of the timers which agree on the entries.
LEMMA SameOrder ==
  ASSUME NEW T, NEW list \in Seq(T), NEW tm, NEW tm2,
         \A u \in ToSet(list) : tm2[u] = tm[u], OrderedList(list, tm)
  PROVE  OrderedList(list, tm2)
BY DEF OrderedList, ToSet

\* What is true of a list r that links again, in its order, a timer t of another
\* list whose record has changed from that in tm to that in tm2.
Relinked(T, list, r, tm, tm2, t) ==
  /\ r \in Seq(T) /\ r # <<>>
  /\ Distinct(r)
  /\ ToSet(r) = ToSet(list)
  /\ \A a, b : a # t /\ b # t => (Before(r, a, b) <=> Before(list, a, b))
  /\ \A b : Before(r, t, b) => SortKey(tm2[t]) < Never
  /\ OrderedList(list, tm) =>
       /\ OrderedList(r, tm2)
       /\ \A b : Before(r, t, b) /\ tm2[b].enabled
                   => SortKey(tm2[t]) < tm2[b].expire

\* Taking a timer out, changing it and inserting it again keeps the list; the
\* timer goes behind those of its instant.
LEMMA RelinkKeeps ==
  ASSUME NEW T, NEW list \in Seq(T), Distinct(list), NEW t \in ToSet(list),
         NEW tm, NEW tm2 \in [T -> TimerRec],
         \A u \in T \ {t} : tm2[u] = tm[u]
  PROVE  Relinked(T, list, Relink(list, tm2, t), tm, tm2, t)
<1>. DEFINE rest == RemoveTimer(list, t)
            r == InsertTimer(rest, tm2, t)
<1>1. /\ rest \in Seq(T) /\ Distinct(rest) /\ ToSet(rest) = ToSet(list) \ {t}
      /\ OrderedList(list, tm) => OrderedList(rest, tm)
      /\ \A a, b : Before(rest, a, b) <=> a # t /\ b # t /\ Before(list, a, b)
  BY RemoveTimerKeeps
<1>2. t \in T /\ ToSet(list) \subseteq T
  BY DEF ToSet
<1>3. Relink(list, tm2, t) = r
  BY DEF Relink
<1>. HIDE DEF rest
<1>4. OrderedList(list, tm) => OrderedList(rest, tm2)
  BY <1>1, <1>2, SameOrder
<1>5. /\ r \in Seq(T) /\ r # <<>>
      /\ Distinct(r)
      /\ ToSet(r) = ToSet(rest) \cup {t}
      /\ \A a, b : a # t /\ b # t => (Before(r, a, b) <=> Before(rest, a, b))
      /\ \A b : Before(r, t, b) => SortKey(tm2[t]) < Never
      /\ OrderedList(rest, tm2) =>
           /\ OrderedList(r, tm2)
           /\ \A b : Before(r, t, b) /\ tm2[b].enabled
                       => SortKey(tm2[t]) < tm2[b].expire
  BY <1>1, <1>2, InsertTimerKeeps
<1>. HIDE DEF r
<1>6. \A a, b : a # t /\ b # t => (Before(r, a, b) <=> Before(list, a, b))
  BY <1>1, <1>5
<1>. QED  BY <1>1, <1>3, <1>4, <1>5, <1>6 DEF Relinked

\* A timer that is not enabled may stand at the end.
LEMMA AppendKeeps ==
  ASSUME NEW T, NEW list \in Seq(T), Distinct(list),
         NEW t \in T, t \notin ToSet(list), NEW tm, ~tm[t].enabled
  PROVE  /\ Append(list, t) \in Seq(T)
         /\ Distinct(Append(list, t))
         /\ ToSet(Append(list, t)) = ToSet(list) \cup {t}
         /\ \A a, b : a # t /\ b # t
                        => (Before(Append(list, t), a, b) <=> Before(list, a, b))
         /\ OrderedList(list, tm) => OrderedList(Append(list, t), tm)
<1>. DEFINE r == Append(list, t)
            k == Len(list) + 1
<1>1. /\ r \in Seq(T) /\ DOMAIN r = 1 .. k /\ k \in Nat
      /\ DOMAIN list = 1 .. Len(list) /\ Len(list) \in Nat
      /\ \A i \in 1 .. Len(list) : r[i] = list[i]
      /\ r[k] = t /\ Len(r) = k
  OBVIOUS
<1>. HIDE DEF r
<1>2. Without(r, k, list)
  BY <1>1 DEF Without, Skip
<1>3. Distinct(r) /\ ToSet(r) = ToSet(list) \cup {t}
  <2>. HIDE DEF k
  <2>. QED  BY <1>1, <1>2, PutIn
<1>4. \A a, b : a # t /\ b # t => (Before(r, a, b) <=> Before(list, a, b))
  <2>. HIDE DEF k
  <2>1. \A a, b : Before(list, a, b)
                    <=> a # r[k] /\ b # r[k] /\ Before(r, a, b)
    BY <1>1, <1>2, <1>3, TakenOut
  <2>. QED  BY <2>1, <1>1
<1>5. OrderedList(list, tm) => OrderedList(r, tm)
  BY <1>1 DEF OrderedList
<1>. QED  BY <1>1, <1>3, <1>4, <1>5 DEF r

\* Taking the head off a list without repetitions.
LEMMA TailKeeps ==
  ASSUME NEW T, NEW list \in Seq(T), list # <<>>, Distinct(list)
  PROVE  /\ Tail(list) \in Seq(T)
         /\ Distinct(Tail(list))
         /\ Head(list) \in ToSet(list)
         /\ ToSet(Tail(list)) = ToSet(list) \ {Head(list)}
<1>. DEFINE r == Tail(list)
<1>1. /\ r \in Seq(T) /\ DOMAIN r = 1 .. Len(list) - 1
      /\ Len(r) = Len(list) - 1 /\ Len(list) \in Nat
      /\ \A i \in DOMAIN r : r[i] = list[i + 1]
      /\ Head(list) = list[1] /\ 1 \in DOMAIN list
  OBVIOUS
<1>. HIDE DEF r
<1>2. Without(list, 1, r)
  BY <1>1 DEF Without, Skip
<1>3. /\ Distinct(r) /\ list[1] \in ToSet(list)
      /\ ToSet(r) = ToSet(list) \ {list[1]}
  BY <1>1, <1>2, TakenOut
<1>. QED  BY <1>1, <1>3 DEF r

\* The head of a list in order is the next timer to be called: no enabled one
\* anywhere in the list has an earlier instant.
LEMMA HeadIsNext ==
  ASSUME NEW T, NEW list \in Seq(T), NEW tm \in [T -> TimerRec],
         OrderedList(list, tm), NEW t \in ToSet(list), tm[t].enabled
  PROVE  tm[Head(list)].expire <= tm[t].expire
<1>1. PICK j \in DOMAIN list : list[j] = t
  BY DEF ToSet
<1>2. Head(list) = list[1] /\ 1 \in DOMAIN list
  BY <1>1
<1>3. CASE j = 1
  BY <1>1, <1>2, <1>3, NeverAssumption DEF TimerRec, Time
<1>4. CASE j > 1
  BY <1>1, <1>2, <1>4 DEF OrderedList
<1>. QED  BY <1>1, <1>3, <1>4

\* In a list without repetitions the entries stand in a line.
LEMMA BeforeIsTotal ==
  ASSUME NEW T, NEW list \in Seq(T), Distinct(list)
  PROVE  /\ \A a, b : Before(list, a, b) => a \in ToSet(list) /\ b \in ToSet(list)
         /\ \A a, b \in ToSet(list) : a # b => Before(list, a, b) \/ Before(list, b, a)
         /\ \A a, b : Before(list, a, b) => ~Before(list, b, a)
         /\ \A a, b, c : Before(list, a, b) /\ Before(list, b, c) => Before(list, a, c)
         /\ \A a : ~Before(list, a, Head(list))
<1>1. /\ DOMAIN list = 1 .. Len(list) /\ Len(list) \in Nat
      /\ DOMAIN list # {} => Head(list) = list[1] /\ 1 \in DOMAIN list
  OBVIOUS
<1>2. \A a, b : Before(list, a, b) => a \in ToSet(list) /\ b \in ToSet(list)
  BY DEF Before, ToSet
<1>3. ASSUME NEW a \in ToSet(list), NEW b \in ToSet(list), a # b
      PROVE  Before(list, a, b) \/ Before(list, b, a)
  <2>1. PICK i \in DOMAIN list : list[i] = a
    BY DEF ToSet
  <2>2. PICK j \in DOMAIN list : list[j] = b
    BY DEF ToSet
  <2>3. i < j \/ j < i
    BY <2>1, <2>2, <1>1, <1>3
  <2>. QED  BY <2>1, <2>2, <2>3 DEF Before
<1>4. ASSUME NEW a, NEW b, Before(list, a, b), Before(list, b, a) PROVE FALSE
  <2>1. PICK i \in DOMAIN list, j \in DOMAIN list : i < j /\ list[i] = a /\ list[j] = b
    BY <1>4 DEF Before
  <2>2. PICK g \in DOMAIN list, h \in DOMAIN list : g < h /\ list[g] = b /\ list[h] = a
    BY <1>4 DEF Before
  <2>3. g = j /\ h = i
    BY <2>1, <2>2 DEF Distinct
  <2>. QED  BY <2>1, <2>2, <2>3, <1>1
<1>5. ASSUME NEW a, NEW b, NEW c, Before(list, a, b), Before(list, b, c)
      PROVE  Before(list, a, c)
  <2>1. PICK i \in DOMAIN list, j \in DOMAIN list : i < j /\ list[i] = a /\ list[j] = b
    BY <1>5 DEF Before
  <2>2. PICK g \in DOMAIN list, h \in DOMAIN list : g < h /\ list[g] = b /\ list[h] = c
    BY <1>5 DEF Before
  <2>3. g = j
    BY <2>1, <2>2 DEF Distinct
  <2>4. i < h
    BY <2>1, <2>2, <2>3, <1>1
  <2>. QED  BY <2>1, <2>2, <2>4 DEF Before
<1>6. ASSUME NEW a, Before(list, a, Head(list)) PROVE FALSE
  <2>1. PICK i \in DOMAIN list, j \in DOMAIN list :
          i < j /\ list[i] = a /\ list[j] = Head(list)
    BY <1>6 DEF Before
  <2>2. j = 1
    BY <2>1, <1>1 DEF Distinct
  <2>. QED  BY <2>1, <2>2, <1>1
<1>. QED  BY <1>2, <1>3, <1>4, <1>5, <1>6

\* What stands in front of an enabled timer of an ordered list, seen from the two.
LEMMA BeforeIsEarlier ==
  ASSUME NEW list, NEW tm, OrderedList(list, tm),
         NEW a, NEW b, Before(list, a, b), tm[b].enabled
  PROVE  tm[a].expire <= tm[b].expire
BY DEF OrderedList, Before

----------------------------------------------------------------------------
\* The two lists postload and the rest of the program share the timers
\* between, and the callback's timer, which stays linked while it runs.
Linkage ==
  /\ LinkedOnce
  /\ ~Restoring => private = <<>>
  /\ phase = "callback" => cb.timer \in Live \ {Dummy}

\* The dummy stays armed for never, an instant the base time does not reach.
DummyArmed ==
  /\ timer[Dummy] = NeverDue
  /\ basetime <= session.horizon /\ target <= session.horizon
  /\ \A f \in files : f.base <= session.horizon

\* The inductive invariant.
IInv == TypeOK /\ Sorted /\ Linkage /\ DummyArmed

LEMMA TimeType == Time \subseteq Nat /\ Never \in Time /\ 0 \in Time
  BY NeverAssumption DEF Time

\* What the assumption says of the session at hand.
LEMMA SessionType ==
  ASSUME session \in Sessions
  PROVE  /\ session.horizon \in Nat /\ session.horizon < Never
         /\ session.horizon \in Time /\ session.delays \subseteq Int
  BY NeverAssumption, TimerQueueAssumption DEF Time

LEMMA PlusType == \A a, b \in Nat : Plus(a, b) \in Time
  BY NeverAssumption DEF Plus, Time

LEMMA IdleType == Idle \in TimerRec /\ NeverDue \in TimerRec
  BY TimeType DEF Idle, NeverDue, TimerRec

\* Whenever the head is looked at, there is one.
LEMMA HeadExists ==
  ASSUME IInv, ~Restoring
  PROVE  /\ tlist # <<>>
         /\ Head(tlist) \in Live /\ Head(tlist) \in Timers
         /\ HeadExpire \in Time
<1>1. Dummy \in Live
  BY DEF IInv, Linkage, LinkedOnce, ToSet
<1>2. tlist \in Seq(Timers) /\ tlist # <<>>
  BY <1>1 DEF IInv, TypeOK, ToSet, Live
<1>3. Head(tlist) \in Live /\ Head(tlist) \in Timers
  BY <1>2 DEF ToSet, Live
<1>. QED  BY <1>2, <1>3 DEF HeadExpire, IInv, TypeOK, TimerRec

LEMMA InitIInv == Init => IInv
<1>. SUFFICES ASSUME Init PROVE IInv
  OBVIOUS
<1>. USE DEF Init
<1>1. timer \in [Timers -> TimerRec]
  BY IdleType DEF Timers, NeverDue
<1>2. /\ tlist \in Seq(Timers) /\ private \in Seq(Timers)
      /\ Live = {Dummy} /\ ToSet(private) = {}
      /\ Distinct(tlist) /\ Distinct(private)
  BY DEF Timers, ToSet, Distinct, Live
<1>3. TypeOK
  BY <1>1, <1>2, TimeType DEF TypeOK, CbRec, NoCallback, Timers, Phases, Lapses
<1>4. Sorted
  BY <1>1 DEF Sorted, OrderedList, Restoring
<1>5. Linkage
  BY <1>2 DEF Linkage, LinkedOnce, Restoring, Idle, Live
<1>6. DummyArmed
  BY SessionType, TimerQueueAssumption DEF DummyArmed, Timers
<1>. QED  BY <1>3, <1>4, <1>5, <1>6 DEF IInv

----------------------------------------------------------------------------
\* Every change of one timer other than the dummy followed by its re-insertion
\* into the list keeps the list parts of the invariant.
LEMMA RelinkInvariant ==
  ASSUME IInv, ~Restoring,
         NEW list \in Seq(Timers), NEW t \in Timers \ {Dummy},
         Distinct(list), ToSet(list) = Live \cup {t},
         timer' \in [Timers -> TimerRec],
         \A u \in Timers \ {t} : timer'[u] = timer[u],
         tlist' = Relink(list, timer', t),
         UNCHANGED private
  PROVE  /\ Relinked(Timers, list, tlist', timer, timer', t)
         /\ LinkedOnce'
         /\ Live' = Live \cup {t}
         /\ timer'[Dummy] = timer[Dummy]
<1>1. t \in ToSet(list) /\ Dummy \in Timers
  BY DEF Timers
<1>2. Relinked(Timers, list, tlist', timer, timer', t)
  BY <1>1, RelinkKeeps
<1>3. Distinct(tlist') /\ Live' = Live \cup {t}
  BY <1>2 DEF Live, Relinked
<1>4. LinkedOnce'
  <2>1. private = <<>> /\ private' = <<>> /\ Dummy \in Live
    BY DEF IInv, Linkage, LinkedOnce, ToSet
  <2>2. \A u \in Timers : timer'[u].enabled => u \in Live'
    BY <1>3, <2>1 DEF IInv, Linkage, LinkedOnce, ToSet
  <2>3. Distinct(private') /\ ToSet(private') = {}
    BY <2>1 DEF Distinct, ToSet
  <2>. QED  BY <1>3, <2>1, <2>2, <2>3 DEF LinkedOnce
<1>. QED  BY <1>1, <1>2, <1>3, <1>4

\* A slot that is not linked holds a timer that is not enabled.
LEMMA UnlinkedIsOff ==
  ASSUME IInv, ~Restoring, NEW t \in Timers, t \notin Live
  PROVE  /\ ~timer[t].enabled
         /\ Append(tlist, t) \in Seq(Timers)
         /\ Distinct(Append(tlist, t))
         /\ ToSet(Append(tlist, t)) = Live \cup {t}
         /\ \A a, b : a # t /\ b # t
                        => (Before(Append(tlist, t), a, b) <=> Before(tlist, a, b))
         /\ Garbled \/ OrderedList(Append(tlist, t), timer)
<1>1. ~timer[t].enabled
  BY DEF IInv, Linkage, LinkedOnce, ToSet
<1>2. /\ tlist \in Seq(Timers) /\ Distinct(tlist)
      /\ Garbled \/ OrderedList(tlist, timer)
  BY DEF IInv, TypeOK, Linkage, LinkedOnce, Sorted, Restoring
<1>. QED  BY <1>1, <1>2, AppendKeeps DEF Live

LEMMA NowType == IInv => Now \in Time
  BY DEF IInv, TypeOK, Now, CbRec

LEMMA ClampType == \A d \in Int : Clamp(d) \in Nat
  BY DEF Clamp

\* adjust, in whatever way the timer came to be linked.
LEMMA AdjustInvariant ==
  ASSUME IInv, CodeRuns,
         NEW list \in Seq(Timers), NEW t \in Timers \ {Dummy},
         Distinct(list), ToSet(list) = Live \cup {t},
         Garbled \/ OrderedList(list, timer),
         NEW delay \in Int, NEW period \in Time,
         AdjustIn(list, t, delay, period)
  PROVE  IInv'
<1>. DEFINE rec == [enabled |-> TRUE, expire |-> Plus(Now, Clamp(delay)),
                    period |-> period]
<1>0. ~Restoring
  BY DEF CodeRuns, Restoring
<1>1. rec \in TimerRec
  <2>1. Plus(Now, Clamp(delay)) \in Time
    BY NowType, PlusType, ClampType, TimeType
  <2>. QED  BY <2>1 DEF TimerRec
<1>2. timer' = [timer EXCEPT ![t] = rec] /\ timer \in [Timers -> TimerRec]
  BY DEF AdjustIn, IInv, TypeOK
<1>. HIDE DEF rec
<1>3. /\ timer' \in [Timers -> TimerRec]
      /\ \A u \in Timers \ {t} : timer'[u] = timer[u]
  BY <1>1, <1>2
<1>4. tlist' = Relink(list, timer', t) /\ UNCHANGED private
  BY DEF AdjustIn
<1>5. /\ tlist' \in Seq(Timers) /\ LinkedOnce'
      /\ Garbled \/ OrderedList(tlist', timer')
      /\ Live' = Live \cup {t} /\ timer'[Dummy] = timer[Dummy]
  <2>1. /\ Relinked(Timers, list, tlist', timer, timer', t)
        /\ LinkedOnce' /\ Live' = Live \cup {t} /\ timer'[Dummy] = timer[Dummy]
    BY <1>0, <1>3, <1>4, RelinkInvariant
  <2>. QED  BY <2>1 DEF Relinked
<1>6. /\ UNCHANGED <<session, private, basetime, target, local, phase, files, lapses>>
      /\ cb' \in CbRec /\ cb'.timer = cb.timer /\ aborted' \in BOOLEAN
  BY DEF AdjustIn, IInv, TypeOK, CbRec
<1>7. TypeOK'
  BY <1>3, <1>5, <1>6 DEF IInv, TypeOK
<1>8. Sorted'
  BY <1>5, <1>6 DEF Sorted, Garbled
<1>9. Linkage'
  BY <1>5, <1>6 DEF IInv, Linkage, Restoring
<1>10. DummyArmed'
  BY <1>5, <1>6 DEF IInv, DummyArmed
<1>. QED  BY <1>7, <1>8, <1>9, <1>10 DEF IInv

\* The list as it is, seen as one that links a given live timer.
LEMMA LinkedList ==
  ASSUME IInv, ~Restoring, NEW t \in Live
  PROVE  /\ tlist \in Seq(Timers) /\ Distinct(tlist)
         /\ Garbled \/ OrderedList(tlist, timer)
         /\ ToSet(tlist) = Live \cup {t}
  BY DEF IInv, TypeOK, Linkage, LinkedOnce, Sorted, Restoring, Live

\* Re-inserting one timer, for the steps that do not go through adjust.
LEMMA MoveInvariant ==
  ASSUME IInv, ~Restoring, ~Restoring',
         NEW t \in Live \ {Dummy}, t \in Timers,
         timer' \in [Timers -> TimerRec],
         \A u \in Timers \ {t} : timer'[u] = timer[u],
         tlist' = Relink(tlist, timer', t),
         UNCHANGED <<session, private, basetime, target, local, aborted, files>>,
         lapses' \in SUBSET Lapses, Garbled' = Garbled,
         cb' \in CbRec, phase' \in Phases,
         phase' = "callback" => cb'.timer \in Live \ {Dummy}
  PROVE  IInv'
<1>1. /\ tlist' \in Seq(Timers) /\ LinkedOnce'
      /\ Garbled \/ OrderedList(tlist', timer')
      /\ Live' = Live \cup {t} /\ timer'[Dummy] = timer[Dummy]
  <2>1. /\ Relinked(Timers, tlist, tlist', timer, timer', t)
        /\ LinkedOnce' /\ Live' = Live \cup {t} /\ timer'[Dummy] = timer[Dummy]
    BY LinkedList, RelinkInvariant
  <2>. QED  BY <2>1, LinkedList DEF Relinked
<1>2. TypeOK'
  BY <1>1 DEF IInv, TypeOK
<1>3. Sorted'
  BY <1>1 DEF Sorted
<1>4. Linkage'
  BY <1>1 DEF IInv, Linkage, Restoring
<1>5. DummyArmed'
  BY <1>1 DEF IInv, DummyArmed
<1>. QED  BY <1>2, <1>3, <1>4, <1>5 DEF IInv

LEMMA OperationsInvariant == IInv /\ TimerOperation => IInv'
<1>. SUFFICES ASSUME IInv, TimerOperation PROVE IInv'
  OBVIOUS
<1>0. /\ Permanent \subseteq Timers \ {Dummy} /\ Temporary \subseteq Timers \ {Dummy}
      /\ session.delays \subseteq Int /\ Periods \subseteq Time
      /\ timer \in [Timers -> TimerRec]
  BY SessionType, TimerQueueAssumption DEF Timers, IInv, TypeOK
<1>1. ASSUME NEW t \in Permanent, AllocTimer(t) PROVE IInv'
  \* inserting a disabled timer is appending it and inserting it again
  <2>0. ~Restoring /\ phase = "start"
    BY <1>1 DEF AllocTimer, Restoring
  <2>1. /\ timer' \in [Timers -> TimerRec] /\ timer'[t] = Idle
        /\ \A u \in Timers \ {t} : timer'[u] = timer[u]
    BY <1>0, <1>1, IdleType DEF AllocTimer
  <2>2. /\ tlist \in Seq(Timers) /\ Distinct(tlist)
        /\ Garbled \/ OrderedList(tlist, timer)
    BY <2>0 DEF IInv, TypeOK, Linkage, LinkedOnce, Sorted, Restoring
  <2>3. t \notin ToSet(tlist) /\ t \in Timers
    BY <1>0, <1>1 DEF AllocTimer, Live
  <2>4. Garbled \/ OrderedList(tlist, timer')
    <3>1. ToSet(tlist) \subseteq Timers
      BY <2>2 DEF ToSet
    <3>. QED  BY <2>1, <2>2, <2>3, <3>1, SameOrder
  <2>5. /\ tlist' \in Seq(Timers) /\ Distinct(tlist')
        /\ ToSet(tlist') = ToSet(tlist) \cup {t}
        /\ Garbled \/ OrderedList(tlist', timer')
    <3>1. tlist' = InsertTimer(tlist, timer', t)
      BY <1>1 DEF AllocTimer
    <3>2. /\ InsertTimer(tlist, timer', t) \in Seq(Timers)
          /\ Distinct(InsertTimer(tlist, timer', t))
          /\ ToSet(InsertTimer(tlist, timer', t)) = ToSet(tlist) \cup {t}
          /\ Garbled \/ OrderedList(InsertTimer(tlist, timer', t), timer')
      BY <2>1, <2>2, <2>3, <2>4, InsertTimerKeeps
    <3>. QED  BY <3>1, <3>2
  <2>6. UNCHANGED <<session, private, basetime, target, local, aborted, cb, phase,
                    files, lapses>>
    BY <1>1 DEF AllocTimer
  <2>7. Live' = Live \cup {t} /\ ToSet(private) = {} /\ private = <<>>
    <3>1. Live' = Live \cup {t}
      BY <2>5 DEF Live
    <3>2. private = <<>>
      BY <2>0 DEF IInv, Linkage
    <3>. QED  BY <3>1, <3>2 DEF ToSet
  <2>8. timer'[Dummy] = timer[Dummy]
    BY <1>0, <2>1 DEF Timers
  <2>9. TypeOK'
    BY <2>1, <2>5, <2>6 DEF IInv, TypeOK
  <2>10. Sorted'
    BY <2>5, <2>6 DEF Sorted, Garbled
  <2>11. LinkedOnce'
    <3>1. \A u \in Timers : timer'[u].enabled => u \in Live'
      BY <2>1, <2>7 DEF Idle, IInv, Linkage, LinkedOnce
    <3>2. Dummy \in Live'
      BY <2>7 DEF IInv, Linkage, LinkedOnce
    <3>3. Distinct(private') /\ ToSet(private') = {}
      BY <2>6, <2>7 DEF Distinct
    <3>. QED  BY <2>5, <3>1, <3>2, <3>3 DEF LinkedOnce
  <2>12. Linkage'
    BY <2>0, <2>6, <2>7, <2>11 DEF Linkage
  <2>13. DummyArmed'
    BY <2>6, <2>8 DEF IInv, DummyArmed
  <2>. QED  BY <2>9, <2>10, <2>12, <2>13 DEF IInv
<1>2. ASSUME NEW t \in Permanent, NEW d \in session.delays, NEW p \in Periods,
             Adjust(t, d, p)
      PROVE  IInv'
  <2>1. CodeRuns /\ ~Restoring /\ t \in Live /\ AdjustIn(tlist, t, d, p)
    BY <1>2 DEF Adjust, Handles, CodeRuns, Restoring
  <2>. QED  BY <1>0, <2>1, LinkedList, AdjustInvariant
<1>3. ASSUME NEW t \in Permanent, NEW d \in session.delays, ResetTimer(t, d)
      PROVE  IInv'
  <2>1. /\ CodeRuns /\ ~Restoring /\ t \in Live
        /\ AdjustIn(tlist, t, d, timer[t].period)
    BY <1>3 DEF ResetTimer, Handles, CodeRuns, Restoring
  <2>2. timer[t].period \in Time
    BY <1>0 DEF TimerRec
  <2>. QED  BY <1>0, <2>1, <2>2, LinkedList, AdjustInvariant
<1>4. ASSUME NEW t \in Permanent, NEW p \in Periods, TimerPulse(t, p)
      PROVE  IInv'
  <2>1. CodeRuns /\ ~Restoring /\ t \notin Live
        /\ AdjustIn(Append(tlist, t), t, p, p)
    BY <1>4 DEF TimerPulse, CodeRuns, Restoring
  <2>2. p \in Time
    BY <1>0
  <2>3. p \in Int
    BY <2>2, TimeType
  <2>. QED  BY <1>0, <2>1, <2>2, <2>3, UnlinkedIsOff, AdjustInvariant
<1>5. ASSUME NEW t \in Temporary, NEW d \in session.delays, TimerSet(t, d)
      PROVE  IInv'
  <2>1. CodeRuns /\ ~Restoring /\ t \notin Live
        /\ AdjustIn(Append(tlist, t), t, d, Never)
    BY <1>5 DEF TimerSet, CodeRuns, Restoring
  <2>. QED  BY <1>0, <2>1, TimeType, UnlinkedIsOff, AdjustInvariant
<1>6. ASSUME NEW t \in Permanent, NEW flag \in BOOLEAN, Enable(t, flag)
      PROVE  IInv'
  <2>1. /\ ~Restoring /\ t \in Live /\ tlist' = Relink(tlist, timer', t)
        /\ UNCHANGED <<session, private, basetime, target, local, aborted, cb, phase,
                       files>>
    BY <1>6 DEF Enable, Handles, CodeRuns, Restoring
  <2>2. /\ timer' \in [Timers -> TimerRec]
        /\ \A u \in Timers \ {t} : timer'[u] = timer[u]
    BY <1>0, <1>6 DEF Enable, TimerRec
  <2>3. /\ ~Restoring' /\ cb' \in CbRec /\ phase' \in Phases
        /\ phase' = "callback" => cb'.timer \in Live \ {Dummy}
    BY <2>1 DEF Restoring, IInv, TypeOK, Linkage
  <2>4. t \in Live \ {Dummy} /\ t \in Timers
    BY <1>0, <2>1
  <2>5. lapses' \in SUBSET Lapses /\ Garbled' = Garbled
    BY <1>6 DEF Enable, IInv, TypeOK, Lapses, Garbled
  <2>. QED  BY <2>1, <2>2, <2>3, <2>4, <2>5, MoveInvariant
<1>. QED
  BY <1>1, <1>2, <1>3, <1>4, <1>5, <1>6 DEF TimerOperation

----------------------------------------------------------------------------
\* Steps that leave the timers and their lists alone.
LEMMA FrameInvariant ==
  ASSUME IInv, ~Restoring, ~Restoring',
         UNCHANGED <<session, timer, tlist, private, cb, files>>,
         lapses' \in SUBSET Lapses, Garbled' = Garbled,
         basetime' \in 0 .. session.horizon, target' \in 0 .. session.horizon,
         local' \in Time,
         aborted' \in BOOLEAN, phase' \in Phases \ {"callback"}
  PROVE  IInv'
<1>0. basetime' \in Time /\ target' \in Time
  <2>1. session.horizon \in Nat /\ session.horizon < Never
    BY SessionType DEF IInv, TypeOK
  <2>. QED  BY <2>1, NeverAssumption DEF Time
<1>1. TypeOK'
  BY <1>0 DEF IInv, TypeOK
<1>2. Sorted'
  BY DEF IInv, Sorted, Restoring
<1>3. Linkage'
  BY DEF IInv, Linkage, LinkedOnce, Live
<1>4. DummyArmed'
  BY DEF IInv, DummyArmed
<1>. QED  BY <1>1, <1>2, <1>3, <1>4 DEF IInv

TimesliceStep ==
  \/ BeginTimeslice \/ BeginSlice \/ EnterDevice \/ Execute \/ LeaveDevice
  \/ EndSlice \/ BeginTimers \/ EndTimers

LEMMA TimesliceInvariant == IInv /\ TimesliceStep => IInv'
<1>. SUFFICES ASSUME IInv, TimesliceStep PROVE IInv'
  OBVIOUS
<1>0. /\ ~Restoring /\ ~Restoring' /\ phase' \in Phases \ {"callback"}
      /\ UNCHANGED <<session, timer, tlist, private, cb, files>>
  BY DEF TimesliceStep, BeginTimeslice, BeginSlice, EnterDevice, Execute,
         LeaveDevice, EndSlice, BeginTimers, EndTimers, Restoring, Phases
<1>. DEFINE Horizon == session.horizon
<1>1. /\ basetime \in 0 .. Horizon /\ target \in 0 .. Horizon
      /\ local \in Time /\ aborted \in BOOLEAN /\ Horizon \in Nat /\ Overrun \in Nat
      /\ Horizon < Never /\ Never \in Nat
  BY SessionType, TimerQueueAssumption, TimeType, NeverAssumption
  DEF IInv, TypeOK, DummyArmed, Time
<1>2. aborted' \in BOOLEAN
  BY <1>1 DEF TimesliceStep, BeginTimeslice, BeginSlice, EnterDevice, Execute,
              LeaveDevice, EndSlice, BeginTimers, EndTimers
<1>3. basetime' \in 0 .. Horizon
  BY <1>1 DEF TimesliceStep, BeginTimeslice, BeginSlice, EnterDevice, Execute,
              LeaveDevice, EndSlice, BeginTimers, EndTimers
<1>4. target' \in 0 .. Horizon
  <2>1. CASE BeginSlice
    <3>1. PICK quantum \in Quanta :
            target' = Lesser(Plus(basetime, quantum), HeadExpire)
      BY <2>1 DEF BeginSlice
    <3>2. Plus(basetime, quantum) \in Nat
      <4>1. basetime \in Nat /\ quantum \in Nat
        BY <1>1, TimerQueueAssumption
      <4>. QED  BY <4>1, PlusType, TimeType
    <3>3. HeadExpire \in Nat
      BY <1>0, TimeType, HeadExists
    <3>. QED  BY <1>1, <2>1, <3>1, <3>2, <3>3 DEF BeginSlice, Lesser
  <2>2. CASE LeaveDevice
    <3>1. PICK final \in local .. local + Overrun :
            target' = IF final < target THEN Greater(final, basetime) ELSE target
      BY <2>2 DEF LeaveDevice
    <3>2. final \in Nat
      BY <1>1, <3>1, TimeType DEF Time
    <3>. QED  BY <1>1, <3>1, <3>2 DEF Greater
  <2>3. CASE ~BeginSlice /\ ~LeaveDevice
    BY <1>1, <2>3 DEF TimesliceStep, BeginTimeslice, EnterDevice, Execute,
                      EndSlice, BeginTimers, EndTimers
  <2>. QED  BY <2>1, <2>2, <2>3
<1>5. local' \in Time
  BY <1>1, TimeType DEF Time, TimesliceStep, BeginTimeslice, BeginSlice,
     EnterDevice, Execute, LeaveDevice, EndSlice, BeginTimers, EndTimers
<1>6. lapses' \in SUBSET Lapses /\ Garbled' = Garbled
  BY DEF TimesliceStep, BeginTimeslice, BeginSlice, EnterDevice, Execute, LeaveDevice,
         EndSlice, BeginTimers, EndTimers, Garbled, IInv, TypeOK
<1>. QED  BY <1>0, <1>2, <1>3, <1>4, <1>5, <1>6, FrameInvariant

----------------------------------------------------------------------------
\* A callback begins: only its timer's enable flag changes.
LEMMA BeginCallbackInvariant == IInv /\ BeginCallback => IInv'
<1>. SUFFICES ASSUME IInv, BeginCallback PROVE IInv'
  OBVIOUS
<1>. DEFINE t == Head(tlist)
<1>0. /\ ~Restoring /\ ~Restoring' /\ phase' = "callback"
      /\ UNCHANGED <<session, tlist, private, basetime, target, local, aborted, files,
                     lapses>>
      /\ HeadExpire <= basetime
  BY DEF BeginCallback, Restoring
<1>1. t \in Live /\ t \in Timers /\ HeadExpire \in Time
  BY <1>0, HeadExists
<1>2. t # Dummy
  BY <1>0, <1>1, SessionType, NeverAssumption
  DEF IInv, DummyArmed, HeadExpire, NeverDue, TypeOK, Time
<1>3. /\ timer \in [Timers -> TimerRec] /\ timer[t].enabled
      /\ timer' = [timer EXCEPT ![t].enabled = ~OneShot(timer[t])]
      /\ cb' = [timer |-> t, expire |-> timer[t].expire, modified |-> FALSE]
  BY DEF BeginCallback, IInv, TypeOK
<1>. HIDE DEF t
<1>4. /\ timer' \in [Timers -> TimerRec]
      /\ \A u \in Timers : timer'[u].expire = timer[u].expire
      /\ \A u \in Timers : timer'[u].enabled => timer[u].enabled
      /\ \A u \in Timers \ {t} : timer'[u] = timer[u]
  BY <1>1, <1>3 DEF TimerRec
<1>5. TypeOK'
  <2>1. cb' \in CbRec
    BY <1>1, <1>3 DEF CbRec, TimerRec
  <2>. QED  BY <1>0, <1>4, <2>1 DEF IInv, TypeOK, Phases
<1>6. Sorted'
  <2>1. \A i \in DOMAIN tlist : tlist[i] \in Timers
    BY DEF IInv, TypeOK
  <2>. QED  BY <1>0, <1>4, <2>1 DEF IInv, Sorted, OrderedList, Restoring, Garbled
<1>7. Linkage'
  BY <1>0, <1>1, <1>2, <1>3, <1>4 DEF IInv, Linkage, LinkedOnce, Live
<1>8. DummyArmed'
  BY <1>0, <1>2, <1>4 DEF IInv, DummyArmed, Timers
<1>. QED  BY <1>5, <1>6, <1>7, <1>8 DEF IInv

\* Retiring a timer, at the end of its callback or without one.
LEMMA RetireInvariant ==
  ASSUME IInv, ~Restoring, ~Restoring',
         NEW t \in Live \ {Dummy}, t \in Timers, Retire(timer, t),
         UNCHANGED <<session, private, basetime, target, local, aborted, files, lapses>>,
         cb' \in CbRec, phase' \in Phases \ {"callback"}
  PROVE  IInv'
<1>0. timer \in [Timers -> TimerRec]
  BY DEF IInv, TypeOK
<1>1. CASE t \in Permanent
  <2>1. Plus(timer[t].expire, timer[t].period) \in Time
    BY <1>0, PlusType, TimeType DEF TimerRec
  <2>2. /\ timer' = [timer EXCEPT ![t].expire = Plus(timer[t].expire, timer[t].period)]
        /\ tlist' = Relink(tlist, timer', t)
    BY <1>0, <1>1 DEF Retire
  <2>3. /\ timer' \in [Timers -> TimerRec]
        /\ \A u \in Timers \ {t} : timer'[u] = timer[u]
    BY <1>0, <2>1, <2>2 DEF TimerRec
  <2>4. lapses' \in SUBSET Lapses /\ Garbled' = Garbled
    BY DEF Garbled, IInv, TypeOK
  <2>. QED  BY <2>2, <2>3, <2>4, MoveInvariant
<1>2. CASE t \notin Permanent
  <2>1. timer' = [timer EXCEPT ![t] = Idle] /\ tlist' = RemoveTimer(tlist, t)
    BY <1>2 DEF Retire
  <2>2. /\ timer' \in [Timers -> TimerRec] /\ timer'[t] = Idle
        /\ \A u \in Timers \ {t} : timer'[u] = timer[u]
    BY <1>0, <2>1, IdleType
  <2>3. /\ tlist' \in Seq(Timers) /\ Distinct(tlist')
        /\ ToSet(tlist') = Live \ {t}
        /\ Garbled \/ OrderedList(tlist', timer)
    <3>1. /\ tlist \in Seq(Timers) /\ Distinct(tlist) /\ t \in ToSet(tlist)
          /\ Garbled \/ OrderedList(tlist, timer)
      BY LinkedList DEF Live
    <3>2. /\ RemoveTimer(tlist, t) \in Seq(Timers)
          /\ Distinct(RemoveTimer(tlist, t))
          /\ ToSet(RemoveTimer(tlist, t)) = ToSet(tlist) \ {t}
          /\ Garbled \/ OrderedList(RemoveTimer(tlist, t), timer)
      BY <3>1, RemoveTimerKeeps
    <3>. QED  BY <2>1, <3>2 DEF Live
  <2>4. Garbled \/ OrderedList(tlist', timer')
    <3>1. ToSet(tlist') \subseteq Timers
      BY <2>3 DEF ToSet
    <3>. QED  BY <2>2, <2>3, <3>1, SameOrder
  <2>5. Live' = Live \ {t} /\ private = <<>> /\ private' = <<>>
    BY <2>3 DEF Live, IInv, Linkage
  <2>6. timer'[Dummy] = timer[Dummy]
    BY <2>2 DEF Timers
  <2>7. TypeOK'
    BY <2>2, <2>3 DEF IInv, TypeOK
  <2>8. Sorted'
    BY <2>4 DEF Sorted, Garbled
  <2>9. LinkedOnce'
    <3>1. \A u \in Timers : timer'[u].enabled => u \in Live'
      BY <2>2, <2>5 DEF Idle, IInv, Linkage, LinkedOnce, ToSet
    <3>2. Dummy \in Live'
      BY <2>5 DEF IInv, Linkage, LinkedOnce, ToSet
    <3>3. Distinct(private') /\ ToSet(private') = {}
      BY <2>5 DEF Distinct, ToSet
    <3>. QED  BY <2>3, <3>1, <3>2, <3>3 DEF LinkedOnce
  <2>10. Linkage'
    BY <2>5, <2>9 DEF Linkage
  <2>11. DummyArmed'
    BY <2>6 DEF IInv, DummyArmed
  <2>. QED  BY <2>7, <2>8, <2>10, <2>11 DEF IInv
<1>. QED  BY <1>1, <1>2

LEMMA NoCallbackType == NoCallback \in CbRec
  BY TimeType DEF NoCallback, CbRec, Timers

LEMMA CallbackInvariant == IInv /\ (SkipDisabled \/ EndCallback) => IInv'
<1>1. ASSUME IInv, SkipDisabled PROVE IInv'
  <2>1. /\ ~Restoring /\ ~Restoring' /\ HeadExpire <= basetime
        /\ ~timer[Head(tlist)].enabled /\ Retire(timer, Head(tlist))
        /\ UNCHANGED <<session, private, basetime, target, local, aborted, cb, phase,
                       files, lapses>>
        /\ phase = "timers"
    BY <1>1 DEF SkipDisabled, Restoring
  <2>2. Head(tlist) \in Live \ {Dummy} /\ Head(tlist) \in Timers
    BY <1>1, <2>1, HeadExists DEF IInv, DummyArmed, NeverDue
  <2>3. cb' \in CbRec /\ phase' \in Phases \ {"callback"}
    BY <1>1, <2>1 DEF IInv, TypeOK
  <2>. QED  BY <1>1, <2>1, <2>2, <2>3, RetireInvariant
<1>2. ASSUME IInv, EndCallback PROVE IInv'
  <2>1. /\ ~Restoring /\ ~Restoring' /\ phase = "callback" /\ phase' = "timers"
        /\ UNCHANGED <<session, private, basetime, target, local, aborted, files,
                       lapses>>
        /\ cb' = NoCallback
    BY <1>2 DEF EndCallback, Restoring
  <2>2. cb' \in CbRec /\ phase' \in Phases \ {"callback"}
    BY <2>1, NoCallbackType DEF Phases
  <2>3. CASE cb.modified
    <3>1. UNCHANGED <<timer, tlist>>
      BY <1>2, <2>3 DEF EndCallback
    <3>2. TypeOK'
      BY <1>2, <2>1, <2>2, <3>1 DEF IInv, TypeOK
    <3>3. Sorted'
      BY <1>2, <2>1, <3>1 DEF IInv, Sorted, Garbled
    <3>4. Linkage'
      BY <1>2, <2>1, <3>1 DEF IInv, Linkage, LinkedOnce, Live
    <3>5. DummyArmed'
      BY <1>2, <2>1, <3>1 DEF IInv, DummyArmed
    <3>. QED  BY <3>2, <3>3, <3>4, <3>5 DEF IInv
  <2>4. CASE ~cb.modified
    <3>1. Retire(timer, cb.timer)
      BY <1>2, <2>4 DEF EndCallback
    <3>2. cb.timer \in Live \ {Dummy} /\ cb.timer \in Timers
      BY <1>2, <2>1 DEF IInv, Linkage, TypeOK, CbRec
    <3>. QED  BY <1>2, <2>1, <2>2, <3>1, <3>2, RetireInvariant
  <2>. QED  BY <2>3, <2>4
<1>. QED  BY <1>1, <1>2

----------------------------------------------------------------------------
\* State files.  Saving changes no timer; loading overwrites the permanent
\* ones that are linked and leaves the order to postload.
LEMMA SaveInvariant == IInv /\ SaveState => IInv'
<1>. SUFFICES ASSUME IInv, SaveState PROVE IInv'
  OBVIOUS
<1>. DEFINE f == [timer |-> [t \in Permanent |-> timer[t]], base |-> basetime]
<1>1. /\ files' = files \cup {f} /\ phase = "top"
      /\ UNCHANGED <<session, timer, tlist, private, basetime, target, local, aborted,
                     cb, phase, lapses>>
  BY DEF SaveState
<1>2. f \in FileRec /\ f.base <= session.horizon
  BY DEF FileRec, IInv, TypeOK, DummyArmed, Timers
<1>. HIDE DEF f
<1>3. TypeOK'
  BY <1>1, <1>2 DEF IInv, TypeOK
<1>4. Sorted'
  BY <1>1 DEF IInv, Sorted, Garbled
<1>5. Linkage'
  BY <1>1 DEF IInv, Linkage, LinkedOnce, Live, Restoring
<1>6. DummyArmed'
  BY <1>1, <1>2 DEF IInv, DummyArmed
<1>. QED  BY <1>3, <1>4, <1>5, <1>6 DEF IInv

\* What both outcomes of a load do: some of the permanent timers that are linked,
\* and the base time, are replaced by those of a file.
LEMMA OverwriteInvariant ==
  ASSUME IInv, NEW f \in files, NEW read \in SUBSET Handles,
         timer' = [t \in Timers |-> IF t \in read THEN f.timer[t] ELSE timer[t]],
         basetime' \in {basetime, f.base}, target' = basetime',
         phase = "top",
         UNCHANGED <<session, tlist, private, local, aborted, cb, files>>,
         phase' \in Phases \ {"callback"}, lapses' \in SUBSET Lapses
  PROVE  TypeOK' /\ Linkage' /\ DummyArmed'
<1>1. /\ f \in FileRec /\ f.base \in Time /\ f.base <= session.horizon
      /\ \A t \in Permanent : f.timer[t] \in TimerRec
  BY DEF IInv, TypeOK, DummyArmed, FileRec
<1>2. /\ timer' \in [Timers -> TimerRec]
      /\ \A t \in Timers \ Handles : timer'[t] = timer[t]
  BY <1>1 DEF Handles, IInv, TypeOK
<1>3. Dummy \in Timers \ Handles
  BY TimerQueueAssumption DEF Timers, Handles
<1>4. TypeOK'
  BY <1>1, <1>2 DEF IInv, TypeOK
<1>5. LinkedOnce'
  <2>1. Live' = Live
    BY DEF Live
  <2>2. \A t \in Timers : timer'[t].enabled => t \in Live \cup ToSet(private)
    BY <1>2 DEF Handles, IInv, Linkage, LinkedOnce
  <2>. QED  BY <2>1, <2>2 DEF IInv, Linkage, LinkedOnce
<1>6. Linkage'
  BY <1>5 DEF IInv, Linkage, Restoring
<1>7. DummyArmed'
  BY <1>1, <1>2, <1>3 DEF IInv, DummyArmed
<1>. QED  BY <1>4, <1>6, <1>7

LEMMA LoadInvariant == IInv /\ (LoadState \/ LoadFails) => IInv'
<1>1. ASSUME IInv, LoadState PROVE IInv'
  <2>1. PICK f \in files :
          /\ timer' = [t \in Timers |-> IF t \in Handles THEN f.timer[t]
                                                         ELSE timer[t]]
          /\ basetime' = f.base /\ target' = f.base
    BY <1>1 DEF LoadState
  <2>2. /\ phase = "top" /\ phase' = "drain" /\ lapses' \in SUBSET Lapses
        /\ UNCHANGED <<session, tlist, private, local, aborted, cb, files>>
    BY <1>1 DEF LoadState, Lapses
  <2>3. TypeOK' /\ Linkage' /\ DummyArmed'
    BY <1>1, <2>1, <2>2, OverwriteInvariant DEF Phases
  <2>. QED  BY <2>2, <2>3 DEF IInv, Sorted
<1>2. ASSUME IInv, LoadFails PROVE IInv'
  <2>1. PICK f \in files, read \in SUBSET Handles :
          /\ timer' = [t \in Timers |-> IF t \in read THEN f.timer[t] ELSE timer[t]]
          /\ basetime' \in {basetime, f.base}
    BY <1>2 DEF LoadFails
  <2>2. /\ phase = "top" /\ phase' = "top" /\ lapses' = {"read"}
        /\ target' = basetime'
        /\ UNCHANGED <<session, tlist, private, local, aborted, cb, files>>
    BY <1>2 DEF LoadFails
  <2>3. TypeOK' /\ Linkage' /\ DummyArmed'
    BY <1>2, <2>1, <2>2, OverwriteInvariant DEF Phases, Lapses
  <2>. QED  BY <2>2, <2>3 DEF IInv, Sorted, Garbled
<1>. QED  BY <1>1, <1>2

\* postload's first loop: one timer less in m_timer_list, and in the private
\* list or reclaimed.
LEMMA DrainInvariant == IInv /\ Drain => IInv'
<1>. SUFFICES ASSUME IInv, Drain PROVE IInv'
  OBVIOUS
<1>. DEFINE t == Head(tlist)
<1>1. /\ phase = "drain" /\ tlist # <<>> /\ tlist' = Tail(tlist)
      /\ UNCHANGED <<session, basetime, target, local, aborted, cb, phase, files,
                     lapses>>
      /\ \/ t \in Temporary /\ timer' = [timer EXCEPT ![t] = Idle]
            /\ UNCHANGED private
         \/ private' = Append(private, t) /\ UNCHANGED timer
  BY DEF Drain
<1>2. /\ tlist \in Seq(Timers) /\ private \in Seq(Timers)
      /\ timer \in [Timers -> TimerRec]
      /\ Distinct(tlist) /\ Distinct(private) /\ Live \cap ToSet(private) = {}
      /\ Dummy \in Live \cup ToSet(private)
      /\ \A u \in Timers : timer[u].enabled => u \in Live \cup ToSet(private)
  BY DEF IInv, TypeOK, Linkage, LinkedOnce
<1>3. /\ tlist' \in Seq(Timers) /\ Distinct(tlist') /\ t \in Live /\ t \in Timers
      /\ Live' = Live \ {t}
  <2>1. /\ Tail(tlist) \in Seq(Timers) /\ Distinct(Tail(tlist))
        /\ Head(tlist) \in ToSet(tlist)
        /\ ToSet(Tail(tlist)) = ToSet(tlist) \ {Head(tlist)}
    BY <1>1, <1>2, TailKeeps
  <2>2. Head(tlist) \in Timers
    BY <1>1, <1>2
  <2>. QED  BY <1>1, <2>1, <2>2 DEF Live
<1>. HIDE DEF t
<1>4. /\ timer' \in [Timers -> TimerRec]
      /\ \A u \in Timers \ {t} : timer'[u] = timer[u]
      /\ timer'[Dummy] = timer[Dummy]
  BY <1>1, <1>2, IdleType, TimerQueueAssumption DEF Timers
<1>5. CASE private' = Append(private, t) /\ UNCHANGED timer
  <2>1. /\ private' \in Seq(Timers) /\ Distinct(private')
        /\ ToSet(private') = ToSet(private) \cup {t}
    <3>1. t \notin ToSet(private)
      BY <1>2, <1>3
    <3>2. \E tm : ~tm[t].enabled
      <4>. DEFINE off == [u \in Timers |-> Idle]
      <4>1. ~off[t].enabled
        BY <1>3 DEF Idle
      <4>. QED  BY <4>1
    <3>3. PICK tm : ~tm[t].enabled
      BY <3>2
    <3>. QED  BY <1>2, <1>3, <1>5, <3>1, <3>3, AppendKeeps
  <2>2. TypeOK'
    BY <1>1, <1>3, <1>4, <2>1 DEF IInv, TypeOK
  <2>3. LinkedOnce'
    BY <1>2, <1>3, <1>5, <2>1 DEF LinkedOnce
  <2>. QED  BY <1>1, <1>4, <2>2, <2>3
            DEF IInv, Sorted, Linkage, Restoring, DummyArmed
<1>6. CASE t \in Temporary /\ timer' = [timer EXCEPT ![t] = Idle]
           /\ UNCHANGED private
  <2>1. ~timer'[t].enabled /\ t # Dummy
    BY <1>2, <1>3, <1>6, TimerQueueAssumption DEF Idle
  <2>2. TypeOK'
    BY <1>1, <1>3, <1>4, <1>6 DEF IInv, TypeOK
  <2>3. LinkedOnce'
    <3>1. \A u \in Timers : timer'[u].enabled => u \in Live' \cup ToSet(private)
      BY <1>2, <1>3, <1>4, <2>1
    <3>. QED  BY <1>2, <1>3, <1>6, <2>1, <3>1 DEF LinkedOnce
  <2>. QED  BY <1>1, <1>4, <2>2, <2>3
            DEF IInv, Sorted, Linkage, Restoring, DummyArmed
<1>. QED  BY <1>1, <1>5, <1>6

\* postload's second loop: one timer goes back.
LEMMA ReinsertInvariant == IInv /\ Reinsert => IInv'
<1>. SUFFICES ASSUME IInv, Reinsert PROVE IInv'
  OBVIOUS
<1>. DEFINE t == Head(private)
<1>1. /\ phase = "reinsert" /\ private # <<>> /\ private' = Tail(private)
      /\ tlist' = InsertTimer(tlist, timer, t)
      /\ UNCHANGED <<session, timer, basetime, target, local, aborted, cb, phase,
                     files, lapses>>
  BY DEF Reinsert
<1>2. /\ tlist \in Seq(Timers) /\ private \in Seq(Timers)
      /\ timer \in [Timers -> TimerRec]
      /\ Distinct(tlist) /\ Distinct(private) /\ Live \cap ToSet(private) = {}
      /\ Dummy \in Live \cup ToSet(private)
      /\ \A u \in Timers : timer[u].enabled => u \in Live \cup ToSet(private)
      /\ Garbled \/ OrderedList(tlist, timer)
  BY <1>1 DEF IInv, TypeOK, Linkage, LinkedOnce, Sorted
<1>3. /\ private' \in Seq(Timers) /\ Distinct(private') /\ t \in ToSet(private)
      /\ t \in Timers /\ ToSet(private') = ToSet(private) \ {t}
  <2>1. /\ Tail(private) \in Seq(Timers) /\ Distinct(Tail(private))
        /\ Head(private) \in ToSet(private)
        /\ ToSet(Tail(private)) = ToSet(private) \ {Head(private)}
    BY <1>1, <1>2, TailKeeps
  <2>2. Head(private) \in Timers
    BY <1>1, <1>2
  <2>. QED  BY <1>1, <2>1, <2>2
<1>. HIDE DEF t
<1>4. /\ tlist' \in Seq(Timers) /\ Distinct(tlist')
      /\ Live' = Live \cup {t} /\ (Garbled \/ OrderedList(tlist', timer'))
  <2>1. t \notin ToSet(tlist)
    BY <1>2, <1>3 DEF Live
  <2>2. /\ InsertTimer(tlist, timer, t) \in Seq(Timers)
        /\ Distinct(InsertTimer(tlist, timer, t))
        /\ ToSet(InsertTimer(tlist, timer, t)) = ToSet(tlist) \cup {t}
        /\ OrderedList(tlist, timer) => OrderedList(InsertTimer(tlist, timer, t), timer)
    BY <1>2, <1>3, <2>1, InsertTimerKeeps
  <2>. QED  BY <1>1, <1>2, <2>2 DEF Live
<1>5. TypeOK'
  BY <1>1, <1>3, <1>4 DEF IInv, TypeOK
<1>6. LinkedOnce'
  BY <1>1, <1>2, <1>3, <1>4 DEF LinkedOnce
<1>. QED  BY <1>1, <1>4, <1>5, <1>6
          DEF IInv, Sorted, Garbled, Linkage, Restoring, DummyArmed

\* The ends of the two loops.
LEMMA PostloadInvariant == IInv /\ (DrainDone \/ ReinsertDone) => IInv'
<1>. SUFFICES ASSUME IInv, DrainDone \/ ReinsertDone PROVE IInv'
  OBVIOUS
<1>1. /\ UNCHANGED <<session, timer, tlist, private, basetime, target, local, aborted,
                     cb, files, lapses>>
      /\ \/ tlist = <<>> /\ phase' = "reinsert"
         \/ private = <<>> /\ phase = "reinsert" /\ phase' = "top"
  BY DEF DrainDone, ReinsertDone
<1>2. TypeOK'
  BY <1>1 DEF IInv, TypeOK, Phases
<1>3. Sorted'
  BY <1>1 DEF IInv, Sorted, OrderedList, Garbled
<1>4. Linkage'
  BY <1>1 DEF IInv, Linkage, LinkedOnce, Live, Restoring
<1>5. DummyArmed'
  BY <1>1 DEF IInv, DummyArmed
<1>. QED  BY <1>2, <1>3, <1>4, <1>5 DEF IInv

----------------------------------------------------------------------------
\* Nothing changes the list, the timers or the time at the end of the model.
LEMMA StutterInvariant == IInv /\ UNCHANGED vars => IInv'
<1>. SUFFICES ASSUME IInv, UNCHANGED vars PROVE IInv'
  OBVIOUS
<1>1. TypeOK' /\ Sorted'
  BY DEF vars, IInv, TypeOK, Sorted, Garbled
<1>2. Linkage'
  BY DEF vars, IInv, Linkage, LinkedOnce, Live, Restoring
<1>. QED  BY <1>1, <1>2 DEF vars, IInv, DummyArmed

LEMMA NextInvariant ==
  ASSUME IInv, [Next]_vars
  PROVE  IInv'
<1>1. \/ TimerOperation \/ TimesliceStep
      \/ BeginCallback \/ SkipDisabled \/ EndCallback
      \/ SaveState \/ LoadState \/ LoadFails
      \/ Drain \/ DrainDone \/ Reinsert \/ ReinsertDone
      \/ UNCHANGED vars
  BY DEF Next, TimesliceStep, AtHorizon
<1>. QED
  BY <1>1, OperationsInvariant, TimesliceInvariant, BeginCallbackInvariant,
     CallbackInvariant, SaveInvariant, LoadInvariant, DrainInvariant,
     ReinsertInvariant, PostloadInvariant, StutterInvariant

\* The invariant holds in every state the program reaches.
THEOREM Invariance == Spec => []IInv
<1>1. IInv /\ [Next]_vars => IInv'
  BY NextInvariant
<1>. QED  BY <1>1, InitIInv, PTL DEF Spec

\* Every state the program reaches is of the types the model declares.
THEOREM TypeCorrect == Spec => []TypeOK
<1>1. IInv => TypeOK
  BY DEF IInv
<1>. QED  BY <1>1, Invariance, PTL

\* m_timer_list is in order whenever it is used, for any number of timers and
\* any calls of alloc, adjust, reset, enable, pulse and set, in callbacks,
\* during a slice or between two of them, and after reading any state file to its
\* end, whatever a load that failed had left.
THEOREM ListSorted == Spec => []Sorted
<1>1. IInv => Sorted
  BY DEF IInv
<1>. QED  BY <1>1, Invariance, PTL

\* No timer is ever lost from the lists, nor linked twice, not even by a load that
\* fails half way.
THEOREM NoTimerLost == Spec => []LinkedOnce
<1>1. IInv => LinkedOnce
  BY DEF IInv, Linkage
<1>. QED  BY <1>1, Invariance, PTL

\* execute_timers leaves no enabled timer behind that is due: the head it looks
\* at when it stops bounds all of them, because the list is in order.
THEOREM NoneOverdue == Spec => NothingDueLeft
<1>1. ASSUME IInv, Next, phase = "timers", phase' = "top",
             ~Garbled, NEW t \in Live, timer[t].enabled
      PROVE  timer[t].expire > basetime
  <2>1. EndTimers
    BY <1>1 DEF Next, TimerOperation, AllocTimer, Adjust, ResetTimer, TimerPulse,
       TimerSet, Enable, CodeRuns, BeginTimeslice, BeginSlice, EnterDevice,
       Execute, LeaveDevice, EndSlice, BeginTimers, BeginCallback, SkipDisabled,
       EndCallback, SaveState, LoadState, LoadFails, Drain, DrainDone, Reinsert,
       ReinsertDone, AtHorizon, vars
  <2>2. HeadExpire > basetime /\ ~Restoring
    BY <2>1 DEF EndTimers, Restoring
  <2>3. /\ tlist \in Seq(Timers) /\ timer \in [Timers -> TimerRec]
        /\ OrderedList(tlist, timer) /\ basetime \in Time
    BY <1>1, <2>2 DEF IInv, TypeOK, Sorted, Restoring
  <2>4. HeadExpire <= timer[t].expire
    BY <1>1, <2>3, HeadIsNext DEF Live, HeadExpire
  <2>5. HeadExpire \in Time /\ t \in Timers
    BY <1>1, <2>2, <2>3, HeadExists DEF Live, ToSet
  <2>6. HeadExpire \in Nat /\ basetime \in Nat /\ timer[t].expire \in Nat
    BY <2>3, <2>5, TimeType DEF TimerRec
  <2>. QED  BY <2>2, <2>4, <2>6
<1>2. IInv /\ [Next]_vars
      => [phase = "timers" /\ phase' = "top" /\ ~Garbled =>
            \A t \in Live : timer[t].enabled => timer[t].expire > basetime]_vars
  BY <1>1
<1>. QED  BY <1>2, Invariance, PTL DEF Spec, NothingDueLeft

----------------------------------------------------------------------------
\* The timer operations once more, as one step that the invariants below are
\* about: one timer leaves its place, if it had one, and takes another.

\* No timer but t changes, and none but t its place among the others; t comes in
\* front of later timers only, and if it is off, of none at all.
Moved(t) ==
  /\ timer' \in [Timers -> TimerRec]
  /\ \A u \in Timers \ {t} : timer'[u] = timer[u]
  /\ Live' = Live \cup {t}
  /\ \A a, b : a # t /\ b # t => (Before(tlist', a, b) <=> Before(tlist, a, b))
  /\ \A b : Before(tlist', t, b) => SortKey(timer'[t]) < Never
  /\ Garbled \/ \A b : Before(tlist', t, b) /\ timer'[b].enabled
                         => SortKey(timer'[t]) < timer'[b].expire

\* adjust has been called for t.
Armed(t) ==
  /\ CodeRuns /\ t \notin Live \cap Temporary
  /\ Moved(t)
  /\ timer'[t].enabled /\ Now <= timer'[t].expire
  /\ cb' = [cb EXCEPT !.modified = @ \/ (phase = "callback" /\ cb.timer = t)]
  /\ aborted' = (aborted \/ (phase = "execute" /\ Head(tlist') = t))
  /\ UNCHANGED <<session, private, basetime, target, local, phase, files, lapses>>

LEMMA RelinkMoves ==
  ASSUME IInv, ~Restoring,
         NEW list \in Seq(Timers), NEW t \in Timers \ {Dummy},
         Distinct(list), ToSet(list) = Live \cup {t},
         \A a, b : a # t /\ b # t => (Before(list, a, b) <=> Before(tlist, a, b)),
         Garbled \/ OrderedList(list, timer),
         timer' \in [Timers -> TimerRec],
         \A u \in Timers \ {t} : timer'[u] = timer[u],
         tlist' = Relink(list, timer', t),
         UNCHANGED private
  PROVE  Moved(t)
<1>1. Relinked(Timers, list, tlist', timer, timer', t) /\ Live' = Live \cup {t}
  BY RelinkInvariant
<1>. QED  BY <1>1 DEF Relinked, Moved

LEMMA AdjustMoves ==
  ASSUME IInv, CodeRuns,
         NEW list \in Seq(Timers), NEW t \in Timers \ {Dummy},
         t \notin Live \cap Temporary,
         Distinct(list), ToSet(list) = Live \cup {t},
         \A a, b : a # t /\ b # t => (Before(list, a, b) <=> Before(tlist, a, b)),
         Garbled \/ OrderedList(list, timer),
         NEW delay \in Int, NEW period \in Time,
         AdjustIn(list, t, delay, period)
  PROVE  Armed(t)
<1>. DEFINE due == Plus(Now, Clamp(delay))
            rec == [enabled |-> TRUE, expire |-> due, period |-> period]
<1>0. ~Restoring
  BY DEF CodeRuns, Restoring
<1>1. due \in Time /\ Now \in Time
  BY NowType, PlusType, ClampType, TimeType
<1>2. Now <= due
  <2>1. Clamp(delay) \in Nat /\ Now \in 0 .. Never /\ Never \in Nat
    BY <1>1, ClampType, NeverAssumption DEF Time
  <2>. QED  BY <2>1 DEF Plus
<1>. HIDE DEF due
<1>3. /\ rec \in TimerRec /\ rec.enabled /\ rec.expire = due
      /\ timer' = [timer EXCEPT ![t] = rec] /\ timer \in [Timers -> TimerRec]
  BY <1>1 DEF AdjustIn, IInv, TypeOK, TimerRec, due
<1>. HIDE DEF rec
<1>4. /\ timer' \in [Timers -> TimerRec] /\ timer'[t] = rec
      /\ \A u \in Timers \ {t} : timer'[u] = timer[u]
  BY <1>3
<1>5. tlist' = Relink(list, timer', t) /\ UNCHANGED private
  BY DEF AdjustIn
<1>6. Moved(t)
  BY <1>0, <1>4, <1>5, RelinkMoves
<1>. QED  BY <1>2, <1>3, <1>4, <1>6 DEF Armed, AdjustIn

LEMMA OperationMoves ==
  ASSUME IInv, TimerOperation
  PROVE  \/ \E t \in Permanent : AllocTimer(t) /\ Moved(t)
         \/ \E t \in Permanent \cup Temporary : Armed(t)
         \/ \E t \in Permanent, flag \in BOOLEAN : Enable(t, flag) /\ Moved(t)
<1>0. /\ Permanent \subseteq Timers \ {Dummy} /\ Temporary \subseteq Timers \ {Dummy}
      /\ Permanent \cap Temporary = {}
      /\ session.delays \subseteq Int /\ Periods \subseteq Time
      /\ timer \in [Timers -> TimerRec]
  BY SessionType, TimerQueueAssumption DEF Timers, IInv, TypeOK
<1>1. ASSUME NEW t \in Permanent, AllocTimer(t) PROVE Moved(t)
  <2>0. ~Restoring /\ t \in Timers /\ t \notin ToSet(tlist)
    BY <1>0, <1>1 DEF AllocTimer, Restoring, Live
  <2>. DEFINE tm2 == timer'
              r == tlist'
  <2>1. /\ tm2 \in [Timers -> TimerRec] /\ tm2[t] = Idle
        /\ \A u \in Timers \ {t} : tm2[u] = timer[u]
        /\ r = InsertTimer(tlist, tm2, t)
    BY <1>0, <1>1, IdleType DEF AllocTimer
  <2>2. tlist \in Seq(Timers) /\ Distinct(tlist)
    BY DEF IInv, TypeOK, Linkage, LinkedOnce
  <2>. HIDE DEF tm2, r
  <2>3. /\ ToSet(r) = ToSet(tlist) \cup {t}
        /\ \A a, b : a # t /\ b # t => (Before(r, a, b) <=> Before(tlist, a, b))
        /\ \A b : Before(r, t, b) => SortKey(tm2[t]) < Never
    BY <2>0, <2>1, <2>2, InsertTimerKeeps
  <2>4. SortKey(tm2[t]) = Never /\ ~(Never < Never)
    BY <2>1, NeverAssumption DEF Idle, SortKey
  <2>. QED  BY <2>1, <2>3, <2>4 DEF Moved, tm2, r, Live
<1>2. ASSUME NEW t \in Permanent, NEW d \in session.delays, NEW p \in Periods,
             Adjust(t, d, p)
      PROVE  Armed(t)
  <2>1. CodeRuns /\ ~Restoring /\ t \in Live /\ AdjustIn(tlist, t, d, p)
    BY <1>2 DEF Adjust, Handles, CodeRuns, Restoring
  <2>. QED  BY <1>0, <2>1, LinkedList, AdjustMoves
<1>3. ASSUME NEW t \in Permanent, NEW d \in session.delays, ResetTimer(t, d)
      PROVE  Armed(t)
  <2>1. /\ CodeRuns /\ ~Restoring /\ t \in Live
        /\ AdjustIn(tlist, t, d, timer[t].period)
    BY <1>3 DEF ResetTimer, Handles, CodeRuns, Restoring
  <2>2. timer[t].period \in Time
    BY <1>0 DEF TimerRec
  <2>. QED  BY <1>0, <2>1, <2>2, LinkedList, AdjustMoves
<1>4. ASSUME NEW t \in Permanent, NEW p \in Periods, TimerPulse(t, p)
      PROVE  Armed(t)
  <2>1. CodeRuns /\ ~Restoring /\ t \notin Live
        /\ AdjustIn(Append(tlist, t), t, p, p)
    BY <1>4 DEF TimerPulse, CodeRuns, Restoring
  <2>2. p \in Time
    BY <1>0
  <2>3. p \in Int
    BY <2>2, TimeType
  <2>. QED  BY <1>0, <2>1, <2>2, <2>3, UnlinkedIsOff, AdjustMoves
<1>5. ASSUME NEW t \in Temporary, NEW d \in session.delays, TimerSet(t, d)
      PROVE  Armed(t)
  <2>1. CodeRuns /\ ~Restoring /\ t \notin Live
        /\ AdjustIn(Append(tlist, t), t, d, Never)
    BY <1>5 DEF TimerSet, CodeRuns, Restoring
  <2>. QED  BY <1>0, <2>1, TimeType, UnlinkedIsOff, AdjustMoves
<1>6. ASSUME NEW t \in Permanent, NEW flag \in BOOLEAN, Enable(t, flag)
      PROVE  Moved(t)
  <2>1. /\ ~Restoring /\ t \in Live /\ tlist' = Relink(tlist, timer', t)
        /\ UNCHANGED private
    BY <1>6 DEF Enable, Handles, CodeRuns, Restoring
  <2>2. /\ timer' \in [Timers -> TimerRec]
        /\ \A u \in Timers \ {t} : timer'[u] = timer[u]
    BY <1>0, <1>6 DEF Enable, TimerRec
  <2>. QED  BY <1>0, <2>1, <2>2, LinkedList, RelinkMoves
<1>. QED
  BY <1>1, <1>2, <1>3, <1>4, <1>5, <1>6 DEF TimerOperation

\* Retiring moves a permanent timer and reclaims an anonymous one.
LEMMA RetireMoves ==
  ASSUME IInv, ~Restoring, NEW t \in Live \ {Dummy}, Retire(timer, t),
         UNCHANGED private
  PROVE  \/ /\ t \in Permanent /\ Moved(t)
            /\ timer' = [timer EXCEPT ![t].expire = Plus(@, timer[t].period)]
         \/ /\ t \in Temporary
            /\ timer' = [timer EXCEPT ![t] = Idle]
            /\ Live' = Live \ {t}
            /\ \A a, b : Before(tlist', a, b)
                           <=> a # t /\ b # t /\ Before(tlist, a, b)
<1>0. /\ timer \in [Timers -> TimerRec] /\ t \in Timers
      /\ tlist \in Seq(Timers) /\ Distinct(tlist) /\ t \in ToSet(tlist)
  BY DEF IInv, TypeOK, Linkage, LinkedOnce, Live, ToSet
<1>1. CASE t \in Permanent
  <2>1. Plus(timer[t].expire, timer[t].period) \in Time
    BY <1>0, PlusType, TimeType DEF TimerRec
  <2>2. /\ timer' = [timer EXCEPT ![t].expire = Plus(@, timer[t].period)]
        /\ tlist' = Relink(tlist, timer', t)
    BY <1>0, <1>1 DEF Retire
  <2>3. /\ timer' \in [Timers -> TimerRec]
        /\ \A u \in Timers \ {t} : timer'[u] = timer[u]
    BY <1>0, <2>1, <2>2 DEF TimerRec
  <2>4. Moved(t)
    BY <1>0, <2>2, <2>3, LinkedList, RelinkMoves
  <2>. QED  BY <1>1, <2>2, <2>4
<1>2. CASE t \notin Permanent
  <2>1. t \in Temporary
    BY <1>0, <1>2 DEF Timers
  <2>2. timer' = [timer EXCEPT ![t] = Idle] /\ tlist' = RemoveTimer(tlist, t)
    BY <1>2 DEF Retire
  <2>3. /\ ToSet(RemoveTimer(tlist, t)) = ToSet(tlist) \ {t}
        /\ \A a, b : Before(RemoveTimer(tlist, t), a, b)
                       <=> a # t /\ b # t /\ Before(tlist, a, b)
    BY <1>0, RemoveTimerKeeps
  <2>. QED  BY <2>1, <2>2, <2>3 DEF Live
<1>. QED  BY <1>1, <1>2

----------------------------------------------------------------------------
\* Timers that are off.

\* The one-shot that is being called back is off, and stands where it stood until
\* its callback re-arms it or returns.
Spent(t) == phase = "callback" /\ ~cb.modified /\ cb.timer = t

\* Any other timer that is off and has an instant stands behind the dummy.
IdleBehindDummy ==
  phase # "drain" /\ lapses \cap {"read", "idle"} = {} =>
    \A a : Before(tlist, a, Dummy) =>
             timer[a].enabled \/ timer[a].expire = Never \/ Spent(a)

\* An anonymous timer is armed until it is called back, and nobody can arm it again.
AnonymousArmed ==
  /\ \A t \in Temporary \cap (Live \cup ToSet(private)) : timer[t].enabled \/ Spent(t)
  /\ phase = "callback" /\ cb.modified => cb.timer \notin Temporary

\* What postload works on: the file was read to its end, no anonymous timer has an
\* instant, and no timer that is off has one unless the file said so.
ReadWhole ==
  Restoring =>
    /\ ~Garbled
    /\ \A t \in Temporary \cap (Live \cup ToSet(private)) : timer[t].expire = Never
    /\ "idle" \in lapses \/ \A t \in Live \cup ToSet(private) :
                               timer[t].enabled \/ timer[t].expire = Never

IdleInv == IdleBehindDummy /\ AnonymousArmed /\ ReadWhole

LEMMA InitIdle == Init => IdleInv
<1>. SUFFICES ASSUME Init PROVE IdleInv
  OBVIOUS
<1>1. Live = {Dummy} /\ ToSet(private) = {} /\ timer[Dummy] = NeverDue
      /\ Dummy \notin Temporary
  BY TimerQueueAssumption DEF Init, Live, ToSet, Timers
<1>2. \A a : ~Before(tlist, a, Dummy)
  BY DEF Init, Before
<1>. QED  BY <1>1, <1>2 DEF Init, IdleInv, IdleBehindDummy, AnonymousArmed, ReadWhole, Restoring

\* Linking a timer that has changed.
LEMMA MovedIdle ==
  ASSUME IInv, IdleInv, ~Restoring, ~Restoring',
         NEW t \in Timers \ {Dummy}, Moved(t),
         UNCHANGED private,
         lapses' \cap {"read", "idle"} = lapses \cap {"read", "idle"},
         \A u \in Timers \ {t} : Spent(u) => Spent(u)',
         t \in Temporary => timer'[t].enabled,
         phase' = "callback" /\ cb'.modified => cb'.timer \notin Temporary
  PROVE  IdleInv'
<1>0. private = <<>> /\ ToSet(private) = {} /\ phase # "drain"
      /\ Live \subseteq Timers
  BY DEF IInv, Linkage, ToSet, Restoring, Live, TypeOK
<1>1. /\ \A u \in Timers \ {t} : timer'[u] = timer[u]
      /\ Live' = Live \cup {t}
  BY DEF Moved
<1>2. IdleBehindDummy'
  <2>. SUFFICES ASSUME lapses \cap {"read", "idle"} = {},
                       NEW a, Before(tlist', a, Dummy)
                PROVE  \/ timer'[a].enabled \/ timer'[a].expire = Never
                       \/ Spent(a)'
    BY DEF IdleBehindDummy
  <2>1. CASE a = t
    <3>1. SortKey(timer'[t]) < Never
      BY <2>1 DEF Moved
    <3>. QED  BY <2>1, <3>1, NeverAssumption DEF SortKey
  <2>2. CASE a # t
    <3>1. Before(tlist, a, Dummy)
      BY <2>2 DEF Moved
    <3>2. a \in Timers
      BY <3>1, <1>0 DEF Before, Live, ToSet
    <3>3. timer[a].enabled \/ timer[a].expire = Never \/ Spent(a)
      BY <3>1, <1>0 DEF IdleInv, IdleBehindDummy
    <3>. QED  BY <2>2, <3>2, <3>3, <1>1
  <2>. QED  BY <2>1, <2>2
<1>3. AnonymousArmed'
  <2>1. ASSUME NEW u \in Temporary, u \in Live'
        PROVE  timer'[u].enabled \/ Spent(u)'
    <3>1. CASE u # t
      <4>1. u \in Live /\ u \in Timers
        BY <2>1, <3>1, <1>1 DEF Timers
      <4>. QED  BY <4>1, <3>1, <1>0, <1>1 DEF IdleInv, AnonymousArmed
    <3>. QED  BY <2>1, <3>1
  <2>. QED  BY <2>1, <1>0 DEF AnonymousArmed
<1>. QED  BY <1>2, <1>3 DEF IdleInv, ReadWhole

\* Steps that leave the timers and their lists alone.
LEMMA FrameIdle ==
  ASSUME IInv, IdleInv, ~Restoring, ~Restoring',
         UNCHANGED <<timer, tlist, private>>,
         lapses' \cap {"read", "idle"} = lapses \cap {"read", "idle"},
         \A u : Spent(u) => Spent(u)',
         phase' = "callback" /\ cb'.modified => cb'.timer \notin Temporary
  PROVE  IdleInv'
<1>1. IdleBehindDummy'
  BY DEF IdleInv, IdleBehindDummy, Restoring
<1>2. AnonymousArmed'
  BY DEF IdleInv, AnonymousArmed, Live
<1>. QED  BY <1>1, <1>2 DEF IdleInv, ReadWhole

LEMMA OperationsIdle == IInv /\ IdleInv /\ TimerOperation => IdleInv'
<1>. SUFFICES ASSUME IInv, IdleInv, TimerOperation PROVE IdleInv'
  OBVIOUS
<1>0. /\ Permanent \subseteq Timers \ {Dummy} /\ Temporary \subseteq Timers \ {Dummy}
      /\ Permanent \cap Temporary = {}
  BY TimerQueueAssumption DEF Timers
<1>1. ASSUME NEW t \in Permanent, AllocTimer(t), Moved(t) PROVE IdleInv'
  <2>1. ~Restoring /\ ~Restoring' /\ UNCHANGED <<private, phase, cb, lapses>>
        /\ phase = "start"
    BY <1>1 DEF AllocTimer, Restoring
  <2>. QED  BY <1>0, <1>1, <2>1, MovedIdle DEF Spent
<1>2. ASSUME NEW t \in Permanent \cup Temporary, Armed(t) PROVE IdleInv'
  <2>1. /\ ~Restoring /\ ~Restoring' /\ UNCHANGED <<private, phase, lapses>>
        /\ Moved(t) /\ timer'[t].enabled /\ t \notin Live \cap Temporary
        /\ cb' = [cb EXCEPT !.modified = @ \/ (phase = "callback" /\ cb.timer = t)]
    BY <1>2 DEF Armed, CodeRuns, Restoring
  <2>2. cb \in CbRec
    BY DEF IInv, TypeOK
  <2>3. /\ cb'.timer = cb.timer
        /\ cb'.modified <=> cb.modified \/ (phase = "callback" /\ cb.timer = t)
    BY <2>1, <2>2 DEF CbRec
  <2>4. ASSUME NEW u \in Timers \ {t}, Spent(u) PROVE Spent(u)'
    BY <2>1, <2>3, <2>4 DEF Spent
  <2>5. ASSUME phase' = "callback", cb'.modified PROVE cb'.timer \notin Temporary
    <3>1. cb.timer \in Live
      BY <2>1, <2>5 DEF IInv, Linkage
    <3>. QED  BY <2>1, <2>3, <2>5, <3>1 DEF IdleInv, AnonymousArmed
  <2>. QED  BY <1>0, <2>1, <2>4, <2>5, MovedIdle
<1>3. ASSUME NEW t \in Permanent, NEW flag \in BOOLEAN, Enable(t, flag), Moved(t)
      PROVE  IdleInv'
  <2>1. /\ ~Restoring /\ ~Restoring' /\ UNCHANGED <<private, phase, cb>>
        /\ lapses' \cap {"read", "idle"} = lapses \cap {"read", "idle"}
    BY <1>3 DEF Enable, CodeRuns, Restoring
  <2>2. phase' = "callback" /\ cb'.modified => cb'.timer \notin Temporary
    BY <2>1 DEF IdleInv, AnonymousArmed
  <2>. QED  BY <1>0, <1>3, <2>1, <2>2, MovedIdle DEF Spent
<1>. QED  BY <1>1, <1>2, <1>3, OperationMoves

LEMMA TimesliceIdle ==
  IInv /\ IdleInv /\ (TimesliceStep \/ SaveState \/ UNCHANGED vars) => IdleInv'
<1>. SUFFICES ASSUME IInv, IdleInv, TimesliceStep \/ SaveState \/ UNCHANGED vars
              PROVE  IdleInv'
  OBVIOUS
<1>1. CASE TimesliceStep \/ SaveState
  <2>1. /\ ~Restoring /\ ~Restoring' /\ phase # "callback" /\ phase' # "callback"
        /\ UNCHANGED <<timer, tlist, private>>
        /\ lapses' \cap {"read", "idle"} = lapses \cap {"read", "idle"}
    BY <1>1 DEF TimesliceStep, BeginTimeslice, BeginSlice, EnterDevice, Execute,
         LeaveDevice, EndSlice, BeginTimers, EndTimers, SaveState, Restoring
  <2>. QED  BY <2>1, FrameIdle DEF Spent
<1>2. CASE UNCHANGED vars
  BY <1>2 DEF vars, IdleInv, IdleBehindDummy, AnonymousArmed, ReadWhole, Restoring,
              Garbled, Spent, Live
<1>. QED  BY <1>1, <1>2

\* The timer of a callback that begins is at the head, the only disabled one there.
LEMMA BeginCallbackIdle == IInv /\ IdleInv /\ BeginCallback => IdleInv'
<1>. SUFFICES ASSUME IInv, IdleInv, BeginCallback PROVE IdleInv'
  OBVIOUS
<1>0. PICK t : t = Head(tlist)
  OBVIOUS
<1>1. /\ phase = "timers" /\ phase' = "callback"
      /\ UNCHANGED <<tlist, private, lapses>>
      /\ timer' = [timer EXCEPT ![t].enabled = ~OneShot(timer[t])]
      /\ cb' = [timer |-> t, expire |-> timer[t].expire, modified |-> FALSE]
  BY <1>0 DEF BeginCallback
<1>2. timer \in [Timers -> TimerRec] /\ Live \subseteq Timers
  BY DEF IInv, TypeOK, Live, ToSet
<1>3. /\ Spent(t)' /\ \A u : ~Spent(u)
      /\ \A u \in Timers \ {t} : timer'[u] = timer[u]
  BY <1>1, <1>2 DEF Spent
<1>4. IdleBehindDummy'
  <2>. SUFFICES ASSUME lapses \cap {"read", "idle"} = {},
                       NEW a, Before(tlist, a, Dummy)
                PROVE  \/ timer'[a].enabled \/ timer'[a].expire = Never
                       \/ Spent(a)'
    BY <1>1 DEF IdleBehindDummy
  <2>1. a \in Timers
    BY <1>2 DEF Before, Live, ToSet
  <2>2. timer[a].enabled \/ timer[a].expire = Never
    BY <1>1, <1>3 DEF IdleInv, IdleBehindDummy
  <2>. QED  BY <2>1, <2>2, <1>3
<1>5. AnonymousArmed'
  <2>1. private = <<>> /\ ToSet(private) = {}
    BY <1>1 DEF IInv, Linkage, Restoring, ToSet
  <2>2. ASSUME NEW u \in Temporary, u \in Live' PROVE timer'[u].enabled \/ Spent(u)'
    <3>1. u \in Live /\ u \in Timers
      BY <2>2, <1>1 DEF Live, Timers
    <3>2. timer[u].enabled
      BY <2>2, <3>1, <1>3 DEF IdleInv, AnonymousArmed
    <3>. QED  BY <3>1, <3>2, <1>3
  <2>. QED  BY <1>1, <2>1, <2>2 DEF AnonymousArmed
<1>. QED  BY <1>1, <1>4, <1>5 DEF IdleInv, ReadWhole, Restoring

\* Retiring a timer that no callback runs for any more.
LEMMA RetireIdle ==
  ASSUME IInv, IdleInv, ~Restoring, ~Restoring',
         NEW t \in Live \ {Dummy}, Retire(timer, t),
         \A u \in Timers \ {t} : ~Spent(u),
         UNCHANGED <<private, lapses>>, phase' # "callback"
  PROVE  IdleInv'
<1>0. /\ Permanent \cap Temporary = {} /\ Dummy \notin Temporary
      /\ Live \subseteq Timers /\ timer \in [Timers -> TimerRec]
      /\ private = <<>> /\ ToSet(private) = {} /\ phase # "drain"
  BY TimerQueueAssumption DEF IInv, Linkage, Restoring, TypeOK, Live, ToSet
<1>1. CASE t \in Permanent /\ Moved(t)
  <2>1. t \in Timers \ {Dummy} /\ t \notin Temporary
    BY <1>0, <1>1
  <2>. QED  BY <1>1, <2>1, MovedIdle
<1>2. CASE /\ t \in Temporary
           /\ timer' = [timer EXCEPT ![t] = Idle]
           /\ Live' = Live \ {t}
           /\ \A a, b : Before(tlist', a, b)
                          <=> a # t /\ b # t /\ Before(tlist, a, b)
  <2>1. \A u \in Timers \ {t} : timer'[u] = timer[u]
    BY <1>0, <1>2
  <2>2. IdleBehindDummy'
    <3>. SUFFICES ASSUME lapses \cap {"read", "idle"} = {},
                         NEW a, Before(tlist', a, Dummy)
                  PROVE  timer'[a].enabled \/ timer'[a].expire = Never
      BY DEF IdleBehindDummy
    <3>1. a # t /\ Before(tlist, a, Dummy)
      BY <1>2
    <3>2. a \in Timers
      BY <3>1, <1>0 DEF Before, Live, ToSet
    <3>3. timer[a].enabled \/ timer[a].expire = Never
      BY <3>1, <3>2, <1>0 DEF IdleInv, IdleBehindDummy
    <3>. QED  BY <3>1, <3>2, <3>3, <2>1
  <2>3. AnonymousArmed'
    <3>1. ASSUME NEW u \in Temporary, u \in Live' PROVE timer'[u].enabled
      <4>1. u # t /\ u \in Live /\ u \in Timers
        BY <1>0, <1>2, <3>1
      <4>2. timer[u].enabled
        BY <4>1, <3>1 DEF IdleInv, AnonymousArmed
      <4>. QED  BY <4>1, <4>2, <2>1
    <3>. QED  BY <3>1, <1>0 DEF AnonymousArmed
  <2>. QED  BY <2>2, <2>3 DEF IdleInv, ReadWhole
<1>. QED  BY <1>1, <1>2, RetireMoves

LEMMA CallbackIdle == IInv /\ IdleInv /\ (SkipDisabled \/ EndCallback) => IdleInv'
<1>1. ASSUME IInv, IdleInv, SkipDisabled PROVE IdleInv'
  <2>1. /\ ~Restoring /\ ~Restoring' /\ phase = "timers" /\ phase' = "timers"
        /\ ~timer[Head(tlist)].enabled /\ Retire(timer, Head(tlist))
        /\ UNCHANGED <<private, lapses>>
    BY <1>1 DEF SkipDisabled, Restoring
  <2>2. Head(tlist) \in Live \ {Dummy}
    BY <1>1, <2>1, HeadExists DEF IInv, DummyArmed, NeverDue
  <2>. QED  BY <1>1, <2>1, <2>2, RetireIdle DEF Spent
<1>2. ASSUME IInv, IdleInv, EndCallback PROVE IdleInv'
  <2>1. /\ ~Restoring /\ ~Restoring' /\ phase = "callback" /\ phase' = "timers"
        /\ UNCHANGED <<private, lapses>>
    BY <1>2 DEF EndCallback, Restoring
  <2>2. CASE cb.modified
    <3>1. UNCHANGED <<timer, tlist>>
      BY <1>2, <2>2 DEF EndCallback
    <3>. QED  BY <1>2, <2>1, <2>2, <3>1, FrameIdle DEF Spent
  <2>3. CASE ~cb.modified
    <3>1. Retire(timer, cb.timer) /\ cb.timer \in Live \ {Dummy}
      BY <1>2, <2>1, <2>3 DEF EndCallback, IInv, Linkage
    <3>. QED  BY <1>2, <2>1, <3>1, RetireIdle DEF Spent
  <2>. QED  BY <2>2, <2>3
<1>. QED  BY <1>1, <1>2

\* A load changes permanent timers only.  What it brings that is off and holds an
\* instant is remembered.
LEMMA LoadIdle == IInv /\ IdleInv /\ (LoadState \/ LoadFails) => IdleInv'
<1>0. ASSUME IInv, IdleInv, phase = "top", UNCHANGED <<tlist, private>>,
             phase' # "callback",
             \A t \in Timers \ Handles : timer'[t] = timer[t]
      PROVE  /\ AnonymousArmed' /\ private = <<>> /\ ToSet(private) = {}
             /\ Live' = Live /\ Temporary \subseteq Timers \ Handles
  <2>1. private = <<>> /\ ToSet(private) = {} /\ Live' = Live
    BY <1>0 DEF IInv, Linkage, Restoring, ToSet, Live
  <2>2. Temporary \subseteq Timers \ Handles
    BY TimerQueueAssumption DEF Timers, Handles
  <2>. QED  BY <1>0, <2>1, <2>2 DEF IdleInv, AnonymousArmed, Spent
<1>1. ASSUME IInv, IdleInv, LoadState PROVE IdleInv'
  <2>1. PICK f \in files :
          /\ timer' = [t \in Timers |-> IF t \in Handles THEN f.timer[t]
                                                         ELSE timer[t]]
          /\ lapses' = IF \E t \in Handles :
                             ~f.timer[t].enabled /\ f.timer[t].expire # Never
                       THEN {"idle"} ELSE {}
    BY <1>1 DEF LoadState
  <2>2. /\ phase = "top" /\ phase' = "drain" /\ CanSave
        /\ UNCHANGED <<tlist, private>>
    BY <1>1 DEF LoadState
  <2>3. /\ AnonymousArmed' /\ ToSet(private) = {} /\ Live' = Live
        /\ Temporary \subseteq Timers \ Handles
    BY <1>0, <1>1, <2>1, <2>2
  <2>4. \A t \in Temporary \cap Live : timer'[t].expire = Never
    BY <2>1, <2>2, <2>3 DEF CanSave
  <2>5. "idle" \notin lapses' =>
          \A t \in Live : timer'[t].enabled \/ timer'[t].expire = Never
    <3>. SUFFICES ASSUME "idle" \notin lapses', NEW t \in Live
                  PROVE  timer'[t].enabled \/ timer'[t].expire = Never
      OBVIOUS
    <3>0. t \in Timers
      BY <1>1 DEF IInv, TypeOK, Live, ToSet
    <3>1. CASE t \in Handles
      BY <3>0, <3>1, <2>1
    <3>2. CASE t \in Temporary
      BY <2>4, <3>2
    <3>3. CASE t = Dummy
      <4>1. timer'[Dummy] = timer[Dummy]
        BY <2>1, TimerQueueAssumption DEF Timers, Handles
      <4>. QED  BY <1>1, <3>3, <4>1 DEF IInv, DummyArmed, NeverDue
    <3>. QED  BY <3>0, <3>1, <3>2, <3>3 DEF Timers, Handles
  <2>6. ~Garbled'
    BY <2>1 DEF Garbled
  <2>7. ReadWhole'
    BY <2>2, <2>3, <2>4, <2>5, <2>6 DEF ReadWhole
  <2>. QED  BY <2>2, <2>3, <2>7 DEF IdleInv, IdleBehindDummy
<1>2. ASSUME IInv, IdleInv, LoadFails PROVE IdleInv'
  <2>1. PICK f \in files, read \in SUBSET Handles :
          timer' = [t \in Timers |-> IF t \in read THEN f.timer[t] ELSE timer[t]]
    BY <1>2 DEF LoadFails
  <2>2. /\ phase = "top" /\ phase' = "top" /\ lapses' = {"read"}
        /\ UNCHANGED <<tlist, private>>
    BY <1>2 DEF LoadFails
  <2>3. AnonymousArmed'
    BY <1>0, <1>2, <2>1, <2>2
  <2>. QED  BY <2>2, <2>3 DEF IdleInv, IdleBehindDummy, ReadWhole, Restoring
<1>. QED  BY <1>1, <1>2

\* Through postload's two loops no timer changes: the file was read when no
\* anonymous one had an instant.
LEMMA PostloadFrame ==
  ASSUME IInv, IdleInv, Drain \/ DrainDone \/ Reinsert \/ ReinsertDone
  PROVE  /\ UNCHANGED <<timer, basetime, cb, files, lapses>>
         /\ Live' \cup ToSet(private') = Live \cup ToSet(private)
<1>1. CASE Drain
  <2>1. /\ phase = "drain" /\ tlist # <<>> /\ tlist' = Tail(tlist)
        /\ tlist \in Seq(Timers) /\ Distinct(tlist) /\ private \in Seq(Timers)
    BY <1>1 DEF Drain, IInv, TypeOK, Linkage, LinkedOnce
  <2>2. Head(tlist) \in Live /\ Live' = Live \ {Head(tlist)}
    BY <2>1, TailKeeps DEF Live
  <2>3. ~(Head(tlist) \in Temporary /\ timer[Head(tlist)].expire # Never)
    BY <2>1, <2>2 DEF IdleInv, ReadWhole, Restoring
  <2>4. private' = Append(private, Head(tlist)) /\ UNCHANGED timer
    BY <1>1, <2>3 DEF Drain
  <2>5. ToSet(private') = ToSet(private) \cup {Head(tlist)}
    <3>. DEFINE r == private'
    <3>1. /\ DOMAIN r = 1 .. Len(private) + 1 /\ DOMAIN private = 1 .. Len(private)
          /\ \A i \in 1 .. Len(private) : r[i] = private[i]
          /\ r[Len(private) + 1] = Head(tlist) /\ Len(private) \in Nat
      BY <2>1, <2>4
    <3>. HIDE DEF r
    <3>2. \A i \in DOMAIN r : i \in DOMAIN private \/ i = Len(private) + 1
      BY <3>1
    <3>3. Len(private) + 1 \in DOMAIN r
      BY <3>1
    <3>. QED  BY <3>1, <3>2, <3>3 DEF ToSet, r
  <2>. QED  BY <1>1, <2>2, <2>4, <2>5 DEF Drain
<1>2. CASE DrainDone \/ ReinsertDone
  BY <1>2 DEF DrainDone, ReinsertDone, Live
<1>3. CASE Reinsert
  <2>. DEFINE t == Head(private)
  <2>1. /\ private # <<>> /\ private' = Tail(private)
        /\ tlist' = InsertTimer(tlist, timer, t)
        /\ tlist \in Seq(Timers) /\ private \in Seq(Timers)
        /\ timer \in [Timers -> TimerRec]
        /\ Distinct(tlist) /\ Distinct(private) /\ Live \cap ToSet(private) = {}
    BY <1>3 DEF Reinsert, IInv, TypeOK, Linkage, LinkedOnce
  <2>2. /\ t \in ToSet(private) /\ t \in Timers
        /\ ToSet(private') = ToSet(private) \ {t}
    BY <2>1, TailKeeps
  <2>. HIDE DEF t
  <2>3. ToSet(InsertTimer(tlist, timer, t)) = ToSet(tlist) \cup {t}
    BY <2>1, <2>2, InsertTimerKeeps DEF Live
  <2>. QED  BY <1>3, <2>1, <2>2, <2>3 DEF Live, Reinsert
<1>. QED  BY <1>1, <1>2, <1>3

LEMMA PostloadIdle ==
  IInv /\ IdleInv /\ (Drain \/ DrainDone \/ Reinsert \/ ReinsertDone) => IdleInv'
<1>. SUFFICES ASSUME IInv, IdleInv, Drain \/ DrainDone \/ Reinsert \/ ReinsertDone
              PROVE  IdleInv'
  OBVIOUS
<1>1. /\ UNCHANGED <<timer, basetime, cb, files, lapses>>
      /\ Live' \cup ToSet(private') = Live \cup ToSet(private)
  BY PostloadFrame
<1>2. Restoring /\ phase # "callback" /\ phase' # "callback"
  BY DEF Restoring, Drain, DrainDone, Reinsert, ReinsertDone
<1>3. AnonymousArmed'
  BY <1>1, <1>2 DEF IdleInv, AnonymousArmed, Spent
<1>4. ReadWhole'
  BY <1>1, <1>2 DEF IdleInv, ReadWhole, Garbled
<1>5. IdleBehindDummy'
  <2>1. ASSUME NEW a, Before(tlist', a, Dummy) PROVE a \in Live'
    BY <2>1 DEF Before, Live, ToSet
  <2>2. "idle" \notin lapses =>
          \A t \in Live' : timer'[t].enabled \/ timer'[t].expire = Never
    BY <1>1, <1>2 DEF IdleInv, ReadWhole
  <2>. QED  BY <2>1, <2>2, <1>1 DEF IdleBehindDummy
<1>. QED  BY <1>3, <1>4, <1>5 DEF IdleInv

LEMMA NextIdle ==
  ASSUME IInv, IdleInv, [Next]_vars
  PROVE  IdleInv'
<1>1. \/ TimerOperation \/ TimesliceStep
      \/ BeginCallback \/ SkipDisabled \/ EndCallback
      \/ SaveState \/ LoadState \/ LoadFails
      \/ Drain \/ DrainDone \/ Reinsert \/ ReinsertDone
      \/ UNCHANGED vars
  BY DEF Next, TimesliceStep, AtHorizon
<1>. QED
  BY <1>1, OperationsIdle, TimesliceIdle, BeginCallbackIdle, CallbackIdle, LoadIdle,
     PostloadIdle

\* Only the timer being called back may be off and stand in front of an enabled one
\* that has an instant.
NoneOff ==
  phase # "drain" /\ lapses \cap {"read", "idle"} = {} =>
    \A a, b : Before(tlist, a, b) /\ timer[b].enabled /\ timer[b].expire # Never
                => timer[a].enabled \/ Spent(a)

LEMMA NoneOffInFront == IInv /\ IdleInv => NoneOff
<1>. SUFFICES ASSUME IInv, IdleInv,
                     phase # "drain", lapses \cap {"read", "idle"} = {},
                     NEW a, NEW b, Before(tlist, a, b),
                     timer[b].enabled, timer[b].expire # Never
              PROVE  timer[a].enabled \/ Spent(a)
  BY DEF NoneOff
<1>1. /\ OrderedList(tlist, timer) /\ tlist \in Seq(Timers) /\ Distinct(tlist)
      /\ timer \in [Timers -> TimerRec] /\ timer[Dummy] = NeverDue
  BY DEF IInv, TypeOK, Linkage, LinkedOnce, Sorted, Garbled, DummyArmed
<1>2. a \in Live /\ b \in Live /\ a \in Timers /\ b \in Timers
  BY <1>1 DEF Before, Live, ToSet
<1>3. timer[a].expire <= timer[b].expire /\ timer[b].expire < Never
      /\ timer[a].expire \in Nat /\ timer[b].expire \in Nat /\ Never \in Nat
  <2>1. timer[a].expire <= timer[b].expire
    BY <1>1, BeforeIsEarlier
  <2>2. timer[a].expire \in 0 .. Never /\ timer[b].expire \in 0 .. Never
    BY <1>1, <1>2 DEF TimerRec, Time
  <2>. QED  BY <2>1, <2>2, NeverAssumption
<1>4. CASE Restoring
  <2>1. timer[a].enabled \/ timer[a].expire = Never
    BY <1>2, <1>4 DEF IdleInv, ReadWhole
  <2>. QED  BY <2>1, <1>3
<1>5. CASE ~Restoring
  <2>1. Dummy \in ToSet(tlist)
    BY <1>5 DEF IInv, Linkage, LinkedOnce, Live, ToSet
  <2>2. ~Before(tlist, Dummy, b)
    <3>1. Before(tlist, Dummy, b) => timer[Dummy].expire <= timer[b].expire
      BY <1>1, BeforeIsEarlier
    <3>. QED  BY <3>1, <1>1, <1>3 DEF NeverDue
  <2>3. b # Dummy
    BY <1>1 DEF NeverDue
  <2>4. Before(tlist, b, Dummy)
    BY <1>1, <1>2, <2>1, <2>2, <2>3, BeforeIsTotal DEF Live
  <2>5. Before(tlist, a, Dummy)
    BY <1>1, <2>4, BeforeIsTotal
  <2>6. timer[a].enabled \/ timer[a].expire = Never \/ Spent(a)
    BY <2>5 DEF IdleInv, IdleBehindDummy
  <2>. QED  BY <2>6, <1>3
<1>. QED  BY <1>4, <1>5

\* Timers that are not armed are out of the way, for any timers, delays and periods:
\* the head of the list is the next timer to be called, unless it is being called
\* or a file brought it, and nothing but a callback ever holds up a save.
THEOREM IdleStandBack == Spec => []IdleOutOfTheWay
<1>1. IInv /\ IdleInv /\ [Next]_vars => IdleInv'
  BY NextIdle
<1>2. IInv /\ IdleInv => IdleOutOfTheWay
  <2>. SUFFICES ASSUME IInv, IdleInv PROVE IdleOutOfTheWay
    OBVIOUS
  <2>1. AnonymousPending
    BY DEF IdleInv, AnonymousArmed, AnonymousPending, Spent
  <2>2. DisabledLast
    <3>. SUFFICES ASSUME phase # "drain", lapses \cap {"read", "idle"} = {},
                         NEW i \in DOMAIN tlist, NEW j \in DOMAIN tlist, i < j,
                         timer[tlist[j]].enabled, timer[tlist[j]].expire # Never
                  PROVE  \/ timer[tlist[i]].enabled
                         \/ phase = "callback" /\ cb.timer = tlist[i]
      BY DEF DisabledLast
    <3>1. Before(tlist, tlist[i], tlist[j])
      BY DEF Before
    <3>. QED  BY <3>1, NoneOffInFront DEF NoneOff, Spent
  <2>. QED  BY <2>1, <2>2 DEF IdleOutOfTheWay
<1>. QED  BY <1>1, <1>2, InitIdle, Invariance, PTL DEF Spec

----------------------------------------------------------------------------
\* The end of a slice.

\* While devices run, the target is ahead of the base by no more than it should be:
\* it is not past an armed timer by more than an instruction, unless the device was
\* told to stop, and has not got past the timer yet.
AheadOfBase == phase \in {"slice", "execute"} => basetime <= target

SliceBounded ==
  lapses = {} /\ phase \in {"slice", "execute"} =>
    \/ target <= basetime
    \/ \A t \in Live : timer[t].enabled =>
         \/ target <= timer[t].expire + Overrun
         \/ phase = "execute" /\ aborted /\ local <= timer[t].expire

LEMMA NumberType ==
  ASSUME IInv
  PROVE  /\ basetime \in Nat /\ target \in Nat /\ local \in Nat /\ Now \in Nat
         /\ Overrun \in Nat /\ Never \in Nat /\ target < Never
         /\ timer \in [Timers -> TimerRec]
         /\ Live \subseteq Timers
         /\ \A t \in Timers : timer[t].expire \in Nat /\ timer[t].expire <= Never
<1>1. timer \in [Timers -> TimerRec] /\ Live \subseteq Timers
  BY DEF IInv, TypeOK, Live, ToSet
<1>2. \A t \in Timers : timer[t].expire \in 0 .. Never
  BY <1>1 DEF TimerRec, Time
<1>3. basetime \in 0 .. Never /\ target \in 0 .. Never /\ local \in 0 .. Never
      /\ Now \in 0 .. Never
  BY NowType DEF IInv, TypeOK, Time
<1>4. target < Never
  BY <1>3, SessionType, NeverAssumption DEF IInv, TypeOK, DummyArmed
<1>. QED  BY <1>1, <1>2, <1>3, <1>4, TimerQueueAssumption, NeverAssumption

\* A timer armed by the device in a slice ends the slice if it is the next one.  If
\* it is not, the next one has done so or bounds the slice as it is.
LEMMA ArmedSlice ==
  ASSUME IInv, IInv', NoneOff', SliceBounded, NEW t \in Timers, Armed(t)
  PROVE  SliceBounded'
<1>. SUFFICES ASSUME lapses' = {}, phase' \in {"slice", "execute"},
                     ~(target <= basetime),
                     NEW u \in Live', timer'[u].enabled
              PROVE  \/ target <= timer'[u].expire + Overrun
                     \/ phase = "execute" /\ aborted' /\ local <= timer'[u].expire
  BY DEF SliceBounded, Armed
<1>1. /\ phase = "execute" /\ phase' = "execute" /\ lapses = {} /\ Now = local
      /\ \A v \in Timers \ {t} : timer'[v] = timer[v]
      /\ Live' = Live \cup {t}
      /\ Now <= timer'[t].expire
      /\ aborted' = (aborted \/ Head(tlist') = t)
  BY DEF Armed, Moved, CodeRuns, Now
<1>2. /\ basetime \in Nat /\ target \in Nat /\ local \in Nat /\ Overrun \in Nat
      /\ target < Never /\ Never \in Nat
  BY NumberType
<1>3. /\ Live' \subseteq Timers
      /\ \A v \in Timers : timer'[v].expire \in Nat /\ timer'[v].expire <= Never
  <2>1. /\ Live' \subseteq Timers /\ timer' \in [Timers -> TimerRec]
    BY DEF IInv, TypeOK, Live, ToSet
  <2>2. \A v \in Timers : timer'[v].expire \in 0 .. Never
    BY <2>1 DEF TimerRec, Time
  <2>. QED  BY <2>1, <2>2, <1>2
\* a timer that was armed before
<1>4. ASSUME NEW v \in Live', v # t, timer'[v].enabled
      PROVE  \/ target <= timer'[v].expire + Overrun
             \/ aborted /\ local <= timer'[v].expire
  <2>1. v \in Live /\ timer'[v] = timer[v]
    BY <1>1, <1>3, <1>4
  <2>. QED  BY <2>1, <1>1, <1>4 DEF SliceBounded
<1>5. CASE u # t
  BY <1>1, <1>4, <1>5
<1>6. CASE u = t /\ Head(tlist') = t
  BY <1>1, <1>6
<1>7. CASE u = t /\ Head(tlist') # t /\ timer'[t].expire = Never
  BY <1>2, <1>7
<1>8. CASE u = t /\ Head(tlist') # t /\ timer'[t].expire # Never
  <2>0. PICK h : h = Head(tlist')
    OBVIOUS
  <2>1. /\ tlist' \in Seq(Timers) /\ Distinct(tlist') /\ OrderedList(tlist', timer')
        /\ Live' = ToSet(tlist')
    BY <1>1 DEF IInv, TypeOK, Linkage, LinkedOnce, Sorted, Garbled, Live
  <2>2. h \in Live'
    <3>1. tlist' # <<>>
      BY <2>1 DEF ToSet
    <3>. QED  BY <2>0, <2>1, <3>1, TailKeeps
  <2>3. h # t /\ ~Before(tlist', t, h)
    BY <1>8, <2>0, <2>1, BeforeIsTotal
  <2>4. Before(tlist', h, t)
    BY <1>8, <2>1, <2>2, <2>3, BeforeIsTotal
  <2>5. timer'[h].enabled
    <3>1. timer'[h].enabled \/ Spent(h)'
      BY <1>1, <1>8, <2>4 DEF NoneOff
    <3>. QED  BY <3>1, <1>1 DEF Spent
  <2>6. timer'[h].expire <= timer'[t].expire
    BY <1>8, <2>1, <2>4, BeforeIsEarlier
  <2>7. \/ target <= timer'[h].expire + Overrun
        \/ aborted /\ local <= timer'[h].expire
    BY <1>4, <2>2, <2>3, <2>5
  <2>8. h \in Timers
    BY <1>3, <2>2
  <2>9. CASE target <= timer'[h].expire + Overrun
    BY <1>2, <1>3, <1>8, <2>6, <2>8, <2>9
  <2>10. CASE aborted /\ local <= timer'[h].expire
    BY <1>1, <1>2, <1>3, <1>8, <2>6, <2>8, <2>10
  <2>. QED  BY <2>7, <2>9, <2>10
<1>. QED  BY <1>5, <1>6, <1>7, <1>8

\* The slice begins bounded by the next timer, and a device that returns early
\* moves the target no further than the end of its instruction.
LEMMA TimesliceSlice ==
  ASSUME IInv, SliceBounded, AheadOfBase,
         BeginSlice \/ EnterDevice \/ Execute \/ LeaveDevice
  PROVE  SliceBounded' /\ AheadOfBase'
<1>0. /\ basetime \in Nat /\ target \in Nat /\ local \in Nat /\ Overrun \in Nat
      /\ target < Never /\ Never \in Nat
      /\ timer \in [Timers -> TimerRec]
      /\ Live \subseteq Timers
      /\ \A t \in Timers : timer[t].expire \in Nat /\ timer[t].expire <= Never
  BY NumberType
<1>1. CASE BeginSlice
  <2>1. PICK quantum \in Quanta :
          target' = Lesser(Plus(basetime, quantum), HeadExpire)
    BY <1>1 DEF BeginSlice
  <2>2. quantum \in Nat \ {0} /\ HeadExpire \in Nat /\ HeadExpire <= Never
    <3>1. HeadExpire \in 0 .. Never
      BY <1>1, HeadExists DEF BeginSlice, Restoring, Time
    <3>. QED  BY <3>1, <1>0, TimerQueueAssumption
  <2>3. /\ phase' = "slice" /\ basetime < HeadExpire
        /\ UNCHANGED <<timer, tlist, basetime, lapses>>
    BY <1>1 DEF BeginSlice
  <2>4. target' <= HeadExpire /\ basetime <= target'
    BY <1>0, <2>1, <2>2, <2>3 DEF Lesser, Plus
  <2>5. ASSUME lapses = {}, NEW t \in Live, timer[t].enabled
        PROVE  HeadExpire <= timer[t].expire
    <3>1. OrderedList(tlist, timer) /\ tlist \in Seq(Timers)
      BY <1>1, <2>5 DEF IInv, TypeOK, Sorted, Garbled, BeginSlice
    <3>. QED  BY <3>1, <2>5, <1>0, HeadIsNext DEF HeadExpire, Live
  <2>6. target' \in Nat
    BY <1>0, <2>1, <2>2 DEF Lesser, Plus
  <2>7. ASSUME lapses = {}, NEW t \in Live, timer[t].enabled
        PROVE  target' <= timer[t].expire + Overrun
    <3>1. HeadExpire <= timer[t].expire /\ timer[t].expire \in Nat
      BY <2>5, <2>7, <1>0
    <3>. QED  BY <3>1, <2>2, <2>4, <2>6, <1>0
  <2>. QED  BY <2>3, <2>4, <2>7 DEF SliceBounded, AheadOfBase, Live
<1>2. CASE EnterDevice
  BY <1>2 DEF EnterDevice, SliceBounded, AheadOfBase, Live
<1>3. CASE Execute
  BY <1>3 DEF Execute, SliceBounded, AheadOfBase, Live
<1>4. CASE LeaveDevice
  <2>1. PICK final \in local .. local + Overrun :
          target' = IF final < target THEN Greater(final, basetime) ELSE target
    BY <1>4 DEF LeaveDevice
  <2>2. /\ phase = "execute" /\ phase' = "slice"
        /\ UNCHANGED <<timer, tlist, basetime, lapses>>
    BY <1>4 DEF LeaveDevice
  <2>3. final \in Nat /\ final <= local + Overrun /\ basetime <= target
    BY <1>0, <2>1, <2>2 DEF AheadOfBase
  <2>4. /\ target' \in Nat /\ basetime <= target'
        /\ target' <= target
        /\ target' <= basetime \/ target' <= final
    BY <1>0, <2>1, <2>3 DEF Greater
  <2>5. ASSUME lapses = {}, NEW t \in Live, timer[t].enabled, ~(target' <= basetime)
        PROVE  target' <= timer[t].expire + Overrun
    <3>1. timer[t].expire \in Nat
      BY <1>0
    <3>2. ~(target <= basetime)
      BY <1>0, <2>4, <2>5
    <3>3. \/ target <= timer[t].expire + Overrun
          \/ local <= timer[t].expire
      BY <2>2, <2>5, <3>2 DEF SliceBounded
    <3>. QED  BY <1>0, <2>3, <2>4, <2>5, <3>1, <3>3
  <2>. QED  BY <2>2, <2>4, <2>5 DEF SliceBounded, AheadOfBase, Live
<1>. QED  BY <1>1, <1>2, <1>3, <1>4

LEMMA NextSlice ==
  ASSUME IInv, IInv', NoneOff', SliceBounded, AheadOfBase, [Next]_vars
  PROVE  SliceBounded' /\ AheadOfBase'
<1>1. CASE TimerOperation
  <2>1. ASSUME NEW t \in Permanent, AllocTimer(t) PROVE SliceBounded' /\ AheadOfBase'
    BY <2>1 DEF AllocTimer, SliceBounded, AheadOfBase
  <2>2. ASSUME NEW t \in Permanent \cup Temporary, Armed(t)
        PROVE  SliceBounded' /\ AheadOfBase'
    <3>1. AheadOfBase'
      BY <2>2 DEF Armed, AheadOfBase
    <3>2. t \in Timers
      BY DEF Timers
    <3>. QED  BY <2>2, <3>1, <3>2, ArmedSlice
  <2>3. ASSUME NEW t \in Permanent, NEW flag \in BOOLEAN, Enable(t, flag), Moved(t)
        PROVE  SliceBounded' /\ AheadOfBase'
    <3>1. UNCHANGED <<basetime, target, local, aborted, phase>>
      BY <2>3 DEF Enable
    <3>2. AheadOfBase'
      BY <3>1 DEF AheadOfBase
    <3>3. CASE flag
      <4>1. lapses' = {} => phase # "execute" /\ CodeRuns
        BY <2>3, <3>3 DEF Enable
      <4>2. lapses' = {} => phase' \notin {"slice", "execute"}
        BY <4>1, <3>1 DEF CodeRuns
      <4>. QED  BY <3>2, <4>2 DEF SliceBounded
    <3>4. CASE ~flag
      <4>1. /\ timer \in [Timers -> TimerRec] /\ t \in Live
            /\ timer' = [timer EXCEPT ![t].enabled = flag] /\ lapses' = lapses
        BY <2>3, <3>4 DEF IInv, TypeOK, Enable, Handles
      <4>2. Live' = Live /\ Live \subseteq Timers
        BY <2>3, <4>1, NumberType DEF Moved
      <4>3. \A u \in Live : /\ timer'[u].enabled => timer[u].enabled
                            /\ timer'[u].expire = timer[u].expire
        BY <3>4, <4>1, <4>2 DEF TimerRec
      <4>. QED  BY <3>1, <3>2, <4>1, <4>2, <4>3 DEF SliceBounded
    <3>. QED  BY <3>3, <3>4
  <2>. QED  BY <1>1, <2>1, <2>2, <2>3, OperationMoves
<1>2. CASE BeginSlice \/ EnterDevice \/ Execute \/ LeaveDevice
  BY <1>2, TimesliceSlice
<1>3. CASE \/ BeginTimeslice \/ EndSlice \/ BeginTimers \/ EndTimers
           \/ BeginCallback \/ SkipDisabled \/ EndCallback
           \/ SaveState \/ LoadState \/ LoadFails
           \/ Drain \/ DrainDone \/ Reinsert \/ ReinsertDone
  <2>1. phase' \notin {"slice", "execute"}
    BY <1>3 DEF BeginTimeslice, EndSlice, BeginTimers, EndTimers, BeginCallback,
         SkipDisabled, EndCallback, SaveState, LoadState, LoadFails, Drain, DrainDone,
         Reinsert, ReinsertDone
  <2>. QED  BY <2>1 DEF SliceBounded, AheadOfBase
<1>4. CASE UNCHANGED vars
  BY <1>4 DEF vars, SliceBounded, AheadOfBase, Live
<1>. QED  BY <1>1, <1>2, <1>3, <1>4 DEF Next, AtHorizon

\* A slice ends at the next timer, even one that is armed during it, for any timers,
\* delays and quanta: the base passes the instant of no armed timer by more than the
\* instruction in progress, unless enable switched the timer on during the slice or
\* a file brought timers that are off and hold instants.
THEOREM SliceStops == Spec => SliceStopsAtTimer
<1>1. IInv /\ IdleInv /\ [Next]_vars => IdleInv'
  BY NextIdle
<1>2. IInv /\ IdleInv => NoneOff
  BY NoneOffInFront
<1>3. /\ IInv /\ IInv' /\ NoneOff' /\ SliceBounded /\ AheadOfBase /\ [Next]_vars
      => SliceBounded' /\ AheadOfBase'
  BY NextSlice
<1>4. Init => SliceBounded /\ AheadOfBase
  BY DEF Init, SliceBounded, AheadOfBase
<1>5. IInv /\ SliceBounded /\ [Next]_vars
      => [basetime' > basetime /\ phase = "slice" /\ lapses = {} =>
            \A t \in Live : timer[t].enabled =>
                               basetime' <= timer[t].expire + Overrun]_vars
  <2>. SUFFICES ASSUME IInv, SliceBounded, Next,
                       basetime' > basetime, phase = "slice", lapses = {},
                       NEW t \in Live, timer[t].enabled
                PROVE  basetime' <= timer[t].expire + Overrun
    OBVIOUS
  <2>0. basetime \in Nat /\ target \in Nat
    BY NumberType
  <2>1. basetime' # basetime
    BY <2>0
  <2>2. EndSlice
    BY <2>1 DEF Next, TimerOperation, AllocTimer, Adjust, ResetTimer, TimerPulse,
       TimerSet, AdjustIn, Enable, CodeRuns, BeginTimeslice, BeginSlice, EnterDevice,
       Execute, LeaveDevice, BeginTimers, BeginCallback, SkipDisabled, EndCallback,
       EndTimers, SaveState, LoadState, LoadFails, Drain, DrainDone, Reinsert,
       ReinsertDone, AtHorizon, vars
  <2>3. basetime' = target
    BY <2>2 DEF EndSlice
  <2>4. ~(target <= basetime)
    BY <2>0, <2>3
  <2>. QED  BY <2>3, <2>4 DEF SliceBounded
<1>. QED
  BY <1>1, <1>2, <1>3, <1>4, <1>5, InitIdle, Invariance, PTL
  DEF Spec, SliceStopsAtTimer

----------------------------------------------------------------------------
\* The alarm clock.

\* The state of the alarm clock that KeepsAppointments makes of the list.
Order == IF Restoring \/ Garbled THEN {}
         ELSE {p \in Tied(Timers, timer) : Before(tlist, p[1], p[2])}
Calling == IF phase = "callback"
           THEN [timer |-> cb.timer, active |-> TRUE, rearmed |-> cb.modified]
           ELSE [timer |-> Dummy, active |-> FALSE, rearmed |-> FALSE]
State == IF Restoring THEN "restoring" ELSE IF Garbled THEN "lost" ELSE "known"

\* The operators on time and timers mean the same on both sides.
LEMMA SameTimers ==
  /\ Service!Timers = Timers /\ Service!Time = Time /\ Service!TimerRec = TimerRec
  /\ Service!Idle = Idle /\ Service!NeverDue = NeverDue
  /\ \A rec : Service!OneShot(rec) <=> OneShot(rec)
  /\ \A a, b : Service!Plus(a, b) = Plus(a, b)
  /\ \A T, tm : Service!Tied(T, tm) = Tied(T, tm)
  BY DEF Service!Timers, Timers, Service!Time, Time, Service!TimerRec, TimerRec,
         Service!Idle, Idle, Service!NeverDue, NeverDue, Service!OneShot, OneShot,
         Service!Plus, Plus, Service!Tied, Tied

\* A permanent timer that was never handed out is as it was at the start, here and
\* in every file; timers are handed out before the first file is written.
Untouched ==
  /\ phase = "start" => files = {}
  /\ \A t \in Permanent \ (Live \cup ToSet(private)) :
       timer[t] = Idle /\ \A f \in files : f.timer[t] = Idle

LEMMA NextUntouched ==
  ASSUME IInv, IdleInv, Untouched, [Next]_vars
  PROVE  Untouched'
<1>. USE DEF Untouched
<1>0. Permanent \cap Temporary = {} /\ Permanent \subseteq Timers /\ Dummy \notin Permanent
  BY TimerQueueAssumption DEF Timers
<1>1. CASE TimerOperation
  <2>1. ASSUME NEW t \in Permanent \cup Temporary, Moved(t),
               UNCHANGED <<phase, private, files>>
        PROVE  Untouched'
    BY <2>1, <1>0 DEF Moved
  <2>. QED  BY <1>1, <2>1, OperationMoves DEF AllocTimer, Armed, Enable
<1>2. CASE TimesliceStep \/ UNCHANGED vars
  <2>1. /\ UNCHANGED <<timer, tlist, private, files>>
        /\ phase' = "start" => phase = "start"
    BY <1>2 DEF TimesliceStep, BeginTimeslice, BeginSlice, EnterDevice, Execute,
         LeaveDevice, EndSlice, BeginTimers, EndTimers, vars
  <2>. QED  BY <2>1 DEF Live
<1>3. CASE BeginCallback
  <2>1. /\ UNCHANGED <<tlist, private, files>> /\ phase' = "callback"
        /\ timer' = [timer EXCEPT ![Head(tlist)].enabled = ~OneShot(timer[Head(tlist)])]
        /\ Head(tlist) \in Live
    BY <1>3, HeadExists DEF BeginCallback, Restoring
  <2>2. \A u \in Permanent \ Live : timer'[u] = timer[u]
    BY <2>1, <1>0 DEF IInv, TypeOK
  <2>. QED  BY <2>1, <2>2 DEF Live
<1>4. ASSUME NEW t \in Live \ {Dummy}, Retire(timer, t), ~Restoring,
             UNCHANGED <<private, files>>, phase' # "start"
      PROVE  Untouched'
  <2>1. CASE t \in Permanent /\ Moved(t)
    BY <1>4, <2>1, <1>0 DEF Moved
  <2>2. CASE /\ t \in Temporary /\ timer' = [timer EXCEPT ![t] = Idle]
             /\ Live' = Live \ {t}
    BY <1>4, <2>2, <1>0 DEF IInv, TypeOK
  <2>. QED  BY <1>4, <2>1, <2>2, RetireMoves
<1>5. CASE SkipDisabled
  <2>1. /\ ~Restoring /\ HeadExpire <= basetime /\ phase' = "timers"
        /\ ~timer[Head(tlist)].enabled /\ Retire(timer, Head(tlist))
        /\ UNCHANGED <<private, files>>
    BY <1>5 DEF SkipDisabled, Restoring
  <2>2. Head(tlist) \in Live \ {Dummy}
    BY <2>1, HeadExists DEF IInv, DummyArmed, NeverDue
  <2>. QED  BY <1>4, <2>1, <2>2
<1>6. CASE EndCallback
  <2>1. /\ ~Restoring /\ phase = "callback" /\ phase' = "timers"
        /\ UNCHANGED <<private, files>>
        /\ UNCHANGED <<timer, tlist>> \/ Retire(timer, cb.timer)
    BY <1>6 DEF EndCallback, Restoring
  <2>2. cb.timer \in Live \ {Dummy}
    BY <2>1 DEF IInv, Linkage
  <2>. QED  BY <1>4, <2>1, <2>2 DEF Live
<1>7. CASE SaveState
  <2>1. /\ UNCHANGED <<timer, tlist, private>> /\ phase' = "top"
        /\ files' = files \cup {[timer |-> [t \in Permanent |-> timer[t]],
                                 base  |-> basetime]}
    BY <1>7 DEF SaveState
  <2>. QED  BY <2>1 DEF Live
<1>8. CASE LoadState \/ LoadFails
  <2>1. /\ UNCHANGED <<tlist, private, files>> /\ phase' # "start"
        /\ \A t \in Timers \ Handles : timer'[t] = timer[t]
    BY <1>8 DEF LoadState, LoadFails
  <2>. QED  BY <2>1, <1>0 DEF Live, Handles
<1>9. CASE Drain \/ DrainDone \/ Reinsert \/ ReinsertDone
  <2>1. phase' # "start"
    BY <1>9 DEF Drain, DrainDone, Reinsert, ReinsertDone
  <2>. QED  BY <1>9, <2>1, PostloadFrame
<1>. QED
  BY <1>1, <1>2, <1>3, <1>5, <1>6, <1>7, <1>8, <1>9 DEF Next, TimesliceStep, AtHorizon

\* While a file that was read half way has not been made up for, anything goes.
LEMMA GarbledStep ==
  ASSUME ~Restoring, ~Restoring', Garbled, Garbled',
         \/ files' = files
         \/ files' = files \cup {[timer |-> [t \in Permanent |-> timer[t]],
                                  base  |-> basetime]}
  PROVE  Service!Wander
BY DEF Service!Wander, Service!Written

\* What changes neither the timers nor who comes first is nothing to the users.
LEMMA SilentStep ==
  ASSUME UNCHANGED <<timer, Order, basetime, Calling, files, State>>
  PROVE  UNCHANGED Service!serviceVars
BY DEF Service!serviceVars, Order, Calling, State

\* Moving a timer puts it behind the others of its instant, as the clock does.
LEMMA MovedOrder ==
  ASSUME IInv, IInv', ~Restoring, ~Restoring', ~Garbled, ~Garbled',
         NEW t \in Timers, Moved(t)
  PROVE  Order' = Service!Queued(t)
<1>1. /\ Order = {p \in Tied(Timers, timer) : Before(tlist, p[1], p[2])}
      /\ Order' = {p \in Tied(Timers, timer') : Before(tlist', p[1], p[2])}
  BY DEF Order
<1>2. Service!Queued(t)
        = {p \in Tied(Timers, timer') : p[2] = t \/ (p[1] # t /\ p \in Order)}
  BY SameTimers DEF Service!Queued, Service!Ties, Order
<1>3. ASSUME NEW p \in Tied(Timers, timer')
      PROVE  Before(tlist', p[1], p[2]) <=> p[2] = t \/ (p[1] # t /\ p \in Order)
  <2>. DEFINE a == p[1]
              b == p[2]
  <2>1. /\ p \in Timers \X Timers /\ a \in Timers /\ b \in Timers /\ a # b
        /\ timer'[a].enabled /\ timer'[b].enabled
        /\ timer'[a].expire = timer'[b].expire
    BY DEF Tied
  <2>2. /\ tlist' \in Seq(Timers) /\ Distinct(tlist')
        /\ a \in ToSet(tlist') /\ b \in ToSet(tlist')
    BY <2>1 DEF IInv, TypeOK, Linkage, LinkedOnce, Live, ToSet
  <2>3. timer'[a].expire \in Nat
    <3>1. timer' \in [Timers -> TimerRec]
      BY DEF Moved
    <3>2. timer'[a].expire \in 0 .. Never
      BY <2>1, <3>1 DEF TimerRec, Time
    <3>. QED  BY <3>2, NeverAssumption
  <2>4. p \in Tied(Timers, timer) <=> /\ timer[a].enabled /\ timer[b].enabled
                                      /\ timer[a].expire = timer[b].expire
    BY <2>1 DEF Tied
  <2>5. p \in Order <=> p \in Tied(Timers, timer) /\ Before(tlist, a, b)
    BY <1>1
  <2>. HIDE DEF a, b
  <2>6. \A c : Before(tlist', t, c) /\ timer'[c].enabled
                 => SortKey(timer'[t]) < timer'[c].expire
    BY DEF Moved
  <2>7. CASE b = t
    <3>1. Before(tlist', t, a) => timer'[t].expire < timer'[a].expire
      BY <2>1, <2>6, <2>7 DEF SortKey
    <3>2. ~Before(tlist', b, a)
      BY <2>1, <2>3, <2>7, <3>1
    <3>3. Before(tlist', a, b)
      BY <2>1, <2>2, <3>2, BeforeIsTotal
    <3>. QED  BY <2>7, <3>3 DEF a, b
  <2>8. CASE a = t
    <3>1. Before(tlist', t, b) => timer'[t].expire < timer'[b].expire
      BY <2>1, <2>6, <2>8 DEF SortKey
    <3>2. ~Before(tlist', a, b)
      BY <2>1, <2>3, <2>8, <3>1
    <3>. QED  BY <2>1, <2>8, <3>2 DEF a, b
  <2>9. CASE a # t /\ b # t
    <3>1. timer'[a] = timer[a] /\ timer'[b] = timer[b]
      BY <2>1, <2>9 DEF Moved
    <3>2. Before(tlist', a, b) <=> Before(tlist, a, b)
      BY <2>9 DEF Moved
    <3>3. p \in Order <=> Before(tlist, a, b)
      BY <2>1, <2>4, <2>5, <3>1
    <3>. QED  BY <2>9, <3>2, <3>3 DEF a, b
  <2>. QED  BY <2>7, <2>8, <2>9
<1>. QED  BY <1>1, <1>2, <1>3

\* Telling the timer that is being called back something counts as re-arming it if
\* the timer is armed.
CallingRec == [timer : Timers, active : BOOLEAN, rearmed : BOOLEAN]

LEMMA CallingType ==
  ASSUME cb \in CbRec
  PROVE  /\ Calling \in CallingRec
         /\ Calling.active <=> phase = "callback"
         /\ phase = "callback" => /\ Calling.timer = cb.timer
                                  /\ Calling.rearmed = cb.modified
         /\ phase # "callback" => Calling.timer = Dummy /\ ~Calling.rearmed
  BY DEF Calling, CallingRec, CbRec, Timers

LEMMA CallingRearmed ==
  ASSUME cb \in CbRec, phase' = phase, NEW t, NEW rearm \in BOOLEAN,
         cb' \in CbRec, cb'.timer = cb.timer,
         cb'.modified <=> cb.modified \/ (rearm /\ phase = "callback" /\ cb.timer = t)
  PROVE  Calling' = [Calling EXCEPT !.rearmed =
                       @ \/ (rearm /\ Calling.active /\ Calling.timer = t)]
<1>. DEFINE m == Calling.rearmed \/ (rearm /\ Calling.active /\ Calling.timer = t)
            new == Calling'
<1>1. /\ Calling \in CallingRec /\ new \in CallingRec
      /\ new.timer = Calling.timer /\ new.active = Calling.active
  BY CallingType DEF Calling, CallingRec, CbRec, Timers
<1>2. new.rearmed = m
  <2>1. cb.modified \in BOOLEAN /\ cb'.modified \in BOOLEAN
    BY DEF CbRec
  <2>2. CASE phase = "callback"
    BY <2>1, <2>2, CallingType DEF Calling
  <2>3. CASE phase # "callback"
    BY <2>3, CallingType DEF Calling
  <2>. QED  BY <2>2, <2>3
<1>. HIDE DEF new, m
<1>3. new = [Calling EXCEPT !.rearmed = m]
  <2>1. m \in BOOLEAN
    BY <1>1, <1>2 DEF CallingRec
  <2>. HIDE DEF m
  <2>. QED  BY <1>1, <1>2, <2>1 DEF CallingRec
<1>. QED  BY <1>3 DEF new, m

\* alloc, adjust, reset, pulse, set and enable.
LEMMA OperationStep ==
  ASSUME IInv, IInv', IdleInv, Untouched, TimerOperation, ~Garbled
  PROVE  \/ UNCHANGED Service!serviceVars
         \/ \E t \in Permanent \cup Temporary : Service!Arm(t)
         \/ \E t \in Permanent, flag \in BOOLEAN : Service!Switch(t, flag)
<1>0. /\ Permanent \subseteq Timers \ {Dummy} /\ Temporary \subseteq Timers \ {Dummy}
      /\ timer \in [Timers -> TimerRec] /\ cb \in CbRec
  BY TimerQueueAssumption DEF Timers, IInv, TypeOK
<1>1. ASSUME NEW t \in Permanent, AllocTimer(t), Moved(t)
      PROVE  UNCHANGED Service!serviceVars
  <2>1. /\ ~Restoring /\ ~Restoring' /\ ~Garbled'
        /\ UNCHANGED <<private, basetime, cb, phase, files, lapses>>
        /\ timer' = [timer EXCEPT ![t] = Idle] /\ t \notin Live
    BY <1>1 DEF AllocTimer, Restoring, Garbled
  <2>2. timer[t] = Idle
    BY <2>1 DEF Untouched, IInv, Linkage, ToSet
  <2>3. timer' = timer
    BY <1>0, <2>1, <2>2
  <2>4. ASSUME NEW p \in Tied(Timers, timer)
        PROVE  Before(tlist', p[1], p[2]) <=> Before(tlist, p[1], p[2])
    <3>1. p[1] # t /\ p[2] # t
      BY <2>2 DEF Tied, Idle
    <3>. QED  BY <1>1, <3>1 DEF Moved
  <2>5. Order' = Order
    BY <2>1, <2>3, <2>4 DEF Order
  <2>6. Calling' = Calling /\ State' = State
    BY <2>1 DEF Calling, State, Restoring, Garbled
  <2>. QED  BY <2>1, <2>3, <2>5, <2>6, SilentStep
<1>2. ASSUME NEW t \in Permanent \cup Temporary, Armed(t) PROVE Service!Arm(t)
  <2>1. /\ ~Restoring /\ ~Restoring' /\ ~Garbled' /\ Moved(t) /\ t \in Timers
        /\ UNCHANGED <<basetime, phase, files, lapses>>
        /\ timer'[t].enabled
        /\ cb' = [cb EXCEPT !.modified = @ \/ (phase = "callback" /\ cb.timer = t)]
    BY <1>0, <1>2 DEF Armed, CodeRuns, Restoring, Garbled
  <2>2. /\ timer'[t] \in TimerRec
        /\ timer' = [timer EXCEPT ![t] = timer'[t]]
    <3>1. /\ timer' \in [Timers -> TimerRec]
          /\ \A u \in Timers \ {t} : timer'[u] = timer[u]
      BY <2>1 DEF Moved
    <3>. QED  BY <1>0, <2>1, <3>1
  <2>3. Order' = Service!Queued(t)
    BY <2>1, MovedOrder
  <2>4. Calling' = [Calling EXCEPT !.rearmed =
                      @ \/ (TRUE /\ Calling.active /\ Calling.timer = t)]
    <3>1. /\ cb' \in CbRec /\ cb'.timer = cb.timer /\ phase' = phase
          /\ cb'.modified <=> cb.modified
                               \/ (TRUE /\ phase = "callback" /\ cb.timer = t)
      BY <1>0, <2>1 DEF CbRec
    <3>2. TRUE \in BOOLEAN
      OBVIOUS
    <3>. QED  BY <1>0, <3>1, <3>2, CallingRearmed
  <2>5. State = "known" /\ State' = "known"
    BY <2>1 DEF State
  <2>6. Service!Tell(t, timer'[t], TRUE)
    BY <2>1, <2>2, <2>3, <2>4, <2>5 DEF Service!Tell, Order, Calling, State
  <2>. QED  BY <2>1, <2>2, <2>6, SameTimers DEF Service!Arm
<1>3. ASSUME NEW t \in Permanent, NEW flag \in BOOLEAN, Enable(t, flag), Moved(t)
      PROVE  Service!Switch(t, flag)
  <2>1. /\ ~Restoring /\ ~Restoring' /\ ~Garbled' /\ t \in Timers
        /\ UNCHANGED <<basetime, cb, phase, files>>
        /\ timer[t].enabled # flag
        /\ timer' = [timer EXCEPT ![t].enabled = flag]
    BY <1>0, <1>3 DEF Enable, CodeRuns, Restoring, Garbled
  <2>2. timer' = [timer EXCEPT ![t] = [timer[t] EXCEPT !.enabled = flag]]
    BY <1>0, <2>1
  <2>3. Order' = Service!Queued(t)
    BY <1>3, <2>1, MovedOrder
  <2>4. Calling' = [Calling EXCEPT !.rearmed =
                      @ \/ (FALSE /\ Calling.active /\ Calling.timer = t)]
    <3>1. /\ cb' \in CbRec /\ cb'.timer = cb.timer /\ phase' = phase
          /\ cb'.modified <=> cb.modified
                               \/ (FALSE /\ phase = "callback" /\ cb.timer = t)
      BY <1>0, <2>1
    <3>2. FALSE \in BOOLEAN
      OBVIOUS
    <3>. QED  BY <1>0, <3>1, <3>2, CallingRearmed
  <2>5. State = "known" /\ State' = "known"
    BY <2>1 DEF State
  <2>6. Service!Tell(t, [timer[t] EXCEPT !.enabled = flag], FALSE)
    BY <2>1, <2>2, <2>3, <2>4, <2>5 DEF Service!Tell, Order, Calling, State
  <2>. QED  BY <2>1, <2>6 DEF Service!Switch
<1>. QED  BY <1>1, <1>2, <1>3, OperationMoves

\* Running devices is nothing to the users of timers but the passing of time.
LEMMA TimesliceService ==
  ASSUME IInv, AheadOfBase, TimesliceStep, ~Garbled
  PROVE  UNCHANGED Service!serviceVars \/ Service!Advance
<1>1. /\ ~Restoring /\ ~Restoring' /\ ~Garbled'
      /\ phase # "callback" /\ phase' # "callback"
      /\ UNCHANGED <<timer, tlist, files>>
  BY DEF TimesliceStep, BeginTimeslice, BeginSlice, EnterDevice, Execute, LeaveDevice,
         EndSlice, BeginTimers, EndTimers, Restoring, Garbled
<1>2. Order' = Order /\ Calling' = Calling /\ State' = State
  BY <1>1 DEF Order, Calling, State
<1>3. CASE EndSlice
  <2>1. basetime' = target /\ basetime <= target /\ target \in Time
    BY <1>3 DEF EndSlice, AheadOfBase, IInv, TypeOK
  <2>2. basetime' \in {e \in Service!Time : e >= basetime}
    <3>1. basetime \in Nat /\ target \in Nat
      BY NumberType
    <3>. QED  BY <2>1, <3>1, SameTimers
  <2>. QED  BY <1>1, <1>2, <2>2 DEF Service!Advance, Order, Calling, State
<1>4. CASE ~EndSlice
  <2>1. UNCHANGED basetime
    BY <1>4 DEF TimesliceStep, BeginTimeslice, BeginSlice, EnterDevice, Execute,
                LeaveDevice, BeginTimers, EndTimers
  <2>. QED  BY <1>1, <1>2, <2>1, SilentStep
<1>. QED  BY <1>3, <1>4

\* The head of the list is the first timer of the clock.
LEMMA BeginCallbackService ==
  ASSUME IInv, IInv', BeginCallback, ~Garbled
  PROVE  \E t \in Timers : Service!CallBack(t)
<1>. DEFINE t == Head(tlist)
<1>1. /\ ~Restoring /\ ~Restoring' /\ ~Garbled' /\ HeadExpire <= basetime
      /\ phase = "timers" /\ phase' = "callback"
      /\ timer[t].enabled
      /\ timer' = [timer EXCEPT ![t].enabled = ~OneShot(timer[t])]
      /\ cb' = [timer |-> t, expire |-> timer[t].expire, modified |-> FALSE]
      /\ UNCHANGED <<tlist, basetime, files>>
  BY DEF BeginCallback, Restoring, Garbled
<1>2. /\ t \in Timers /\ timer \in [Timers -> TimerRec] /\ tlist \in Seq(Timers)
      /\ Distinct(tlist) /\ OrderedList(tlist, timer)
  BY <1>1, HeadExists DEF IInv, TypeOK, Linkage, LinkedOnce, Sorted, Restoring
<1>3. Service!First(t)
  <2>1. ASSUME NEW u \in Timers, timer[u].enabled
        PROVE  timer[t].expire <= timer[u].expire /\ <<u, t>> \notin Order
    <3>1. u \in ToSet(tlist)
      BY <1>1, <2>1 DEF IInv, Linkage, LinkedOnce, Live, ToSet
    <3>2. timer[t].expire <= timer[u].expire
      BY <1>2, <2>1, <3>1, HeadIsNext
    <3>3. ~Before(tlist, u, t)
      BY <1>2, BeforeIsTotal
    <3>. HIDE DEF t
    <3>. QED  BY <3>2, <3>3 DEF Order
  <2>. HIDE DEF t
  <2>. QED  BY <1>1, <2>1, SameTimers DEF Service!First, Order
<1>4. timer[t].expire <= basetime
  BY <1>1 DEF HeadExpire
<1>5. PICK h : h = t
  OBVIOUS
<1>. HIDE DEF t
<1>6. Order' = Order \cap Tied(Timers, timer')
  <2>1. Tied(Timers, timer') \subseteq Tied(Timers, timer)
    <3>1. \A u \in Timers : /\ timer'[u].enabled => timer[u].enabled
                            /\ timer'[u].expire = timer[u].expire
      BY <1>1, <1>2 DEF TimerRec
    <3>. QED  BY <3>1 DEF Tied
  <2>. QED  BY <1>1, <2>1 DEF Order
<1>7. Calling' = [timer |-> h, active |-> TRUE, rearmed |-> FALSE]
  BY <1>1, <1>5 DEF Calling
<1>8. ~Calling.active /\ State = "known" /\ State' = "known"
  BY <1>1 DEF Calling, State
<1>9. timer' = [timer EXCEPT ![h].enabled = ~Service!OneShot(timer[h])]
  BY <1>1, <1>5 DEF Service!OneShot, OneShot
<1>10. Service!CallBack(h)
  BY <1>1, <1>3, <1>4, <1>5, <1>6, <1>7, <1>8, <1>9, SameTimers
  DEF Service!CallBack, Service!Ties, Order, Calling, State
<1>. QED  BY <1>2, <1>5, <1>10

\* A disabled timer that is skipped, which is a permanent one, loses its instant.
LEMMA SkipService ==
  ASSUME IInv, IInv', IdleInv, SkipDisabled, ~Garbled
  PROVE  \E t \in Permanent : Service!Forget(t)
<1>0. PICK t : t = Head(tlist)
  OBVIOUS
<1>1. /\ ~Restoring /\ ~Restoring' /\ ~Garbled' /\ HeadExpire <= basetime
      /\ phase = "timers" /\ phase' = "timers"
      /\ ~timer[t].enabled /\ Retire(timer, t)
      /\ UNCHANGED <<private, basetime, cb, files>>
  BY <1>0 DEF SkipDisabled, Restoring, Garbled
<1>2. /\ t \in Live \ {Dummy} /\ t \in Timers /\ timer \in [Timers -> TimerRec]
  BY <1>0, <1>1, HeadExists DEF IInv, DummyArmed, NeverDue, TypeOK
<1>3. t \notin Temporary
  BY <1>1, <1>2 DEF IdleInv, AnonymousArmed, Spent
<1>4. /\ t \in Permanent /\ Moved(t)
      /\ timer' = [timer EXCEPT ![t].expire = Plus(timer[t].expire, timer[t].period)]
  BY <1>1, <1>2, <1>3, RetireMoves
<1>5. Plus(timer[t].expire, timer[t].period) \in Time
  BY <1>2, PlusType, TimeType DEF TimerRec
<1>6. Order' = Order
  <2>1. /\ \A u \in Timers \ {t} : timer'[u] = timer[u]
        /\ ~timer'[t].enabled
    BY <1>1, <1>2, <1>4 DEF TimerRec
  <2>2. Tied(Timers, timer') = Tied(Timers, timer)
    BY <1>1, <2>1 DEF Tied
  <2>3. ASSUME NEW p \in Tied(Timers, timer)
        PROVE  Before(tlist', p[1], p[2]) <=> Before(tlist, p[1], p[2])
    <3>1. p[1] # t /\ p[2] # t
      BY <1>1 DEF Tied
    <3>. QED  BY <1>4, <3>1 DEF Moved
  <2>. QED  BY <1>1, <2>2, <2>3 DEF Order
<1>7. Calling' = Calling /\ State = "known" /\ State' = State
  BY <1>1 DEF Calling, State
<1>8. \E e \in Service!Time : timer' = [timer EXCEPT ![t].expire = e]
  BY <1>4, <1>5, SameTimers
<1>9. Service!Forget(t)
  BY <1>1, <1>6, <1>7, <1>8 DEF Service!Forget, Order, Calling, State
<1>. QED  BY <1>4, <1>9

\* A callback returns.
LEMMA ReturnService ==
  ASSUME IInv, IInv', EndCallback, ~Garbled
  PROVE  Service!Return
<1>0. PICK t : t = cb.timer
  OBVIOUS
<1>1. /\ ~Restoring /\ ~Restoring' /\ ~Garbled'
      /\ phase = "callback" /\ phase' = "timers"
      /\ UNCHANGED <<private, basetime, files>>
      /\ IF cb.modified THEN UNCHANGED <<timer, tlist>> ELSE Retire(timer, t)
  BY <1>0 DEF EndCallback, Restoring, Garbled
<1>2. /\ t \in Live \ {Dummy} /\ t \in Timers /\ timer \in [Timers -> TimerRec]
      /\ Permanent \cap Temporary = {}
  BY <1>0, <1>1, TimerQueueAssumption DEF IInv, Linkage, TypeOK, CbRec
<1>3. /\ Calling.active /\ Calling.timer = t /\ Calling.rearmed = cb.modified
      /\ Calling' = Service!Idling /\ State = "known" /\ State' = "known"
  BY <1>0, <1>1 DEF Calling, State, Service!Idling
<1>4. CASE cb.modified
  <2>1. UNCHANGED timer /\ Order' = Order
    BY <1>1, <1>4 DEF Order
  <2>. QED  BY <1>1, <1>3, <1>4, <2>1 DEF Service!Return, Order, Calling, State
<1>5. CASE ~cb.modified
  <2>. DEFINE moved == [timer[t] EXCEPT !.expire = Service!Plus(@, timer[t].period)]
  <2>1. timer' = [timer EXCEPT ![t] = IF t \in Temporary THEN Service!Idle ELSE moved]
    <3>1. CASE t \in Permanent
      <4>1. timer' = [timer EXCEPT ![t].expire = Plus(@, timer[t].period)]
        BY <1>1, <1>2, <1>5, <3>1, RetireMoves
      <4>. QED  BY <1>2, <3>1, <4>1, SameTimers
    <3>2. CASE t \notin Permanent
      <4>1. timer' = [timer EXCEPT ![t] = Idle] /\ t \in Temporary
        BY <1>1, <1>2, <1>5, <3>2, RetireMoves
      <4>. QED  BY <4>1, SameTimers
    <3>. QED  BY <3>1, <3>2
  <2>2. Order' = Service!Queued(t)
    <3>1. CASE Moved(t)
      BY <1>1, <1>2, <3>1, MovedOrder
    <3>2. CASE /\ t \in Temporary
               /\ timer' = [timer EXCEPT ![t] = Idle]
               /\ Live' = Live \ {t}
               /\ \A a, b : Before(tlist', a, b)
                              <=> a # t /\ b # t /\ Before(tlist, a, b)
      <4>1. Service!Queued(t)
              = {p \in Tied(Timers, timer') : p[2] = t \/ (p[1] # t /\ p \in Order)}
        BY SameTimers DEF Service!Queued, Service!Ties, Order
      <4>2. /\ ~timer'[t].enabled
            /\ \A u \in Timers \ {t} : timer'[u] = timer[u]
        BY <1>2, <3>2 DEF Idle
      <4>3. ASSUME NEW p \in Tied(Timers, timer')
            PROVE  /\ p[1] # t /\ p[2] # t
                   /\ Before(tlist', p[1], p[2]) <=> p \in Order
        <5>1. /\ p \in Timers \X Timers /\ p[1] # p[2]
              /\ timer'[p[1]].enabled /\ timer'[p[2]].enabled
              /\ timer'[p[1]].expire = timer'[p[2]].expire
          BY DEF Tied
        <5>2. p[1] \in Timers \ {t} /\ p[2] \in Timers \ {t}
          BY <4>2, <5>1
        <5>3. p \in Tied(Timers, timer)
          BY <4>2, <5>1, <5>2 DEF Tied
        <5>4. Before(tlist', p[1], p[2]) <=> Before(tlist, p[1], p[2])
          BY <3>2, <5>2
        <5>5. p \in Order <=> Before(tlist, p[1], p[2])
          BY <1>1, <5>3 DEF Order
        <5>. QED  BY <5>2, <5>4, <5>5
      <4>4. Order' = {p \in Tied(Timers, timer') : Before(tlist', p[1], p[2])}
        BY <1>1 DEF Order
      <4>. QED  BY <4>1, <4>3, <4>4
    <3>. QED  BY <1>1, <1>2, <1>5, <3>1, <3>2, RetireMoves
  <2>. HIDE DEF moved
  <2>3. /\ ~Calling.rearmed
        /\ timer' = [timer EXCEPT ![Calling.timer] =
                       IF Calling.timer \in Temporary THEN Service!Idle ELSE moved]
        /\ Order' = Service!Queued(Calling.timer)
    BY <1>3, <1>5, <2>1, <2>2
  <2>4. moved = [timer[Calling.timer] EXCEPT
                   !.expire = Service!Plus(@, timer[Calling.timer].period)]
    BY <1>3 DEF moved
  <2>. QED  BY <1>1, <1>3, <2>3, <2>4 DEF Service!Return, Order, Calling, State
<1>. QED  BY <1>4, <1>5

\* State files: what is written, and what is read back, half of it or all.
LEMMA SaveService ==
  ASSUME SaveState, ~Garbled
  PROVE  Service!Save
<1>1. /\ ~Restoring /\ ~Restoring' /\ ~Garbled' /\ phase = "top" /\ phase' = "top"
      /\ UNCHANGED <<timer, tlist, basetime>>
      /\ files' = files \cup {[timer |-> [t \in Permanent |-> timer[t]],
                               base  |-> basetime]}
  BY DEF SaveState, Restoring, Garbled
<1>2. /\ Order' = Order /\ Calling' = Calling /\ ~Calling.active
      /\ State = "known" /\ State' = "known"
  BY <1>1 DEF Order, Calling, State
<1>. QED  BY <1>1, <1>2 DEF Service!Save, Service!Written, Order, Calling, State

LEMMA LoadService ==
  ASSUME IInv, Untouched, LoadState
  PROVE  Service!BeginRestore
<1>1. /\ ~Restoring /\ Restoring' /\ phase = "top" /\ phase' = "drain"
      /\ UNCHANGED files
  BY DEF LoadState, Restoring
<1>2. PICK f \in files :
        /\ timer' = [t \in Timers |-> IF t \in Handles THEN f.timer[t] ELSE timer[t]]
        /\ basetime' = f.base
  BY DEF LoadState
<1>3. /\ Order' = {} /\ Calling' = Calling /\ ~Calling.active
      /\ State # "restoring" /\ State' = "restoring"
  BY <1>1 DEF Order, Calling, State
<1>4. \A t \in Permanent \ Handles : timer[t] = f.timer[t]
  BY <1>1, <1>2 DEF IInv, Linkage, Untouched, ToSet, Handles
<1>5. timer' = [t \in Timers |-> IF t \in Permanent THEN f.timer[t] ELSE timer[t]]
  BY <1>2, <1>4 DEF Handles
<1>6. \E g \in files :
        /\ timer' = [t \in Service!Timers |-> IF t \in Permanent THEN g.timer[t]
                                                                ELSE timer[t]]
        /\ basetime' = g.base
  BY <1>2, <1>5, SameTimers
<1>. QED  BY <1>1, <1>3, <1>6 DEF Service!BeginRestore, Order, Calling, State

LEMMA LoseService ==
  ASSUME LoadFails
  PROVE  Service!Lose
<1>1. /\ ~Restoring /\ ~Restoring' /\ Garbled' /\ phase = "top" /\ phase' = "top"
      /\ UNCHANGED files
  BY DEF LoadFails, Restoring, Garbled
<1>2. \E f \in files, read \in SUBSET Permanent :
        timer' = [t \in Service!Timers |-> IF t \in read THEN f.timer[t] ELSE timer[t]]
  BY SameTimers DEF LoadFails, Handles
<1>3. /\ Calling' = Calling /\ ~Calling.active
      /\ State # "restoring" /\ State' = "lost"
  BY <1>1 DEF Calling, State
<1>. QED  BY <1>1, <1>2, <1>3 DEF Service!Lose, Calling, State

\* While postload rebuilds the list, the users see nothing.
LEMMA PostloadService ==
  ASSUME IInv, IdleInv, Drain \/ DrainDone \/ Reinsert
  PROVE  UNCHANGED Service!serviceVars
<1>1. /\ Restoring /\ Restoring' /\ phase # "callback" /\ phase' # "callback"
  BY DEF Drain, DrainDone, Reinsert, Restoring
<1>2. UNCHANGED <<timer, basetime, files>>
  BY PostloadFrame
<1>3. Order' = Order /\ Calling' = Calling /\ State' = State
  BY <1>1 DEF Order, Calling, State
<1>. QED  BY <1>2, <1>3, SilentStep

\* Once it is rebuilt, every timer that is armed has a place in it again.
LEMMA RebuiltService ==
  ASSUME IInv, IInv', IdleInv, ReinsertDone
  PROVE  Service!EndRestore
<1>1. /\ Restoring /\ ~Restoring' /\ phase = "reinsert" /\ phase' = "top"
      /\ UNCHANGED <<timer, tlist, private, basetime, cb, files, lapses>>
      /\ private = <<>>
  BY DEF ReinsertDone, Restoring
<1>2. ~Garbled /\ ~Garbled'
  BY <1>1 DEF IdleInv, ReadWhole, Garbled
<1>3. /\ State = "restoring" /\ State' = "known" /\ Calling' = Calling
      /\ Order' = {p \in Tied(Timers, timer') : Before(tlist', p[1], p[2])}
  BY <1>1, <1>2 DEF Order, Calling, State
<1>4. /\ tlist' \in Seq(Timers) /\ Distinct(tlist')
      /\ \A t \in Timers : timer'[t].enabled => t \in ToSet(tlist')
  BY <1>1 DEF IInv, TypeOK, Linkage, LinkedOnce, Live, ToSet
<1>5. \A p \in Tied(Timers, timer') : p \in Order' <=> <<p[2], p[1]>> \notin Order'
  <2>. SUFFICES ASSUME NEW p \in Tied(Timers, timer')
                PROVE  p \in Order' <=> <<p[2], p[1]>> \notin Order'
    OBVIOUS
  <2>. DEFINE a == p[1]
              b == p[2]
  <2>1. /\ a \in Timers /\ b \in Timers /\ a # b
        /\ a \in ToSet(tlist') /\ b \in ToSet(tlist')
        /\ <<b, a>> \in Tied(Timers, timer')
    BY <1>4 DEF Tied
  <2>2. p \in Order' <=> Before(tlist', a, b)
    BY <1>3
  <2>3. <<b, a>> \in Order' <=> Before(tlist', b, a)
    BY <1>3, <2>1
  <2>. HIDE DEF a, b
  <2>4. Before(tlist', a, b) <=> ~Before(tlist', b, a)
    BY <1>4, <2>1, BeforeIsTotal
  <2>. QED  BY <2>2, <2>3, <2>4 DEF a, b
<1>6. ASSUME NEW t \in Timers, NEW u \in Timers, NEW v \in Timers,
             <<t, u>> \in Order', <<u, v>> \in Order'
      PROVE  <<t, v>> \in Order'
  <2>1. /\ Before(tlist', t, u) /\ Before(tlist', u, v)
        /\ timer'[t].enabled /\ timer'[u].enabled /\ timer'[v].enabled
        /\ timer'[t].expire = timer'[u].expire /\ timer'[u].expire = timer'[v].expire
    BY <1>3, <1>6 DEF Tied
  <2>2. Before(tlist', t, v) /\ t # v
    BY <1>4, <2>1, BeforeIsTotal
  <2>. QED  BY <1>3, <2>1, <2>2 DEF Tied
<1>. QED
  BY <1>1, <1>3, <1>5, <1>6, SameTimers
  DEF Service!EndRestore, Service!Ties, Order, Calling, State

\* Every step of the list is one of the clock, or none.
LEMMA NextService ==
  ASSUME IInv, IInv', IdleInv, AheadOfBase, Untouched, [Next]_vars
  PROVE  [Service!Next]_(Service!serviceVars)
<1>1. CASE TimerOperation /\ ~Garbled
  BY <1>1, OperationStep DEF Service!Next
<1>2. CASE TimesliceStep /\ ~Garbled
  BY <1>2, TimesliceService DEF Service!Next
<1>3. CASE (BeginCallback \/ SkipDisabled \/ EndCallback) /\ ~Garbled
  BY <1>3, BeginCallbackService, SkipService, ReturnService, SameTimers
  DEF Service!Next
<1>4. CASE LoadState \/ LoadFails
  BY <1>4, LoadService, LoseService DEF Service!Next
<1>5. CASE Drain \/ DrainDone \/ Reinsert \/ ReinsertDone
  BY <1>5, PostloadService, RebuiltService DEF Service!Next
<1>6. CASE SaveState /\ ~Garbled
  BY <1>6, SaveService DEF Service!Next
<1>7. CASE UNCHANGED vars
  <2>1. /\ UNCHANGED <<timer, basetime, files>>
        /\ Order' = Order /\ Calling' = Calling /\ State' = State
    BY <1>7 DEF vars, Order, Calling, State, Restoring, Garbled
  <2>. QED  BY <2>1, SilentStep
<1>8. CASE /\ TimerOperation \/ TimesliceStep \/ BeginCallback \/ SkipDisabled
              \/ EndCallback \/ SaveState
           /\ Garbled
  <2>1. ~Restoring /\ ~Restoring' /\ Garbled'
    BY <1>8 DEF TimerOperation, AllocTimer, Adjust, ResetTimer, TimerPulse, TimerSet,
       AdjustIn, Enable, CodeRuns, TimesliceStep, BeginTimeslice, BeginSlice,
       EnterDevice, Execute, LeaveDevice, EndSlice, BeginTimers, EndTimers,
       BeginCallback, SkipDisabled, EndCallback, SaveState, Restoring, Garbled
  <2>2. \/ files' = files
        \/ files' = files \cup {[timer |-> [t \in Permanent |-> timer[t]],
                                 base  |-> basetime]}
    BY <1>8 DEF TimerOperation, AllocTimer, Adjust, ResetTimer, TimerPulse, TimerSet,
       AdjustIn, Enable, TimesliceStep, BeginTimeslice, BeginSlice,
       EnterDevice, Execute, LeaveDevice, EndSlice, BeginTimers, EndTimers,
       BeginCallback, SkipDisabled, EndCallback, SaveState
  <2>. QED  BY <1>8, <2>1, <2>2, GarbledStep DEF Service!Next
<1>. QED
  BY <1>1, <1>2, <1>3, <1>4, <1>5, <1>6, <1>7, <1>8 DEF Next, TimesliceStep, AtHorizon

LEMMA InitService == Init => Untouched /\ Service!Init
<1>. SUFFICES ASSUME Init PROVE Untouched /\ Service!Init
  OBVIOUS
<1>1. Untouched
  <2>1. Live = {Dummy} /\ Permanent \subseteq Timers \ {Dummy} /\ files = {}
        /\ timer = [t \in Timers |-> IF t = Dummy THEN NeverDue ELSE Idle]
    BY TimerQueueAssumption DEF Init, Live, ToSet, Timers
  <2>. QED  BY <2>1 DEF Untouched
<1>2. /\ timer = [t \in Service!Timers |-> IF t = Dummy THEN Service!NeverDue
                                                       ELSE Service!Idle]
      /\ basetime = 0 /\ files = {}
  BY SameTimers DEF Init
<1>3. Order = {} /\ Calling = Service!Idling /\ State = "known"
  <2>1. tlist = <<Dummy>> /\ phase = "start" /\ lapses = {}
    BY DEF Init
  <2>2. \A a, b : ~Before(tlist, a, b)
    BY <2>1 DEF Before
  <2>. QED
    BY <2>1, <2>2 DEF Order, Calling, State, Service!Idling, Restoring, Garbled
<1>. QED  BY <1>1, <1>2, <1>3 DEF Service!Init, Order, Calling, State

\* The list implements the alarm clock, for any timers, periods, delays, quanta and
\* sessions: users are called back at the instants they asked for, in order, in the
\* order of arming within one instant, never early, and every period counts from the
\* instant of the call and not from the call itself.
THEOREM Appointments == Spec => KeepsAppointments
<1>1. IInv /\ IdleInv /\ [Next]_vars => IdleInv'
  BY NextIdle
<1>2. IInv /\ IdleInv => NoneOff
  BY NoneOffInFront
<1>3. /\ IInv /\ IInv' /\ NoneOff' /\ SliceBounded /\ AheadOfBase /\ [Next]_vars
      => SliceBounded' /\ AheadOfBase'
  BY NextSlice
<1>4. Init => SliceBounded /\ AheadOfBase
  BY DEF Init, SliceBounded, AheadOfBase
<1>5. IInv /\ IdleInv /\ Untouched /\ [Next]_vars => Untouched'
  BY NextUntouched
<1>6. IInv /\ IInv' /\ IdleInv /\ AheadOfBase /\ Untouched /\ [Next]_vars
      => [Service!Next]_(Service!serviceVars)
  BY NextService
<1>. QED
  BY <1>1, <1>2, <1>3, <1>4, <1>5, <1>6, InitIdle, InitService, Invariance, PTL
  DEF Spec, KeepsAppointments, Service!Spec
=============================================================================
