------------------------- MODULE PolyManagerProofs -------------------------
(***************************************************************************)
(* What PolyManager promises, for any number of workers, buckets, units    *)
(* and polygons.  A unit that has not been drawn is in one place: in the   *)
(* queue, in the hands of one thread, or parked in the upper half of the   *)
(* word of the unit before it in its bucket.  So no unit is drawn twice,   *)
(* and none is forgotten: the first undrawn one cannot be parked.          *)
(***************************************************************************)
EXTENDS PolyManager, WellFoundedInduction, TLAPS

----------------------------------------------------------------------------
\* Numbers: remainders, bits and the greatest of a set.

LEMMA Division ==
  ASSUME NEW m \in Nat \ {0}, NEW a \in Nat
  PROVE  \E p \in Nat, r \in 0 .. m - 1 : a = m * p + r /\ a % m = r
<1>1. /\ a = m * (a \div m) + (a % m)
      /\ a % m \in 0 .. m - 1 /\ a \div m \in Nat
  OBVIOUS
<1>. QED  BY <1>1

LEMMA Multiples ==
  ASSUME NEW m \in Nat \ {0}, NEW p \in Nat, NEW q \in Nat, p < q
  PROVE  m * p + m <= m * q
<1>1. PICK k \in Nat : q = p + 1 + k
  <2>1. q - p - 1 \in Nat
    OBVIOUS
  <2>. QED  BY <2>1
<1>2. m * q = m * p + m + m * k
  BY <1>1
<1>3. m * k \in Nat /\ m * p \in Nat
  BY <1>1
<1>. QED  BY <1>2, <1>3

LEMMA DivisionUnique ==
  ASSUME NEW m \in Nat \ {0}, NEW p \in Nat, NEW q \in Nat,
         NEW r \in 0 .. m - 1, NEW s \in 0 .. m - 1, m * p + r = m * q + s
  PROVE  r = s
<1>1. /\ m * p \in Nat /\ m * q \in Nat
      /\ r \in Nat /\ s \in Nat /\ r < m /\ s < m
  OBVIOUS
<1>2. CASE p < q
  <2>1. m * p + m <= m * q
    BY <1>2, Multiples
  <2>. QED  BY <1>1, <2>1
<1>3. CASE q < p
  <2>1. m * q + m <= m * p
    BY <1>3, Multiples
  <2>. QED  BY <1>1, <2>1
<1>4. CASE p = q
  BY <1>1, <1>4
<1>. QED  BY <1>2, <1>3, <1>4

\* Two numbers with the same remainder are apart, and the next lower one has it.
LEMMA SameRemainder ==
  ASSUME NEW m \in Nat \ {0}, NEW a \in Nat, NEW b \in Nat
  PROVE  /\ b < a /\ b % m = a % m => b <= a - m
         /\ m <= a => (a - m) % m = a % m
<1>1. PICK p \in Nat, r \in 0 .. m - 1 : a = m * p + r /\ a % m = r
  BY Division
<1>2. ASSUME b < a, b % m = a % m PROVE b <= a - m
  <2>1. PICK q \in Nat, s \in 0 .. m - 1 : b = m * q + s /\ b % m = s
    BY Division
  <2>2. m * p \in Nat /\ m * q \in Nat /\ r = s /\ r \in Nat
    BY <1>1, <1>2, <2>1
  <2>3. CASE q < p
    BY <1>1, <2>1, <2>2, <2>3, Multiples
  <2>4. CASE p < q
    <3>1. m * p + m <= m * q
      BY <2>4, Multiples
    <3>. QED  BY <1>1, <1>2, <2>1, <2>2, <3>1
  <2>5. CASE p = q
    BY <1>1, <1>2, <2>1, <2>2, <2>5
  <2>. QED  BY <2>3, <2>4, <2>5
<1>3. ASSUME m <= a PROVE (a - m) % m = a % m
  <2>1. a - m \in Nat
    BY <1>3
  <2>2. PICK q \in Nat, s \in 0 .. m - 1 : a - m = m * q + s /\ (a - m) % m = s
    BY <2>1, Division
  <2>3. m * (q + 1) = m * q + m /\ m * q \in Nat /\ s \in Nat /\ q + 1 \in Nat
    OBVIOUS
  <2>4. m * p + r = m * (q + 1) + s
    BY <1>1, <2>2, <2>3
  <2>5. r = s
    BY <2>3, <2>4, DivisionUnique
  <2>. QED  BY <1>1, <2>2, <2>5
<1>. QED  BY <1>2, <1>3

LEMMA Greatest ==
  ASSUME NEW n \in Nat, NEW S \in SUBSET (0 .. n), S # {}
  PROVE  \E u \in S : \A v \in S : v <= u
<1>. DEFINE R == {ss \in Nat \X Nat : ss[1] < ss[2]}
            T == {n - u : u \in S}
<1>1. T \subseteq Nat /\ T # {}
  <2>1. \A u \in S : u \in 0 .. n
    OBVIOUS
  <2>2. \A u \in 0 .. n : n - u \in Nat
    OBVIOUS
  <2>. QED  BY <2>1, <2>2
<1>2. IsWellFoundedOn(R, Nat)
  BY NatLessThanWellFounded DEF OpToRel
<1>3. \E x \in T : \A y \in T : ~(<<y, x>> \in R)
  <2>. HIDE DEF R, T
  <2>. QED  BY <1>1, <1>2, WFMin
<1>4. PICK x \in T : \A y \in T : ~(<<y, x>> \in R)
  BY <1>3
<1>5. PICK u \in S : x = n - u
  OBVIOUS
<1>6. ASSUME NEW v \in S PROVE v <= u
  <2>1. n - v \in T /\ n - v \in Nat /\ n - u \in Nat /\ u \in 0 .. n /\ v \in 0 .. n
    OBVIOUS
  <2>2. ~(<<n - v, n - u>> \in R)
    BY <1>4, <1>5, <2>1
  <2>3. ~(n - v < n - u)
    BY <2>1, <2>2
  <2>. QED  BY <2>1, <2>3
<1>. QED  BY <1>6

\* What is left of a number when its last bit is known as well.
LEMMA Halves ==
  /\ \A c, d \in Nat : c % 2 = d % 2 /\ c \div 2 = d \div 2 => c = d
  /\ \A c \in Nat, m \in Nat \ {0} : /\ c \div m \in Nat
                                     /\ (c \div m) \div 2 = c \div (2 * m)
<1>1. ASSUME NEW c \in Nat, NEW d \in Nat, c % 2 = d % 2, c \div 2 = d \div 2
      PROVE  c = d
  BY <1>1
<1>2. ASSUME NEW c \in Nat, NEW m \in Nat \ {0}
      PROVE  c \div m \in Nat /\ (c \div m) \div 2 = c \div (2 * m)
  OBVIOUS
<1>. QED  BY <1>1, <1>2

LEMMA NextBit ==
  ASSUME NEW b \in Nat, NEW c \in Nat, NEW w \in Nat \ {0},
         HasBit(c, w) <=> HasBit(b, w), c \div (2 * w) = b \div (2 * w)
  PROVE  c \div w = b \div w
<1>1. c \div w \in Nat /\ b \div w \in Nat /\ (c \div w) \div 2 = (b \div w) \div 2
  BY Halves
<1>2. (c \div w) % 2 = (b \div w) % 2
  BY <1>1 DEF HasBit
<1>. QED  BY <1>1, <1>2, Halves

\* The bits of a number of at most 16 bits tell it from all others.
LEMMA BitsTell ==
  ASSUME NEW b \in Nat, NEW c \in Nat, b < 65536, c < 65536,
         \A w \in Powers : HasBit(c, w) <=> HasBit(b, w)
  PROVE  c = b
<1>. DEFINE Same(w) == c \div w = b \div w
<1>1. \A w \in Powers : w \in Nat \ {0}
  BY DEF Powers
<1>2. ASSUME NEW w \in Powers, NEW v, v = 2 * w, Same(v) PROVE Same(w)
  <2>1. w \in Nat \ {0} /\ (HasBit(c, w) <=> HasBit(b, w))
    BY <1>1
  <2>2. c \div (2 * w) = b \div (2 * w)
    BY <1>2
  <2>. QED  BY <2>1, <2>2, NextBit
<1>3. Same(65536)
  OBVIOUS
<1>4. Same(1) => c = b
  OBVIOUS
<1>. HIDE DEF Same
<1>5. Same(32768)
  BY <1>2, <1>3 DEF Powers
<1>6. Same(16384)
  BY <1>2, <1>5 DEF Powers
<1>7. Same(8192)
  BY <1>2, <1>6 DEF Powers
<1>8. Same(4096)
  BY <1>2, <1>7 DEF Powers
<1>9. Same(2048)
  BY <1>2, <1>8 DEF Powers
<1>10. Same(1024)
  BY <1>2, <1>9 DEF Powers
<1>11. Same(512)
  BY <1>2, <1>10 DEF Powers
<1>12. Same(256)
  BY <1>2, <1>11 DEF Powers
<1>13. Same(128)
  BY <1>2, <1>12 DEF Powers
<1>14. Same(64)
  BY <1>2, <1>13 DEF Powers
<1>15. Same(32)
  BY <1>2, <1>14 DEF Powers
<1>16. Same(16)
  BY <1>2, <1>15 DEF Powers
<1>17. Same(8)
  BY <1>2, <1>16 DEF Powers
<1>18. Same(4)
  BY <1>2, <1>17 DEF Powers
<1>19. Same(2)
  BY <1>2, <1>18 DEF Powers
<1>20. Same(1)
  BY <1>2, <1>19 DEF Powers
<1>. QED  BY <1>4, <1>20

LEMMA OrZero ==
  ASSUME NEW b \in Nat, b < 65536
  PROVE  Or(0, b) = b
<1>1. \A w \in Powers : ~HasBit(0, w)
  BY DEF Powers, HasBit
<1>2. ASSUME NEW c \in 0 .. 0 + b,
             \A w \in Powers : HasBit(c, w) <=> HasBit(0, w) \/ HasBit(b, w)
      PROVE  c = b
  <2>1. c \in Nat /\ c < 65536
    OBVIOUS
  <2>2. \A w \in Powers : HasBit(c, w) <=> HasBit(b, w)
    BY <1>1, <1>2
  <2>. QED  BY <2>1, <2>2, BitsTell
<1>3. b \in 0 .. 0 + b
  OBVIOUS
<1>4. \A w \in Powers : HasBit(b, w) <=> HasBit(0, w) \/ HasBit(b, w)
  BY <1>1
<1>. QED  BY <1>2, <1>3, <1>4 DEF Or

----------------------------------------------------------------------------
\* The inductive invariant.

\* The units that have been made since the last wait.
MadeUnits == 0 .. units - 1

SameBucket(u, v) == unit[u].bucket = unit[v].bucket

\* Each unit names the one made before it in its bucket, and each bucket the last one.
Chained ==
  /\ \A u \in MadeUnits :
       /\ unit[u].prev # NoUnit => /\ unit[u].prev \in MadeUnits /\ unit[u].prev < u
                                   /\ SameBucket(unit[u].prev, u)
       /\ \A v \in MadeUnits : v < u /\ SameBucket(v, u)
                                 => unit[u].prev # NoUnit /\ v <= unit[u].prev
  /\ \A b \in 0 .. Buckets - 1 :
       /\ bucket[b] # NoUnit => bucket[b] \in MadeUnits /\ unit[bucket[b]].bucket = b
       /\ \A u \in MadeUnits : unit[u].bucket = b
                                 => bucket[b] # NoUnit /\ u <= bucket[b]

\* A unit that has been drawn counts nothing any more, and comes after the others of
\* its bucket.
DrawnInOrder ==
  \A u \in MadeUnits :
    /\ unit[u].drawn \in {0, 1} /\ (unit[u].count = 0 <=> unit[u].drawn = 1)
    /\ unit[u].drawn = 1 => \A v \in MadeUnits : v < u /\ SameBucket(v, u)
                                                   => unit[v].drawn = 1

Holds(t, u) == pc[t] # "idle" /\ cur[t] = u
Queued(u) == \E i \in DOMAIN queue : queue[i] = u
Unlinked(u) == unit[u].prev = NoUnit \/ unit[unit[u].prev].next = 0

\* u waits for the thread that draws the one before it.
Parked(u) ==
  /\ unit[u].prev # NoUnit /\ unit[unit[u].prev].drawn = 0
  /\ unit[unit[u].prev].next = u

\* A unit that is not drawn yet is in one place: in the queue, in the hands of one
\* thread, or parked, so that one thread will draw it.
QueuedOnce == \A i, j \in DOMAIN queue : queue[i] = queue[j] => i = j

QueuedIsFree ==
  \A u \in Units : Queued(u) => /\ u \in MadeUnits /\ unit[u].drawn = 0 /\ Unlinked(u)
                                /\ \A t \in Threads : ~Holds(t, u)

HeldByOne ==
  \A t \in Threads, u \in Units : Holds(t, u) =>
    /\ u \in MadeUnits /\ unit[u].drawn = 0
    /\ \A s \in Threads : Holds(s, u) => s = t
    /\ pc[t] # "draw" => Unlinked(u)
    /\ pc[t] = "link" => unit[u].prev # NoUnit
    /\ pc[t] = "draw" => \A v \in MadeUnits : v < u /\ SameBucket(v, u) => unit[v].drawn = 1

HasOwner ==
  hasQueue \/ waiting =>
    \A u \in MadeUnits : unit[u].drawn = 0 =>
      Queued(u) \/ Parked(u) \/ \E t \in Threads : Holds(t, u)

OneOwner == QueuedOnce /\ QueuedIsFree /\ HeldByOne /\ HasOwner

\* Who is linked behind a unit is the next one of its bucket.
LinkedInOrder ==
  \A v \in Units : unit[v].next # 0 =>
    unit[v].next \in MadeUnits /\ unit[unit[v].next].prev = v

\* Without a queue nothing happens before the wait.
NothingRuns ==
  ~hasQueue /\ ~waiting =>
    /\ queue = <<>> /\ \A t \in Threads : pc[t] = "idle"
    /\ \A u \in MadeUnits : unit[u].drawn = 0
    /\ \A u \in Units : unit[u].next = 0

DataKept ==
  /\ object # <<>> => supplied = object[Len(object)]
  /\ \A u \in MadeUnits : /\ unit[u].object \in 1 .. Len(object)
                          /\ object[unit[u].object] = unit[u].data

IInv == /\ TypeOK /\ Chained /\ DrawnInOrder /\ OneOwner /\ LinkedInOrder /\ NothingRuns
        /\ DataKept

UnitRec == [count : {0, 1}, next : Units, prev : Units \cup {NoUnit},
            bucket : 0 .. Buckets - 1, object : 1 .. MaxPolys, data : Data,
            drawn : 0 .. 2]

\* The facts about numbers and types that the steps below use.
LEMMA UnitFacts ==
  /\ NoUnit \notin Units /\ Units \subseteq Nat /\ 0 \in Units /\ UnitCount \in Nat
  /\ Buckets \in Nat \ {0} /\ MaxPolys \in Nat \ {0, 1} /\ Main \in Threads
  /\ \A u \in Units : u \in Nat /\ u < 65536
<1>1. UnitCount \in Nat /\ UnitCount >= 3 /\ UnitCount <= 65535
  BY PolyManagerAssumption
<1>2. NoUnit \notin Units /\ Units \subseteq Nat /\ 0 \in Units
  BY <1>1 DEF NoUnit, Units
<1>3. \A u \in Units : u \in Nat /\ u < 65536
  BY <1>1 DEF Units
<1>4. Buckets \in Nat \ {0} /\ MaxPolys \in Nat \ {0, 1}
  BY PolyManagerAssumption
<1>. QED  BY <1>1, <1>2, <1>3, <1>4 DEF Threads

LEMMA TypeFacts ==
  ASSUME TypeOK
  PROVE  /\ unit \in [Units -> UnitRec]
         /\ units \in Nat /\ MadeUnits \subseteq Units /\ MadeUnits \subseteq Nat
         /\ queue \in Seq(Units) /\ cur \in [Threads -> Units]
         /\ pc \in [Threads -> {"idle", "look", "link", "draw"}]
         /\ hasQueue \in BOOLEAN /\ waiting \in BOOLEAN
         /\ \A i \in DOMAIN queue : queue[i] \in Units
<1>1. unit \in [Units -> UnitRec]
  BY DEF TypeOK, UnitRec
<1>2. /\ queue \in Seq(Units) /\ cur \in [Threads -> Units]
      /\ pc \in [Threads -> {"idle", "look", "link", "draw"}]
      /\ hasQueue \in BOOLEAN /\ waiting \in BOOLEAN
  BY DEF TypeOK
<1>3. \A i \in DOMAIN queue : queue[i] \in Units
  BY <1>2
<1>4. units \in 0 .. UnitCount - 1 /\ UnitCount \in Nat
  BY UnitFacts DEF TypeOK
<1>5. units \in Nat /\ MadeUnits \subseteq Units /\ MadeUnits \subseteq Nat
  BY <1>4 DEF MadeUnits, Units
<1>. QED  BY <1>1, <1>2, <1>3, <1>5

\* A unit has one successor in its bucket.
LEMMA OneSuccessor ==
  ASSUME TypeOK, Chained, NEW u \in MadeUnits, NEW v \in MadeUnits,
         unit[u].prev # NoUnit, unit[u].prev = unit[v].prev
  PROVE  u = v
<1>1. /\ unit[u].prev \in MadeUnits /\ unit[u].prev < u /\ unit[u].prev < v
      /\ SameBucket(unit[u].prev, u) /\ SameBucket(unit[v].prev, v)
      /\ unit[u].prev \in Nat /\ u \in Nat /\ v \in Nat
  BY TypeFacts DEF Chained
<1>2. SameBucket(u, v) /\ SameBucket(v, u)
  BY <1>1 DEF SameBucket
<1>3. u < v => u <= unit[v].prev
  BY <1>2 DEF Chained
<1>4. v < u => v <= unit[u].prev
  BY <1>2 DEF Chained
<1>. QED  BY <1>1, <1>3, <1>4

\* Once all is quiet, the first unit that is not drawn would be with somebody.
LEMMA QuietIsDrawn ==
  ASSUME IInv, Quiet, hasQueue \/ waiting, NEW u \in MadeUnits
  PROVE  unit[u].drawn = 1
<1>. DEFINE Left == {v \in MadeUnits : unit[v].drawn = 0}
            R == {ss \in Nat \X Nat : ss[1] < ss[2]}
<1>1. TypeOK /\ Left \subseteq Nat
  BY TypeFacts DEF IInv
<1>2. SUFFICES ASSUME Left # {} PROVE FALSE
  BY DEF IInv, DrawnInOrder
<1>3. IsWellFoundedOn(R, Nat)
  BY NatLessThanWellFounded DEF OpToRel
<1>4. \E x \in Left : \A y \in Left : ~(<<y, x>> \in R)
  <2>. HIDE DEF R, Left
  <2>. QED  BY <1>1, <1>2, <1>3, WFMin
<1>5. PICK x \in Left : \A y \in Left : ~(<<y, x>> \in R)
  BY <1>4
<1>6. x \in MadeUnits /\ unit[x].drawn = 0 /\ x \in Nat
  BY <1>1
<1>7. Parked(x)
  BY <1>6 DEF IInv, OneOwner, HasOwner, Quiet, Queued, Holds
<1>8. unit[x].prev \in Left /\ unit[x].prev < x /\ unit[x].prev \in Nat
  BY <1>1, <1>6, <1>7 DEF IInv, Chained, Parked
<1>. QED  BY <1>5, <1>6, <1>8

LEMMA Consequences == IInv => DrawnAsRendered
<1>. SUFFICES ASSUME IInv PROVE DrawnAsRendered
  OBVIOUS
<1>1. TypeOK
  BY DEF IInv
<1>2. InOrder
  <2>1. ASSUME NEW t \in Threads, pc[t] = "draw",
               NEW u \in 0 .. cur[t] - 1, unit[u].bucket = unit[cur[t]].bucket
        PROVE  unit[u].drawn = 1
    <3>1. /\ cur[t] \in Units /\ Holds(t, cur[t]) /\ cur[t] \in MadeUnits
          /\ units \in Nat /\ cur[t] \in Nat
      BY <1>1, <2>1, TypeFacts DEF Holds, IInv, OneOwner, HeldByOne
    <3>2. u \in MadeUnits /\ u < cur[t] /\ SameBucket(u, cur[t])
      BY <2>1, <3>1 DEF MadeUnits, SameBucket
    <3>. QED  BY <2>1, <3>1, <3>2 DEF IInv, OneOwner, HeldByOne
  <2>. QED  BY <2>1 DEF InOrder
<1>3. AllDrawn
  <2>1. \A u \in 0 .. units - 1 : unit[u].drawn <= 1
    BY DEF IInv, DrawnInOrder, MadeUnits
  <2>2. (IF hasQueue THEN Quiet ELSE waiting /\ Quiet)
          => \A u \in 0 .. units - 1 : unit[u].drawn = 1
    BY QuietIsDrawn DEF MadeUnits
  <2>. QED  BY <2>1, <2>2 DEF AllDrawn
<1>4. ObjectKept
  <2>1. ASSUME NEW t \in Threads, pc[t] = "draw"
        PROVE  cur[t] \in MadeUnits
    BY <1>1, <2>1, TypeFacts DEF Holds, IInv, OneOwner, HeldByOne
  <2>. QED  BY <2>1 DEF ObjectKept, IInv, DataKept
<1>. QED  BY <1>1, <1>2, <1>3, <1>4 DEF DrawnAsRendered

----------------------------------------------------------------------------
\* What the steps of the workers leave alone.

SameUnits ==
  /\ units' = units /\ bucket' = bucket /\ object' = object /\ supplied' = supplied
  /\ \A u \in Units :
       /\ unit'[u].prev = unit[u].prev /\ unit'[u].bucket = unit[u].bucket
       /\ unit'[u].object = unit[u].object /\ unit'[u].data = unit[u].data

LEMMA ChainedKept ==
  ASSUME TypeOK, Chained, SameUnits
  PROVE  Chained' /\ \A u, v \in Units : SameBucket(u, v)' <=> SameBucket(u, v)
<1>1. MadeUnits' = MadeUnits /\ MadeUnits \subseteq Units
  BY TypeFacts DEF SameUnits, MadeUnits
<1>2. \A u, v \in Units : SameBucket(u, v)' <=> SameBucket(u, v)
  BY DEF SameUnits, SameBucket
<1>3. ASSUME NEW u \in MadeUnits
      PROVE  /\ unit'[u].prev # NoUnit => /\ unit'[u].prev \in MadeUnits /\ unit'[u].prev < u
                                          /\ unit'[unit'[u].prev].bucket = unit'[u].bucket
             /\ \A v \in MadeUnits : v < u /\ unit'[v].bucket = unit'[u].bucket
                                       => unit'[u].prev # NoUnit /\ v <= unit'[u].prev
  <2>1. unit'[u].prev = unit[u].prev /\ u \in Units
    BY <1>1 DEF SameUnits
  <2>2. unit[u].prev # NoUnit => /\ unit[u].prev \in MadeUnits /\ unit[u].prev < u
                                 /\ unit[unit[u].prev].bucket = unit[u].bucket
    BY DEF Chained, SameBucket
  <2>3. ASSUME unit[u].prev # NoUnit
        PROVE  unit'[unit[u].prev].bucket = unit'[u].bucket
    BY <1>1, <2>1, <2>2, <2>3 DEF SameUnits
  <2>4. \A v \in MadeUnits : v < u /\ unit'[v].bucket = unit'[u].bucket
                               => unit[u].prev # NoUnit /\ v <= unit[u].prev
    <3>1. \A v \in MadeUnits : unit'[v].bucket = unit[v].bucket
      BY <1>1 DEF SameUnits
    <3>. QED  BY <3>1 DEF Chained, SameBucket
  <2>. QED  BY <2>1, <2>2, <2>3, <2>4
<1>4. ASSUME NEW b \in 0 .. Buckets - 1
      PROVE  /\ bucket'[b] # NoUnit => bucket'[b] \in MadeUnits /\ unit'[bucket'[b]].bucket = b
             /\ \A u \in MadeUnits : unit'[u].bucket = b
                                       => bucket'[b] # NoUnit /\ u <= bucket'[b]
  <2>1. bucket' = bucket /\ \A u \in MadeUnits : unit'[u].bucket = unit[u].bucket
    BY <1>1 DEF SameUnits
  <2>2. /\ bucket[b] # NoUnit => bucket[b] \in MadeUnits /\ unit[bucket[b]].bucket = b
        /\ \A u \in MadeUnits : unit[u].bucket = b
                                  => bucket[b] # NoUnit /\ u <= bucket[b]
    BY DEF Chained
  <2>. QED  BY <2>1, <2>2
<1>. QED
  <2>1. \A u \in MadeUnits : /\ unit'[u].prev # NoUnit
                                  => /\ unit'[u].prev \in MadeUnits /\ unit'[u].prev < u
                                     /\ unit'[unit'[u].prev].bucket = unit'[u].bucket
                             /\ \A v \in MadeUnits : v < u /\ unit'[v].bucket = unit'[u].bucket
                                  => unit'[u].prev # NoUnit /\ v <= unit'[u].prev
    BY <1>3
  <2>2. \A b \in 0 .. Buckets - 1 :
          /\ bucket'[b] # NoUnit => bucket'[b] \in MadeUnits /\ unit'[bucket'[b]].bucket = b
          /\ \A u \in MadeUnits : unit'[u].bucket = b
                                    => bucket'[b] # NoUnit /\ u <= bucket'[b]
    BY <1>4
  <2>3. Chained'
    BY <1>1, <2>1, <2>2 DEF Chained, SameBucket
  <2>. QED  BY <1>2, <2>3

LEMMA DataStay ==
  ASSUME TypeOK, DataKept, SameUnits
  PROVE  DataKept'
<1>1. MadeUnits' = MadeUnits /\ MadeUnits \subseteq Units
  BY TypeFacts DEF SameUnits, MadeUnits
<1>. QED  BY <1>1 DEF SameUnits, DataKept

\* The field names of a unit that are written.
LEMMA LinkFacts ==
  ASSUME TypeOK, NEW t \in Threads, Link(t), Previous(t) \in Units,
         NEW w \in Units, w = Or(unit[Previous(t)].next, cur[t])
  PROVE  /\ SameUnits /\ unit' \in [Units -> UnitRec]
         /\ \A u \in Units : /\ unit'[u].count = unit[u].count
                             /\ unit'[u].drawn = unit[u].drawn
                             /\ unit'[u].next = IF u = Previous(t) THEN w ELSE unit[u].next
<1>1. unit' = [unit EXCEPT ![Previous(t)].next = w]
  BY DEF Link
<1>2. unit \in [Units -> UnitRec]
  BY TypeFacts
<1>. DEFINE p == Previous(t)
<1>3. p \in Units
  OBVIOUS
<1>. HIDE DEF p
<1>4. \A u \in Units : unit'[u] = IF u = p THEN [unit[u] EXCEPT !.next = w] ELSE unit[u]
  <2>1. unit' = [unit EXCEPT ![p] = [unit[p] EXCEPT !.next = w]]
    BY <1>1 DEF p
  <2>. QED  BY <1>2, <1>3, <2>1
<1>5. unit' \in [Units -> UnitRec]
  <2>1. unit' = [unit EXCEPT ![p] = [unit[p] EXCEPT !.next = w]]
    BY <1>1 DEF p
  <2>2. [unit[p] EXCEPT !.next = w] \in UnitRec
    BY <1>2, <1>3 DEF UnitRec
  <2>. QED  BY <1>2, <1>3, <2>1, <2>2
<1>6. \A u \in Units : unit[u] \in UnitRec
  BY <1>2
<1>7. \A u \in Units : /\ unit'[u].prev = unit[u].prev /\ unit'[u].bucket = unit[u].bucket
                       /\ unit'[u].object = unit[u].object /\ unit'[u].data = unit[u].data
                       /\ unit'[u].count = unit[u].count /\ unit'[u].drawn = unit[u].drawn
                       /\ unit'[u].next = IF u = p THEN w ELSE unit[u].next
  BY <1>4, <1>6 DEF UnitRec
<1>8. units' = units /\ bucket' = bucket /\ object' = object /\ supplied' = supplied
  BY DEF Link, mainVars
<1>. QED  BY <1>5, <1>7, <1>8 DEF SameUnits, p

LEMMA FinishFacts ==
  ASSUME TypeOK, NEW t \in Threads, Finish(t)
  PROVE  /\ SameUnits /\ unit' \in [Units -> UnitRec]
         /\ \A u \in Units :
              IF u = cur[t] THEN /\ unit'[u].count = 0 /\ unit'[u].next = 0
                                 /\ unit'[u].drawn = IF unit[u].drawn = 0 THEN 1 ELSE 2
              ELSE unit'[u] = unit[u]
<1>. DEFINE c == cur[t]
            n == [unit[c] EXCEPT !.drawn = IF @ = 0 THEN 1 ELSE 2, !.count = 0, !.next = 0]
<1>2. unit \in [Units -> UnitRec] /\ c \in Units /\ 0 \in Units
  BY TypeFacts, UnitFacts
<1>1. unit' = [unit EXCEPT ![c] = n]
  BY <1>2 DEF Finish, UnitRec
<1>3. n \in UnitRec
  <2>1. unit[c] \in UnitRec /\ 0 \in 0 .. 2 /\ 1 \in 0 .. 2 /\ 2 \in 0 .. 2
    BY <1>2
  <2>. QED  BY <1>2, <2>1 DEF UnitRec
<1>4. /\ n.count = 0 /\ n.next = 0 /\ n.prev = unit[c].prev /\ n.bucket = unit[c].bucket
      /\ n.object = unit[c].object /\ n.data = unit[c].data
      /\ n.drawn = IF unit[c].drawn = 0 THEN 1 ELSE 2
  BY <1>2 DEF UnitRec
<1>. HIDE DEF n
<1>5. unit' \in [Units -> UnitRec]
  BY <1>1, <1>2, <1>3
<1>6. \A u \in Units : unit'[u] = IF u = c THEN n ELSE unit[u]
  BY <1>1, <1>2
<1>7. \A u \in Units : /\ unit'[u].prev = unit[u].prev /\ unit'[u].bucket = unit[u].bucket
                       /\ unit'[u].object = unit[u].object /\ unit'[u].data = unit[u].data
  BY <1>4, <1>6
<1>8. units' = units /\ bucket' = bucket /\ object' = object /\ supplied' = supplied
  BY DEF Finish, mainVars
<1>. QED  BY <1>4, <1>5, <1>6, <1>7, <1>8 DEF SameUnits

----------------------------------------------------------------------------
\* A thread takes a unit, and looks at the one before it.

LEMMA NothingWritten ==
  ASSUME IInv, unit' = unit, units' = units, bucket' = bucket,
         object' = object, supplied' = supplied
  PROVE  /\ Chained' /\ DrawnInOrder' /\ LinkedInOrder' /\ DataKept'
         /\ MadeUnits' = MadeUnits
         /\ \A u \in Units : (Unlinked(u)' <=> Unlinked(u)) /\ (Parked(u)' <=> Parked(u))
         /\ \A u, v \in Units : SameBucket(u, v)' <=> SameBucket(u, v)
<1>1. SameUnits /\ TypeOK /\ Chained /\ DataKept
  BY DEF SameUnits, IInv
<1>2. Chained' /\ DataKept' /\ \A u, v \in Units : SameBucket(u, v)' <=> SameBucket(u, v)
  BY <1>1, ChainedKept, DataStay
<1>3. MadeUnits' = MadeUnits
  BY DEF MadeUnits
<1>4. DrawnInOrder' /\ LinkedInOrder'
  BY <1>3 DEF IInv, DrawnInOrder, LinkedInOrder, SameBucket
<1>5. \A u \in Units : (Unlinked(u)' <=> Unlinked(u)) /\ (Parked(u)' <=> Parked(u))
  BY DEF Unlinked, Parked
<1>. QED  BY <1>2, <1>3, <1>4, <1>5

LEMMA TailFacts ==
  ASSUME TypeOK, QueuedOnce, queue # <<>>, queue' = Tail(queue)
  PROVE  /\ Head(queue) \in Units /\ Queued(Head(queue)) /\ queue' \in Seq(Units)
         /\ QueuedOnce'
         /\ \A u \in Units : Queued(u)' <=> Queued(u) /\ u # Head(queue)
<1>1. queue \in Seq(Units) /\ Len(queue) \in Nat /\ Len(queue) >= 1
      /\ DOMAIN queue = 1 .. Len(queue)
  BY TypeFacts
<1>2. Head(queue) = queue[1] /\ 1 \in DOMAIN queue
  BY <1>1
<1>3. queue' \in Seq(Units) /\ DOMAIN queue' = 1 .. Len(queue) - 1
      /\ \A i \in 1 .. Len(queue) - 1 : queue'[i] = queue[i + 1]
  BY <1>1
<1>4. ASSUME NEW i \in DOMAIN queue', NEW j \in DOMAIN queue', queue'[i] = queue'[j]
      PROVE  i = j
  <2>1. i + 1 \in DOMAIN queue /\ j + 1 \in DOMAIN queue /\ queue[i + 1] = queue[j + 1]
    BY <1>1, <1>3, <1>4
  <2>2. i + 1 = j + 1
    BY <2>1 DEF QueuedOnce
  <2>. QED  BY <1>1, <1>3, <2>2
<1>5. ASSUME NEW u \in Units, Queued(u)' PROVE Queued(u) /\ u # Head(queue)
  <2>1. PICK i \in DOMAIN queue' : queue'[i] = u
    BY <1>5 DEF Queued
  <2>2. i + 1 \in DOMAIN queue /\ queue[i + 1] = u /\ i + 1 # 1
    BY <1>1, <1>3, <2>1
  <2>. QED  BY <1>2, <2>2 DEF Queued, QueuedOnce
<1>6. ASSUME NEW u \in Units, Queued(u), u # Head(queue) PROVE Queued(u)'
  <2>1. PICK i \in DOMAIN queue : queue[i] = u
    BY <1>6 DEF Queued
  <2>2. i # 1 /\ i \in 1 .. Len(queue)
    BY <1>1, <1>2, <1>6, <2>1
  <2>3. i - 1 \in 1 .. Len(queue) - 1 /\ (i - 1) + 1 = i
    BY <1>1, <2>2
  <2>4. i - 1 \in DOMAIN queue' /\ queue'[i - 1] = u
    BY <1>3, <2>1, <2>3
  <2>. QED  BY <2>4 DEF Queued
<1>7. QueuedOnce'
  BY <1>4 DEF QueuedOnce
<1>8. Head(queue) \in Units /\ Queued(Head(queue))
  BY <1>1, <1>2 DEF Queued
<1>. QED  BY <1>3, <1>5, <1>6, <1>7, <1>8

LEMMA TakeKeeps ==
  ASSUME IInv, NEW t \in Threads, Take(t)
  PROVE  IInv'
<1>. DEFINE h == Head(queue)
<1>1. /\ TypeOK /\ OneOwner /\ queue # <<>> /\ queue' = Tail(queue) /\ pc[t] = "idle"
      /\ QueuedOnce /\ (IF t = Main THEN waiting ELSE hasQueue)
  BY DEF IInv, OneOwner, Take
<1>2. /\ h \in Units /\ Queued(h) /\ queue' \in Seq(Units) /\ QueuedOnce'
      /\ \A u \in Units : Queued(u)' <=> Queued(u) /\ u # h
  BY <1>1, TailFacts
<1>. HIDE DEF h
<1>3. /\ pc' = [pc EXCEPT ![t] = "look"] /\ cur' = [cur EXCEPT ![t] = h]
      /\ UNCHANGED <<unit, hasQueue, units, polygons, object, supplied, bucket, waiting>>
  BY DEF Take, mainVars, h
<1>4. /\ pc \in [Threads -> {"idle", "look", "link", "draw"}] /\ cur \in [Threads -> Units]
      /\ MadeUnits \subseteq Units
  BY <1>1, TypeFacts
<1>5. /\ pc' \in [Threads -> {"idle", "look", "link", "draw"}] /\ cur' \in [Threads -> Units]
      /\ pc'[t] = "look" /\ cur'[t] = h
      /\ \A s \in Threads : s # t => pc'[s] = pc[s] /\ cur'[s] = cur[s]
  BY <1>2, <1>3, <1>4
<1>6. TypeOK'
  BY <1>1, <1>2, <1>3, <1>5 DEF TypeOK
<1>7. /\ Chained' /\ DrawnInOrder' /\ LinkedInOrder' /\ DataKept' /\ MadeUnits' = MadeUnits
      /\ \A u \in Units : (Unlinked(u)' <=> Unlinked(u)) /\ (Parked(u)' <=> Parked(u))
      /\ \A u, v \in Units : SameBucket(u, v)' <=> SameBucket(u, v)
  BY <1>3, NothingWritten
<1>8. \A s \in Threads, u \in Units :
        Holds(s, u)' <=> IF s = t THEN u = h ELSE Holds(s, u)
  BY <1>5 DEF Holds
<1>9. \A u \in Units : ~Holds(t, u)
  BY <1>1 DEF Holds
<1>10. /\ h \in MadeUnits /\ unit[h].drawn = 0 /\ Unlinked(h)
       /\ \A s \in Threads : ~Holds(s, h)
  BY <1>1, <1>2 DEF OneOwner, QueuedIsFree
<1>11. QueuedIsFree'
  <2>1. ASSUME NEW u \in Units, Queued(u)'
        PROVE  /\ u \in MadeUnits' /\ unit'[u].drawn = 0 /\ Unlinked(u)'
               /\ \A s \in Threads : ~Holds(s, u)'
    <3>1. Queued(u) /\ u # h
      BY <1>2, <2>1
    <3>. QED  BY <3>1, <1>1, <1>3, <1>7, <1>8 DEF OneOwner, QueuedIsFree
  <2>. QED  BY <2>1 DEF QueuedIsFree
<1>12. HeldByOne'
  <2>1. ASSUME NEW s \in Threads, NEW u \in Units, Holds(s, u)'
        PROVE  /\ u \in MadeUnits' /\ unit'[u].drawn = 0
               /\ \A r \in Threads : Holds(r, u)' => r = s
               /\ pc'[s] # "draw" => Unlinked(u)'
               /\ pc'[s] = "link" => unit'[u].prev # NoUnit
               /\ pc'[s] = "draw" => \A v \in MadeUnits' : v < u /\ SameBucket(v, u)'
                                                             => unit'[v].drawn = 1
    <3>1. CASE s = t
      <4>1. u = h
        BY <1>8, <2>1, <3>1
      <4>. QED  BY <3>1, <4>1, <1>3, <1>5, <1>7, <1>8, <1>10
    <3>2. CASE s # t
      <4>1. Holds(s, u) /\ u # h
        BY <1>8, <1>10, <2>1, <3>2
      <4>2. \A r \in Threads : Holds(r, u)' => r = s
        BY <1>1, <1>8, <4>1 DEF OneOwner, HeldByOne
      <4>3. /\ u \in MadeUnits /\ unit[u].drawn = 0
            /\ pc[s] # "draw" => Unlinked(u)
            /\ pc[s] = "link" => unit[u].prev # NoUnit
            /\ pc[s] = "draw" => \A v \in MadeUnits : v < u /\ SameBucket(v, u)
                                                       => unit[v].drawn = 1
        BY <1>1, <4>1 DEF OneOwner, HeldByOne
      <4>. QED  BY <3>2, <4>2, <4>3, <1>3, <1>4, <1>5, <1>7
    <3>. QED  BY <3>1, <3>2
  <2>. QED  BY <2>1 DEF HeldByOne
<1>13. HasOwner'
  <2>1. ASSUME hasQueue' \/ waiting', NEW u \in MadeUnits', unit'[u].drawn = 0
        PROVE  Queued(u)' \/ Parked(u)' \/ \E s \in Threads : Holds(s, u)'
    <3>1. u \in Units /\ (Queued(u) \/ Parked(u) \/ \E s \in Threads : Holds(s, u))
      BY <1>1, <1>3, <1>4, <1>7, <2>1 DEF OneOwner, HasOwner
    <3>2. CASE u = h
      BY <1>8, <3>1, <3>2
    <3>3. CASE u # h
      BY <1>2, <1>7, <1>8, <1>9, <3>1, <3>3
    <3>. QED  BY <3>2, <3>3
  <2>. QED  BY <2>1 DEF HasOwner
<1>14. NothingRuns'
  <2>1. hasQueue \/ waiting
    BY <1>1
  <2>. QED  BY <1>3, <2>1 DEF NothingRuns
<1>. QED  BY <1>2, <1>6, <1>7, <1>11, <1>12, <1>13, <1>14 DEF IInv, OneOwner

\* When the one before is done or there is none, all before are drawn.
LEMMA AllBeforeDrawn ==
  ASSUME IInv, NEW u \in MadeUnits, unit[u].prev = NoUnit \/ ~Busy(unit[u].prev)
  PROVE  \A v \in MadeUnits : v < u /\ SameBucket(v, u) => unit[v].drawn = 1
<1>1. SUFFICES ASSUME NEW v \in MadeUnits, v < u, SameBucket(v, u)
               PROVE  unit[v].drawn = 1
  OBVIOUS
<1>. DEFINE p == unit[u].prev
<1>2. Chained /\ DrawnInOrder /\ TypeOK
  BY DEF IInv
<1>3. p # NoUnit /\ v <= p /\ p \in MadeUnits /\ SameBucket(p, u)
  BY <1>1, <1>2 DEF Chained
<1>4. unit[p].drawn = 1
  BY <1>2, <1>3 DEF DrawnInOrder, Busy
<1>5. SameBucket(v, p)
  BY <1>1, <1>3 DEF SameBucket
<1>6. p \in Nat /\ v \in Nat
  BY <1>2, <1>3, TypeFacts
<1>7. v = p \/ v < p
  BY <1>3, <1>6
<1>. QED  BY <1>2, <1>3, <1>4, <1>5, <1>7 DEF DrawnInOrder

\* A thread that works is with a unit that is not drawn yet.
LEMMA WorkFacts ==
  ASSUME IInv, NEW t \in Threads, pc[t] # "idle"
  PROVE  /\ TypeOK /\ OneOwner /\ cur[t] \in Units /\ cur[t] \in MadeUnits
         /\ Holds(t, cur[t]) /\ unit[cur[t]].drawn = 0 /\ (hasQueue \/ waiting)
         /\ \A s \in Threads : Holds(s, cur[t]) => s = t
         /\ pc[t] # "draw" => Unlinked(cur[t])
         /\ pc[t] = "link" => unit[cur[t]].prev # NoUnit
         /\ unit[cur[t]].prev # NoUnit => /\ unit[cur[t]].prev \in MadeUnits
                                          /\ unit[cur[t]].prev \in Units
                                          /\ unit[cur[t]].prev < cur[t]
<1>1. TypeOK /\ OneOwner /\ Chained /\ cur[t] \in Units /\ MadeUnits \subseteq Units
  BY TypeFacts DEF IInv
<1>2. Holds(t, cur[t])
  BY DEF Holds
<1>3. /\ cur[t] \in MadeUnits /\ unit[cur[t]].drawn = 0
      /\ \A s \in Threads : Holds(s, cur[t]) => s = t
      /\ pc[t] # "draw" => Unlinked(cur[t])
      /\ pc[t] = "link" => unit[cur[t]].prev # NoUnit
  BY <1>1, <1>2 DEF OneOwner, HeldByOne
<1>4. unit[cur[t]].prev # NoUnit => /\ unit[cur[t]].prev \in MadeUnits
                                    /\ unit[cur[t]].prev < cur[t]
  BY <1>1, <1>3 DEF Chained
<1>5. hasQueue \/ waiting
  BY DEF IInv, NothingRuns
<1>. QED  BY <1>1, <1>2, <1>3, <1>4, <1>5

LEMMA LookKeeps ==
  ASSUME IInv, NEW t \in Threads, Look(t)
  PROVE  IInv'
<1>. DEFINE c == cur[t]
<1>1. /\ pc[t] = "look" /\ UNCHANGED <<unit, mainVars, queue, cur>>
      /\ pc' = [pc EXCEPT ![t] =
                  IF Previous(t) # NoUnit /\ Busy(Previous(t)) THEN "link" ELSE "draw"]
  BY DEF Look
<1>2. /\ TypeOK /\ OneOwner /\ c \in Units /\ c \in MadeUnits
      /\ Holds(t, c) /\ unit[c].drawn = 0 /\ (hasQueue \/ waiting)
      /\ \A s \in Threads : Holds(s, c) => s = t
      /\ Unlinked(c) /\ MadeUnits \subseteq Units
      /\ pc \in [Threads -> {"idle", "look", "link", "draw"}]
  BY <1>1, WorkFacts, TypeFacts
<1>3. /\ Chained' /\ DrawnInOrder' /\ LinkedInOrder' /\ DataKept' /\ MadeUnits' = MadeUnits
      /\ \A u \in Units : (Unlinked(u)' <=> Unlinked(u)) /\ (Parked(u)' <=> Parked(u))
      /\ \A u, v \in Units : SameBucket(u, v)' <=> SameBucket(u, v)
  BY <1>1, NothingWritten DEF mainVars
<1>4. /\ pc' \in [Threads -> {"idle", "look", "link", "draw"}]
      /\ pc'[t] \in {"link", "draw"} /\ \A s \in Threads : s # t => pc'[s] = pc[s]
      /\ pc'[t] = "link" => unit[c].prev # NoUnit
      /\ pc'[t] = "draw" => unit[c].prev = NoUnit \/ ~Busy(unit[c].prev)
  BY <1>1, <1>2 DEF Previous
<1>5. \A s \in Threads, u \in Units : Holds(s, u)' <=> Holds(s, u)
  BY <1>1, <1>4 DEF Holds
<1>6. TypeOK'
  BY <1>1, <1>2, <1>4 DEF TypeOK, mainVars
<1>7. QueuedOnce' /\ QueuedIsFree' /\ HasOwner'
  <2>1. QueuedOnce'
    BY <1>1, <1>2 DEF OneOwner, QueuedOnce
  <2>2. \A u \in Units : Queued(u)' <=> Queued(u)
    BY <1>1 DEF Queued
  <2>3. QueuedIsFree'
    BY <2>2, <1>1, <1>2, <1>3, <1>5 DEF OneOwner, QueuedIsFree
  <2>4. HasOwner'
    BY <2>2, <1>1, <1>2, <1>3, <1>5 DEF OneOwner, HasOwner, mainVars
  <2>. QED  BY <2>1, <2>3, <2>4
<1>8. HeldByOne'
  <2>1. ASSUME NEW s \in Threads, NEW u \in Units, Holds(s, u)'
        PROVE  /\ u \in MadeUnits' /\ unit'[u].drawn = 0
               /\ \A r \in Threads : Holds(r, u)' => r = s
               /\ pc'[s] # "draw" => Unlinked(u)'
               /\ pc'[s] = "link" => unit'[u].prev # NoUnit
               /\ pc'[s] = "draw" => \A v \in MadeUnits' : v < u /\ SameBucket(v, u)'
                                                             => unit'[v].drawn = 1
    <3>1. /\ Holds(s, u) /\ u \in MadeUnits /\ unit[u].drawn = 0
          /\ \A r \in Threads : Holds(r, u)' => r = s
      BY <1>2, <1>5, <2>1 DEF OneOwner, HeldByOne
    <3>2. CASE s = t
      <4>1. u = c
        BY <3>1, <3>2 DEF Holds
      <4>2. pc'[s] = "draw" => \A v \in MadeUnits : v < u /\ SameBucket(v, u)
                                                      => unit[v].drawn = 1
        BY <1>4, <3>2, <4>1, <1>2, AllBeforeDrawn
      <4>. QED  BY <3>1, <3>2, <4>1, <4>2, <1>1, <1>2, <1>3, <1>4
    <3>3. CASE s # t
      <4>1. /\ pc[s] # "draw" => Unlinked(u)
            /\ pc[s] = "link" => unit[u].prev # NoUnit
            /\ pc[s] = "draw" => \A v \in MadeUnits : v < u /\ SameBucket(v, u)
                                                       => unit[v].drawn = 1
        BY <1>2, <3>1 DEF OneOwner, HeldByOne
      <4>. QED  BY <3>1, <3>3, <4>1, <1>1, <1>2, <1>3, <1>4
    <3>. QED  BY <3>2, <3>3
  <2>. QED  BY <2>1 DEF HeldByOne
<1>9. NothingRuns'
  BY <1>1, <1>2 DEF NothingRuns, mainVars
<1>. QED  BY <1>3, <1>6, <1>7, <1>8, <1>9 DEF IInv, OneOwner

LEMMA LinkKeeps ==
  ASSUME IInv, NEW t \in Threads, Link(t)
  PROVE  IInv'
<1>a. PICK c, p : c = cur[t] /\ p = Previous(t)
  OBVIOUS
<1>1. /\ pc[t] = "link" /\ UNCHANGED <<mainVars, queue>>
      /\ IF Busy(p) THEN pc' = [pc EXCEPT ![t] = "idle"] /\ cur' = [cur EXCEPT ![t] = 0]
         ELSE pc' = [pc EXCEPT ![t] = "draw"] /\ UNCHANGED cur
  BY <1>a DEF Link
<1>2. /\ TypeOK /\ OneOwner /\ c \in Units /\ c \in MadeUnits
      /\ Holds(t, c) /\ unit[c].drawn = 0 /\ (hasQueue \/ waiting)
      /\ \A s \in Threads : Holds(s, c) => s = t
      /\ Unlinked(c) /\ p # NoUnit /\ p \in MadeUnits /\ p \in Units /\ p < c
      /\ p = unit[c].prev /\ Chained /\ DrawnInOrder /\ LinkedInOrder /\ DataKept
  BY <1>1, <1>a, WorkFacts DEF Previous, IInv
<1>3. /\ MadeUnits \subseteq Units /\ 0 \in Units
      /\ pc \in [Threads -> {"idle", "look", "link", "draw"}] /\ cur \in [Threads -> Units]
  BY <1>2, TypeFacts, UnitFacts
<1>b. MadeUnits \subseteq Nat /\ c \in Nat /\ c < 65536 /\ p \in Nat
  BY <1>2, TypeFacts, UnitFacts
<1>4. unit[p].next = 0 /\ Or(unit[p].next, c) = c /\ c # 0
  <2>1. unit[p].next = 0
    BY <1>2 DEF Unlinked
  <2>2. c # 0
    BY <1>2, <1>b
  <2>. QED  BY <1>b, <2>1, <2>2, OrZero
<1>5. /\ SameUnits /\ unit' \in [Units -> UnitRec]
      /\ \A u \in Units : /\ unit'[u].count = unit[u].count
                          /\ unit'[u].drawn = unit[u].drawn
                          /\ unit'[u].next = IF u = p THEN c ELSE unit[u].next
  <2>1. \A u \in Units : u = c => u = Or(unit[Previous(t)].next, cur[t])
    BY <1>4, <1>a
  <2>. QED  BY <1>2, <1>a, <2>1, LinkFacts
<1>6. /\ Chained' /\ DataKept' /\ MadeUnits' = MadeUnits
      /\ \A u, v \in Units : SameBucket(u, v)' <=> SameBucket(u, v)
  BY <1>2, <1>5, ChainedKept, DataStay DEF MadeUnits, SameUnits
<1>7. /\ pc' \in [Threads -> {"idle", "look", "link", "draw"}] /\ cur' \in [Threads -> Units]
      /\ \A s \in Threads : s # t => pc'[s] = pc[s] /\ cur'[s] = cur[s]
      /\ Busy(p) => pc'[t] = "idle"
      /\ ~Busy(p) => pc'[t] = "draw" /\ cur'[t] = c
  BY <1>1, <1>3, <1>a
<1>8. TypeOK'
  BY <1>1, <1>2, <1>5, <1>7 DEF TypeOK, mainVars, UnitRec
<1>9. DrawnInOrder'
  <2>1. \A u \in MadeUnits : unit'[u].count = unit[u].count /\ unit'[u].drawn = unit[u].drawn
    BY <1>3, <1>5
  <2>2. \A u, v \in MadeUnits : SameBucket(u, v)' <=> SameBucket(u, v)
    BY <1>3, <1>6
  <2>3. ASSUME NEW u \in MadeUnits'
        PROVE  /\ unit'[u].drawn \in {0, 1} /\ (unit'[u].count = 0 <=> unit'[u].drawn = 1)
               /\ unit'[u].drawn = 1 => \A v \in MadeUnits' : v < u /\ SameBucket(v, u)'
                                                                 => unit'[v].drawn = 1
    BY <1>2, <1>6, <2>1, <2>2, <2>3 DEF DrawnInOrder
  <2>. QED  BY <2>3 DEF DrawnInOrder
<1>10. LinkedInOrder'
  <2>1. ASSUME NEW v \in Units, unit'[v].next # 0
        PROVE  unit'[v].next \in MadeUnits /\ unit'[unit'[v].next].prev = v
    <3>1. CASE v = p
      <4>1. unit'[v].next = c
        BY <1>5, <3>1
      <4>. QED  BY <1>2, <1>5, <3>1, <4>1 DEF SameUnits
    <3>2. CASE v # p
      <4>1. unit'[v].next = unit[v].next /\ unit[v].next # 0
        BY <1>5, <2>1, <3>2
      <4>2. unit[v].next \in MadeUnits /\ unit[unit[v].next].prev = v
        BY <1>2, <4>1 DEF LinkedInOrder
      <4>. QED  BY <1>3, <1>5, <4>1, <4>2 DEF SameUnits
    <3>. QED  BY <3>1, <3>2
  <2>. QED  BY <1>6, <2>1 DEF LinkedInOrder
<1>11. \A u \in MadeUnits : u # c /\ Unlinked(u) => Unlinked(u)'
  <2>1. ASSUME NEW u \in MadeUnits, u # c, Unlinked(u), unit[u].prev # NoUnit
        PROVE  unit'[unit[u].prev].next = 0
    <3>1. unit[u].prev # p
      BY <1>2, <2>1, OneSuccessor
    <3>2. unit[u].prev \in Units
      <4>1. unit[u].prev \in MadeUnits
        BY <1>2, <2>1 DEF Chained
      <4>. QED  BY <1>3, <4>1
    <3>. QED  BY <1>5, <2>1, <3>1, <3>2 DEF Unlinked
  <2>2. \A u \in MadeUnits : unit'[u].prev = unit[u].prev
    BY <1>3, <1>5 DEF SameUnits
  <2>. QED  BY <2>1, <2>2 DEF Unlinked
<1>12. \A u \in MadeUnits : Parked(u) => Parked(u)'
  <2>1. SUFFICES ASSUME NEW u \in MadeUnits, Parked(u) PROVE Parked(u)'
    OBVIOUS
  <2>2. /\ unit[u].prev # NoUnit /\ unit[u].prev \in MadeUnits /\ unit[u].prev < u
        /\ unit[unit[u].prev].drawn = 0 /\ unit[unit[u].prev].next = u
    BY <1>2, <2>1 DEF Parked, Chained
  <2>3. u \in Nat /\ unit[u].prev \in Nat /\ u \in Units /\ unit[u].prev \in Units
    <3>1. u \in MadeUnits /\ unit[u].prev \in MadeUnits
      BY <2>2
    <3>2. MadeUnits \subseteq Units /\ MadeUnits \subseteq Nat
      BY <1>3, <1>b
    <3>. QED  BY <3>1, <3>2
  <2>4. unit[u].prev # p
    BY <1>4, <2>2, <2>3
  <2>. QED  BY <1>5, <2>2, <2>3, <2>4 DEF Parked, SameUnits
<1>13. Busy(p) => Parked(c)'
  <2>1. Busy(p) => unit[p].drawn = 0
    BY <1>2, <1>4 DEF Busy, DrawnInOrder
  <2>2. c \in Units /\ unit'[c].prev = p /\ unit'[p].next = c /\ unit'[p].drawn = unit[p].drawn
    BY <1>2, <1>5 DEF SameUnits
  <2>. QED  BY <1>2, <2>1, <2>2 DEF Parked
<1>14. \A s \in Threads, u \in Units :
         /\ s # t => (Holds(s, u)' <=> Holds(s, u))
         /\ Holds(t, u)' <=> u = c /\ ~Busy(p)
  BY <1>7 DEF Holds
<1>15. \A u \in Units : Holds(t, u) <=> u = c
  BY <1>1, <1>a DEF Holds
<1>16. QueuedOnce' /\ \A u \in Units : Queued(u)' <=> Queued(u)
  BY <1>1, <1>2 DEF OneOwner, QueuedOnce, Queued
<1>17. QueuedIsFree'
  <2>1. ASSUME NEW u \in Units, Queued(u)'
        PROVE  /\ u \in MadeUnits' /\ unit'[u].drawn = 0 /\ Unlinked(u)'
               /\ \A s \in Threads : ~Holds(s, u)'
    <3>1. /\ u \in MadeUnits /\ unit[u].drawn = 0 /\ Unlinked(u)
          /\ \A s \in Threads : ~Holds(s, u)
      BY <1>2, <1>16, <2>1 DEF OneOwner, QueuedIsFree
    <3>2. u # c
      BY <1>2, <3>1
    <3>. QED  BY <3>1, <3>2, <1>5, <1>6, <1>11, <1>14
  <2>. QED  BY <2>1 DEF QueuedIsFree
<1>18. HeldByOne'
  <2>1. ASSUME NEW s \in Threads, NEW u \in Units, Holds(s, u)'
        PROVE  /\ u \in MadeUnits' /\ unit'[u].drawn = 0
               /\ \A r \in Threads : Holds(r, u)' => r = s
               /\ pc'[s] # "draw" => Unlinked(u)'
               /\ pc'[s] = "link" => unit'[u].prev # NoUnit
               /\ pc'[s] = "draw" => \A v \in MadeUnits' : v < u /\ SameBucket(v, u)'
                                                             => unit'[v].drawn = 1
    <3>1. CASE s = t
      <4>1. u = c /\ ~Busy(p)
        BY <1>14, <2>1, <3>1
      <4>2. \A v \in MadeUnits : v < u /\ SameBucket(v, u) => unit[v].drawn = 1
        BY <1>2, <4>1, AllBeforeDrawn
      <4>3. \A r \in Threads : Holds(r, u)' => r = s
        BY <1>2, <1>14, <3>1, <4>1
      <4>. QED  BY <3>1, <4>1, <4>2, <4>3, <1>2, <1>3, <1>5, <1>6, <1>7
    <3>2. CASE s # t
      <4>1. Holds(s, u)
        BY <1>14, <2>1, <3>2
      <4>2. u # c
        BY <1>2, <3>2, <4>1
      <4>3. /\ u \in MadeUnits /\ unit[u].drawn = 0
            /\ \A r \in Threads : Holds(r, u) => r = s
            /\ pc[s] # "draw" => Unlinked(u)
            /\ pc[s] = "link" => unit[u].prev # NoUnit
            /\ pc[s] = "draw" => \A v \in MadeUnits : v < u /\ SameBucket(v, u)
                                                       => unit[v].drawn = 1
        BY <1>2, <4>1 DEF OneOwner, HeldByOne
      <4>4. \A r \in Threads : Holds(r, u)' => r = s
        BY <1>14, <4>2, <4>3
      <4>5. pc'[s] # "draw" => Unlinked(u)'
        BY <1>7, <1>11, <3>2, <4>2, <4>3
      <4>6. unit'[u].prev = unit[u].prev /\ unit'[u].drawn = 0
        BY <1>5, <4>3 DEF SameUnits
      <4>7. pc'[s] = "draw" => \A v \in MadeUnits' : v < u /\ SameBucket(v, u)'
                                                       => unit'[v].drawn = 1
        BY <1>3, <1>5, <1>6, <1>7, <3>2, <4>3
      <4>. QED  BY <1>6, <1>7, <3>2, <4>3, <4>4, <4>5, <4>6, <4>7
    <3>. QED  BY <3>1, <3>2
  <2>. QED  BY <2>1 DEF HeldByOne
<1>19. HasOwner'
  <2>1. ASSUME NEW u \in MadeUnits', unit'[u].drawn = 0
        PROVE  Queued(u)' \/ Parked(u)' \/ \E s \in Threads : Holds(s, u)'
    <3>1. u \in Units /\ u \in MadeUnits
      BY <1>3, <1>6, <2>1
    <3>2. Queued(u) \/ Parked(u) \/ \E s \in Threads : Holds(s, u)
      BY <1>2, <1>5, <2>1, <3>1 DEF OneOwner, HasOwner
    <3>3. CASE u = c
      BY <1>13, <1>14, <3>1, <3>3
    <3>4. CASE u # c
      BY <1>12, <1>14, <1>15, <1>16, <3>1, <3>2, <3>4
    <3>. QED  BY <3>3, <3>4
  <2>. QED  BY <2>1 DEF HasOwner
<1>20. NothingRuns'
  BY <1>1, <1>2 DEF NothingRuns, mainVars
<1>. QED  BY <1>6, <1>8, <1>9, <1>10, <1>16, <1>17, <1>18, <1>19, <1>20 DEF IInv, OneOwner

LEMMA FinishKeeps ==
  ASSUME IInv, NEW t \in Threads, Finish(t)
  PROVE  IInv'
<1>a. PICK c, n : c = cur[t] /\ n = unit[cur[t]].next
  OBVIOUS
<1>1. /\ pc[t] = "draw" /\ UNCHANGED <<mainVars, queue>>
      /\ IF n = 0 THEN pc' = [pc EXCEPT ![t] = "idle"] /\ cur' = [cur EXCEPT ![t] = 0]
         ELSE pc' = [pc EXCEPT ![t] = "look"] /\ cur' = [cur EXCEPT ![t] = n]
  BY <1>a DEF Finish
<1>2. /\ TypeOK /\ OneOwner /\ c \in Units /\ c \in MadeUnits
      /\ Holds(t, c) /\ unit[c].drawn = 0 /\ (hasQueue \/ waiting)
      /\ \A s \in Threads : Holds(s, c) => s = t
      /\ Chained /\ DrawnInOrder /\ LinkedInOrder /\ DataKept
  BY <1>1, <1>a, WorkFacts DEF IInv
<1>3. /\ MadeUnits \subseteq Units /\ 0 \in Units /\ unit \in [Units -> UnitRec]
      /\ pc \in [Threads -> {"idle", "look", "link", "draw"}] /\ cur \in [Threads -> Units]
  BY <1>2, TypeFacts, UnitFacts
<1>4. n \in Units
  BY <1>2, <1>3, <1>a DEF UnitRec
<1>5. /\ SameUnits /\ unit' \in [Units -> UnitRec]
      /\ unit'[c].count = 0 /\ unit'[c].next = 0 /\ unit'[c].drawn = 1
      /\ \A u \in Units : u # c => unit'[u] = unit[u]
  <2>1. /\ SameUnits /\ unit' \in [Units -> UnitRec]
        /\ \A u \in Units :
             IF u = c THEN /\ unit'[u].count = 0 /\ unit'[u].next = 0
                           /\ unit'[u].drawn = IF unit[u].drawn = 0 THEN 1 ELSE 2
             ELSE unit'[u] = unit[u]
    BY <1>2, <1>a, FinishFacts
  <2>. QED  BY <1>2, <2>1
<1>6. /\ Chained' /\ DataKept' /\ MadeUnits' = MadeUnits
      /\ \A u, v \in Units : SameBucket(u, v)' <=> SameBucket(u, v)
  BY <1>2, <1>5, ChainedKept, DataStay DEF MadeUnits, SameUnits
<1>7. /\ pc' \in [Threads -> {"idle", "look", "link", "draw"}] /\ cur' \in [Threads -> Units]
      /\ \A s \in Threads : s # t => pc'[s] = pc[s] /\ cur'[s] = cur[s]
      /\ n = 0 => pc'[t] = "idle"
      /\ n # 0 => pc'[t] = "look" /\ cur'[t] = n
  BY <1>1, <1>3, <1>4
<1>8. TypeOK'
  BY <1>1, <1>2, <1>5, <1>7 DEF TypeOK, mainVars, UnitRec
\* What is drawn.
<1>9. \A v \in MadeUnits : v < c /\ SameBucket(v, c) => unit[v].drawn = 1
  BY <1>1, <1>2 DEF OneOwner, HeldByOne
<1>10. \A u \in MadeUnits : unit[u].drawn = 1 => unit'[u].drawn = 1
  BY <1>2, <1>3, <1>5
<1>11. DrawnInOrder'
  <2>1. ASSUME NEW u \in MadeUnits'
        PROVE  /\ unit'[u].drawn \in {0, 1} /\ (unit'[u].count = 0 <=> unit'[u].drawn = 1)
               /\ unit'[u].drawn = 1 => \A v \in MadeUnits' : v < u /\ SameBucket(v, u)'
                                                                 => unit'[v].drawn = 1
    <3>1. u \in MadeUnits /\ u \in Units
      BY <1>3, <1>6, <2>1
    <3>2. \A v \in MadeUnits : SameBucket(v, u)' <=> SameBucket(v, u)
      BY <1>3, <1>6, <3>1
    <3>3. CASE u = c
      BY <1>5, <1>6, <1>9, <1>10, <3>2, <3>3
    <3>4. CASE u # c
      <4>1. unit'[u] = unit[u]
        BY <1>5, <3>1, <3>4
      <4>2. /\ unit[u].drawn \in {0, 1} /\ (unit[u].count = 0 <=> unit[u].drawn = 1)
            /\ unit[u].drawn = 1 => \A v \in MadeUnits : v < u /\ SameBucket(v, u)
                                                           => unit[v].drawn = 1
        BY <1>2, <3>1 DEF DrawnInOrder
      <4>. QED  BY <1>6, <1>10, <3>2, <4>1, <4>2
    <3>. QED  BY <3>3, <3>4
  <2>. QED  BY <2>1 DEF DrawnInOrder
\* The next one is nobody's but this thread's.
<1>12. n # 0 => /\ n \in MadeUnits /\ n # c /\ unit[n].prev = c /\ c # NoUnit /\ c < n
                /\ SameBucket(c, n)
                /\ unit[n].drawn = 0 /\ ~Queued(n) /\ \A s \in Threads : ~Holds(s, n)
  <2>1. SUFFICES ASSUME n # 0
                 PROVE  /\ n \in MadeUnits /\ n # c /\ unit[n].prev = c /\ c # NoUnit /\ c < n
                        /\ SameBucket(c, n)
                        /\ unit[n].drawn = 0 /\ ~Queued(n) /\ \A s \in Threads : ~Holds(s, n)
    OBVIOUS
  <2>2. n \in MadeUnits /\ unit[n].prev = c
    BY <1>2, <1>a, <2>1 DEF LinkedInOrder
  <2>3. c # NoUnit
    BY <1>2, UnitFacts
  <2>4. c < n /\ SameBucket(c, n)
    BY <1>2, <2>2, <2>3 DEF Chained
  <2>5. c # n
    <3>1. c \in Nat
      BY <1>2, UnitFacts
    <3>. QED  BY <2>4, <3>1
  <2>6. unit[n].drawn = 0
    BY <1>2, <2>2, <2>4 DEF DrawnInOrder
  <2>7. ~Unlinked(n)
    BY <1>a, <2>1, <2>2, <2>3 DEF Unlinked
  <2>8. ~Queued(n)
    BY <1>2, <1>4, <2>7 DEF OneOwner, QueuedIsFree
  <2>9. ASSUME NEW s \in Threads, Holds(s, n) PROVE FALSE
    <3>1. pc[s] # "draw" => Unlinked(n)
      BY <1>2, <1>4, <2>9 DEF OneOwner, HeldByOne
    <3>2. pc[s] = "draw" => unit[c].drawn = 1
      BY <1>2, <1>4, <2>4, <2>9 DEF OneOwner, HeldByOne
    <3>. QED  BY <1>2, <2>7, <3>1, <3>2
  <2>. QED  BY <2>2, <2>3, <2>4, <2>5, <2>6, <2>8, <2>9
<1>13. LinkedInOrder'
  <2>1. ASSUME NEW v \in Units, unit'[v].next # 0
        PROVE  unit'[v].next \in MadeUnits /\ unit'[unit'[v].next].prev = v
    <3>1. unit'[v] = unit[v]
      BY <1>5, <2>1
    <3>2. unit[v].next \in MadeUnits /\ unit[unit[v].next].prev = v
      BY <1>2, <2>1, <3>1 DEF LinkedInOrder
    <3>. QED  BY <1>3, <1>5, <3>1, <3>2 DEF SameUnits
  <2>. QED  BY <1>6, <2>1 DEF LinkedInOrder
<1>14. \A u \in MadeUnits : Unlinked(u) => Unlinked(u)'
  <2>1. SUFFICES ASSUME NEW u \in MadeUnits, Unlinked(u) PROVE Unlinked(u)'
    OBVIOUS
  <2>2. u \in Units /\ unit'[u].prev = unit[u].prev
    BY <1>3, <1>5 DEF SameUnits
  <2>3. unit[u].prev # NoUnit => unit[u].prev \in MadeUnits
    BY <1>2 DEF Chained
  <2>4. unit[u].prev # NoUnit => unit'[unit[u].prev].next = 0
    BY <1>3, <1>5, <2>1, <2>3 DEF Unlinked
  <2>. QED  BY <2>2, <2>4 DEF Unlinked
<1>15. \A u \in MadeUnits : Parked(u) => u = n \/ Parked(u)'
  <2>1. SUFFICES ASSUME NEW u \in MadeUnits, Parked(u), u # n PROVE Parked(u)'
    OBVIOUS
  <2>2. u \in Units /\ unit'[u].prev = unit[u].prev
    BY <1>3, <1>5 DEF SameUnits
  <2>3. /\ unit[u].prev # NoUnit /\ unit[unit[u].prev].drawn = 0
        /\ unit[unit[u].prev].next = u /\ unit[u].prev # c
    BY <1>a, <2>1 DEF Parked
  <2>4. unit[u].prev \in Units
    <3>1. unit[u].prev \in MadeUnits
      BY <1>2, <2>3 DEF Chained
    <3>. QED  BY <1>3, <3>1
  <2>. QED  BY <1>5, <2>2, <2>3, <2>4 DEF Parked
\* Who has what.
<1>16. \A s \in Threads, u \in Units :
         /\ s # t => (Holds(s, u)' <=> Holds(s, u))
         /\ Holds(t, u)' <=> u = n /\ n # 0
  BY <1>7 DEF Holds
<1>17. \A u \in Units : Holds(t, u) <=> u = c
  BY <1>1, <1>a DEF Holds
<1>18. QueuedOnce' /\ \A u \in Units : Queued(u)' <=> Queued(u)
  BY <1>1, <1>2 DEF OneOwner, QueuedOnce, Queued
<1>19. QueuedIsFree'
  <2>1. ASSUME NEW u \in Units, Queued(u)'
        PROVE  /\ u \in MadeUnits' /\ unit'[u].drawn = 0 /\ Unlinked(u)'
               /\ \A s \in Threads : ~Holds(s, u)'
    <3>1. /\ u \in MadeUnits /\ unit[u].drawn = 0 /\ Unlinked(u)
          /\ \A s \in Threads : ~Holds(s, u)
      BY <1>2, <1>18, <2>1 DEF OneOwner, QueuedIsFree
    <3>2. u # c /\ (n # 0 => u # n)
      BY <1>2, <1>12, <1>18, <2>1, <3>1
    <3>. QED  BY <3>1, <3>2, <1>5, <1>6, <1>14, <1>16
  <2>. QED  BY <2>1 DEF QueuedIsFree
<1>20. HeldByOne'
  <2>1. ASSUME NEW s \in Threads, NEW u \in Units, Holds(s, u)'
        PROVE  /\ u \in MadeUnits' /\ unit'[u].drawn = 0
               /\ \A r \in Threads : Holds(r, u)' => r = s
               /\ pc'[s] # "draw" => Unlinked(u)'
               /\ pc'[s] = "link" => unit'[u].prev # NoUnit
               /\ pc'[s] = "draw" => \A v \in MadeUnits' : v < u /\ SameBucket(v, u)'
                                                             => unit'[v].drawn = 1
    <3>1. CASE s = t
      <4>1. u = n /\ n # 0 /\ pc'[s] = "look"
        BY <1>7, <1>16, <2>1, <3>1
      <4>2. unit'[u] = unit[u] /\ unit'[u].drawn = 0
        BY <1>4, <1>5, <1>12, <4>1
      <4>3. Unlinked(u)'
        BY <1>5, <1>12, <4>1, <4>2 DEF Unlinked
      <4>4. \A r \in Threads : Holds(r, u)' => r = s
        BY <1>4, <1>12, <1>16, <3>1, <4>1
      <4>. QED  BY <1>6, <1>12, <4>1, <4>2, <4>3, <4>4
    <3>2. CASE s # t
      <4>1. Holds(s, u)
        BY <1>16, <2>1, <3>2
      <4>2. u # c /\ (n # 0 => u # n)
        BY <1>2, <1>12, <3>2, <4>1
      <4>3. /\ u \in MadeUnits /\ unit[u].drawn = 0
            /\ \A r \in Threads : Holds(r, u) => r = s
            /\ pc[s] # "draw" => Unlinked(u)
            /\ pc[s] = "link" => unit[u].prev # NoUnit
            /\ pc[s] = "draw" => \A v \in MadeUnits : v < u /\ SameBucket(v, u)
                                                       => unit[v].drawn = 1
        BY <1>2, <4>1 DEF OneOwner, HeldByOne
      <4>4. \A r \in Threads : Holds(r, u)' => r = s
        BY <1>16, <4>2, <4>3
      <4>5. pc'[s] # "draw" => Unlinked(u)'
        BY <1>7, <1>14, <3>2, <4>3
      <4>6. unit'[u] = unit[u]
        BY <1>5, <4>2
      <4>7. pc'[s] = "draw" => \A v \in MadeUnits' : v < u /\ SameBucket(v, u)'
                                                       => unit'[v].drawn = 1
        BY <1>3, <1>6, <1>7, <1>10, <3>2, <4>3
      <4>. QED  BY <1>6, <1>7, <3>2, <4>3, <4>4, <4>5, <4>6, <4>7
    <3>. QED  BY <3>1, <3>2
  <2>. QED  BY <2>1 DEF HeldByOne
<1>21. HasOwner'
  <2>1. ASSUME NEW u \in MadeUnits', unit'[u].drawn = 0
        PROVE  Queued(u)' \/ Parked(u)' \/ \E s \in Threads : Holds(s, u)'
    <3>1. u \in Units /\ u \in MadeUnits /\ u # c
      BY <1>3, <1>5, <1>6, <2>1
    <3>2. unit[u].drawn = 0
      BY <1>5, <2>1, <3>1
    <3>3. Queued(u) \/ Parked(u) \/ \E s \in Threads : Holds(s, u)
      BY <1>2, <3>1, <3>2 DEF OneOwner, HasOwner
    <3>4. CASE Parked(u) /\ u = n
      <4>1. n # 0
        <5>1. u \in Nat /\ unit[u].prev \in Nat /\ unit[u].prev < u
          <6>1. unit[u].prev \in MadeUnits /\ unit[u].prev < u
            BY <1>2, <3>1, <3>4 DEF Chained, Parked
          <6>2. unit[u].prev \in Units
            BY <1>3, <6>1
          <6>. QED  BY <3>1, <6>1, <6>2, UnitFacts
        <5>. QED  BY <3>4, <5>1
      <4>. QED  BY <1>16, <3>1, <3>4, <4>1
    <3>5. CASE Parked(u) /\ u # n
      BY <1>15, <3>1, <3>5
    <3>6. CASE Queued(u) \/ \E s \in Threads : Holds(s, u)
      BY <1>16, <1>17, <1>18, <3>1, <3>6
    <3>. QED  BY <3>3, <3>4, <3>5, <3>6
  <2>. QED  BY <2>1 DEF HasOwner
<1>22. NothingRuns'
  BY <1>1, <1>2 DEF NothingRuns, mainVars
<1>. QED  BY <1>6, <1>8, <1>11, <1>13, <1>18, <1>19, <1>20, <1>21, <1>22 DEF IInv, OneOwner

----------------------------------------------------------------------------
\* The main thread: object data and waits.

LEMMA ObjectDataAllocKeeps ==
  ASSUME IInv, NEW d \in Data, ObjectDataAlloc(d)
  PROVE  IInv'
<1>1. /\ TypeOK /\ object \in Seq(Data) /\ Len(object) \in Nat /\ MaxPolys \in Nat
      /\ Len(object) < MaxPolys
      /\ object' = Append(object, d) /\ supplied' = d
      /\ UNCHANGED <<hasQueue, unit, units, polygons, bucket, queue, waiting, pc, cur>>
  BY UnitFacts DEF IInv, TypeOK, ObjectDataAlloc
<1>2. /\ object' \in Seq(Data) /\ Len(object') = Len(object) + 1
      /\ object'[Len(object')] = d
      /\ \A i \in 1 .. Len(object) : object'[i] = object[i]
  BY <1>1
<1>3. TypeOK'
  BY <1>1, <1>2 DEF TypeOK
<1>4. Chained' /\ DrawnInOrder' /\ LinkedInOrder' /\ NothingRuns'
  BY <1>1 DEF IInv, Chained, DrawnInOrder, LinkedInOrder, NothingRuns, MadeUnits, SameBucket
<1>5. OneOwner'
  BY <1>1 DEF IInv, OneOwner, QueuedOnce, QueuedIsFree, HeldByOne, HasOwner, MadeUnits,
              SameBucket, Queued, Holds, Unlinked, Parked
<1>6. DataKept'
  <2>1. \A u \in MadeUnits' : /\ unit'[u].object \in 1 .. Len(object)
                              /\ object[unit'[u].object] = unit'[u].data
    BY <1>1 DEF IInv, DataKept, MadeUnits
  <2>2. 1 .. Len(object) \subseteq 1 .. Len(object')
    BY <1>1, <1>2
  <2>. QED  BY <1>1, <1>2, <2>1, <2>2 DEF DataKept
<1>. QED  BY <1>3, <1>4, <1>5, <1>6 DEF IInv

LEMMA WaitKeeps ==
  ASSUME IInv, Wait
  PROVE  IInv'
<1>1. /\ ~waiting /\ waiting' = TRUE /\ TypeOK
      /\ queue' = IF hasQueue THEN queue ELSE [i \in 1 .. units |-> i - 1]
      /\ UNCHANGED <<hasQueue, unit, units, polygons, object, supplied, bucket, pc, cur>>
  BY DEF IInv, Wait
<1>2. /\ Chained' /\ DrawnInOrder' /\ LinkedInOrder' /\ DataKept' /\ MadeUnits' = MadeUnits
      /\ \A u \in Units : (Unlinked(u)' <=> Unlinked(u)) /\ (Parked(u)' <=> Parked(u))
      /\ \A u, v \in Units : SameBucket(u, v)' <=> SameBucket(u, v)
  BY <1>1, NothingWritten
<1>3. NothingRuns'
  BY <1>1 DEF NothingRuns
<1>4. CASE hasQueue
  <2>1. queue' = queue
    BY <1>1, <1>4
  <2>2. TypeOK'
    BY <1>1, <2>1 DEF TypeOK
  <2>3. OneOwner'
    BY <1>1, <1>4, <2>1 DEF IInv, OneOwner, QueuedOnce, QueuedIsFree, HeldByOne, HasOwner,
                       MadeUnits, SameBucket, Queued, Holds, Unlinked, Parked
  <2>. QED  BY <1>2, <1>3, <2>2, <2>3 DEF IInv
<1>5. CASE ~hasQueue
  <2>1. /\ \A t \in Threads : pc[t] = "idle"
        /\ \A u \in MadeUnits : unit[u].drawn = 0
        /\ \A u \in Units : unit[u].next = 0
    BY <1>1, <1>5 DEF IInv, NothingRuns
  <2>2. units \in Nat /\ MadeUnits \subseteq Units
    BY <1>1, TypeFacts
  <2>3. queue' = [i \in 1 .. units |-> i - 1] /\ DOMAIN queue' = 1 .. units
    BY <1>1, <1>5
  <2>4. \A i \in 1 .. units : queue'[i] = i - 1 /\ i - 1 \in MadeUnits
    BY <2>2, <2>3 DEF MadeUnits
  <2>5. queue' \in Seq(Units)
    <3>1. queue' \in [1 .. units -> Units]
      BY <2>2, <2>3, <2>4
    <3>. QED  BY <2>2, <3>1
  <2>6. TypeOK'
    BY <1>1, <2>5 DEF TypeOK
  <2>7. QueuedOnce'
    BY <2>2, <2>3, <2>4 DEF QueuedOnce
  <2>8. \A u \in Units : Queued(u)' <=> u \in MadeUnits
    <3>1. ASSUME NEW u \in MadeUnits PROVE Queued(u)'
      <4>1. u + 1 \in 1 .. units /\ (u + 1) - 1 = u
        BY <2>2 DEF MadeUnits
      <4>2. u + 1 \in DOMAIN queue' /\ queue'[u + 1] = u
        BY <2>3, <2>4, <4>1
      <4>. QED  BY <4>2 DEF Queued
    <3>. QED  BY <2>3, <2>4, <3>1 DEF Queued
  <2>9. \A u \in MadeUnits : Unlinked(u)
    <3>1. \A u \in MadeUnits : unit[u].prev # NoUnit => unit[u].prev \in MadeUnits
      BY DEF IInv, Chained
    <3>. QED  BY <2>1, <2>2, <3>1 DEF Unlinked
  <2>10. \A t \in Threads, u \in Units : ~Holds(t, u)'
    BY <1>1, <2>1 DEF Holds
  <2>11. QueuedIsFree'
    <3>1. ASSUME NEW u \in Units, Queued(u)'
          PROVE  /\ u \in MadeUnits' /\ unit'[u].drawn = 0 /\ Unlinked(u)'
                 /\ \A t \in Threads : ~Holds(t, u)'
      BY <1>1, <1>2, <2>1, <2>8, <2>9, <2>10, <3>1
    <3>. QED  BY <3>1 DEF QueuedIsFree
  <2>12. HeldByOne'
    BY <2>10 DEF HeldByOne
  <2>13. HasOwner'
    <3>1. \A u \in MadeUnits' : Queued(u)'
      BY <1>2, <2>2, <2>8
    <3>. QED  BY <3>1 DEF HasOwner
  <2>. QED  BY <1>2, <1>3, <2>6, <2>7, <2>11, <2>12, <2>13 DEF IInv, OneOwner
<1>. QED  BY <1>4, <1>5

LEMMA NoWorkFacts ==
  NoWork \in UnitRec /\ NoWork.next = 0
<1>1. AnyData \in Data
  <2>1. \E d \in Data : TRUE
    BY PolyManagerAssumption
  <2>. QED  BY <2>1 DEF AnyData
<1>2. 0 \in 0 .. Buckets - 1 /\ 1 \in 1 .. MaxPolys /\ 0 \in Units
  BY UnitFacts
<1>. QED  BY <1>1, <1>2 DEF NoWork, UnitRec

LEMMA WaitEndsKeeps ==
  ASSUME IInv, WaitEnds
  PROVE  IInv'
<1>1. /\ queue = <<>> /\ (\A t \in Threads : pc[t] = "idle") /\ waiting' = FALSE
      /\ units' = 0 /\ polygons' = 0 /\ bucket' = [b \in DOMAIN bucket |-> NoUnit]
      /\ object' = IF object = <<>> THEN <<>> ELSE <<object[Len(object)]>>
      /\ unit' = [u \in Units |-> NoWork] /\ UNCHANGED <<hasQueue, supplied, queue, pc, cur>>
      /\ TypeOK /\ DataKept
  BY DEF IInv, WaitEnds, Quiet
<1>2. MadeUnits' = {}
  BY <1>1 DEF MadeUnits
<1>3. DOMAIN bucket = 0 .. Buckets - 1
  BY <1>1 DEF TypeOK
<1>4. /\ object' \in Seq(Data) /\ Len(object') <= MaxPolys
      /\ object' # <<>> => supplied' = object'[Len(object')]
  <2>1. object \in Seq(Data) /\ MaxPolys \in Nat \ {0, 1}
    BY <1>1, UnitFacts DEF TypeOK
  <2>2. CASE object = <<>>
    BY <1>1, <2>1, <2>2
  <2>3. CASE object # <<>>
    <3>1. object[Len(object)] \in Data /\ supplied = object[Len(object)]
      BY <1>1, <2>1, <2>3 DEF DataKept
    <3>2. object' = <<object[Len(object)]>>
      BY <1>1, <2>3
    <3>. QED  BY <1>1, <2>1, <3>1, <3>2
  <2>. QED  BY <2>2, <2>3
<1>5. unit' \in [Units -> UnitRec] /\ \A u \in Units : unit'[u].next = 0
  BY <1>1, NoWorkFacts
<1>6. TypeOK'
  <2>1. 0 \in 0 .. UnitCount - 1 /\ 0 \in 0 .. MaxPolys - 1
    BY UnitFacts DEF Units
  <2>2. bucket' \in [0 .. Buckets - 1 -> Units \cup {NoUnit}]
    BY <1>1, <1>3
  <2>. QED  BY <1>1, <1>4, <1>5, <2>1, <2>2 DEF TypeOK, UnitRec
<1>7. Chained'
  BY <1>1, <1>2, <1>3 DEF Chained
<1>8. DrawnInOrder' /\ LinkedInOrder'
  BY <1>2, <1>5 DEF DrawnInOrder, LinkedInOrder
<1>9. OneOwner'
  <2>1. \A t \in Threads, u \in Units : ~Holds(t, u)'
    BY <1>1 DEF Holds
  <2>2. DOMAIN queue' = {}
    BY <1>1
  <2>. QED  BY <1>2, <2>1, <2>2 DEF OneOwner, QueuedOnce, QueuedIsFree, HeldByOne, HasOwner, Queued
<1>10. NothingRuns'
  BY <1>1, <1>2, <1>5 DEF NothingRuns
<1>11. DataKept'
  BY <1>2, <1>4 DEF DataKept
<1>. QED  BY <1>6, <1>7, <1>8, <1>9, <1>10, <1>11 DEF IInv

----------------------------------------------------------------------------
\* The main thread renders a polygon.

\* The buckets of a polygon's units repeat.
LEMMA BucketFacts ==
  ASSUME TypeOK, NEW first \in 0 .. Buckets - 1, NEW n \in Nat, NEW u \in Made(n)
  PROVE  /\ BucketNum(first, u) \in 0 .. Buckets - 1
         /\ \A v \in Made(n) : v < u /\ BucketNum(first, v) = BucketNum(first, u)
                                 => v <= u - Buckets
         /\ u - Buckets >= units => /\ u - Buckets \in Made(n)
                                    /\ BucketNum(first, u - Buckets) = BucketNum(first, u)
<1>1. units \in Nat /\ Buckets \in Nat \ {0} /\ first \in Nat
  BY TypeFacts, UnitFacts
<1>2. \A v \in Made(n) : v \in Nat /\ v >= units /\ first + v - units \in Nat
  BY <1>1 DEF Made
<1>3. BucketNum(first, u) \in 0 .. Buckets - 1
  <2>1. PICK k \in Nat : k = first + u - units
    BY <1>2
  <2>2. k % Buckets \in 0 .. Buckets - 1
    BY <1>1, Division
  <2>. QED  BY <2>1, <2>2 DEF BucketNum
<1>4. ASSUME NEW v \in Made(n), v < u, BucketNum(first, v) = BucketNum(first, u)
      PROVE  v <= u - Buckets
  <2>1. PICK k \in Nat, l \in Nat : k = first + u - units /\ l = first + v - units
    BY <1>2
  <2>2. l < k
    BY <1>1, <1>2, <1>4, <2>1
  <2>3. l % Buckets = k % Buckets
    BY <1>4, <2>1 DEF BucketNum
  <2>4. l <= k - Buckets
    BY <1>1, <2>2, <2>3, SameRemainder
  <2>. QED  BY <1>1, <1>2, <2>1, <2>4
<1>5. ASSUME u - Buckets >= units
      PROVE  /\ u - Buckets \in Made(n)
             /\ BucketNum(first, u - Buckets) = BucketNum(first, u)
  <2>1. PICK k \in Nat : k = first + u - units
    BY <1>2
  <2>2. Buckets <= k /\ k - Buckets = first + (u - Buckets) - units
    BY <1>1, <1>2, <1>5, <2>1
  <2>3. (k - Buckets) % Buckets = k % Buckets
    BY <1>1, <2>2, SameRemainder
  <2>4. u - Buckets \in Made(n)
    BY <1>1, <1>2, <1>5 DEF Made
  <2>. QED  BY <2>1, <2>2, <2>3, <2>4 DEF BucketNum
<1>. QED  BY <1>3, <1>4, <1>5

\* Nothing is linked behind the last unit of a bucket.
LEMMA LastIsLast ==
  ASSUME IInv, NEW b \in 0 .. Buckets - 1, bucket[b] # NoUnit
  PROVE  /\ bucket[b] \in MadeUnits /\ bucket[b] \in Units
         /\ unit[bucket[b]].bucket = b /\ unit[bucket[b]].next = 0
<1>1. PICK l : l = bucket[b]
  OBVIOUS
<1>2. /\ TypeOK /\ Chained /\ LinkedInOrder /\ MadeUnits \subseteq Units
      /\ MadeUnits \subseteq Nat
  BY TypeFacts DEF IInv
<1>3. l \in MadeUnits /\ unit[l].bucket = b /\ l \in Units
  BY <1>1, <1>2 DEF Chained
<1>4. ASSUME unit[l].next # 0 PROVE FALSE
  <2>1. PICK w : w = unit[l].next
    OBVIOUS
  <2>2. w \in MadeUnits /\ unit[w].prev = l
    BY <1>2, <1>3, <1>4, <2>1 DEF LinkedInOrder
  <2>3. l < w /\ unit[w].bucket = b
    BY <1>2, <1>3, <2>2, UnitFacts DEF Chained, SameBucket
  <2>4. w <= l
    BY <1>1, <1>2, <2>2, <2>3 DEF Chained
  <2>5. w \in Nat /\ l \in Nat
    BY <1>2, <1>3, <2>2
  <2>. QED  BY <2>3, <2>4, <2>5
<1>. QED  BY <1>1, <1>3, <1>4

\* What a step that renders does to the variables.
LEMMA RenderFacts ==
  ASSUME IInv, NEW first \in 0 .. Buckets - 1, NEW n \in 0 .. UnitCount - 1,
         Render(first, n)
  PROVE  /\ units \in Nat /\ n \in Nat /\ units' = units + n /\ units' \in 0 .. UnitCount - 1
         /\ Made(n) \subseteq Units /\ MadeUnits' = MadeUnits \cup Made(n)
         /\ \A u \in MadeUnits, v \in Made(n) : u < v /\ u # v
         /\ \A u \in MadeUnits, v \in MadeUnits' : v < u => v \in MadeUnits
         /\ \A u \in Made(n) : unit'[u] = NewUnit(first, u)
         /\ \A u \in Units : u \notin Made(n) => unit'[u] = unit[u]
         /\ \A u \in MadeUnits : unit'[u] = unit[u]
         /\ \A b \in 0 .. Buckets - 1 :
              \/ bucket'[b] = bucket[b] /\ \A u \in Made(n) : BucketNum(first, u) # b
              \/ /\ bucket'[b] \in Made(n) /\ BucketNum(first, bucket'[b]) = b
                 /\ \A u \in Made(n) : BucketNum(first, u) = b => u <= bucket'[b]
<1>1. /\ TypeOK /\ units \in Nat /\ n \in Nat /\ UnitCount \in Nat
      /\ MadeUnits \subseteq Units /\ MadeUnits \subseteq Nat
  BY UnitFacts, TypeFacts DEF IInv
<1>2. /\ units + Space(n) < UnitCount /\ units' = units + n
      /\ unit' = [u \in Units |-> IF u \in Made(n) THEN NewUnit(first, u) ELSE unit[u]]
      /\ bucket' = [b \in DOMAIN bucket |->
                      IF {u \in Made(n) : BucketNum(first, u) = b} = {} THEN bucket[b]
                      ELSE CHOOSE x \in {u \in Made(n) : BucketNum(first, u) = b} :
                             \A v \in {u \in Made(n) : BucketNum(first, u) = b} : v <= x]
  BY DEF Render
<1>3. n <= Space(n)
  BY <1>1 DEF Space
<1>4. units + n < UnitCount /\ Space(n) \in Nat
  BY <1>1, <1>2, <1>3 DEF Space
<1>5. units' \in 0 .. UnitCount - 1
  BY <1>1, <1>2, <1>4
<1>6. Made(n) \subseteq Units /\ Made(n) \subseteq Nat
  BY <1>1, <1>4 DEF Made, Units
<1>7. MadeUnits' = MadeUnits \cup Made(n)
  BY <1>1, <1>2 DEF MadeUnits, Made
<1>8. \A u \in MadeUnits, v \in Made(n) : u < v /\ u # v
  BY <1>1 DEF MadeUnits, Made
<1>9. \A u \in MadeUnits, v \in MadeUnits' : v < u => v \in MadeUnits
  BY <1>1, <1>2 DEF MadeUnits
<1>10. /\ \A u \in Made(n) : unit'[u] = NewUnit(first, u)
       /\ \A u \in Units : u \notin Made(n) => unit'[u] = unit[u]
       /\ \A u \in MadeUnits : unit'[u] = unit[u]
  BY <1>1, <1>2, <1>6, <1>8
<1>11. ASSUME NEW b \in 0 .. Buckets - 1
       PROVE  \/ bucket'[b] = bucket[b] /\ \A u \in Made(n) : BucketNum(first, u) # b
              \/ /\ bucket'[b] \in Made(n) /\ BucketNum(first, bucket'[b]) = b
                 /\ \A u \in Made(n) : BucketNum(first, u) = b => u <= bucket'[b]
  <2>1. PICK S : S = {u \in Made(n) : BucketNum(first, u) = b}
    OBVIOUS
  <2>2. b \in DOMAIN bucket
    BY <1>1 DEF TypeOK
  <2>3. bucket'[b] = IF S = {} THEN bucket[b] ELSE CHOOSE x \in S : \A v \in S : v <= x
    BY <1>2, <2>1, <2>2
  <2>4. CASE S = {}
    BY <2>1, <2>3, <2>4
  <2>5. CASE S # {}
    <3>1. S \subseteq 0 .. UnitCount - 1
      BY <1>6, <2>1 DEF Units
    <3>2. \E x \in S : \A v \in S : v <= x
      <4>1. UnitCount - 1 \in Nat
        BY UnitFacts, <1>1 DEF Units
      <4>. QED  BY <2>5, <3>1, <4>1, Greatest
    <3>3. bucket'[b] \in S /\ \A v \in S : v <= bucket'[b]
      BY <2>3, <2>5, <3>2
    <3>. QED  BY <2>1, <3>3
  <2>. QED  BY <2>4, <2>5
<1>. QED  BY <1>1, <1>2, <1>5, <1>6, <1>7, <1>8, <1>9, <1>10, <1>11

\* A new unit is behind the last one of its bucket, and in nobody's way.
LEMMA NewUnits ==
  ASSUME IInv, NEW first \in 0 .. Buckets - 1, NEW n \in 0 .. UnitCount - 1,
         Render(first, n), NEW u \in Made(n)
  PROVE  /\ unit'[u].bucket = BucketNum(first, u) /\ unit'[u].bucket \in 0 .. Buckets - 1
         /\ unit'[u].next = 0 /\ unit'[u].count = 1 /\ unit'[u].drawn = 0
         /\ unit'[u].object = Len(object) /\ unit'[u].data = supplied
         /\ unit'[u].prev \in Units \cup {NoUnit}
         /\ unit'[u].prev # NoUnit => /\ unit'[u].prev \in MadeUnits' /\ unit'[u].prev < u
                                      /\ unit'[unit'[u].prev].bucket = unit'[u].bucket
                                      /\ unit'[unit'[u].prev].next = 0
         /\ \A v \in MadeUnits' : v < u /\ unit'[v].bucket = unit'[u].bucket
                                    => unit'[u].prev # NoUnit /\ v <= unit'[u].prev
<1>1. /\ units \in Nat /\ n \in Nat
      /\ Made(n) \subseteq Units /\ MadeUnits' = MadeUnits \cup Made(n)
      /\ \A x \in MadeUnits, y \in Made(n) : x < y
      /\ \A x \in Made(n) : unit'[x] = NewUnit(first, x)
      /\ \A x \in MadeUnits : unit'[x] = unit[x]
  BY RenderFacts
<1>2. /\ TypeOK /\ Chained /\ Buckets \in Nat \ {0} /\ MadeUnits \subseteq Units
      /\ NoUnit \notin Units /\ \A x \in Units : x \in Nat
  BY TypeFacts, UnitFacts DEF IInv
<1>3. PICK b : b = BucketNum(first, u)
  OBVIOUS
<1>4. /\ b \in 0 .. Buckets - 1
      /\ \A v \in Made(n) : v < u /\ BucketNum(first, v) = b => v <= u - Buckets
      /\ u - Buckets >= units => /\ u - Buckets \in Made(n)
                                 /\ BucketNum(first, u - Buckets) = b
  BY <1>1, <1>2, <1>3, BucketFacts
<1>5. PICK p : p = IF u - Buckets >= units THEN u - Buckets ELSE bucket[b]
  OBVIOUS
<1>6. /\ unit'[u].bucket = b /\ unit'[u].prev = p
      /\ unit'[u].next = 0 /\ unit'[u].count = 1 /\ unit'[u].drawn = 0
      /\ unit'[u].object = Len(object) /\ unit'[u].data = supplied
  <2>1. unit'[u] = NewUnit(first, u)
    BY <1>1
  <2>. QED  BY <1>3, <1>5, <2>1 DEF NewUnit
<1>7. \A x \in Made(n) : unit'[x].bucket = BucketNum(first, x) /\ unit'[x].next = 0
  <2>1. ASSUME NEW x \in Made(n)
        PROVE  unit'[x].bucket = BucketNum(first, x) /\ unit'[x].next = 0
    <3>1. unit'[x] = NewUnit(first, x)
      BY <1>1
    <3>. QED  BY <3>1 DEF NewUnit
  <2>. QED  BY <2>1
<1>8. u \in Nat /\ u \in Units
  BY <1>1, <1>2
<1>9. CASE u - Buckets >= units
  <2>1. p = u - Buckets /\ p \in Made(n) /\ p \in Units
    BY <1>1, <1>4, <1>5, <1>9
  <2>2. p # NoUnit /\ p \in MadeUnits' /\ p < u
    BY <1>1, <1>2, <1>8, <2>1
  <2>3. unit'[p].bucket = b /\ unit'[p].next = 0
    BY <1>4, <1>7, <1>9, <2>1
  <2>4. ASSUME NEW v \in MadeUnits', v < u, unit'[v].bucket = b
        PROVE  v <= p
    <3>1. CASE v \in Made(n)
      BY <1>4, <1>7, <2>1, <2>4, <3>1
    <3>2. CASE v \in MadeUnits
      <4>1. v < p /\ v \in Nat /\ p \in Nat
        BY <1>1, <1>2, <2>1, <3>2
      <4>. QED  BY <4>1
    <3>. QED  BY <1>1, <3>1, <3>2
  <2>. QED  BY <1>3, <1>4, <1>6, <2>1, <2>2, <2>3, <2>4
<1>10. CASE ~(u - Buckets >= units)
  <2>1. p = bucket[b] /\ p \in Units \cup {NoUnit}
    BY <1>2, <1>4, <1>5, <1>10 DEF TypeOK
  <2>2. \A v \in Made(n) : ~(v < u /\ unit'[v].bucket = b)
    <3>1. \A v \in Made(n) : v >= units /\ v \in Nat
      BY <1>1 DEF Made
    <3>. QED  BY <1>1, <1>2, <1>4, <1>7, <1>8, <1>10, <3>1
  <2>3. ASSUME NEW v \in MadeUnits', v < u, unit'[v].bucket = b
        PROVE  p # NoUnit /\ v <= p
    <3>1. v \in MadeUnits /\ unit[v].bucket = b
      BY <1>1, <2>2, <2>3
    <3>. QED  BY <1>2, <1>4, <2>1, <3>1 DEF Chained
  <2>4. ASSUME p # NoUnit
        PROVE  /\ p \in MadeUnits' /\ p < u /\ unit'[p].bucket = b /\ unit'[p].next = 0
    <3>1. p \in MadeUnits /\ unit[p].bucket = b /\ unit[p].next = 0
      BY <1>4, <2>1, <2>4, LastIsLast
    <3>. QED  BY <1>1, <3>1
  <2>. QED  BY <1>3, <1>4, <1>6, <2>1, <2>3, <2>4
<1>. QED  BY <1>9, <1>10

\* The units that were there stay as they are, and find the same ones before them.
LEMMA OldUnits ==
  ASSUME IInv, NEW first \in 0 .. Buckets - 1, NEW n \in 0 .. UnitCount - 1,
         Render(first, n), NEW u \in MadeUnits
  PROVE  /\ unit'[u] = unit[u] /\ u \in MadeUnits'
         /\ unit[u].prev # NoUnit => /\ unit[u].prev \in MadeUnits
                                     /\ unit'[unit[u].prev] = unit[unit[u].prev]
         /\ Unlinked(u)' <=> Unlinked(u)
         /\ Parked(u)' <=> Parked(u)
         /\ \A v \in MadeUnits' : v < u /\ SameBucket(v, u)'
                                    => v \in MadeUnits /\ SameBucket(v, u)
<1>1. /\ unit'[u] = unit[u] /\ MadeUnits' = MadeUnits \cup Made(n)
      /\ \A v \in MadeUnits : unit'[v] = unit[v]
      /\ \A v \in MadeUnits' : v < u => v \in MadeUnits
  BY RenderFacts
<1>2. unit[u].prev # NoUnit => unit[u].prev \in MadeUnits
  BY DEF IInv, Chained
<1>3. unit[u].prev # NoUnit => unit'[unit[u].prev] = unit[unit[u].prev]
  BY <1>1, <1>2
<1>. QED  BY <1>1, <1>2, <1>3 DEF Unlinked, Parked, SameBucket

\* The queue grows by the new units.
LEMMA QueueGrows ==
  ASSUME TypeOK, NEW n \in Nat, Made(n) \subseteq Units, QueuedOnce,
         \A u \in Made(n) : ~Queued(u),
         queue' = queue \o [i \in 1 .. n |-> units + i - 1]
  PROVE  /\ queue' \in Seq(Units) /\ QueuedOnce'
         /\ \A u \in Units : Queued(u)' <=> Queued(u) \/ u \in Made(n)
<1>1. PICK l \in Nat : l = Len(queue)
  BY TypeFacts
<1>2. PICK s : s = [i \in 1 .. n |-> units + i - 1]
  OBVIOUS
<1>3. units \in Nat /\ queue \in Seq(Units) /\ DOMAIN queue = 1 .. l
  BY <1>1, TypeFacts
<1>4. \A i \in 1 .. n : s[i] = units + i - 1 /\ s[i] \in Made(n)
  BY <1>2, <1>3 DEF Made
<1>5. s \in Seq(Units) /\ Len(s) = n
  <2>1. s \in [1 .. n -> Units]
    BY <1>2, <1>4
  <2>. QED  BY <1>2, <2>1
<1>6. /\ queue' \in Seq(Units) /\ DOMAIN queue' = 1 .. l + n
      /\ \A i \in 1 .. l : queue'[i] = queue[i]
      /\ \A i \in l + 1 .. l + n : queue'[i] = s[i - l]
  BY <1>1, <1>2, <1>3, <1>5
<1>7. \A i \in l + 1 .. l + n : i - l \in 1 .. n /\ queue'[i] = units + (i - l) - 1
                                /\ queue'[i] \in Made(n)
  <2>1. \A i \in l + 1 .. l + n : i - l \in 1 .. n
    BY <1>1
  <2>. QED  BY <1>4, <1>6, <2>1
<1>8. \A i \in 1 .. l : queue'[i] = queue[i] /\ i \in DOMAIN queue /\ queue[i] \notin Made(n)
  BY <1>3, <1>6 DEF Queued
<1>9. \A i \in 1 .. l + n : i \in 1 .. l \/ i \in l + 1 .. l + n
  BY <1>1
<1>10. QueuedOnce'
  <2>1. SUFFICES ASSUME NEW i \in 1 .. l + n, NEW j \in 1 .. l + n, queue'[i] = queue'[j]
                 PROVE  i = j
    BY <1>6 DEF QueuedOnce
  <2>2. CASE i \in 1 .. l /\ j \in 1 .. l
    BY <1>8, <2>1, <2>2 DEF QueuedOnce
  <2>3. CASE i \in l + 1 .. l + n /\ j \in l + 1 .. l + n
    <3>1. units + (i - l) - 1 = units + (j - l) - 1
      BY <1>7, <2>1, <2>3
    <3>. QED  BY <1>1, <1>3, <2>3, <3>1
  <2>4. CASE (i \in 1 .. l /\ j \in l + 1 .. l + n) \/ (j \in 1 .. l /\ i \in l + 1 .. l + n)
    BY <1>7, <1>8, <2>1, <2>4
  <2>. QED  BY <1>9, <2>2, <2>3, <2>4
<1>11. ASSUME NEW u \in Units PROVE Queued(u)' <=> Queued(u) \/ u \in Made(n)
  <2>1. ASSUME Queued(u)' PROVE Queued(u) \/ u \in Made(n)
    <3>1. PICK i \in 1 .. l + n : queue'[i] = u
      BY <1>6, <2>1 DEF Queued
    <3>. QED  BY <1>7, <1>8, <1>9, <3>1 DEF Queued
  <2>2. ASSUME Queued(u) PROVE Queued(u)'
    <3>1. PICK i \in 1 .. l : queue[i] = u
      BY <1>3, <2>2 DEF Queued
    <3>2. i \in 1 .. l + n
      BY <1>1
    <3>. QED  BY <1>6, <3>1, <3>2 DEF Queued
  <2>3. ASSUME u \in Made(n) PROVE Queued(u)'
    <3>1. PICK i : i = l + (u - units) + 1
      OBVIOUS
    <3>2. i \in l + 1 .. l + n /\ i \in 1 .. l + n /\ units + (i - l) - 1 = u
      BY <1>1, <1>3, <2>3, <3>1 DEF Made
    <3>. QED  BY <1>6, <1>7, <3>2 DEF Queued
  <2>. QED  BY <2>1, <2>2, <2>3
<1>. QED  BY <1>6, <1>10, <1>11

LEMMA RenderKeeps ==
  ASSUME IInv, NEW first \in 0 .. Buckets - 1, NEW n \in 0 .. UnitCount - 1,
         Render(first, n)
  PROVE  IInv'
<1>1. /\ units \in Nat /\ n \in Nat /\ units' = units + n /\ units' \in 0 .. UnitCount - 1
      /\ Made(n) \subseteq Units /\ MadeUnits' = MadeUnits \cup Made(n)
      /\ \A u \in MadeUnits, v \in Made(n) : u < v /\ u # v
      /\ \A u \in Units : u \notin Made(n) => unit'[u] = unit[u]
      /\ \A b \in 0 .. Buckets - 1 :
           \/ bucket'[b] = bucket[b] /\ \A u \in Made(n) : BucketNum(first, u) # b
           \/ /\ bucket'[b] \in Made(n) /\ BucketNum(first, bucket'[b]) = b
              /\ \A u \in Made(n) : BucketNum(first, u) = b => u <= bucket'[b]
  BY RenderFacts
<1>2. /\ ~waiting /\ object # <<>> /\ polygons + 1 < MaxPolys /\ polygons' = polygons + 1
      /\ queue' = IF hasQueue THEN queue \o [i \in 1 .. n |-> units + i - 1] ELSE queue
      /\ bucket' = [b \in DOMAIN bucket |-> bucket'[b]]
      /\ unit' = [u \in Units |-> unit'[u]]
      /\ UNCHANGED <<hasQueue, object, supplied, waiting, pc, cur>>
  BY DEF Render
<1>3. /\ TypeOK /\ Chained /\ DrawnInOrder /\ OneOwner /\ LinkedInOrder /\ NothingRuns
      /\ DataKept /\ MadeUnits \subseteq Units /\ unit \in [Units -> UnitRec]
      /\ NoUnit \notin Units
  BY TypeFacts, UnitFacts DEF IInv
\* The new units.
<1>4. \A u \in Made(n) :
        /\ unit'[u].bucket = BucketNum(first, u) /\ unit'[u].bucket \in 0 .. Buckets - 1
        /\ unit'[u].next = 0 /\ unit'[u].count = 1 /\ unit'[u].drawn = 0
        /\ unit'[u].object = Len(object) /\ unit'[u].data = supplied
        /\ unit'[u].prev \in Units \cup {NoUnit}
  BY NewUnits
<1>5. \A u \in Made(n) :
        /\ unit'[u].prev # NoUnit => /\ unit'[u].prev \in MadeUnits' /\ unit'[u].prev < u
                                     /\ unit'[unit'[u].prev].bucket = unit'[u].bucket
        /\ \A v \in MadeUnits' : v < u /\ unit'[v].bucket = unit'[u].bucket
                                   => unit'[u].prev # NoUnit /\ v <= unit'[u].prev
  BY NewUnits
<1>6. \A u \in Made(n) : Unlinked(u)'
  <2>1. \A u \in Made(n) : unit'[u].prev # NoUnit => unit'[unit'[u].prev].next = 0
    BY NewUnits
  <2>. QED  BY <2>1 DEF Unlinked
\* The units that were there.
<1>7. \A u \in MadeUnits :
        /\ unit'[u] = unit[u] /\ u \in MadeUnits'
        /\ unit[u].prev # NoUnit => /\ unit[u].prev \in MadeUnits
                                    /\ unit'[unit[u].prev] = unit[unit[u].prev]
        /\ \A v \in MadeUnits' : v < u /\ SameBucket(v, u)'
                                   => v \in MadeUnits /\ SameBucket(v, u)
  BY OldUnits
<1>8. \A u \in MadeUnits : (Unlinked(u)' <=> Unlinked(u)) /\ (Parked(u)' <=> Parked(u))
  BY OldUnits
<1>9. /\ Len(object) \in 1 .. MaxPolys /\ supplied \in Data
      /\ object[Len(object)] = supplied
  <2>1. Len(object) \in Nat /\ object \in Seq(Data) /\ Len(object) <= MaxPolys /\ MaxPolys \in Nat
    BY <1>3, UnitFacts DEF TypeOK
  <2>. QED  BY <1>2, <1>3, <2>1 DEF TypeOK, DataKept
<1>10. unit' \in [Units -> UnitRec]
  <2>1. ASSUME NEW u \in Units PROVE unit'[u] \in UnitRec
    <3>1. CASE u \in Made(n)
      <4>1. unit'[u] = NewUnit(first, u)
        BY <3>1, RenderFacts
      <4>2. unit'[u] = [count |-> unit'[u].count, next |-> unit'[u].next,
                        bucket |-> unit'[u].bucket, prev |-> unit'[u].prev,
                        object |-> unit'[u].object, data |-> unit'[u].data,
                        drawn |-> unit'[u].drawn]
        BY <4>1 DEF NewUnit
      <4>3. 0 \in Units
        BY UnitFacts
      <4>4. /\ unit'[u].count \in {0, 1} /\ unit'[u].next \in Units
            /\ unit'[u].bucket \in 0 .. Buckets - 1 /\ unit'[u].prev \in Units \cup {NoUnit}
            /\ unit'[u].object \in 1 .. MaxPolys /\ unit'[u].data \in Data
            /\ unit'[u].drawn \in 0 .. 2
        BY <1>4, <1>9, <3>1, <4>3
      <4>. QED  BY <4>2, <4>4 DEF UnitRec
    <3>2. CASE u \notin Made(n)
      BY <1>1, <1>3, <3>2
    <3>. QED  BY <3>1, <3>2
  <2>. QED  BY <1>2, <2>1
<1>11. bucket' \in [0 .. Buckets - 1 -> Units \cup {NoUnit}]
  <2>1. bucket \in [0 .. Buckets - 1 -> Units \cup {NoUnit}]
    BY <1>3 DEF TypeOK
  <2>2. \A b \in 0 .. Buckets - 1 : bucket'[b] \in Units \cup {NoUnit}
    BY <1>1, <2>1
  <2>. QED  BY <1>2, <2>1, <2>2
\* The queue.
<1>12. \A u \in Made(n) : ~Queued(u) /\ \A t \in Threads : ~Holds(t, u)
  <2>1. \A u \in Made(n) : u \in Units /\ u \notin MadeUnits
    BY <1>1
  <2>. QED  BY <1>3, <2>1 DEF OneOwner, QueuedIsFree, HeldByOne
<1>13. /\ queue' \in Seq(Units) /\ QueuedOnce'
       /\ \A u \in Units : Queued(u)' <=> Queued(u) \/ (hasQueue /\ u \in Made(n))
  <2>1. CASE hasQueue
    BY <1>1, <1>2, <1>3, <1>12, <2>1, QueueGrows DEF OneOwner
  <2>2. CASE ~hasQueue
    BY <1>2, <1>3, <2>2 DEF OneOwner, QueuedOnce, Queued, TypeOK
  <2>. QED  BY <2>1, <2>2
<1>14. TypeOK'
  <2>1. polygons' \in 0 .. MaxPolys - 1
    <3>1. polygons \in 0 .. MaxPolys - 1
      BY <1>3 DEF TypeOK
    <3>2. polygons + 1 < MaxPolys /\ polygons' = polygons + 1
      BY <1>2
    <3>3. MaxPolys \in Nat
      BY UnitFacts
    <3>. QED  BY <3>1, <3>2, <3>3
  <2>. QED  BY <1>1, <1>2, <1>3, <1>10, <1>11, <1>13, <2>1 DEF TypeOK, UnitRec
<1>15. Chained'
  <2>1. ASSUME NEW u \in MadeUnits'
        PROVE  /\ unit'[u].prev # NoUnit => /\ unit'[u].prev \in MadeUnits' /\ unit'[u].prev < u
                                            /\ unit'[unit'[u].prev].bucket = unit'[u].bucket
               /\ \A v \in MadeUnits' : v < u /\ unit'[v].bucket = unit'[u].bucket
                                          => unit'[u].prev # NoUnit /\ v <= unit'[u].prev
    <3>1. CASE u \in Made(n)
      BY <1>5, <3>1
    <3>2. CASE u \in MadeUnits
      <4>1. /\ unit[u].prev # NoUnit => /\ unit[u].prev \in MadeUnits /\ unit[u].prev < u
                                        /\ unit[unit[u].prev].bucket = unit[u].bucket
            /\ \A v \in MadeUnits : v < u /\ SameBucket(v, u)
                                      => unit[u].prev # NoUnit /\ v <= unit[u].prev
        BY <1>3, <3>2 DEF Chained, SameBucket
      <4>2. \A v \in MadeUnits' : v < u /\ unit'[v].bucket = unit'[u].bucket
                                    => v \in MadeUnits /\ SameBucket(v, u)
        BY <1>7, <3>2 DEF SameBucket
      <4>3. /\ unit'[u] = unit[u] /\ \A v \in MadeUnits : v \in MadeUnits'
            /\ unit[u].prev # NoUnit => unit'[unit[u].prev] = unit[unit[u].prev]
        BY <1>7, <3>2
      <4>. QED  BY <4>1, <4>2, <4>3
    <3>. QED  BY <1>1, <3>1, <3>2
  <2>2. ASSUME NEW b \in 0 .. Buckets - 1
        PROVE  /\ bucket'[b] # NoUnit => bucket'[b] \in MadeUnits' /\ unit'[bucket'[b]].bucket = b
               /\ \A u \in MadeUnits' : unit'[u].bucket = b
                                          => bucket'[b] # NoUnit /\ u <= bucket'[b]
    <3>1. CASE bucket'[b] = bucket[b] /\ \A u \in Made(n) : BucketNum(first, u) # b
      <4>1. \A u \in MadeUnits' : unit'[u].bucket = b => u \in MadeUnits /\ unit[u].bucket = b
        BY <1>1, <1>4, <1>7, <3>1
      <4>2. bucket[b] # NoUnit => bucket[b] \in MadeUnits /\ unit[bucket[b]].bucket = b
        BY <1>3 DEF Chained
      <4>3. \A u \in MadeUnits : unit[u].bucket = b => bucket[b] # NoUnit /\ u <= bucket[b]
        BY <1>3 DEF Chained
      <4>. QED  BY <1>7, <3>1, <4>1, <4>2, <4>3
    <3>2. CASE /\ bucket'[b] \in Made(n) /\ BucketNum(first, bucket'[b]) = b
               /\ \A u \in Made(n) : BucketNum(first, u) = b => u <= bucket'[b]
      <4>1. bucket'[b] \in MadeUnits' /\ unit'[bucket'[b]].bucket = b /\ bucket'[b] # NoUnit
        BY <1>1, <1>3, <1>4, <3>2
      <4>2. \A u \in MadeUnits : u <= bucket'[b]
        <5>1. \A u \in MadeUnits : u < bucket'[b]
          BY <1>1, <3>2
        <5>2. bucket'[b] \in Nat /\ \A u \in MadeUnits : u \in Nat
          <6>1. bucket'[b] \in Units
            BY <1>1, <3>2
          <6>2. \A x \in Units : x \in Nat
            BY UnitFacts
          <6>3. MadeUnits \subseteq Units
            BY <1>3
          <6>. QED  BY <6>1, <6>2, <6>3
        <5>. QED  BY <5>1, <5>2
      <4>3. \A u \in Made(n) : unit'[u].bucket = b => u <= bucket'[b]
        BY <1>4, <3>2
      <4>. QED  BY <1>1, <4>1, <4>2, <4>3
    <3>. QED  BY <1>1, <3>1, <3>2
  <2>. QED  BY <2>1, <2>2 DEF Chained, SameBucket
<1>16. DrawnInOrder'
  <2>1. ASSUME NEW u \in MadeUnits'
        PROVE  /\ unit'[u].drawn \in {0, 1} /\ (unit'[u].count = 0 <=> unit'[u].drawn = 1)
               /\ unit'[u].drawn = 1 => \A v \in MadeUnits' : v < u /\ SameBucket(v, u)'
                                                                 => unit'[v].drawn = 1
    <3>1. CASE u \in Made(n)
      BY <1>4, <3>1
    <3>2. CASE u \in MadeUnits
      <4>1. /\ unit[u].drawn \in {0, 1} /\ (unit[u].count = 0 <=> unit[u].drawn = 1)
            /\ unit[u].drawn = 1 => \A v \in MadeUnits : v < u /\ SameBucket(v, u)
                                                           => unit[v].drawn = 1
        BY <1>3, <3>2 DEF DrawnInOrder
      <4>. QED  BY <1>7, <3>2, <4>1
    <3>. QED  BY <1>1, <3>1, <3>2
  <2>. QED  BY <2>1 DEF DrawnInOrder
<1>17. LinkedInOrder'
  <2>1. ASSUME NEW v \in Units, unit'[v].next # 0
        PROVE  unit'[v].next \in MadeUnits' /\ unit'[unit'[v].next].prev = v
    <3>1. unit'[v] = unit[v]
      BY <1>1, <1>4, <2>1
    <3>2. unit[v].next \in MadeUnits /\ unit[unit[v].next].prev = v
      BY <1>3, <2>1, <3>1 DEF LinkedInOrder
    <3>. QED  BY <1>7, <3>1, <3>2
  <2>. QED  BY <2>1 DEF LinkedInOrder
<1>18. \A t \in Threads, u \in Units : Holds(t, u)' <=> Holds(t, u)
  BY <1>2 DEF Holds
<1>19. QueuedIsFree'
  <2>1. ASSUME NEW u \in Units, Queued(u)'
        PROVE  /\ u \in MadeUnits' /\ unit'[u].drawn = 0 /\ Unlinked(u)'
               /\ \A t \in Threads : ~Holds(t, u)'
    <3>1. CASE u \in Made(n)
      BY <1>1, <1>4, <1>6, <1>12, <1>18, <3>1
    <3>2. CASE u \notin Made(n)
      <4>1. Queued(u)
        BY <1>13, <2>1, <3>2
      <4>2. u \in MadeUnits /\ unit[u].drawn = 0 /\ Unlinked(u) /\ \A t \in Threads : ~Holds(t, u)
        BY <1>3, <4>1 DEF OneOwner, QueuedIsFree
      <4>. QED  BY <1>7, <1>8, <1>18, <4>2
    <3>. QED  BY <3>1, <3>2
  <2>. QED  BY <2>1 DEF QueuedIsFree
<1>20. HeldByOne'
  <2>1. ASSUME NEW s \in Threads, NEW u \in Units, Holds(s, u)'
        PROVE  /\ u \in MadeUnits' /\ unit'[u].drawn = 0
               /\ \A r \in Threads : Holds(r, u)' => r = s
               /\ pc'[s] # "draw" => Unlinked(u)'
               /\ pc'[s] = "link" => unit'[u].prev # NoUnit
               /\ pc'[s] = "draw" => \A v \in MadeUnits' : v < u /\ SameBucket(v, u)'
                                                             => unit'[v].drawn = 1
    <3>1. /\ u \in MadeUnits /\ unit[u].drawn = 0
          /\ \A r \in Threads : Holds(r, u) => r = s
          /\ pc[s] # "draw" => Unlinked(u)
          /\ pc[s] = "link" => unit[u].prev # NoUnit
          /\ pc[s] = "draw" => \A v \in MadeUnits : v < u /\ SameBucket(v, u)
                                                     => unit[v].drawn = 1
      BY <1>3, <1>18, <2>1 DEF OneOwner, HeldByOne
    <3>. QED  BY <1>2, <1>7, <1>8, <1>18, <3>1
  <2>. QED  BY <2>1 DEF HeldByOne
<1>21. HasOwner'
  <2>1. ASSUME hasQueue' \/ waiting', NEW u \in MadeUnits', unit'[u].drawn = 0
        PROVE  Queued(u)' \/ Parked(u)' \/ \E t \in Threads : Holds(t, u)'
    <3>1. hasQueue /\ u \in Units
      BY <1>1, <1>2, <1>3, <2>1
    <3>2. CASE u \in Made(n)
      BY <1>13, <3>1, <3>2
    <3>3. CASE u \in MadeUnits
      <4>1. Queued(u) \/ Parked(u) \/ \E t \in Threads : Holds(t, u)
        BY <1>3, <1>7, <2>1, <3>1, <3>3 DEF OneOwner, HasOwner
      <4>. QED  BY <1>8, <1>13, <1>18, <3>1, <3>3, <4>1
    <3>. QED  BY <1>1, <2>1, <3>2, <3>3
  <2>. QED  BY <2>1 DEF HasOwner
<1>22. NothingRuns'
  <2>1. ASSUME ~hasQueue
        PROVE  /\ queue' = <<>> /\ \A t \in Threads : pc'[t] = "idle"
               /\ \A u \in MadeUnits' : unit'[u].drawn = 0
               /\ \A u \in Units : unit'[u].next = 0
    <3>1. /\ queue = <<>> /\ \A t \in Threads : pc[t] = "idle"
          /\ \A u \in MadeUnits : unit[u].drawn = 0
          /\ \A u \in Units : unit[u].next = 0
      BY <1>2, <1>3, <2>1 DEF NothingRuns
    <3>2. \A u \in MadeUnits' : unit'[u].drawn = 0
      BY <1>1, <1>4, <1>7, <3>1
    <3>3. \A u \in Units : unit'[u].next = 0
      BY <1>1, <1>4, <3>1
    <3>. QED  BY <1>2, <2>1, <3>1, <3>2, <3>3
  <2>. QED  BY <1>2, <2>1 DEF NothingRuns
<1>23. DataKept'
  <2>1. \A u \in MadeUnits : /\ unit[u].object \in 1 .. Len(object)
                             /\ object[unit[u].object] = unit[u].data
    BY <1>3 DEF DataKept
  <2>2. Len(object) \in 1 .. Len(object)
    BY <1>9
  <2>3. \A u \in MadeUnits' : /\ unit'[u].object \in 1 .. Len(object)
                              /\ object[unit'[u].object] = unit'[u].data
    BY <1>1, <1>4, <1>7, <1>9, <2>1, <2>2
  <2>. QED  BY <1>2, <1>9, <2>3 DEF DataKept
<1>. QED  BY <1>13, <1>14, <1>15, <1>16, <1>17, <1>19, <1>20, <1>21, <1>22, <1>23 DEF IInv, OneOwner

----------------------------------------------------------------------------
\* m_unit_bucket starts out as wait leaves it.  The constructor does not see to it
\* (poly.h:596): a manager that lies in zeroed memory begins with unit 0 everywhere.
CleanStart == FirstBuckets = {[b \in 0 .. Buckets - 1 |-> NoUnit]}

LEMMA InitIInv == CleanStart /\ Init => IInv
<1>. SUFFICES ASSUME CleanStart, Init PROVE IInv
  OBVIOUS
<1>1. /\ hasQueue \in BOOLEAN /\ unit = [u \in Units |-> NoWork] /\ units = 0 /\ polygons = 0
      /\ object = <<>> /\ supplied = AnyData /\ queue = <<>> /\ waiting = FALSE
      /\ pc = [t \in Threads |-> "idle"] /\ cur = [t \in Threads |-> 0]
      /\ bucket = [b \in 0 .. Buckets - 1 |-> NoUnit]
  BY DEF Init, CleanStart
<1>2. MadeUnits = {}
  BY <1>1 DEF MadeUnits
<1>3. unit \in [Units -> UnitRec] /\ \A u \in Units : unit[u].next = 0
  BY <1>1, NoWorkFacts
<1>4. TypeOK
  <2>1. 0 \in 0 .. UnitCount - 1 /\ 0 \in 0 .. MaxPolys - 1 /\ 0 \in Units /\ MaxPolys \in Nat
    BY UnitFacts DEF Units
  <2>2. AnyData \in Data
    <3>1. \E d \in Data : TRUE
      BY PolyManagerAssumption
    <3>. QED  BY <3>1 DEF AnyData
  <2>3. object \in Seq(Data) /\ Len(object) <= MaxPolys /\ queue \in Seq(Units)
    BY <1>1, <2>1
  <2>4. /\ pc \in [Threads -> {"idle", "look", "link", "draw"}] /\ cur \in [Threads -> Units]
        /\ bucket \in [0 .. Buckets - 1 -> Units \cup {NoUnit}]
    BY <1>1, <2>1
  <2>. QED  BY <1>1, <1>3, <2>1, <2>2, <2>3, <2>4 DEF TypeOK, UnitRec
<1>5. Chained
  BY <1>1, <1>2 DEF Chained
<1>6. DrawnInOrder /\ LinkedInOrder
  BY <1>2, <1>3 DEF DrawnInOrder, LinkedInOrder
<1>7. OneOwner
  <2>1. \A t \in Threads, u \in Units : ~Holds(t, u)
    BY <1>1 DEF Holds
  <2>2. DOMAIN queue = {}
    BY <1>1
  <2>. QED  BY <1>2, <2>1, <2>2 DEF OneOwner, QueuedOnce, QueuedIsFree, HeldByOne, HasOwner, Queued
<1>8. NothingRuns
  BY <1>1, <1>2, <1>3 DEF NothingRuns
<1>9. DataKept
  BY <1>1, <1>2 DEF DataKept
<1>. QED  BY <1>4, <1>5, <1>6, <1>7, <1>8, <1>9 DEF IInv

LEMMA StutterKeeps == IInv /\ UNCHANGED vars => IInv'
BY DEF vars, IInv, TypeOK, Chained, DrawnInOrder, OneOwner, QueuedOnce, QueuedIsFree,
       HeldByOne, HasOwner, LinkedInOrder, NothingRuns, DataKept, MadeUnits, SameBucket,
       Queued, Holds, Unlinked, Parked

LEMMA NextKeeps == IInv /\ [Next]_vars => IInv'
<1>. SUFFICES ASSUME IInv, [Next]_vars PROVE IInv'
  OBVIOUS
<1>1. CASE \E d \in Data : ObjectDataAlloc(d)
  BY <1>1, ObjectDataAllocKeeps
<1>2. CASE \E first \in 0 .. Buckets - 1, n \in 0 .. UnitCount - 1 : Render(first, n)
  BY <1>2, RenderKeeps
<1>3. CASE Wait
  BY <1>3, WaitKeeps
<1>4. CASE WaitEnds
  BY <1>4, WaitEndsKeeps
<1>5. CASE \E t \in Threads : Work(t)
  BY <1>5, TakeKeeps, LookKeeps, LinkKeeps, FinishKeeps DEF Work
<1>6. CASE UNCHANGED vars
  BY <1>6, StutterKeeps
<1>. QED  BY <1>1, <1>2, <1>3, <1>4, <1>5, <1>6 DEF Next

\* Each unit is drawn exactly once, those of a bucket in the order of their polygons,
\* with the object data of its polygon, however the threads take turns and however the
\* units are handed on; nothing is undrawn when wait returns.
THEOREM DrawnOnceInOrder ==
  ASSUME CleanStart
  PROVE  Spec => []DrawnAsRendered
<1>1. Init => IInv
  BY InitIInv
<1>2. IInv /\ [Next]_vars => IInv'
  BY NextKeeps
<1>3. IInv => DrawnAsRendered
  BY Consequences
<1>. QED  BY <1>1, <1>2, <1>3, PTL DEF Spec
=============================================================================
