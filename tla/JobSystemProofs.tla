---------------------------- MODULE JobSystemProofs ----------------------------
(***************************************************************************)
(* Theorems about Scheduler and JobSystem.  First the wheels, for any set  *)
(* of workers and of requests, any wheel of two slots or more, any unit    *)
(* and any intervals.  Then the wheels and the serializer together: what   *)
(* they do is what each of them may do alone, so that what was proved of   *)
(* each holds of the whole.                                                *)
(***************************************************************************)
EXTENDS JobSystem, SequenceTheorems, FiniteSetTheorems, TLAPS

-------------------------------------------------------------------------------
\* Arithmetic of the wheel

LEMMA DivMod ==
  ASSUME NEW a \in Nat, NEW m \in Nat \ {0}
  PROVE  /\ a \div m \in Nat /\ a % m \in 0 .. m - 1
         /\ a = m * (a \div m) + (a % m)
  OBVIOUS

LEMMA Monotonic ==
  ASSUME NEW a \in Int, NEW b \in Int, NEW m \in Nat \ {0}, a < b
  PROVE  m * a + m <= m * b
<1>1. a + 1 <= b
  OBVIOUS
<1>2. PICK d \in Nat : b = a + 1 + d
  <2>1. b - (a + 1) \in Nat /\ b = a + 1 + (b - (a + 1))
    BY <1>1
  <2> QED
    BY <2>1
<1>3. m * b = m * a + m + m * d
  BY <1>2
<1>4. m * d \in Nat
  OBVIOUS
<1> QED
  BY <1>3, <1>4

\* Two indexes less than a turn apart that share a slot are the same.
LEMMA SameSlot ==
  ASSUME NEW a \in Nat, NEW b \in Nat, NEW m \in Nat \ {0},
         a % m = b % m, a < b + m, b < a + m
  PROVE  a = b
<1>1. /\ a = m * (a \div m) + (a % m)
      /\ b = m * (b \div m) + (b % m)
      /\ (a \div m) \in Nat /\ (b \div m) \in Nat /\ (a % m) \in Nat
  <2>1. (a % m) \in 0 .. m - 1 /\ (a \div m) \in Nat /\ a = m * (a \div m) + (a % m)
    BY DivMod
  <2>2. (b \div m) \in Nat /\ b = m * (b \div m) + (b % m)
    BY DivMod
  <2> QED
    BY <2>1, <2>2
<1>2. ~ a \div m < b \div m
  <2>1. a \div m < b \div m => m * (a \div m) + m <= m * (b \div m)
    BY <1>1, Monotonic
  <2> DEFINE x == m * (a \div m)
             y == m * (b \div m)
  <2>2. x \in Nat /\ y \in Nat
    BY <1>1
  <2> HIDE DEF x, y
  <2>3. a = x + (a % m) /\ b = y + (a % m) /\ (a \div m < b \div m => x + m <= y)
    BY <1>1, <2>1 DEF x, y
  <2> QED
    BY <2>2, <2>3, <1>1
<1>3. ~ b \div m < a \div m
  <2>1. b \div m < a \div m => m * (b \div m) + m <= m * (a \div m)
    BY <1>1, Monotonic
  <2> DEFINE x == m * (a \div m)
             y == m * (b \div m)
  <2>2. x \in Nat /\ y \in Nat
    BY <1>1
  <2> HIDE DEF x, y
  <2>3. a = x + (a % m) /\ b = y + (a % m) /\ (b \div m < a \div m => y + m <= x)
    BY <1>1, <2>1 DEF x, y
  <2> QED
    BY <2>2, <2>3, <1>1
<1>4. a \div m = b \div m
  BY <1>1, <1>2, <1>3
<1> QED
  BY <1>1, <1>4

\* An accepted interval is a number of slices that fits the wheel, one at least,
\* and has nothing beyond the slices that follow the first but what it may be early by.
LEMMA SlicesFit ==
  ASSUME NEW v \in Nat, NEW i \in Nat, Accepted(i)
  PROVE  \E n \in 1 .. Slots - 1 :
            IndexAfter(v, i) = v + n /\ i = (n - 1) * IntervalUnit + Earliness(i)
<1> USE WheelAssumption
<1>1. CASE i < IntervalUnit
  <2>1. IndexAfter(v, i) = v + 1
    BY <1>1 DEF IndexAfter
  <2>2. i = (1 - 1) * IntervalUnit + Earliness(i)
    BY <1>1 DEF Earliness
  <2> QED
    BY <2>1, <2>2
<1>2. CASE ~ i < IntervalUnit
  <2> DEFINE n == i \div IntervalUnit
             p == IntervalUnit * n
  <2>1. n \in Nat /\ i % IntervalUnit \in 0 .. IntervalUnit - 1 /\ i = p + (i % IntervalUnit)
    BY DivMod
  <2>2. p \in Nat
    BY <2>1
  <2>3. n # 0
    <3>1. n = 0 => p = 0
      BY <2>1
    <3> HIDE DEF n, p
    <3> QED
      BY <1>2, <2>1, <2>2, <3>1
  <2>4. n < Slots
    <3>1. Slots < n => IntervalUnit * Slots + IntervalUnit <= p
      BY <2>1, Monotonic
    <3>2. Slots = n => IntervalUnit * Slots = p
      OBVIOUS
    <3> DEFINE q == IntervalUnit * Slots
    <3>3. q \in Nat /\ i < q
      BY DEF Accepted
    <3> HIDE DEF n, p, q
    <3>4. (Slots < n => q + IntervalUnit <= p) /\ (Slots = n => q = p)
      BY <3>1, <3>2 DEF q
    <3> QED
      BY <2>1, <2>2, <3>3, <3>4
  <2>5. IndexAfter(v, i) = v + n
    BY <1>2, <2>4 DEF IndexAfter
  <2>6. (n - 1) * IntervalUnit + IntervalUnit = p
    BY <2>1
  <2> HIDE DEF n, p
  <2>7. i = (n - 1) * IntervalUnit + Earliness(i)
    BY <1>2, <2>1, <2>2, <2>6 DEF Earliness
  <2> QED
    BY <2>1, <2>3, <2>4, <2>5, <2>7
<1> QED
  BY <1>1, <1>2

\* A job is less than two units early.
LEMMA EarlyByLess ==
  ASSUME NEW i \in Nat PROVE Earliness(i) \in Nat /\ Earliness(i) < 2 * IntervalUnit
<1>1. i % IntervalUnit \in 0 .. IntervalUnit - 1
  BY DivMod, WheelAssumption
<1> QED
  BY <1>1, WheelAssumption DEF Earliness

-------------------------------------------------------------------------------
\* The elements of sequences

LEMMA ElementsEmpty == Elements(<<>>) = {}
  BY DEF Elements

LEMMA ElementsAppend ==
  ASSUME NEW S, NEW s \in Seq(S), NEW e \in S, NEW x
  PROVE  x \in Elements(Append(s, e)) <=> x \in Elements(s) \/ x = e
<1>1. /\ DOMAIN Append(s, e) = 1 .. Len(s) + 1 /\ DOMAIN s = 1 .. Len(s) /\ Len(s) \in Nat
      /\ Append(s, e)[Len(s) + 1] = e
      /\ \A k \in 1 .. Len(s) : Append(s, e)[k] = s[k]
  BY AppendProperties, LenProperties
<1>2. ASSUME x \in Elements(Append(s, e)) PROVE x \in Elements(s) \/ x = e
  <2>1. PICK k \in 1 .. Len(s) + 1 : x = Append(s, e)[k]
    BY <1>1, <1>2 DEF Elements
  <2>2. CASE k = Len(s) + 1
    BY <1>1, <2>1, <2>2
  <2>3. CASE k \in 1 .. Len(s)
    BY <1>1, <2>1, <2>3 DEF Elements
  <2> QED
    BY <1>1, <2>2, <2>3
<1>3. ASSUME x = e PROVE x \in Elements(Append(s, e))
  <2>1. Len(s) + 1 \in 1 .. Len(s) + 1
    BY <1>1
  <2> QED
    BY <1>1, <1>3, <2>1 DEF Elements
<1>4. ASSUME x \in Elements(s) PROVE x \in Elements(Append(s, e))
  <2>1. PICK k \in 1 .. Len(s) : x = s[k]
    BY <1>1, <1>4 DEF Elements
  <2>2. k \in 1 .. Len(s) + 1
    BY <1>1
  <2> QED
    BY <1>1, <2>1, <2>2 DEF Elements
<1> QED
  BY <1>2, <1>3, <1>4

LEMMA ElementsHeadTail ==
  ASSUME NEW S, NEW s \in Seq(S), s # <<>>
  PROVE  /\ Head(s) \in S /\ Tail(s) \in Seq(S)
         /\ Head(s) \in Elements(s)
         /\ \A x \in Elements(Tail(s)) : x \in Elements(s)
         /\ \A k \in DOMAIN Tail(s) : k \in Nat /\ k + 1 \in DOMAIN s /\ Tail(s)[k] = s[k + 1]
         /\ 1 \in DOMAIN s /\ Head(s) = s[1]
<1>1. /\ Head(s) \in S /\ Tail(s) \in Seq(S) /\ Len(Tail(s)) = Len(s) - 1
      /\ \A k \in 1 .. Len(Tail(s)) : Tail(s)[k] = s[k + 1]
      /\ Len(s) \in Nat /\ Len(s) # 0
      /\ DOMAIN s = 1 .. Len(s) /\ DOMAIN Tail(s) = 1 .. Len(Tail(s))
  BY HeadTailProperties, LenProperties, EmptySeq
<1>2. 1 \in DOMAIN s /\ Head(s) = s[1]
  BY <1>1
<1>3. \A k \in DOMAIN Tail(s) : k \in Nat /\ k + 1 \in DOMAIN s /\ Tail(s)[k] = s[k + 1]
  BY <1>1
<1> QED
  BY <1>1, <1>2, <1>3 DEF Elements

-------------------------------------------------------------------------------
\* What every step preserves.  That a request keeps the index it was reserved for
\* needs that a posted one is posted once and has no index yet; and a wheel that
\* walks its nodes has been turned, so that an index of 0 is that of no request.

Posted ==
    /\ \A k \in DOMAIN events :
         /\ reserve[events[k]] = 0
         /\ Accepted(interval[events[k]])
         /\ left[events[k]] <= interval[events[k]]
    /\ \A j, k \in DOMAIN events : events[j] = events[k] => j = k

New == \A r \in Requests : interval[r] = 0 => reserve[r] = 0 /\ r \notin Elements(events)

Walking == \A w \in Workers : node[w] # <<>> => index[w] # 0

\* How much of its interval a request has left: no more than its worker has until
\* the update it is reserved for, and what it may be early by.
InTime ==
    \A w \in Workers :
        /\ \A k \in SlotNumbers : \A r \in Elements(slot[w][k]) :
             handed[r] = 0 =>
                left[r] <= wait[w] + (reserve[r] - index[w] - 1) * IntervalUnit
                             + Earliness(interval[r])
        /\ \A r \in Elements(node[w]) : handed[r] = 0 => left[r] <= Earliness(interval[r])

Inv ==
    /\ TypeOK /\ LessThanOneTurn /\ ExecutedWhenDue /\ NotTooEarly
    /\ Posted /\ New /\ Walking /\ InTime

LEMMA InitInv == Init => Inv
<1> SUFFICES ASSUME Init PROVE Inv
  OBVIOUS
<1> USE WheelAssumption DEF Init
<1>1. TypeOK
  BY DEF TypeOK, SlotNumbers
<1>2. \A w \in Workers, k \in SlotNumbers : Elements(slot[w][k]) = {} /\ Elements(node[w]) = {}
  BY ElementsEmpty
<1>3. LessThanOneTurn /\ ExecutedWhenDue /\ InTime /\ Walking
  <2>1. \A w \in Workers : Elements(node[w]) = {}
    BY ElementsEmpty
  <2> QED
    BY <1>2, <2>1 DEF LessThanOneTurn, ExecutedWhenDue, InTime, Walking
<1>4. NotTooEarly /\ Posted /\ New
  BY ElementsEmpty DEF NotTooEarly, Posted, New
<1> QED
  BY <1>1, <1>3, <1>4 DEF Inv

-------------------------------------------------------------------------------
\* A request without an index is in no wheel and was not handed over.
LEMMA Unreserved ==
  ASSUME Inv, NEW r \in Requests, reserve[r] = 0
  PROVE  /\ handed[r] = 0
         /\ \A w \in Workers : r \notin Elements(node[w])
         /\ \A w \in Workers, k \in SlotNumbers : r \notin Elements(slot[w][k])
<1>1. handed[r] = 0
  BY DEF Inv, ExecutedWhenDue
<1>2. ASSUME NEW w \in Workers, r \in Elements(node[w]) PROVE FALSE
  <2>1. reserve[r] = index[w]
    BY <1>2 DEF Inv, ExecutedWhenDue
  <2>2. node[w] # <<>>
    BY <1>2, ElementsEmpty
  <2> QED
    BY <2>1, <2>2 DEF Inv, Walking
<1>3. ASSUME NEW w \in Workers, NEW k \in SlotNumbers, r \in Elements(slot[w][k]) PROVE FALSE
  <2>1. index[w] < reserve[r] /\ index[w] \in Nat
    BY <1>3 DEF Inv, LessThanOneTurn, TypeOK
  <2> QED
    BY <2>1
<1> QED
  BY <1>1, <1>2, <1>3

\* Scheduler::addJob of a request that has no index yet
LEMMA PushInv ==
  ASSUME Inv, NEW w \in Workers, NEW r \in Requests, NEW i \in Nat, Accepted(i),
         reserve[r] = 0, Push(w, r, i),
         left' \in [Requests -> Nat], left'[r] <= i, interval'[r] = i,
         \A q \in Requests : q # r => left'[q] = left[q] /\ interval'[q] = interval[q],
         UNCHANGED <<index, node, wait, handed>>
  PROVE  /\ slot' \in [Workers -> [SlotNumbers -> Seq(Requests)]]
         /\ reserve' \in [Requests -> Nat] /\ reserve'[r] # 0
         /\ \A q \in Requests : q # r => reserve'[q] = reserve[q]
         /\ LessThanOneTurn' /\ ExecutedWhenDue' /\ NotTooEarly' /\ InTime'
<1> DEFINE at == IndexAfter(index[w], i)
<1> USE WheelAssumption
<1>0. /\ handed[r] = 0 /\ \A v \in Workers : r \notin Elements(node[v])
      /\ \A v \in Workers, k \in SlotNumbers : r \notin Elements(slot[v][k])
  BY Unreserved
<1>1. PICK n \in 1 .. Slots - 1 :
        at = index[w] + n /\ i = (n - 1) * IntervalUnit + Earliness(i)
  <2>1. index[w] \in Nat
    BY DEF Inv, TypeOK
  <2> QED
    BY <2>1, SlicesFit
<1>2. index[w] \in Nat /\ at \in Nat /\ at # 0 /\ at - index[w] = n
  BY <1>1 DEF Inv, TypeOK
<1>3. at % Slots \in SlotNumbers
  <2>1. at \in Nat /\ Slots \in Nat \ {0}
    BY <1>2
  <2> HIDE DEF at
  <2>2. at % Slots \in 0 .. Slots - 1
    BY <2>1, DivMod
  <2> QED
    BY <2>2 DEF SlotNumbers
<1>4. /\ slot' = [slot EXCEPT ![w][at % Slots] = Append(@, r)]
      /\ reserve' = [reserve EXCEPT ![r] = at]
  BY DEF Push, PushQueue
<1> HIDE DEF at
<1>5. slot' \in [Workers -> [SlotNumbers -> Seq(Requests)]]
  BY <1>3, <1>4 DEF Inv, TypeOK
<1>6. /\ reserve' \in [Requests -> Nat] /\ reserve'[r] = at
      /\ \A q \in Requests : q # r => reserve'[q] = reserve[q]
  BY <1>2, <1>4 DEF Inv, TypeOK
<1>7. ASSUME NEW v \in Workers, NEW k \in SlotNumbers, NEW q \in Elements(slot'[v][k])
      PROVE  \/ q # r /\ q \in Requests /\ q \in Elements(slot[v][k])
             \/ q = r /\ v = w /\ k = at % Slots
  <2>1. r \notin Elements(slot[v][k]) /\ slot[v][k] \in Seq(Requests)
    BY <1>0 DEF Inv, TypeOK
  <2>2. slot'[v][k] = IF v = w /\ k = at % Slots THEN Append(slot[v][k], r) ELSE slot[v][k]
    BY <1>3, <1>4 DEF Inv, TypeOK
  <2>3. q \in Elements(slot[v][k]) => q \in Requests
    BY <2>1 DEF Elements
  <2>4. q \in Elements(slot[v][k]) \/ (q = r /\ v = w /\ k = at % Slots)
    BY <1>7, <2>1, <2>2, ElementsAppend
  <2> QED
    BY <2>1, <2>3, <2>4
<1>8. LessThanOneTurn'
  <2> SUFFICES ASSUME NEW v \in Workers, NEW k \in SlotNumbers, NEW q \in Elements(slot'[v][k])
               PROVE  /\ reserve'[q] % Slots = k
                      /\ index'[v] < reserve'[q] /\ reserve'[q] < index'[v] + Slots
    BY DEF LessThanOneTurn
  <2>1. CASE q # r /\ q \in Requests /\ q \in Elements(slot[v][k])
    BY <2>1, <1>6 DEF Inv, LessThanOneTurn
  <2>2. CASE q = r /\ v = w /\ k = at % Slots
    BY <2>2, <1>1, <1>2, <1>6
  <2> QED
    BY <1>7, <2>1, <2>2
<1>9. \A v \in Workers : \A q \in Elements(node[v]) : q # r /\ q \in Requests
  BY <1>0 DEF Inv, TypeOK, Elements
<1>10. ExecutedWhenDue' /\ NotTooEarly'
  BY <1>0, <1>6, <1>9 DEF Inv, ExecutedWhenDue, NotTooEarly
<1>11. InTime'
  <2>1. ASSUME NEW v \in Workers, NEW k \in SlotNumbers, NEW q \in Elements(slot'[v][k]),
               handed'[q] = 0
        PROVE  left'[q] <= wait'[v] + (reserve'[q] - index'[v] - 1) * IntervalUnit
                             + Earliness(interval'[q])
    <3>1. CASE q # r /\ q \in Requests /\ q \in Elements(slot[v][k])
      BY <2>1, <3>1, <1>6 DEF Inv, InTime
    <3>2. CASE q = r /\ v = w /\ k = at % Slots
      <4>1. reserve'[q] - index'[v] - 1 = n - 1
        BY <3>2, <1>2, <1>6
      <4>2. wait[w] \in Nat
        BY DEF Inv, TypeOK
      <4> DEFINE x == (n - 1) * IntervalUnit
      <4>3. x \in Nat /\ i = x + Earliness(i) /\ Earliness(i) \in Nat
        BY <1>1, EarlyByLess
      <4>4. left'[r] \in Nat /\ left'[r] <= i
        OBVIOUS
      <4> HIDE DEF x
      <4>5. left'[r] <= wait[w] + x + Earliness(i)
        BY <4>2, <4>3, <4>4
      <4> QED
        BY <4>1, <4>5, <3>2 DEF x
    <3> QED
      BY <1>7, <3>1, <3>2
  <2>2. \A v \in Workers : \A q \in Elements(node'[v]) :
           handed'[q] = 0 => left'[q] <= Earliness(interval'[q])
    BY <1>9 DEF Inv, InTime
  <2> QED
    BY <2>1, <2>2 DEF InTime
<1> QED
  BY <1>2, <1>5, <1>6, <1>8, <1>10, <1>11

\* What is left when some posted requests are taken, with one that is posted anew
LEMMA PostedAppend ==
  ASSUME NEW rest \in Seq(Requests), NEW r \in Requests, r \notin Elements(rest),
         reserve'[r] = 0, Accepted(interval'[r]), left'[r] <= interval'[r],
         \A k \in DOMAIN rest : /\ reserve'[rest[k]] = 0
                                /\ Accepted(interval'[rest[k]])
                                /\ left'[rest[k]] <= interval'[rest[k]],
         \A j, k \in DOMAIN rest : rest[j] = rest[k] => j = k,
         events' = Append(rest, r)
  PROVE  Posted'
<1>1. /\ DOMAIN events' = 1 .. Len(rest) + 1 /\ DOMAIN rest = 1 .. Len(rest)
      /\ Len(rest) \in Nat
      /\ events'[Len(rest) + 1] = r
      /\ \A k \in 1 .. Len(rest) : events'[k] = rest[k]
  BY AppendProperties, LenProperties
<1>2. \A k \in DOMAIN rest : rest[k] # r
  BY DEF Elements
<1>3. \A k \in DOMAIN events' : k \in DOMAIN rest \/ k = Len(rest) + 1
  BY <1>1
<1>4. \A k \in DOMAIN events' : /\ reserve'[events'[k]] = 0
                                /\ Accepted(interval'[events'[k]])
                                /\ left'[events'[k]] <= interval'[events'[k]]
  BY <1>1, <1>3
<1>5. \A j, k \in DOMAIN events' : events'[j] = events'[k] => j = k
  BY <1>1, <1>2, <1>3
<1> QED
  BY <1>4, <1>5 DEF Posted, Accepted

\* A new request: its interval is set, and nothing holds it yet.
LEMMA NewRequest ==
  ASSUME Inv, NEW r \in Requests, NEW i \in Intervals, interval[r] = 0, Accepted(i),
         interval' = [interval EXCEPT ![r] = i], left' = [left EXCEPT ![r] = i]
  PROVE  /\ i \in Nat /\ i # 0
         /\ interval' \in [Requests -> Nat] /\ left' \in [Requests -> Nat]
         /\ interval'[r] = i /\ left'[r] = i
         /\ \A q \in Requests : q # r => interval'[q] = interval[q] /\ left'[q] = left[q]
         /\ reserve[r] = 0 /\ r \notin Elements(events)
         /\ \A k \in DOMAIN events : events[k] \in Requests /\ events[k] # r
<1>1. i \in Nat /\ i # 0
  BY WheelAssumption DEF Accepted
<1>2. /\ interval' \in [Requests -> Nat] /\ left' \in [Requests -> Nat]
      /\ interval'[r] = i /\ left'[r] = i
      /\ \A q \in Requests : q # r => interval'[q] = interval[q] /\ left'[q] = left[q]
  BY <1>1 DEF Inv, TypeOK
<1>3. reserve[r] = 0 /\ r \notin Elements(events)
  BY DEF Inv, New
<1>4. \A k \in DOMAIN events : events[k] \in Requests
  <2>1. events \in Seq(Requests)
    BY DEF Inv, TypeOK
  <2> QED
    BY <2>1, ElementOfSeq, LenProperties
<1> QED
  BY <1>1, <1>2, <1>3, <1>4 DEF Elements

\* The wheels stay as they are when a request that is in none of them changes.
LEMMA SameWheels ==
  ASSUME Inv, NEW r \in Requests, reserve[r] = 0,
         \A q \in Requests : q # r => left'[q] = left[q] /\ interval'[q] = interval[q],
         UNCHANGED <<index, slot, node, wait, reserve, handed>>
  PROVE  LessThanOneTurn' /\ ExecutedWhenDue' /\ NotTooEarly' /\ InTime' /\ Walking'
<1>1. /\ handed[r] = 0 /\ \A v \in Workers : r \notin Elements(node[v])
      /\ \A v \in Workers, k \in SlotNumbers : r \notin Elements(slot[v][k])
  BY Unreserved
<1>2. /\ \A v \in Workers : \A q \in Elements(node[v]) : q # r /\ q \in Requests
      /\ \A v \in Workers, k \in SlotNumbers :
           \A q \in Elements(slot[v][k]) : q # r /\ q \in Requests
  <2>1. \A v \in Workers : node[v] \in Seq(Requests)
    BY DEF Inv, TypeOK
  <2>2. \A v \in Workers, k \in SlotNumbers : slot[v][k] \in Seq(Requests)
    BY DEF Inv, TypeOK
  <2> QED
    BY <1>1, <2>1, <2>2 DEF Elements
<1>3. LessThanOneTurn' /\ ExecutedWhenDue' /\ Walking'
  BY DEF Inv, LessThanOneTurn, ExecutedWhenDue, Walking
<1>4. NotTooEarly'
  BY <1>1 DEF Inv, NotTooEarly
<1>5. InTime'
  BY <1>2 DEF Inv, InTime
<1> QED
  BY <1>3, <1>4, <1>5

LEMMA AddOutsideInv ==
  ASSUME Inv, NEW r \in Requests, NEW i \in Intervals, AddOutside(r, i)
  PROVE  Inv'
<1> USE DEF AddOutside
<1>1. /\ i \in Nat /\ i # 0
      /\ interval' \in [Requests -> Nat] /\ left' \in [Requests -> Nat]
      /\ interval'[r] = i /\ left'[r] = i
      /\ \A q \in Requests : q # r => interval'[q] = interval[q] /\ left'[q] = left[q]
      /\ reserve[r] = 0 /\ r \notin Elements(events)
      /\ \A k \in DOMAIN events : events[k] \in Requests /\ events[k] # r
  BY NewRequest
<1>2. events \in Seq(Requests)
  BY DEF Inv, TypeOK
<1>3. TypeOK'
  BY <1>1, <1>2 DEF Inv, TypeOK
<1>4. Posted'
  <2>1. \A k \in DOMAIN events : /\ reserve'[events[k]] = 0
                                 /\ Accepted(interval'[events[k]])
                                 /\ left'[events[k]] <= interval'[events[k]]
    BY <1>1 DEF Inv, Posted
  <2>2. \A j, k \in DOMAIN events : events[j] = events[k] => j = k
    BY DEF Inv, Posted
  <2>3. reserve'[r] = 0 /\ Accepted(interval'[r]) /\ left'[r] <= interval'[r]
    BY <1>1
  <2> QED
    BY <1>1, <1>2, <2>1, <2>2, <2>3, PostedAppend
<1>5. New'
  BY <1>1, <1>2, ElementsAppend DEF Inv, New
<1> QED
  BY <1>1, <1>3, <1>4, <1>5, SameWheels DEF Inv

LEMMA AddInsideInv ==
  ASSUME Inv, NEW w \in Workers, NEW r \in Requests, NEW i \in Intervals, AddInside(w, r, i)
  PROVE  Inv'
<1> USE DEF AddInside
<1>1. /\ i \in Nat /\ i # 0
      /\ interval' \in [Requests -> Nat] /\ left' \in [Requests -> Nat]
      /\ interval'[r] = i /\ left'[r] = i
      /\ \A q \in Requests : q # r => interval'[q] = interval[q] /\ left'[q] = left[q]
      /\ reserve[r] = 0 /\ r \notin Elements(events)
      /\ \A k \in DOMAIN events : events[k] \in Requests /\ events[k] # r
  BY NewRequest
<1>2. CASE inWorker[w] /\ Push(w, r, i) /\ events' = events
  <2>1. /\ slot' \in [Workers -> [SlotNumbers -> Seq(Requests)]]
        /\ reserve' \in [Requests -> Nat] /\ reserve'[r] # 0
        /\ \A q \in Requests : q # r => reserve'[q] = reserve[q]
        /\ LessThanOneTurn' /\ ExecutedWhenDue' /\ NotTooEarly' /\ InTime'
    BY <1>1, <1>2, PushInv
  <2>2. TypeOK'
    BY <1>1, <1>2, <2>1 DEF Inv, TypeOK
  <2>3. Posted'
    BY <1>1, <1>2, <2>1 DEF Inv, Posted
  <2>4. New'
    <3> SUFFICES ASSUME NEW q \in Requests, interval'[q] = 0
                 PROVE  reserve'[q] = 0 /\ q \notin Elements(events')
      BY DEF New
    <3>1. q # r /\ interval[q] = 0
      BY <1>1
    <3> QED
      BY <3>1, <1>2, <2>1 DEF Inv, New
  <2>5. Walking'
    BY DEF Inv, Walking
  <2> QED
    BY <2>1, <2>2, <2>3, <2>4, <2>5 DEF Inv
<1>3. CASE events' = Append(events, r) /\ UNCHANGED <<slot, reserve>>
  <2>1. AddOutside(r, i)
    BY <1>3 DEF AddOutside
  <2> QED
    BY <2>1, AddOutsideInv
<1> QED
  BY <1>2, <1>3 DEF AddOn

LEMMA ProcessJobSlotInv ==
  ASSUME Inv, NEW w \in Workers, ProcessJobSlot(w)
  PROVE  Inv'
<1> USE DEF ProcessJobSlot
<1> DEFINE r == Head(events)
           rest == Tail(events)
<1>1. events \in Seq(Requests) /\ events # <<>>
  BY DEF Inv, TypeOK
<1>2. /\ r \in Requests /\ rest \in Seq(Requests) /\ r \in Elements(events)
      /\ \A x \in Elements(rest) : x \in Elements(events)
      /\ \A k \in DOMAIN rest : k \in Nat /\ k + 1 \in DOMAIN events /\ rest[k] = events[k + 1]
      /\ 1 \in DOMAIN events /\ r = events[1]
  BY <1>1, ElementsHeadTail
<1> HIDE DEF r, rest
<1>3. reserve[r] = 0 /\ Accepted(interval[r]) /\ left[r] <= interval[r]
  BY <1>2 DEF Inv, Posted
<1>4. \A k \in DOMAIN rest : rest[k] # r
  <2> SUFFICES ASSUME NEW k \in DOMAIN rest, rest[k] = r PROVE FALSE
    OBVIOUS
  <2>1. k + 1 = 1
    BY <1>2 DEF Inv, Posted
  <2>2. k \in 1 .. Len(rest)
    BY <1>2, LenProperties
  <2> QED
    BY <2>1, <2>2
<1>5. /\ \A k \in DOMAIN rest : /\ reserve[rest[k]] = 0
                                /\ Accepted(interval[rest[k]])
                                /\ left[rest[k]] <= interval[rest[k]]
      /\ \A j, k \in DOMAIN rest : rest[j] = rest[k] => j = k
  BY <1>2 DEF Inv, Posted
<1>6. r \notin Elements(rest)
  BY <1>4 DEF Elements
<1>7. interval[r] \in Nat /\ interval[r] # 0 /\ left \in [Requests -> Nat]
  <2>1. r \in Requests
    BY <1>2
  <2> HIDE DEF ProcessJobSlot
  <2>2. interval \in [Requests -> Nat] /\ left \in [Requests -> Nat]
    BY DEF Inv, TypeOK
  <2>3. interval[r] > 0
    BY <1>3 DEF Accepted
  <2> QED
    BY <2>1, <2>2, <2>3
<1>8. AddOn(w, r, interval[r], rest)
  BY DEF r, rest
<1>9. CASE inWorker[w] /\ Push(w, r, interval[r]) /\ events' = rest
  <2>1. /\ slot' \in [Workers -> [SlotNumbers -> Seq(Requests)]]
        /\ reserve' \in [Requests -> Nat] /\ reserve'[r] # 0
        /\ \A q \in Requests : q # r => reserve'[q] = reserve[q]
        /\ LessThanOneTurn' /\ ExecutedWhenDue' /\ NotTooEarly' /\ InTime'
    BY <1>2, <1>3, <1>7, <1>9, PushInv
  <2>2. TypeOK'
    BY <1>2, <1>9, <2>1 DEF Inv, TypeOK
  <2>3. Posted'
    <3>1. \A k \in DOMAIN rest : rest[k] \in Requests
      BY <1>2, ElementOfSeq, LenProperties
    <3>2. \A k \in DOMAIN rest : reserve'[rest[k]] = 0
      BY <1>4, <1>5, <2>1, <3>1
    <3> QED
      BY <1>5, <1>9, <3>2 DEF Posted
  <2>4. New' /\ Walking'
    BY <1>2, <1>7, <1>9, <2>1 DEF Inv, New, Walking
  <2> QED
    BY <2>1, <2>2, <2>3, <2>4 DEF Inv
<1>10. CASE events' = Append(rest, r) /\ UNCHANGED <<slot, reserve>>
  <2>1. TypeOK'
    <3>1. events' \in Seq(Requests)
      BY <1>2, <1>10
    <3> QED
      BY <3>1, <1>10 DEF Inv, TypeOK
  <2>2. Posted'
    BY <1>2, <1>3, <1>5, <1>6, <1>10, PostedAppend
  <2>3. New'
    BY <1>2, <1>7, <1>10, ElementsAppend DEF Inv, New
  <2> QED
    BY <1>2, <1>3, <1>10, <2>1, <2>2, <2>3, SameWheels DEF Inv
<1> QED
  BY <1>8, <1>9, <1>10 DEF AddOn

LEMMA RegisterInv ==
  ASSUME Inv, NEW w \in Workers, Register(w)
  PROVE  Inv'
<1> USE DEF Register
<1>1. TypeOK'
  BY DEF Inv, TypeOK
<1>2. LessThanOneTurn' /\ ExecutedWhenDue' /\ NotTooEarly'
  BY DEF Inv, LessThanOneTurn, ExecutedWhenDue, NotTooEarly
<1>3. Posted' /\ New' /\ Walking' /\ InTime'
  BY DEF Inv, Posted, New, Walking, InTime, Accepted
<1> QED
  BY <1>1, <1>2, <1>3 DEF Inv

\* The elements of a wheel's slots and nodes are requests.
LEMMA WheelElements ==
  ASSUME Inv, NEW w \in Workers
  PROVE  /\ \A q \in Elements(node[w]) : q \in Requests
         /\ \A k \in SlotNumbers : \A q \in Elements(slot[w][k]) : q \in Requests
<1>1. node[w] \in Seq(Requests) /\ \A k \in SlotNumbers : slot[w][k] \in Seq(Requests)
  BY DEF Inv, TypeOK
<1> QED
  BY <1>1 DEF Elements

\* The requests of the slot that comes next have the index that comes next.
LEMMA UpdateInv ==
  ASSUME Inv, NEW w \in Workers, Update(w)
  PROVE  Inv'
<1> DEFINE k0 == (index[w] + 1) % Slots
<1> USE WheelAssumption
<1>1. /\ index[w] \in Nat /\ wait[w] = 0 /\ node[w] = <<>> /\ wait \in [Workers -> 0 .. IntervalUnit]
      /\ IntervalUnit \in 0 .. IntervalUnit
  BY DEF Inv, TypeOK, Update, PopQueue
<1>2. k0 \in SlotNumbers
  <2>1. index[w] + 1 \in Nat /\ Slots \in Nat \ {0}
    BY <1>1
  <2>2. k0 \in 0 .. Slots - 1
    BY <2>1, DivMod
  <2> QED
    BY <2>2 DEF SlotNumbers
<1>3. /\ wait' = [wait EXCEPT ![w] = IntervalUnit]
      /\ inWorker' = [inWorker EXCEPT ![w] = TRUE]
      /\ index' = [index EXCEPT ![w] = @ + 1]
      /\ node' = [node EXCEPT ![w] = slot[w][k0]]
      /\ slot' = [slot EXCEPT ![w][k0] = <<>>]
      /\ UNCHANGED <<registered, events, interval, left, reserve, handed>>
  BY DEF Update, PopQueue
<1> HIDE DEF k0
<1>4. TypeOK'
  BY <1>1, <1>2, <1>3 DEF Inv, TypeOK
<1>5. /\ index'[w] = index[w] + 1 /\ wait'[w] = IntervalUnit
      /\ node'[w] = slot[w][k0] /\ slot'[w][k0] = <<>>
      /\ \A k \in SlotNumbers : k # k0 => slot'[w][k] = slot[w][k]
      /\ \A v \in Workers : v # w => /\ index'[v] = index[v] /\ wait'[v] = wait[v]
                                     /\ node'[v] = node[v] /\ slot'[v] = slot[v]
  BY <1>1, <1>2, <1>3 DEF Inv, TypeOK
<1>6. \A q \in Elements(slot[w][k0]) : reserve[q] = index[w] + 1
  <2> SUFFICES ASSUME NEW q \in Elements(slot[w][k0]) PROVE reserve[q] = index[w] + 1
    OBVIOUS
  <2>1. /\ reserve[q] % Slots = k0 /\ index[w] < reserve[q] /\ reserve[q] < index[w] + Slots
        /\ reserve[q] \in Nat
    BY <1>2, WheelElements DEF Inv, LessThanOneTurn, TypeOK
  <2>2. /\ index[w] + 1 \in Nat /\ Slots \in Nat \ {0}
        /\ reserve[q] < index[w] + 1 + Slots /\ index[w] + 1 < reserve[q] + Slots
    BY <1>1, <2>1
  <2>3. reserve[q] % Slots = (index[w] + 1) % Slots
    BY <2>1 DEF k0
  <2> QED
    BY <2>1, <2>2, <2>3, SameSlot
<1>7. ASSUME NEW k \in SlotNumbers, k # k0, NEW q \in Elements(slot[w][k])
      PROVE  /\ reserve[q] % Slots = k /\ index[w] + 1 < reserve[q]
             /\ reserve[q] < index[w] + 1 + Slots /\ reserve[q] \in Nat /\ q \in Requests
  <2>1. /\ reserve[q] % Slots = k /\ index[w] < reserve[q] /\ reserve[q] < index[w] + Slots
        /\ reserve[q] \in Nat /\ q \in Requests
    BY <1>7, WheelElements DEF Inv, LessThanOneTurn, TypeOK
  <2>2. reserve[q] # index[w] + 1
    BY <1>7, <2>1 DEF k0
  <2> QED
    BY <1>1, <2>1, <2>2
<1>8. LessThanOneTurn'
  <2> SUFFICES ASSUME NEW v \in Workers, NEW k \in SlotNumbers, NEW q \in Elements(slot'[v][k])
               PROVE  /\ reserve[q] % Slots = k
                      /\ index'[v] < reserve[q] /\ reserve[q] < index'[v] + Slots
    BY <1>3 DEF LessThanOneTurn
  <2>1. CASE v # w
    BY <2>1, <1>5 DEF Inv, LessThanOneTurn
  <2>2. CASE v = w /\ k # k0
    BY <2>2, <1>5, <1>7
  <2>3. CASE v = w /\ k = k0
    BY <2>3, <1>5, ElementsEmpty
  <2> QED
    BY <2>1, <2>2, <2>3
<1>9. ExecutedWhenDue'
  BY <1>3, <1>5, <1>6 DEF Inv, ExecutedWhenDue
<1>10. NotTooEarly' /\ Posted' /\ New'
  BY <1>3 DEF Inv, NotTooEarly, Posted, New, Accepted
<1>11. Walking'
  <2>1. index'[w] # 0
    BY <1>1, <1>5
  <2> QED
    BY <2>1, <1>5 DEF Inv, Walking
<1>12. InTime'
  <2>1. ASSUME NEW v \in Workers, NEW k \in SlotNumbers, NEW q \in Elements(slot'[v][k]),
               handed[q] = 0
        PROVE  left[q] <= wait'[v] + (reserve[q] - index'[v] - 1) * IntervalUnit
                            + Earliness(interval[q])
    <3>1. CASE v # w
      BY <2>1, <3>1, <1>5 DEF Inv, InTime
    <3>2. CASE v = w /\ k # k0
      <4>1. /\ reserve[q] \in Nat /\ q \in Requests
            /\ left[q] <= wait[w] + (reserve[q] - index[w] - 1) * IntervalUnit
                            + Earliness(interval[q])
        BY <2>1, <3>2, <1>5, <1>7 DEF Inv, InTime
      <4>2. wait[w] + (reserve[q] - index[w] - 1) * IntervalUnit
            = IntervalUnit + (reserve[q] - (index[w] + 1) - 1) * IntervalUnit
        <5> DEFINE d == reserve[q] - (index[w] + 1) - 1
        <5>1. d \in Int /\ IntervalUnit \in Int /\ wait[w] = 0
              /\ reserve[q] - index[w] - 1 = d + 1
          BY <4>1, <1>1
        <5> HIDE DEF d
        <5>2. (d + 1) * IntervalUnit = IntervalUnit + d * IntervalUnit
          BY <5>1
        <5>3. wait[w] + (d + 1) * IntervalUnit = IntervalUnit + d * IntervalUnit
          BY <5>1, <5>2
        <5> QED
          BY <5>1, <5>3 DEF d
      <4> QED
        BY <4>1, <4>2, <3>2, <1>5
    <3>3. CASE v = w /\ k = k0
      BY <2>1, <3>3, <1>5, ElementsEmpty
    <3> QED
      BY <3>1, <3>2, <3>3
  <2>2. ASSUME NEW v \in Workers, NEW q \in Elements(node'[v]), handed[q] = 0
        PROVE  left[q] <= Earliness(interval[q])
    <3>1. CASE v # w
      BY <2>2, <3>1, <1>5 DEF Inv, InTime
    <3>2. CASE v = w
      <4>1. /\ q \in Requests /\ reserve[q] = index[w] + 1
            /\ left[q] <= wait[w] + (reserve[q] - index[w] - 1) * IntervalUnit
                            + Earliness(interval[q])
        BY <2>2, <3>2, <1>2, <1>5, <1>6, WheelElements DEF Inv, InTime
      <4>2. left[q] \in Nat /\ interval[q] \in Nat /\ reserve[q] - index[w] - 1 = 0
        BY <4>1, <1>1 DEF Inv, TypeOK
      <4>3. Earliness(interval[q]) \in Nat
        BY <4>2, EarlyByLess
      <4>4. wait[w] + (reserve[q] - index[w] - 1) * IntervalUnit = 0
        BY <4>2, <1>1
      <4> QED
        BY <4>1, <4>2, <4>3, <4>4
    <3> QED
      BY <3>1, <3>2
  <2>3. UNCHANGED <<interval, left, reserve, handed>>
    BY <1>3
  <2> QED
    BY <2>1, <2>2, <2>3 DEF InTime
<1> QED
  BY <1>4, <1>8, <1>9, <1>10, <1>11, <1>12 DEF Inv

LEMMA HandOverInv ==
  ASSUME Inv, NEW w \in Workers, HandOver(w)
  PROVE  Inv'
<1> DEFINE r == Head(node[w])
<1> USE DEF HandOver
<1>1. node[w] \in Seq(Requests) /\ node[w] # <<>> /\ index[w] \in Nat
  BY DEF Inv, TypeOK
<1>2. /\ r \in Requests /\ Tail(node[w]) \in Seq(Requests) /\ r \in Elements(node[w])
      /\ \A x \in Elements(Tail(node[w])) : x \in Elements(node[w])
  BY <1>1, ElementsHeadTail
<1>3. reserve[r] = index[w] /\ index[w] # 0
  BY <1>1, <1>2 DEF Inv, ExecutedWhenDue, Walking
<1>4. handed' = [handed EXCEPT ![r] = index[w]] /\ node' = [node EXCEPT ![w] = Tail(@)]
  OBVIOUS
<1> HIDE DEF r
<1>5. TypeOK'
  <2>1. /\ node \in [Workers -> Seq(Requests)] /\ handed \in [Requests -> Nat]
        /\ node' = [node EXCEPT ![w] = Tail(node[w])]
    BY <1>4 DEF Inv, TypeOK
  <2> HIDE DEF HandOver
  <2>2. node' \in [Workers -> Seq(Requests)]
    BY <1>2, <2>1
  <2>3. handed' \in [Requests -> Nat]
    BY <1>1, <1>2, <1>4, <2>1
  <2>4. UNCHANGED <<registered, inWorker, index, slot, events, wait, interval, left, reserve>>
    BY DEF HandOver
  <2> QED
    BY <2>2, <2>3, <2>4 DEF Inv, TypeOK
<1>6. /\ handed'[r] = index[w] /\ \A q \in Requests : q # r => handed'[q] = handed[q]
      /\ \A v \in Workers : \A q \in Elements(node'[v]) : q \in Elements(node[v])
      /\ \A v \in Workers : node'[v] # <<>> => node[v] # <<>>
  <2>1. handed \in [Requests -> Nat] /\ DOMAIN node = Workers
    BY DEF Inv, TypeOK
  <2>2. handed'[r] = index[w] /\ \A q \in Requests : q # r => handed'[q] = handed[q]
    BY <1>2, <1>4, <2>1
  <2>3. node'[w] = Tail(node[w]) /\ \A v \in Workers : v # w => node'[v] = node[v]
    BY <1>4, <2>1
  <2>4. ASSUME NEW v \in Workers
        PROVE  /\ \A q \in Elements(node'[v]) : q \in Elements(node[v])
               /\ node'[v] # <<>> => node[v] # <<>>
    <3>1. CASE v = w
      BY <1>1, <1>2, <2>3, <3>1
    <3>2. CASE v # w
      BY <2>3, <3>2
    <3> QED
      BY <3>1, <3>2
  <2> QED
    BY <2>2, <2>4
<1>7. LessThanOneTurn' /\ ExecutedWhenDue'
  BY <1>3, <1>6 DEF Inv, LessThanOneTurn, ExecutedWhenDue
<1>8. NotTooEarly'
  <2>1. left[r] <= Earliness(interval[r])
    BY <1>2 DEF Inv, InTime, NotTooEarly
  <2> QED
    BY <2>1, <1>6 DEF Inv, NotTooEarly
<1>9. Posted' /\ New' /\ Walking'
  BY <1>6 DEF Inv, Posted, New, Walking, Accepted
<1>10. InTime'
  <2>1. \A q \in Requests : handed'[q] = 0 => handed[q] = 0
    BY <1>3, <1>6
  <2> QED
    BY <1>6, <2>1, WheelElements DEF Inv, InTime
<1> QED
  BY <1>5, <1>7, <1>8, <1>9, <1>10 DEF Inv

LEMMA TickInv ==
  ASSUME Inv, Tick
  PROVE  Inv'
<1> USE WheelAssumption DEF Tick
<1>1. /\ wait \in [Workers -> 0 .. IntervalUnit] /\ left \in [Requests -> Nat]
      /\ index \in [Workers -> Nat] /\ reserve \in [Requests -> Nat]
      /\ interval \in [Requests -> Nat]
  BY DEF Inv, TypeOK
<1>2. /\ \A w \in Workers : /\ wait'[w] \in 0 .. IntervalUnit
                            /\ wait'[w] = (IF wait[w] > 0 THEN wait[w] - 1 ELSE 0)
      /\ \A q \in Requests :
           /\ left'[q] \in Nat
           /\ left'[q] = (IF handed[q] = 0 /\ left[q] > 0 THEN left[q] - 1 ELSE left[q])
  BY <1>1
<1>3. TypeOK'
  BY <1>1, <1>2 DEF Inv, TypeOK
<1>4. LessThanOneTurn' /\ ExecutedWhenDue' /\ Walking'
  BY DEF Inv, LessThanOneTurn, ExecutedWhenDue, Walking
<1>5. NotTooEarly' /\ New'
  BY <1>2 DEF Inv, NotTooEarly, New
<1>6. Posted'
  <2>1. \A k \in DOMAIN events : events[k] \in Requests
    <3>1. events \in Seq(Requests)
      BY DEF Inv, TypeOK
    <3> QED
      BY <3>1, ElementOfSeq, LenProperties
  <2>2. \A q \in Requests : left[q] <= interval[q] => left'[q] <= interval[q]
    <3>1. interval \in [Requests -> Nat]
      BY DEF Inv, TypeOK
    <3> QED
      BY <1>1, <1>2, <3>1
  <2> QED
    BY <2>1, <2>2 DEF Inv, Posted, Accepted
<1>7. InTime'
  <2>1. ASSUME NEW w \in Workers, NEW k \in SlotNumbers, NEW q \in Elements(slot[w][k]),
               handed[q] = 0
        PROVE  left'[q] <= wait'[w] + (reserve[q] - index[w] - 1) * IntervalUnit
                             + Earliness(interval[q])
    <3> DEFINE x == (reserve[q] - index[w] - 1) * IntervalUnit
    <3>1. left[q] <= wait[w] + x + Earliness(interval[q]) /\ q \in Requests
      BY <2>1, WheelElements DEF Inv, InTime
    <3>e. Earliness(interval[q]) \in Nat
      BY <1>1, <3>1, EarlyByLess
    <3>2. x \in Nat
      <4>1. index[w] < reserve[q] /\ index[w] \in Nat /\ reserve[q] \in Nat
        BY <1>1, <3>1 DEF Inv, LessThanOneTurn
      <4>2. reserve[q] - index[w] - 1 \in Nat
        BY <4>1
      <4> QED
        BY <4>2
    <3> HIDE DEF x
    <3>3. left'[q] <= wait'[w] + x + Earliness(interval[q])
      BY <1>1, <1>2, <2>1, <3>1, <3>e, <3>2
    <3> QED
      BY <3>3 DEF x
  <2>2. ASSUME NEW w \in Workers, NEW q \in Elements(node[w]), handed[q] = 0
        PROVE  left'[q] <= Earliness(interval[q])
    <3>1. left[q] <= Earliness(interval[q]) /\ q \in Requests
      BY <2>2, WheelElements DEF Inv, InTime
    <3>2. Earliness(interval[q]) \in Nat
      BY <1>1, <3>1, EarlyByLess
    <3> QED
      BY <1>1, <1>2, <3>1, <3>2
  <2> QED
    BY <2>1, <2>2 DEF InTime
<1> QED
  BY <1>3, <1>4, <1>5, <1>6, <1>7 DEF Inv

LEMMA StutterInv ==
  ASSUME Inv, UNCHANGED vars
  PROVE  Inv'
BY DEF Inv, vars, TypeOK, LessThanOneTurn, ExecutedWhenDue, NotTooEarly, Posted, New,
       Walking, InTime, Accepted

LEMMA NextInv == Inv /\ [Next]_vars => Inv'
<1> SUFFICES ASSUME Inv, [Next]_vars PROVE Inv'
  OBVIOUS
<1>1. CASE Tick
  BY <1>1, TickInv
<1>2. ASSUME NEW r \in Requests, NEW i \in Intervals, AddOutside(r, i) PROVE Inv'
  BY <1>2, AddOutsideInv
<1>3. ASSUME NEW r \in Requests, NEW i \in Intervals, NEW w \in Workers, AddInside(w, r, i)
      PROVE  Inv'
  BY <1>3, AddInsideInv
<1>4. ASSUME NEW w \in Workers, Register(w) PROVE Inv'
  BY <1>4, RegisterInv
<1>5. ASSUME NEW w \in Workers, ProcessJobSlot(w) PROVE Inv'
  BY <1>5, ProcessJobSlotInv
<1>6. ASSUME NEW w \in Workers, Update(w) PROVE Inv'
  BY <1>6, UpdateInv
<1>7. ASSUME NEW w \in Workers, HandOver(w) PROVE Inv'
  BY <1>7, HandOverInv
<1>8. CASE UNCHANGED vars
  BY <1>8, StutterInv
<1> QED
  BY <1>1, <1>2, <1>3, <1>4, <1>5, <1>6, <1>7, <1>8 DEF Next

\* Every reachable state of the wheels satisfies the strengthened invariant.
THEOREM Invariance == Spec => []Inv
BY InitInv, NextInv, PTL DEF Spec

\* The wheels' variables keep their types: Scheduler::_execution_index, the slots,
\* the posted JobSlots and _next_update_time.
THEOREM TypeCorrect == Spec => []TypeOK
<1>1. Inv => TypeOK
  BY DEF Inv
<1> QED
  BY <1>1, Invariance, PTL

\* A wheel holds less than one turn, whatever its size, unit and intervals: the
\* slot that Scheduler::addJob takes modulo the wheel is not due too early.
THEOREM OneTurn == Spec => []LessThanOneTurn
<1>1. Inv => LessThanOneTurn
  BY DEF Inv
<1> QED
  BY <1>1, Invariance, PTL

\* A job leaves its wheel in the update it was reserved for (Scheduler::execute).
THEOREM DueInTime == Spec => []ExecutedWhenDue
<1>1. Inv => ExecutedWhenDue
  BY DEF Inv
<1> QED
  BY <1>1, Invariance, PTL

\* No job is handed over earlier than its first slice and what its interval has beyond
\* a whole slice allow, however late its worker updates, for a wheel of any size and
\* unit (ExecutionIndex::add, WorkerThread::onRun).
THEOREM NoEarlierThanSlices == Spec => []NotTooEarly
<1>1. Inv => NotTooEarly
  BY DEF Inv
<1> QED
  BY <1>1, Invariance, PTL

-------------------------------------------------------------------------------
SP == INSTANCE SerializerProofs WITH Threads <- Workers

\* Every step of the whole is one of the wheels, or none.
LEMMA WheelStep == [SystemNext]_systemVars => [Next]_vars
<1> SUFFICES ASSUME [SystemNext]_systemVars PROVE [Next]_vars
  OBVIOUS
<1> USE DEF Beside, Next
<1>1. CASE Beside(Tick)
  BY <1>1
<1>2. ASSUME NEW r \in Requests, NEW i \in Intervals, Beside(AddOutside(r, i)) PROVE Next
  BY <1>2
<1>3. ASSUME NEW r \in Requests, NEW i \in Intervals, NEW w \in Workers, AddOnWorker(w, r, i) PROVE Next
  BY <1>3 DEF AddOnWorker
<1>4. ASSUME NEW w \in Workers,
             Beside(Register(w)) \/ UpdateWorker(w) \/ ProcessEvent(w) \/ StartExecute(w)
      PROVE  Next
  BY <1>4 DEF UpdateWorker, ProcessEvent, StartExecute
<1>5. ASSUME NEW w \in Workers, ContinueExecute(w) PROVE UNCHANGED vars
  BY <1>5 DEF ContinueExecute
<1>6. CASE UNCHANGED systemVars
  BY <1>6 DEF systemVars
<1> QED
  BY <1>1, <1>2, <1>3, <1>4, <1>5, <1>6 DEF SystemNext

\* The workers turn their wheels as Scheduler says, whatever the serializer does.
THEOREM WheelsAsAlone == SystemSpec => Spec
<1>1. SystemInit => Init
  BY DEF SystemInit
<1> QED
  BY <1>1, WheelStep, PTL DEF SystemSpec, Spec

LEMMA SystemInv == SystemSpec => []Inv
BY WheelsAsAlone, Invariance, PTL

\* And of the serializer: the node a worker hands over is a request.
LEMMA SerialStep == Inv /\ [SystemNext]_systemVars => [Serial!Next]_Serial!vars
<1> SUFFICES ASSUME Inv, [SystemNext]_systemVars PROVE [Serial!Next]_Serial!vars
  OBVIOUS
<1>1. ASSUME NEW w \in Workers, StartExecute(w) PROVE Serial!Next
  <2>1. node[w] \in Seq(Requests) /\ node[w] # <<>>
    BY <1>1 DEF Inv, TypeOK, StartExecute, HandOver
  <2>2. Head(node[w]) \in Requests
    BY <2>1
  <2> QED
    BY <1>1, <2>2 DEF StartExecute, Serial!Next
<1>2. ASSUME NEW w \in Workers, ContinueExecute(w) PROVE Serial!Next
  BY <1>2 DEF ContinueExecute, Serial!Next
<1>3. ASSUME UNCHANGED serialVars PROVE UNCHANGED Serial!vars
  BY <1>3 DEF serialVars, Serial!vars
<1>4. ASSUME NEW w \in Workers, Beside(Register(w)) \/ UpdateWorker(w) \/ ProcessEvent(w)
      PROVE  UNCHANGED serialVars
  BY <1>4 DEF Beside, UpdateWorker, ProcessEvent
<1>5. ASSUME \/ Beside(Tick)
             \/ \E r \in Requests, i \in Intervals :
                  Beside(AddOutside(r, i)) \/ \E w \in Workers : AddOnWorker(w, r, i)
             \/ UNCHANGED systemVars
      PROVE  UNCHANGED serialVars
  BY <1>5 DEF Beside, AddOnWorker, systemVars
<1> QED
  BY <1>1, <1>2, <1>3, <1>4, <1>5 DEF SystemNext

\* The workers use the serializer as Serializer allows, so that what holds of it
\* for any callers holds of it here.
THEOREM SerializerAsAlone == SystemSpec => Serial!Spec
<1>1. SystemInit => Serial!Init
  BY DEF SystemInit
<1> QED
  BY <1>1, SerialStep, SystemInv, PTL DEF SystemSpec, Serial!Spec

\* The proofs of Serializer are about the serializer of this module.
LEMMA ProvedOfSerial ==
  /\ Serial!Spec => SP!Spec
  /\ SP!TypeOK => Serial!TypeOK
  /\ SP!MutualExclusion => Serial!MutualExclusion
  /\ SP!InOrderOnce => Serial!InOrderOnce
<1>1. Serial!Init <=> SP!Init
  BY DEF Serial!Init, SP!Init, Serial!None, SP!None
<1>2. [Serial!Next]_Serial!vars => [SP!Next]_SP!vars
  BY DEF Serial!Next, SP!Next, Serial!vars, SP!vars,
         Serial!Continue, Serial!Increment, Serial!Push, Serial!PopQueue, Serial!Fetch,
         Serial!Execute, Serial!Release, Serial!Return, Serial!IsMyown, Serial!Fresh,
         Serial!Elements, Serial!None, SP!Continue, SP!Increment, SP!Push, SP!PopQueue,
         SP!Fetch, SP!Execute, SP!Release, SP!Return, SP!IsMyown, SP!Fresh, SP!Elements, SP!None
<1>3. SP!TypeOK => Serial!TypeOK
  BY DEF Serial!TypeOK, SP!TypeOK, Serial!None, SP!None, Serial!Steps, SP!Steps
<1>4. /\ SP!MutualExclusion => Serial!MutualExclusion
      /\ SP!InOrderOnce => Serial!InOrderOnce
  BY DEF Serial!MutualExclusion, SP!MutualExclusion, Serial!InOrderOnce, SP!InOrderOnce,
         Serial!Owner, SP!Owner, Serial!IsMyown, SP!IsMyown
<1> QED
  BY <1>1, <1>2, <1>3, <1>4, PTL DEF Serial!Spec, SP!Spec

LEMMA SerialTypes == SystemSpec => []Serial!TypeOK
<1>1. SP!Spec => []SP!TypeOK
  BY SP!TypeCorrect, NoneIsNoRequest DEF Serial!None, SP!None
<1> QED
  BY <1>1, SerializerAsAlone, ProvedOfSerial, PTL

\* Jobs that come off different wheels, to one serializer, never run at the same
\* time (Serializer::execute).
THEOREM JobsOfOneSerializerExclude == SystemSpec => []Serial!MutualExclusion
<1>1. SP!Spec => []SP!MutualExclusion
  BY SP!JobsExclude, NoneIsNoRequest DEF Serial!None, SP!None
<1> QED
  BY <1>1, SerializerAsAlone, ProvedOfSerial, PTL

\* They are executed in the order in which the workers pushed them.
THEOREM ExecutedInOrder == SystemSpec => []Serial!InOrderOnce
<1>1. SP!Spec => []SP!InOrderOnce
  BY SP!OrderKept, NoneIsNoRequest DEF Serial!None, SP!None
<1> QED
  BY <1>1, SerializerAsAlone, ProvedOfSerial, PTL

\* A wheel whose worker is held up in the serializer executes its jobs in the
\* update they were reserved for, and not much too early, all the same.
THEOREM WheelsInTime == SystemSpec => []ExecutedWhenDue /\ []NotTooEarly
BY SystemInv, PTL DEF Inv

-------------------------------------------------------------------------------
\* A request has one place at a time.

Lone(S) == \E x : S = {x}

Nowhere(r) ==
    /\ At(events, r) = {} /\ InSlots(r) = {} /\ InNodes(r) = {}
    /\ Pushing(r) = {} /\ At(arrived, r) = {}

Posting(r) ==
    /\ Lone(At(events, r)) /\ InSlots(r) = {} /\ InNodes(r) = {}
    /\ Pushing(r) = {} /\ At(arrived, r) = {}

Slotted(r) ==
    /\ At(events, r) = {} /\ Lone(InSlots(r)) /\ InNodes(r) = {}
    /\ Pushing(r) = {} /\ At(arrived, r) = {}

Walked(r) ==
    /\ At(events, r) = {} /\ InSlots(r) = {} /\ Lone(InNodes(r))
    /\ Pushing(r) = {} /\ At(arrived, r) = {}

Pushed(r) ==
    /\ At(events, r) = {} /\ InSlots(r) = {} /\ InNodes(r) = {}
    /\ Lone(Pushing(r)) /\ At(arrived, r) = {}

Arrived(r) ==
    /\ At(events, r) = {} /\ InSlots(r) = {} /\ InNodes(r) = {}
    /\ Pushing(r) = {} /\ Lone(At(arrived, r))

Somewhere(r) == Posting(r) \/ Slotted(r) \/ Walked(r) \/ Pushed(r) \/ Arrived(r)

OnePlace ==
    \A r \in Requests :
        /\ interval[r] = 0 => Nowhere(r)
        /\ interval[r] # 0 => Somewhere(r)

SysInv == Inv /\ Serial!TypeOK /\ OnePlace

\* Where something is in a sequence to which an element is appended ...
LEMMA AtAppend ==
  ASSUME NEW S, NEW s \in Seq(S), NEW x \in S, NEW q
  PROVE  /\ x # q => At(Append(s, x), q) = At(s, q)
         /\ x = q /\ At(s, q) = {} => Lone(At(Append(s, x), q))
<1>1. /\ Append(s, x) \in Seq(S) /\ DOMAIN s = 1 .. Len(s) /\ Len(s) \in Nat
      /\ DOMAIN Append(s, x) = 1 .. Len(s) + 1
      /\ \A i \in 1 .. Len(s) : Append(s, x)[i] = s[i]
      /\ Append(s, x)[Len(s) + 1] = x
  BY AppendProperties, LenProperties
<1>2. ASSUME x # q PROVE At(Append(s, x), q) = At(s, q)
  BY <1>1, <1>2 DEF At
<1>3. ASSUME x = q, At(s, q) = {} PROVE At(Append(s, x), q) = {Len(s) + 1}
  BY <1>1, <1>3 DEF At
<1> QED
  BY <1>2, <1>3 DEF Lone

\* ... or from which the head is taken.
LEMMA AtTail ==
  ASSUME NEW S, NEW s \in Seq(S), s # <<>>, NEW q
  PROVE  /\ Head(s) \in S /\ Tail(s) \in Seq(S) /\ At(s, Head(s)) # {}
         /\ At(s, q) = {} => At(Tail(s), q) = {}
         /\ Lone(At(s, q)) /\ Head(s) = q => At(Tail(s), q) = {}
         /\ Lone(At(s, q)) /\ Head(s) # q => Lone(At(Tail(s), q))
<1>1. /\ Head(s) \in S /\ Tail(s) \in Seq(S) /\ Len(Tail(s)) = Len(s) - 1
      /\ \A k \in 1 .. Len(Tail(s)) : Tail(s)[k] = s[k + 1]
      /\ Len(s) \in Nat /\ Len(s) # 0 /\ Head(s) = s[1]
      /\ DOMAIN s = 1 .. Len(s) /\ DOMAIN Tail(s) = 1 .. Len(s) - 1
  BY HeadTailProperties, LenProperties, EmptySeq
<1>2. /\ \A k \in At(Tail(s), q) : k \in Nat \ {0} /\ k + 1 \in At(s, q)
      /\ \A k \in At(s, q) : k \in Nat \ {0} /\ (k # 1 => k - 1 \in At(Tail(s), q))
      /\ 1 \in At(s, q) <=> Head(s) = q
  BY <1>1 DEF At
<1>3. At(s, Head(s)) # {}
  BY <1>1 DEF At
<1>4. ASSUME At(s, q) = {} PROVE At(Tail(s), q) = {}
  BY <1>2, <1>4
<1>5. ASSUME Lone(At(s, q)) PROVE IF Head(s) = q THEN At(Tail(s), q) = {} ELSE Lone(At(Tail(s), q))
  <2>1. PICK x : At(s, q) = {x}
    BY <1>5 DEF Lone
  <2>2. x \in Nat \ {0}
    BY <1>2, <2>1
  <2>3. CASE Head(s) = q
    <3>1. x = 1
      BY <1>2, <2>1, <2>3
    <3> QED
      BY <1>2, <2>1, <2>3, <3>1
  <2>4. CASE Head(s) # q
    <3>1. At(Tail(s), q) = {x - 1}
      BY <1>2, <2>1, <2>2, <2>4
    <3> QED
      BY <2>4, <3>1 DEF Lone
  <2> QED
    BY <2>3, <2>4
<1> QED
  BY <1>1, <1>3, <1>4, <1>5

LEMMA WheelMember ==
  ASSUME NEW w, NEW q, NEW y
  PROVE  /\ y \in InWheel(w, q) <=>
              \E k \in SlotNumbers : \E i \in At(slot[w][k], q) : y = <<k, i>>
         /\ y \in InWheel(w, q)' <=>
              \E k \in SlotNumbers : \E i \in At(slot'[w][k], q) : y = <<k, i>>
BY DEF InWheel

LEMMA SlotMember ==
  ASSUME NEW q, NEW x
  PROVE  /\ x \in InSlots(q) <=>
              \E w \in Workers, k \in SlotNumbers :
                \E i \in At(slot[w][k], q) : x = <<w, <<k, i>>>>
         /\ x \in InSlots(q)' <=>
              \E w \in Workers, k \in SlotNumbers :
                \E i \in At(slot'[w][k], q) : x = <<w, <<k, i>>>>
<1>1. x \in InSlots(q) <=> \E w \in Workers : \E y \in InWheel(w, q) : x = <<w, y>>
  BY DEF InSlots
<1>2. x \in InSlots(q)' <=> \E w \in Workers : \E y \in InWheel(w, q)' : x = <<w, y>>
  BY DEF InSlots
<1> QED
  BY <1>1, <1>2, WheelMember

LEMMA NodeMember ==
  ASSUME NEW q, NEW x
  PROVE  /\ x \in InNodes(q) <=> \E w \in Workers : \E i \in At(node[w], q) : x = <<w, i>>
         /\ x \in InNodes(q)' <=> \E w \in Workers : \E i \in At(node'[w], q) : x = <<w, i>>
BY DEF InNodes

\* A place of which the same is to be said after a step
Like(S, T) == (S = {} => T = {}) /\ (Lone(S) => Lone(T))

AllLike(q) ==
    /\ Like(At(events, q), At(events', q))
    /\ Like(InSlots(q), InSlots(q)') /\ Like(InNodes(q), InNodes(q)')
    /\ Like(Pushing(q), Pushing(q)') /\ Like(At(arrived, q), At(arrived', q))
    /\ interval'[q] = interval[q]

LEMMA Stays ==
  ASSUME NEW q \in Requests, AllLike(q)
  PROVE  (Nowhere(q) => Nowhere(q)') /\ (Somewhere(q) => Somewhere(q)')
BY DEF AllLike, Like, Nowhere, Somewhere, Posting, Slotted, Walked, Pushed, Arrived, At

\* In a step one request moves, or none.
LEMMA OneMoves ==
  ASSUME OnePlace, NEW r \in Requests, interval'[r] # 0, Somewhere(r)',
         \A q \in Requests : q # r => AllLike(q)
  PROVE  OnePlace'
<1>1. ASSUME NEW q \in Requests, q # r
      PROVE  (interval'[q] = 0 => Nowhere(q)') /\ (interval'[q] # 0 => Somewhere(q)')
  <2>1. AllLike(q)
    BY <1>1
  <2>2. interval'[q] = interval[q]
    BY <2>1 DEF AllLike
  <2> QED
    BY <2>1, <2>2, Stays DEF OnePlace
<1>2. \A q \in Requests :
        (interval'[q] = 0 => Nowhere(q)') /\ (interval'[q] # 0 => Somewhere(q)')
  BY <1>1
<1> QED
  BY <1>2 DEF OnePlace

LEMMA NoneMoves ==
  ASSUME OnePlace, \A q \in Requests : AllLike(q)
  PROVE  OnePlace'
<1>1. ASSUME NEW q \in Requests
      PROVE  (interval'[q] = 0 => Nowhere(q)') /\ (interval'[q] # 0 => Somewhere(q)')
  <2>1. AllLike(q)
    BY <1>1
  <2>2. interval'[q] = interval[q]
    BY <2>1 DEF AllLike
  <2> QED
    BY <2>1, <2>2, Stays DEF OnePlace
<1> QED
  BY <1>1 DEF OnePlace

LEMMA SameLike == ASSUME NEW S, NEW T, S = T PROVE Like(S, T)
BY DEF Like

LEMMA SameSlots == ASSUME NEW q, UNCHANGED slot PROVE InSlots(q)' = InSlots(q)
BY DEF InSlots, InWheel

LEMMA SameNodes == ASSUME NEW q, UNCHANGED node PROVE InNodes(q)' = InNodes(q)
BY DEF InNodes

LEMMA SamePushing == ASSUME NEW q, UNCHANGED serialVars PROVE Pushing(q)' = Pushing(q) /\ arrived' = arrived
BY DEF Pushing, serialVars

LEMMA SlotsEmpty ==
  ASSUME NEW q
  PROVE  /\ InSlots(q) = {} <=> \A w \in Workers, k \in SlotNumbers : At(slot[w][k], q) = {}
         /\ InSlots(q)' = {} <=> \A w \in Workers, k \in SlotNumbers : At(slot'[w][k], q) = {}
<1>1. ASSUME NEW w \in Workers, NEW k \in SlotNumbers
      PROVE  /\ \A i \in At(slot[w][k], q) : <<w, <<k, i>>>> \in InSlots(q)
             /\ \A i \in At(slot'[w][k], q) : <<w, <<k, i>>>> \in InSlots(q)'
  BY SlotMember
<1>2. ASSUME NEW x
      PROVE  /\ x \in InSlots(q) => \E w \in Workers, k \in SlotNumbers : At(slot[w][k], q) # {}
             /\ x \in InSlots(q)' => \E w \in Workers, k \in SlotNumbers : At(slot'[w][k], q) # {}
  BY SlotMember
<1> QED
  BY <1>1, <1>2

LEMMA NodesEmpty ==
  ASSUME NEW q
  PROVE  /\ InNodes(q) = {} <=> \A w \in Workers : At(node[w], q) = {}
         /\ InNodes(q)' = {} <=> \A w \in Workers : At(node'[w], q) = {}
<1>1. ASSUME NEW w \in Workers
      PROVE  /\ \A i \in At(node[w], q) : <<w, i>> \in InNodes(q)
             /\ \A i \in At(node'[w], q) : <<w, i>> \in InNodes(q)'
  BY NodeMember
<1>2. ASSUME NEW x
      PROVE  /\ x \in InNodes(q) => \E w \in Workers : At(node[w], q) # {}
             /\ x \in InNodes(q)' => \E w \in Workers : At(node'[w], q) # {}
  BY NodeMember
<1> QED
  BY <1>1, <1>2

\* Where the only place is.
LEMMA LoneSlot ==
  ASSUME NEW q, NEW w \in Workers, NEW k \in SlotNumbers
  PROVE  /\ \A i : /\ At(slot'[w][k], q) = {i}
                   /\ \A v \in Workers, l \in SlotNumbers :
                        <<v, l>> # <<w, k>> => At(slot'[v][l], q) = {}
                   => Lone(InSlots(q)')
         /\ Lone(InSlots(q)) /\ At(slot[w][k], q) # {} =>
              /\ Lone(At(slot[w][k], q))
              /\ \A v \in Workers, l \in SlotNumbers :
                   <<v, l>> # <<w, k>> => At(slot[v][l], q) = {}
<1>1. ASSUME NEW i, At(slot'[w][k], q) = {i},
             \A v \in Workers, l \in SlotNumbers : <<v, l>> # <<w, k>> => At(slot'[v][l], q) = {}
      PROVE  Lone(InSlots(q)')
  <2>1. <<w, <<k, i>>>> \in InSlots(q)'
    BY <1>1, SlotMember
  <2>2. ASSUME NEW x \in InSlots(q)' PROVE x = <<w, <<k, i>>>>
    <3>1. PICK v \in Workers, l \in SlotNumbers :
            \E j \in At(slot'[v][l], q) : x = <<v, <<l, j>>>>
      BY SlotMember
    <3> QED
      BY <1>1, <3>1
  <2>3. InSlots(q)' = {<<w, <<k, i>>>>}
    BY <2>1, <2>2
  <2> QED
    BY <2>3 DEF Lone
<1>2. ASSUME Lone(InSlots(q)), NEW i \in At(slot[w][k], q)
      PROVE  /\ At(slot[w][k], q) = {i}
             /\ \A v \in Workers, l \in SlotNumbers :
                  <<v, l>> # <<w, k>> => At(slot[v][l], q) = {}
  <2>1. PICK x : InSlots(q) = {x}
    BY <1>2 DEF Lone
  <2>2. ASSUME NEW v \in Workers, NEW l \in SlotNumbers, NEW j \in At(slot[v][l], q)
        PROVE  v = w /\ l = k /\ j = i
    <3>1. <<v, <<l, j>>>> \in InSlots(q)
      BY SlotMember
    <3>2. <<w, <<k, i>>>> \in InSlots(q)
      BY <1>2, SlotMember
    <3> QED
      BY <2>1, <3>1, <3>2
  <2> QED
    BY <1>2, <2>2
<1> QED
  BY <1>1, <1>2 DEF Lone

\* A push to a slot puts the request there, and moves no other.
LEMMA ToSlot ==
  ASSUME TypeOK, NEW w \in Workers, NEW k \in SlotNumbers, NEW r \in Requests, PushQueue(w, k, r)
  PROVE  /\ InSlots(r) = {} => Lone(InSlots(r)')
         /\ \A q : q # r => InSlots(q)' = InSlots(q)
<1>1. /\ slot[w][k] \in Seq(Requests)
      /\ slot'[w][k] = Append(slot[w][k], r)
      /\ \A v \in Workers, l \in SlotNumbers : <<v, l>> # <<w, k>> => slot'[v][l] = slot[v][l]
  BY DEF TypeOK, PushQueue
<1>2. ASSUME NEW q, q # r PROVE InSlots(q)' = InSlots(q)
  <2>1. At(slot'[w][k], q) = At(slot[w][k], q)
    BY <1>1, <1>2, AtAppend
  <2>2. \A v \in Workers, l \in SlotNumbers : At(slot'[v][l], q) = At(slot[v][l], q)
    BY <1>1, <2>1
  <2>3. \A x : x \in InSlots(q)' <=> x \in InSlots(q)
    BY <2>2, SlotMember
  <2> QED
    BY <2>3
<1>3. ASSUME InSlots(r) = {} PROVE Lone(InSlots(r)')
  <2>1. \A v \in Workers, l \in SlotNumbers : At(slot[v][l], r) = {}
    BY <1>3, SlotsEmpty
  <2>2. Lone(At(slot'[w][k], r))
    <3>1. At(slot[w][k], r) = {}
      BY <2>1
    <3>2. Lone(At(Append(slot[w][k], r), r))
      <4>1. slot[w][k] \in Seq(Requests)
        BY <1>1
      <4> QED
        BY <3>1, <4>1, AtAppend
    <3> QED
      BY <1>1, <3>2
  <2>3. PICK i : At(slot'[w][k], r) = {i}
    BY <2>2 DEF Lone
  <2>4. \A v \in Workers, l \in SlotNumbers : <<v, l>> # <<w, k>> => At(slot'[v][l], r) = {}
    BY <1>1, <2>1
  <2> QED
    BY <2>3, <2>4, LoneSlot
<1> QED
  BY <1>2, <1>3

\* A step of the wheels moves one request at most: it is added,
LEMMA AddedMoves ==
  ASSUME SysInv, NEW r \in Requests, interval[r] = 0, UNCHANGED <<node, serialVars>>,
         interval'[r] # 0, \A q \in Requests : q # r => interval'[q] = interval[q],
         \/ events' = Append(events, r) /\ UNCHANGED slot
         \/ events' = events /\ \E w \in Workers, k \in SlotNumbers : PushQueue(w, k, r)
  PROVE  OnePlace'
<1> USE DEF SysInv, Inv
<1>1. Nowhere(r)
  BY DEF OnePlace
<1>2. \A q : InNodes(q)' = InNodes(q) /\ Pushing(q)' = Pushing(q)
  BY SameNodes, SamePushing
<1>3. arrived' = arrived
  BY DEF serialVars
<1>4. CASE events' = Append(events, r) /\ UNCHANGED slot
  <2>1. events \in Seq(Requests)
    BY DEF TypeOK
  <2>2. Lone(At(events', r))
    BY <1>1, <1>4, <2>1, AtAppend DEF Nowhere
  <2>3. Posting(r)'
    BY <1>1, <1>2, <1>3, <1>4, <2>2, SameSlots DEF Posting, Nowhere, At
  <2>4. \A q \in Requests : q # r => At(events', q) = At(events, q)
    BY <1>4, <2>1, AtAppend
  <2>5. \A q \in Requests : q # r => AllLike(q)
    BY <1>2, <1>3, <1>4, <2>4, SameSlots, SameLike DEF AllLike
  <2> QED
    BY <2>3, <2>5, OneMoves DEF Somewhere
<1>5. ASSUME events' = events, NEW w \in Workers, NEW k \in SlotNumbers, PushQueue(w, k, r)
      PROVE  OnePlace'
  <2>1. Lone(InSlots(r)') /\ \A q \in Requests : q # r => InSlots(q)' = InSlots(q)
    BY <1>1, <1>5, ToSlot DEF Nowhere
  <2>2. Slotted(r)'
    BY <1>1, <1>2, <1>3, <1>5, <2>1 DEF Slotted, Nowhere, At
  <2>3. \A q \in Requests : q # r => AllLike(q)
    BY <1>2, <1>3, <1>5, <2>1, SameLike DEF AllLike
  <2> QED
    BY <2>2, <2>3, OneMoves DEF Somewhere
<1> QED
  BY <1>4, <1>5

LEMMA LoneNode ==
  ASSUME NEW q, NEW w \in Workers
  PROVE  /\ \A i : /\ At(node'[w], q) = {i}
                   /\ \A v \in Workers : v # w => At(node'[v], q) = {}
                   => Lone(InNodes(q)')
         /\ Lone(InNodes(q)) /\ At(node[w], q) # {} =>
              /\ Lone(At(node[w], q))
              /\ \A v \in Workers : v # w => At(node[v], q) = {}
<1>1. ASSUME NEW i, At(node'[w], q) = {i},
             \A v \in Workers : v # w => At(node'[v], q) = {}
      PROVE  Lone(InNodes(q)')
  <2>1. <<w, i>> \in InNodes(q)'
    BY <1>1, NodeMember
  <2>2. ASSUME NEW x \in InNodes(q)' PROVE x = <<w, i>>
    <3>1. PICK v \in Workers : \E j \in At(node'[v], q) : x = <<v, j>>
      BY NodeMember
    <3> QED
      BY <1>1, <3>1
  <2>3. InNodes(q)' = {<<w, i>>}
    BY <2>1, <2>2
  <2> QED
    BY <2>3 DEF Lone
<1>2. ASSUME Lone(InNodes(q)), NEW i \in At(node[w], q)
      PROVE  /\ At(node[w], q) = {i}
             /\ \A v \in Workers : v # w => At(node[v], q) = {}
  <2>1. PICK x : InNodes(q) = {x}
    BY <1>2 DEF Lone
  <2>2. ASSUME NEW v \in Workers, NEW j \in At(node[v], q) PROVE v = w /\ j = i
    <3>1. <<v, j>> \in InNodes(q) /\ <<w, i>> \in InNodes(q)
      BY <1>2, NodeMember
    <3> QED
      BY <2>1, <3>1
  <2> QED
    BY <1>2, <2>2
<1> QED
  BY <1>1, <1>2 DEF Lone

\* a posted one is dequeued and put into a slot, or posted again,
LEMMA PostedMoves ==
  ASSUME SysInv, NEW w \in Workers, ProcessEvent(w)
  PROVE  OnePlace'
<1> USE DEF SysInv, Inv
<1>0. events \in Seq(Requests) /\ events # <<>>
  BY DEF TypeOK, ProcessEvent, Beside, ProcessJobSlot
<1>10. PICK r \in Requests : r = Head(events)
  BY <1>0, AtTail
<1>1. /\ events \in Seq(Requests) /\ events # <<>>
      /\ AddOn(w, r, interval[r], Tail(events))
      /\ UNCHANGED <<node, interval, serialVars>>
  BY <1>0, <1>10 DEF ProcessEvent, Beside, ProcessJobSlot
<1>2. r \in Requests /\ Tail(events) \in Seq(Requests) /\ At(events, r) # {}
  BY <1>1, <1>10, AtTail
<1>3. Posting(r) /\ interval[r] # 0
  BY <1>2 DEF OnePlace, Nowhere, Somewhere, Posting, Slotted, Walked, Pushed, Arrived
<1>4. At(Tail(events), r) = {}
  BY <1>1, <1>3, <1>10, AtTail DEF Posting
<1>5. \A q : q # r => Like(At(events, q), At(Tail(events), q))
  BY <1>1, <1>10, AtTail DEF Like
<1>6. \A q : InNodes(q)' = InNodes(q) /\ Pushing(q)' = Pushing(q)
  BY <1>1, SameNodes, SamePushing
<1>7. arrived' = arrived
  BY <1>1 DEF serialVars
<1>8. CASE inWorker[w] /\ Push(w, r, interval[r]) /\ events' = Tail(events)
  <2>1. PICK k \in SlotNumbers : PushQueue(w, k, r)
    <3> DEFINE at == IndexAfter(index[w], interval[r])
    <3>1. at \in Nat
      <4>1. index[w] \in Nat /\ interval[r] \in Nat
        BY <1>2 DEF TypeOK
      <4> QED
        BY <4>1, WheelAssumption DEF IndexAfter
    <3>2. at % Slots \in SlotNumbers
      BY <3>1, WheelAssumption DEF SlotNumbers
    <3> QED
      BY <1>8, <3>2 DEF Push
  <2>2. Lone(InSlots(r)') /\ \A q \in Requests : q # r => InSlots(q)' = InSlots(q)
    BY <1>2, <1>3, <2>1, ToSlot DEF Posting
  <2>3. Slotted(r)'
    BY <1>3, <1>4, <1>6, <1>7, <1>8, <2>2 DEF Slotted, Posting, At
  <2>4. \A q \in Requests : q # r => AllLike(q)
    BY <1>1, <1>5, <1>6, <1>7, <1>8, <2>2, SameLike DEF AllLike
  <2> QED
    BY <1>1, <1>2, <1>3, <2>3, <2>4, OneMoves DEF Somewhere
<1>9. CASE events' = Append(Tail(events), r) /\ UNCHANGED slot
  <2>1. Lone(At(events', r)) /\ \A q : q # r => At(events', q) = At(Tail(events), q)
    BY <1>2, <1>4, <1>9, AtAppend
  <2>2. \A q : InSlots(q)' = InSlots(q)
    BY <1>9, SameSlots
  <2>3. Posting(r)'
    BY <1>3, <1>6, <1>7, <2>1, <2>2 DEF Posting, At
  <2>4. \A q \in Requests : q # r => AllLike(q)
    BY <1>1, <1>5, <1>6, <1>7, <2>1, <2>2, SameLike DEF AllLike
  <2> QED
    BY <1>1, <1>2, <1>3, <2>3, <2>4, OneMoves DEF Somewhere
<1> QED
  BY <1>1, <1>8, <1>9 DEF AddOn

\* the nodes of a slot are taken by the update, all of them at once,
LEMMA TakenMoves ==
  ASSUME SysInv, NEW w \in Workers, UpdateWorker(w)
  PROVE  OnePlace'
<1> DEFINE k == (index[w] + 1) % Slots
<1> USE DEF SysInv, Inv
<1>1. k \in SlotNumbers
  <2>1. index[w] \in Nat
    BY DEF TypeOK
  <2> QED
    BY <2>1, WheelAssumption DEF SlotNumbers
<1>2. node[w] = <<>> /\ PopQueue(w, k) /\ UNCHANGED <<events, interval, serialVars>>
  BY DEF UpdateWorker, Beside, Update
<1> HIDE DEF k
<1>3. /\ node'[w] = slot[w][k] /\ slot'[w][k] = <<>>
      /\ \A v \in Workers : v # w => node'[v] = node[v]
      /\ \A v \in Workers, l \in SlotNumbers : <<v, l>> # <<w, k>> => slot'[v][l] = slot[v][l]
  BY <1>1, <1>2 DEF TypeOK, PopQueue
<1>4. \A q : Pushing(q)' = Pushing(q)
  BY <1>2, SamePushing
<1>5. arrived' = arrived
  BY <1>2 DEF serialVars
<1>6. \A q : At(node[w], q) = {} /\ At(slot'[w][k], q) = {}
  BY <1>2, <1>3 DEF At
<1>7. ASSUME NEW q \in Requests, At(slot[w][k], q) = {}
      PROVE  AllLike(q)
  <2>1. \A v \in Workers : At(node'[v], q) = At(node[v], q)
    BY <1>3, <1>6, <1>7
  <2>2. \A v \in Workers, l \in SlotNumbers : At(slot'[v][l], q) = At(slot[v][l], q)
    BY <1>3, <1>6, <1>7
  <2>3. \A x : x \in InNodes(q)' <=> x \in InNodes(q)
    BY <2>1, NodeMember
  <2>4. \A x : x \in InSlots(q)' <=> x \in InSlots(q)
    BY <2>2, SlotMember
  <2>5. InNodes(q)' = InNodes(q) /\ InSlots(q)' = InSlots(q)
    BY <2>3, <2>4
  <2> QED
    BY <1>2, <1>4, <1>5, <2>5, SameLike DEF AllLike
<1>8. ASSUME NEW q \in Requests, At(slot[w][k], q) # {}
      PROVE  Walked(q)' /\ interval'[q] # 0
  <2>1. InSlots(q) # {}
    BY <1>1, <1>8, SlotsEmpty
  <2>2. Slotted(q) /\ interval[q] # 0
    BY <2>1 DEF OnePlace, Nowhere, Somewhere, Posting, Slotted, Walked, Pushed, Arrived
  <2>3. /\ Lone(At(slot[w][k], q))
        /\ \A v \in Workers, l \in SlotNumbers : <<v, l>> # <<w, k>> => At(slot[v][l], q) = {}
    BY <1>1, <1>8, <2>2, LoneSlot DEF Slotted
  <2>4. InSlots(q)' = {}
    BY <1>3, <1>6, <2>3, SlotsEmpty
  <2>5. \A v \in Workers : v # w => At(node'[v], q) = {}
    BY <1>3, <2>2, NodesEmpty DEF Slotted
  <2>6. PICK i : At(node'[w], q) = {i}
    BY <1>3, <2>3 DEF Lone
  <2>7. Lone(InNodes(q)')
    BY <2>5, <2>6, LoneNode
  <2> QED
    BY <1>2, <1>4, <1>5, <2>2, <2>4, <2>7 DEF Walked, Slotted, At
<1>9. ASSUME NEW q \in Requests
      PROVE  (interval'[q] = 0 => Nowhere(q)') /\ (interval'[q] # 0 => Somewhere(q)')
  <2>1. CASE AllLike(q)
    <3>1. interval'[q] = interval[q]
      BY <2>1 DEF AllLike
    <3> QED
      BY <2>1, <3>1, Stays DEF OnePlace
  <2>2. CASE Walked(q)' /\ interval'[q] # 0
    BY <2>2 DEF Somewhere
  <2> QED
    BY <1>7, <1>8, <2>1, <2>2
<1> QED
  BY <1>9 DEF OnePlace

\* a node is handed to the serializer,
LEMMA HandedMoves ==
  ASSUME SysInv, NEW w \in Workers, StartExecute(w)
  PROVE  OnePlace'
<1> USE DEF SysInv, Inv
<1>1. node[w] \in Seq(Requests) /\ node[w] # <<>>
  BY DEF TypeOK, StartExecute, HandOver
<1>2. PICK r \in Requests : r = Head(node[w])
  BY <1>1, AtTail
<1>3. /\ node'[w] = Tail(node[w]) /\ \A v \in Workers : v # w => node'[v] = node[v]
      /\ UNCHANGED <<slot, events, interval>>
  BY DEF TypeOK, StartExecute, HandOver
<1>4. /\ pc[w] = "idle" /\ pc'[w] = "push" /\ req'[w] = r /\ UNCHANGED arrived
      /\ \A v \in Workers : v # w => pc'[v] = pc[v] /\ req'[v] = req[v]
  BY <1>2 DEF StartExecute, Serial!Increment, Serial!TypeOK
<1>5. \A q : InSlots(q)' = InSlots(q)
  BY <1>3, SameSlots
<1>6. At(node[w], r) # {} /\ InNodes(r) # {}
  <2>1. At(node[w], r) # {}
    BY <1>1, <1>2, AtTail
  <2> QED
    BY <2>1, NodesEmpty
<1>7. Walked(r) /\ interval'[r] # 0
  BY <1>3, <1>6 DEF OnePlace, Nowhere, Somewhere, Posting, Slotted, Walked, Pushed, Arrived
<1>8. Pushed(r)'
  <2>1. Lone(At(node[w], r)) /\ \A v \in Workers : v # w => At(node[v], r) = {}
    BY <1>6, <1>7, LoneNode DEF Walked
  <2>2. At(Tail(node[w]), r) = {}
    BY <1>1, <1>2, <2>1, AtTail
  <2>3. \A v \in Workers : At(node'[v], r) = {}
    BY <1>3, <2>1, <2>2
  <2>4. InNodes(r)' = {}
    BY <2>3, NodesEmpty
  <2>5. Pushing(r)' = {w}
    BY <1>4, <1>7 DEF Walked, Pushing
  <2>6. Lone(Pushing(r)')
    BY <2>5 DEF Lone
  <2> QED
    BY <1>3, <1>4, <1>5, <1>7, <2>4, <2>6 DEF Pushed, Walked, At
<1>9. ASSUME NEW q \in Requests, q # r PROVE AllLike(q)
  <2>1. Pushing(q)' = Pushing(q)
    BY <1>4, <1>9 DEF Pushing
  <2>2. ASSUME InNodes(q) = {} PROVE InNodes(q)' = {}
    <3>1. \A v \in Workers : At(node[v], q) = {}
      BY <2>2, NodesEmpty
    <3>2. At(Tail(node[w]), q) = {}
      BY <1>1, <3>1, AtTail
    <3>3. \A v \in Workers : At(node'[v], q) = {}
      BY <1>3, <3>1, <3>2
    <3> QED
      BY <3>3, NodesEmpty
  <2>3. ASSUME Lone(InNodes(q)) PROVE Lone(InNodes(q)')
    <3>1. CASE At(node[w], q) = {}
      <4>1. At(Tail(node[w]), q) = {}
        BY <1>1, <3>1, AtTail
      <4>2. \A v \in Workers : At(node'[v], q) = At(node[v], q)
        BY <1>3, <3>1, <4>1
      <4>3. \A x : x \in InNodes(q)' <=> x \in InNodes(q)
        BY <4>2, NodeMember
      <4>4. InNodes(q)' = InNodes(q)
        BY <4>3
      <4> QED
        BY <2>3, <4>4
    <3>2. CASE At(node[w], q) # {}
      <4>1. Lone(At(node[w], q)) /\ \A v \in Workers : v # w => At(node[v], q) = {}
        BY <2>3, <3>2, LoneNode
      <4>2. Lone(At(node'[w], q))
        BY <1>1, <1>2, <1>3, <1>9, <4>1, AtTail
      <4>3. PICK i : At(node'[w], q) = {i}
        BY <4>2 DEF Lone
      <4>4. \A v \in Workers : v # w => At(node'[v], q) = {}
        BY <1>3, <4>1
      <4> QED
        BY <4>3, <4>4, LoneNode
    <3> QED
      BY <3>1, <3>2
  <2>4. Like(InNodes(q), InNodes(q)')
    BY <2>2, <2>3 DEF Like
  <2> QED
    BY <1>3, <1>4, <1>5, <2>1, <2>4, SameLike DEF AllLike
<1> QED
  BY <1>7, <1>8, <1>9, OneMoves DEF Somewhere

\* a call in the serializer pushes its request,
LEMMA PushedMoves ==
  ASSUME SysInv, NEW w \in Workers, Serial!Push(w), UNCHANGED vars
  PROVE  OnePlace'
<1> USE DEF SysInv, Inv
<1>1. pc[w] = "push" /\ req[w] \in Requests /\ arrived \in Seq(Requests)
  BY DEF Serial!Push, Serial!TypeOK
<1>2. PICK r \in Requests : r = req[w]
  BY <1>1
<1>3. /\ arrived' = Append(arrived, r) /\ pc'[w] # "push"
      /\ \A v \in Workers : v # w => pc'[v] = pc[v] /\ req'[v] = req[v]
  BY <1>2 DEF Serial!Push, Serial!TypeOK, Serial!Return
<1>4. UNCHANGED <<events, slot, node, interval>>
  BY DEF vars
<1>5. \A q : InSlots(q)' = InSlots(q) /\ InNodes(q)' = InNodes(q)
  BY <1>4, SameSlots, SameNodes
<1>6. w \in Pushing(r)
  BY <1>1, <1>2 DEF Pushing
<1>7. Pushed(r) /\ interval'[r] # 0
  BY <1>4, <1>6 DEF OnePlace, Nowhere, Somewhere, Posting, Slotted, Walked, Pushed, Arrived
<1>8. Arrived(r)'
  <2>1. Pushing(r) = {w}
    BY <1>6, <1>7 DEF Pushed, Lone
  <2>2. Pushing(r)' = {}
    BY <1>3, <2>1 DEF Pushing
  <2>3. Lone(At(arrived', r))
    BY <1>1, <1>3, <1>7, AtAppend DEF Pushed
  <2> QED
    BY <1>4, <1>5, <1>7, <2>2, <2>3 DEF Arrived, Pushed, At
<1>9. ASSUME NEW q \in Requests, q # r PROVE AllLike(q)
  <2>1. Pushing(q)' = Pushing(q)
    BY <1>2, <1>3, <1>9 DEF Pushing
  <2>2. At(arrived', q) = At(arrived, q)
    BY <1>1, <1>3, <1>9, AtAppend
  <2> QED
    BY <1>4, <1>5, <2>1, <2>2, SameLike DEF AllLike
<1> QED
  BY <1>7, <1>8, <1>9, OneMoves DEF Somewhere

\* and from then on it stays.
LEMMA RestStays ==
  ASSUME SysInv, UNCHANGED <<events, slot, node, interval, arrived>>,
         \A q : Pushing(q)' = Pushing(q)
  PROVE  OnePlace'
<1>1. \A q \in Requests : AllLike(q)
  BY SameSlots, SameNodes, SameLike DEF AllLike
<1> QED
  BY <1>1, NoneMoves DEF SysInv

LEMMA ContinueStays ==
  ASSUME SysInv, NEW w \in Workers, ContinueExecute(w), ~ Serial!Push(w)
  PROVE  OnePlace'
<1>1. UNCHANGED <<events, slot, node, interval>>
  BY DEF ContinueExecute, vars
<1>2. /\ arrived' = arrived /\ pc[w] # "push" /\ pc'[w] # "push"
      /\ \A v \in Workers : v # w => pc'[v] = pc[v] /\ req'[v] = req[v]
  BY DEF ContinueExecute, Serial!Continue, Serial!PopQueue, Serial!Fetch, Serial!Execute,
         Serial!Release, Serial!Return, SysInv, Serial!TypeOK
<1>3. \A q : Pushing(q)' = Pushing(q)
  BY <1>2 DEF Pushing
<1> QED
  BY <1>1, <1>2, <1>3, RestStays

LEMMA OnePlaceStep == SysInv /\ [SystemNext]_systemVars => OnePlace'
<1> SUFFICES ASSUME SysInv, [SystemNext]_systemVars PROVE OnePlace'
  OBVIOUS
<1>1. CASE Beside(Tick)
  <2>1. UNCHANGED <<events, slot, node, interval, serialVars>>
    BY <1>1 DEF Beside, Tick
  <2> QED
    BY <2>1, SamePushing, RestStays
<1>2. ASSUME NEW r \in Requests, NEW i \in Intervals, Beside(AddOutside(r, i)) PROVE OnePlace'
  <2>1. i # 0 /\ interval \in [Requests -> Nat]
    BY <1>2 DEF Beside, AddOutside, Accepted, SysInv, Inv, TypeOK
  <2>2. /\ interval[r] = 0 /\ interval' = [interval EXCEPT ![r] = i]
        /\ events' = Append(events, r) /\ UNCHANGED <<slot, node, serialVars>>
    BY <1>2 DEF Beside, AddOutside
  <2>3. interval'[r] # 0 /\ \A q \in Requests : q # r => interval'[q] = interval[q]
    BY <2>1, <2>2
  <2> QED
    BY <2>2, <2>3, AddedMoves
<1>3. ASSUME NEW r \in Requests, NEW i \in Intervals, NEW w \in Workers, AddOnWorker(w, r, i)
      PROVE  OnePlace'
  <2>1. i \in Nat \ {0} /\ interval \in [Requests -> Nat] /\ index[w] \in Nat
    BY <1>3, WheelAssumption DEF AddOnWorker, Beside, AddInside, Accepted, SysInv, Inv, TypeOK
  <2>2. /\ interval[r] = 0 /\ interval' = [interval EXCEPT ![r] = i]
        /\ AddOn(w, r, i, events) /\ UNCHANGED <<node, serialVars>>
    BY <1>3 DEF AddOnWorker, Beside, AddInside
  <2>3. interval'[r] # 0 /\ \A q \in Requests : q # r => interval'[q] = interval[q]
    BY <2>1, <2>2
  <2>4. IndexAfter(index[w], i) % Slots \in SlotNumbers
    <3>1. IndexAfter(index[w], i) \in Nat
      BY <2>1, WheelAssumption DEF IndexAfter
    <3> QED
      BY <3>1, WheelAssumption DEF SlotNumbers
  <2>5. \/ events' = Append(events, r) /\ UNCHANGED slot
        \/ events' = events /\ \E k \in SlotNumbers : PushQueue(w, k, r)
    BY <2>2, <2>4 DEF AddOn, Push
  <2> QED
    BY <2>2, <2>3, <2>5, AddedMoves
<1>4. ASSUME NEW w \in Workers, Beside(Register(w)) PROVE OnePlace'
  <2>1. UNCHANGED <<events, slot, node, interval, serialVars>>
    BY <1>4 DEF Beside, Register
  <2> QED
    BY <2>1, SamePushing, RestStays
<1>5. ASSUME NEW w \in Workers, ContinueExecute(w) PROVE OnePlace'
  <2>1. CASE Serial!Push(w)
    BY <1>5, <2>1, PushedMoves DEF ContinueExecute
  <2>2. CASE ~ Serial!Push(w)
    BY <1>5, <2>2, ContinueStays
  <2> QED
    BY <2>1, <2>2
<1>6. CASE UNCHANGED systemVars
  <2>1. UNCHANGED <<events, slot, node, interval, serialVars>>
    BY <1>6 DEF systemVars, vars
  <2> QED
    BY <2>1, SamePushing, RestStays
<1> QED
  BY <1>1, <1>2, <1>3, <1>4, <1>5, <1>6, TakenMoves, PostedMoves, HandedMoves DEF SystemNext

LEMMA OnePlaceInit == SystemInit => OnePlace
<1> SUFFICES ASSUME SystemInit, NEW r \in Requests PROVE interval[r] = 0 /\ Nowhere(r)
  BY DEF OnePlace
<1>1. interval[r] = 0
  BY DEF SystemInit, Init
<1>2. At(events, r) = {} /\ At(arrived, r) = {} /\ Pushing(r) = {}
  BY DEF SystemInit, Init, Serial!Init, At, Pushing
<1>3. \A w \in Workers : At(node[w], r) = {}
  BY DEF SystemInit, Init, At
<1>4. \A w \in Workers, k \in SlotNumbers : At(slot[w][k], r) = {}
  BY DEF SystemInit, Init, At
<1> QED
  BY <1>1, <1>2, <1>3, <1>4, SlotsEmpty, NodesEmpty DEF Nowhere

LEMMA PlaceIsHeld ==
  ASSUME OnePlace
  PROVE  HeldOnce
<1>1. \A S : Lone(S) => Cardinality(S) = 1
  BY FS_Singleton DEF Lone
<1>2. Cardinality({}) = 0
  BY FS_EmptySet
<1>3. ASSUME NEW r \in Requests
      PROVE  Held(r) = IF interval[r] # 0 THEN 1 ELSE 0
  <2>1. CASE interval[r] = 0
    BY <1>2, <2>1 DEF OnePlace, Nowhere, Held
  <2>2. CASE interval[r] # 0
    <3>1. CASE Posting(r)
      BY <1>1, <1>2, <2>2, <3>1 DEF Posting, Held
    <3>2. CASE Slotted(r)
      BY <1>1, <1>2, <2>2, <3>2 DEF Slotted, Held
    <3>3. CASE Walked(r)
      BY <1>1, <1>2, <2>2, <3>3 DEF Walked, Held
    <3>4. CASE Pushed(r)
      BY <1>1, <1>2, <2>2, <3>4 DEF Pushed, Held
    <3>5. CASE Arrived(r)
      BY <1>1, <1>2, <2>2, <3>5 DEF Arrived, Held
    <3> QED
      BY <2>2, <3>1, <3>2, <3>3, <3>4, <3>5 DEF OnePlace, Somewhere
  <2> QED
    BY <2>1, <2>2
<1> QED
  BY <1>3 DEF HeldOnce

\* From addJob to onExecute no job is lost and none is doubled, on its way from
\* the port through a wheel into the serializer (JobSlot::onProcess, addJob,
\* Scheduler::execute, Serializer::execute), for any workers and requests.
THEOREM NeverLostOrDoubled == SystemSpec => []HeldOnce
<1>1. OnePlace => HeldOnce
  BY PlaceIsHeld
<1>2. Inv /\ Serial!TypeOK /\ OnePlace <=> SysInv
  BY DEF SysInv
<1> QED
  BY <1>1, <1>2, SystemInv, SerialTypes, OnePlaceInit, OnePlaceStep, PTL DEF SystemSpec

-------------------------------------------------------------------------------
\* What those that call addJob see

\* What is with the serializer came off a wheel.
HandedFirst ==
    \A r \in Requests : Pushing(r) # {} \/ At(arrived, r) # {} => handed[r] # 0

ExecutorInv == SysInv /\ HandedFirst /\ SP!RInv

LEMMA HandedFirstInit == SystemInit => HandedFirst
<1> SUFFICES ASSUME SystemInit, NEW r \in Requests
             PROVE  Pushing(r) = {} /\ At(arrived, r) = {}
  BY DEF HandedFirst
<1> QED
  BY DEF SystemInit, Serial!Init, At, Pushing

LEMMA HandedFirstStep == SysInv /\ HandedFirst /\ [SystemNext]_systemVars => HandedFirst'
<1> SUFFICES ASSUME SysInv, HandedFirst, [SystemNext]_systemVars PROVE HandedFirst'
  OBVIOUS
<1>t. arrived \in Seq(Requests) /\ handed \in [Requests -> Nat] /\ index \in [Workers -> Nat]
  BY DEF SysInv, Inv, TypeOK, Serial!TypeOK
<1>1. ASSUME UNCHANGED <<serialVars, handed>> PROVE HandedFirst'
  BY <1>1 DEF serialVars, HandedFirst, Pushing, At
<1>2. ASSUME NEW w \in Workers, StartExecute(w) PROVE HandedFirst'
  <2>1. PICK r : r = Head(node[w])
    OBVIOUS
  <2>2. /\ node[w] \in Seq(Requests) /\ node[w] # <<>>
        /\ handed' = [handed EXCEPT ![r] = index[w]]
    BY <1>2, <2>1 DEF SysInv, Inv, TypeOK, StartExecute, HandOver
  <2>3. index[w] # 0 /\ r \in Requests
    BY <2>1, <2>2 DEF SysInv, Inv, Walking
  <2>4. \A q \in Requests : handed'[q] = 0 => handed[q] = 0 /\ q # r
    BY <1>t, <2>2, <2>3
  <2>5. arrived' = arrived /\ \A q \in Requests : q # r => Pushing(q)' = Pushing(q)
    BY <1>2, <2>1 DEF StartExecute, Serial!Increment, Pushing, SysInv, Serial!TypeOK
  <2> QED
    BY <2>4, <2>5 DEF HandedFirst, At
<1>3. ASSUME NEW w \in Workers, ContinueExecute(w) PROVE HandedFirst'
  <2>1. handed' = handed
    BY <1>3 DEF ContinueExecute, vars
  <2>2. CASE Serial!Push(w)
    <3>1. PICK r \in Requests : r = req[w]
      BY <2>2 DEF Serial!Push, SysInv, Serial!TypeOK
    <3>2. /\ pc[w] = "push" /\ arrived' = Append(arrived, r) /\ pc'[w] # "push"
          /\ \A v \in Workers : v # w => pc'[v] = pc[v] /\ req'[v] = req[v]
      BY <2>2, <3>1 DEF Serial!Push, SysInv, Serial!TypeOK, Serial!Return
    <3>3. handed[r] # 0
      BY <3>1, <3>2 DEF HandedFirst, Pushing
    <3>4. \A q \in Requests : Pushing(q)' # {} => Pushing(q) # {}
      BY <3>2 DEF Pushing
    <3>5. \A q \in Requests : q # r => At(arrived', q) = At(arrived, q)
      BY <1>t, <3>1, <3>2, AtAppend
    <3> QED
      BY <2>1, <3>3, <3>4, <3>5 DEF HandedFirst, At
  <2>3. CASE ~ Serial!Push(w)
    <3>1. /\ arrived' = arrived /\ pc'[w] # "push"
          /\ \A v \in Workers : v # w => pc'[v] = pc[v] /\ req'[v] = req[v]
      BY <1>3, <2>3
         DEF ContinueExecute, Serial!Continue, Serial!PopQueue, Serial!Fetch, Serial!Execute,
             Serial!Release, Serial!Return, SysInv, Serial!TypeOK
    <3>2. \A q \in Requests : Pushing(q)' # {} => Pushing(q) # {}
      BY <3>1 DEF Pushing
    <3> QED
      BY <2>1, <3>1, <3>2 DEF HandedFirst, At
  <2> QED
    BY <2>2, <2>3
<1>4. ASSUME \/ Beside(Tick)
             \/ \E r \in Requests, i \in Intervals :
                  Beside(AddOutside(r, i)) \/ \E w \in Workers : AddOnWorker(w, r, i)
             \/ \E w \in Workers :
                  Beside(Register(w)) \/ UpdateWorker(w) \/ ProcessEvent(w)
             \/ UNCHANGED systemVars
      PROVE  UNCHANGED <<serialVars, handed>>
  BY <1>4 DEF Beside, Tick, AddOutside, AddOnWorker, AddInside, Register, UpdateWorker, Update,
              ProcessEvent, ProcessJobSlot, systemVars, vars
<1> QED
  BY <1>1, <1>2, <1>3, <1>4 DEF SystemNext

\* The serializer is the one of the proofs.
Line == (IF Serial!Running THEN Tail(Serial!OwnChain) ELSE Serial!OwnChain) \o queue
Current == IF Serial!Running THEN <<Head(Serial!OwnChain)>> ELSE <<>>

LEMMA SameSerial == Line = SP!Waiting /\ Current = SP!Current
BY DEF Line, Current, SP!Waiting, SP!Current, Serial!Running, Serial!OwnChain,
       SP!Running, SP!OwnChain

LEMMA SerialSteps ==
  ASSUME ExecutorInv, [SystemNext]_systemVars
  PROVE  \/ UNCHANGED <<Current, done>>
         \/ /\ Current = <<>> /\ Line # <<>>
            /\ Current' = <<Head(Line)>> /\ done' = done
         \/ Current # <<>> /\ Current' = <<>> /\ done' = done \o Current
<1>1. [Serial!Next]_Serial!vars
  BY SerialStep DEF ExecutorInv, SysInv
<1>2. [SP!Next]_SP!vars
  BY <1>1 DEF Serial!Next, SP!Next, Serial!vars, SP!vars,
         Serial!Continue, Serial!Increment, Serial!Push, Serial!PopQueue, Serial!Fetch,
         Serial!Execute, Serial!Release, Serial!Return, Serial!IsMyown, Serial!Fresh,
         Serial!Elements, Serial!None, SP!Continue, SP!Increment, SP!Push, SP!PopQueue,
         SP!Fetch, SP!Execute, SP!Release, SP!Return, SP!IsMyown, SP!Fresh, SP!Elements, SP!None
<1>3. Current' = SP!Current'
  BY DEF Current, SP!Current, Serial!Running, Serial!OwnChain, SP!Running, SP!OwnChain
<1> QED
  BY <1>2, <1>3, SameSerial, SP!OneAtATime, NoneIsNoRequest
     DEF ExecutorInv, Serial!None, SP!None

\* The request that starts was added, is due, and was not executed before.
LEMMA StartsInTime ==
  ASSUME ExecutorInv, Current = <<>>, Line # <<>>
  PROVE  /\ Head(Line) \in Requests /\ interval[Head(Line)] # 0
         /\ Delay(left[Head(Line)]) = 0
         /\ \A i \in DOMAIN done : done[i] # Head(Line)
<1>1. PICK r : r = Head(Line)
  OBVIOUS
<1>2. /\ Len(done) \in Nat /\ DOMAIN done = 1 .. Len(done)
      /\ \A i \in DOMAIN done : i \in DOMAIN arrived /\ arrived[i] = done[i]
      /\ Len(done) + 1 \in DOMAIN arrived
      /\ arrived[Len(done) + 1] = r
  BY <1>1, SameSerial, SP!NextInLine, NoneIsNoRequest DEF ExecutorInv, Serial!None, SP!None
<1>3. r \in Requests /\ Len(done) + 1 \in At(arrived, r)
  BY <1>2 DEF ExecutorInv, SysInv, Serial!TypeOK, At
<1>4. interval[r] # 0 /\ Lone(At(arrived, r))
  BY <1>3 DEF ExecutorInv, SysInv, OnePlace, Nowhere, Somewhere, Posting, Slotted, Walked,
              Pushed, Arrived
<1>5. Delay(left[r]) = 0
  <2>1. handed[r] # 0
    BY <1>3 DEF ExecutorInv, HandedFirst
  <2>2. left[r] <= Earliness(interval[r]) /\ left[r] \in Nat /\ interval[r] \in Nat
    BY <1>3, <2>1 DEF ExecutorInv, SysInv, Inv, NotTooEarly, TypeOK
  <2>3. left[r] < 2 * IntervalUnit
    <3>1. Earliness(interval[r]) \in Nat /\ Earliness(interval[r]) < 2 * IntervalUnit
      BY <2>2, EarlyByLess
    <3>2. PICK d \in Nat : d = 2 * IntervalUnit
      BY WheelAssumption
    <3> QED
      BY <2>2, <3>1, <3>2
  <2> QED
    BY <2>3 DEF Delay
<1>6. ASSUME NEW i \in DOMAIN done, done[i] = r PROVE FALSE
  <2>1. i \in At(arrived, r)
    BY <1>2, <1>6 DEF At
  <2>2. i = Len(done) + 1
    BY <1>3, <1>4, <2>1 DEF Lone
  <2> QED
    BY <1>2, <2>2
<1> QED
  BY <1>1, <1>3, <1>4, <1>5, <1>6

LEMMA ExecutorStep ==
  ASSUME ExecutorInv, [SystemNext]_systemVars
  PROVE  [Executor!Next]_(Executor!vars)
<1>t. left \in [Requests -> Nat] /\ interval \in [Requests -> Nat] /\ IntervalUnit \in Nat
  BY WheelAssumption DEF ExecutorInv, SysInv, Inv, TypeOK
<1>1. ASSUME UNCHANGED serialVars PROVE UNCHANGED <<Current, done>>
  BY <1>1 DEF serialVars, Current, Serial!Running, Serial!OwnChain
<1>2. ASSUME UNCHANGED <<interval, left>>, UNCHANGED <<Current, done>>
      PROVE  UNCHANGED Executor!vars
  BY <1>2 DEF Executor!vars, Added, Current
<1>3. ASSUME UNCHANGED <<interval, left>> PROVE [Executor!Next]_(Executor!vars)
  <2>1. Added' = Added /\ [r \in Requests |-> Delay(left[r])]' = [r \in Requests |-> Delay(left[r])]
    BY <1>3 DEF Added
  <2>2. CASE Current = <<>> /\ Line # <<>> /\ Current' = <<Head(Line)>> /\ done' = done
    <3>1. PICK r : r = Head(Line)
      OBVIOUS
    <3>2. /\ r \in Requests /\ interval[r] # 0 /\ Delay(left[r]) = 0
          /\ \A i \in DOMAIN done : done[i] # r
      BY <2>2, <3>1, StartsInTime
    <3>3. Executor!Start(r)
      BY <2>1, <2>2, <3>1, <3>2 DEF Executor!Start, Added, Current
    <3> QED
      BY <3>2, <3>3 DEF Executor!Next
  <2>3. CASE Current # <<>> /\ Current' = <<>> /\ done' = done \o Current
    BY <2>1, <2>3 DEF Executor!Next, Executor!Finish, Current
  <2>4. CASE UNCHANGED <<Current, done>>
    BY <1>2, <1>3, <2>4
  <2> QED
    BY <2>2, <2>3, <2>4, SerialSteps
<1>4. CASE Beside(Tick)
  <2>1. /\ UNCHANGED <<interval, serialVars>>
        /\ left' = [r \in Requests |->
                      IF handed[r] = 0 /\ left[r] > 0 THEN left[r] - 1 ELSE left[r]]
    BY <1>4 DEF Beside, Tick
  <2>2. ASSUME NEW r \in Requests
        PROVE  Delay(left'[r]) = IF Delay(left[r]) > 0 THEN Delay(left[r]) - 1 ELSE 0
    <3>1. PICK d \in Nat : d = 2 * IntervalUnit
      BY <1>t
    <3>2. left[r] \in Nat /\ (handed[r] # 0 => left[r] < d)
      <4>1. interval[r] \in Nat
        BY <1>t
      <4>2. Earliness(interval[r]) \in Nat /\ Earliness(interval[r]) < d
        BY <3>1, <4>1, EarlyByLess
      <4> QED
        BY <1>t, <4>2 DEF ExecutorInv, SysInv, Inv, NotTooEarly
    <3>3. PICK x \in Nat, y \in Nat :
            /\ x = left[r] /\ y = left'[r]
            /\ (y = x /\ (x < d \/ x = 0)) \/ (x > 0 /\ y = x - 1)
      <4>1. left'[r] = IF handed[r] = 0 /\ left[r] > 0 THEN left[r] - 1 ELSE left[r]
        BY <2>1
      <4>2. left'[r] \in Nat
        BY <3>2, <4>1
      <4> QED
        BY <3>2, <4>1, <4>2
    <3>4. \A z \in Nat : Delay(z) = IF z < d THEN 0 ELSE z - d + 1
      BY <3>1 DEF Delay
    <3>5. CASE y = x /\ (x < d \/ x = 0)
      <4>1. d # 0
        BY <3>1, WheelAssumption
      <4>2. Delay(x) = 0
        BY <3>4, <3>5, <4>1
      <4> QED
        BY <3>3, <3>5, <4>2
    <3>6. CASE x > 0 /\ y = x - 1
      <4>1. Delay(y) = IF Delay(x) > 0 THEN Delay(x) - 1 ELSE 0
        BY <3>4, <3>6
      <4> QED
        BY <3>3, <4>1
    <3> QED
      BY <3>3, <3>5, <3>6
  <2>3. [r \in Requests |-> Delay(left[r])]'
          = [r \in Requests |-> IF [q \in Requests |-> Delay(left[q])][r] > 0
                                THEN [q \in Requests |-> Delay(left[q])][r] - 1 ELSE 0]
    BY <2>2
  <2> QED
    BY <1>1, <2>1, <2>3 DEF Executor!Next, Executor!Tick, Added, Current
<1>5. ASSUME NEW r \in Requests, NEW i \in Intervals,
             Beside(AddOutside(r, i)) \/ \E w \in Workers : AddOnWorker(w, r, i)
      PROVE  Executor!Add(r, i)
  <2>1. /\ interval[r] = 0 /\ interval' = [interval EXCEPT ![r] = i]
        /\ left' = [left EXCEPT ![r] = i] /\ UNCHANGED serialVars /\ i # 0
    BY <1>5, WheelAssumption
       DEF Beside, AddOutside, AddOnWorker, AddInside, Accepted
  <2>2. r \notin Added /\ Added' = Added \cup {r}
    BY <1>t, <2>1 DEF Added
  <2>3. [q \in Requests |-> Delay(left[q])]'
          = [[q \in Requests |-> Delay(left[q])] EXCEPT ![r] = Delay(i)]
    BY <1>t, <2>1
  <2>4. Executor!DelayOf(i) = Delay(i)
    BY DEF Executor!DelayOf, Delay
  <2> QED
    BY <1>1, <2>1, <2>2, <2>3, <2>4 DEF Executor!Add, Current
<1>6. ASSUME NEW w \in Workers,
             \/ Beside(Register(w)) \/ UpdateWorker(w) \/ ProcessEvent(w)
             \/ StartExecute(w) \/ ContinueExecute(w)
      PROVE  UNCHANGED <<interval, left>>
  BY <1>6 DEF Beside, Register, UpdateWorker, Update, ProcessEvent, ProcessJobSlot,
              StartExecute, HandOver, ContinueExecute, vars
<1>7. CASE UNCHANGED systemVars
  BY <1>3, <1>7 DEF systemVars, vars
<1> QED
  BY <1>3, <1>4, <1>5, <1>6, <1>7 DEF SystemNext, Executor!Next

LEMMA ExecutorStart == SystemInit => Executor!Init
<1> SUFFICES ASSUME SystemInit PROVE Executor!Init
  OBVIOUS
<1>1. Added = {}
  BY DEF SystemInit, Init, Added
<1>2. \A r \in Requests : Delay(left[r]) = 0
  BY WheelAssumption DEF SystemInit, Init, Delay
<1>3. ~ Serial!Running /\ done = <<>>
  BY DEF SystemInit, Serial!Init, Serial!Running
<1> QED
  BY <1>1, <1>2, <1>3 DEF Executor!Init

\* What addJob promises: whichever worker's wheel a job goes through, and whatever the
\* others do meanwhile, it is executed once at most, never beside another job of
\* its serializer, and not before its interval is over but for less than two units
\* (NKScheduler::addJob, Scheduler::execute, Serializer::execute).
THEOREM Refines == SystemSpec => ImplementsTimedExecutor
<1>1. SP!Spec => []SP!RInv
  BY SP!AlwaysRInv, NoneIsNoRequest DEF Serial!None, SP!None
<1>2. Inv /\ Serial!TypeOK /\ OnePlace <=> SysInv
  BY DEF SysInv
<1>3. SystemSpec => []SysInv
  BY <1>2, SystemInv, SerialTypes, OnePlaceInit, OnePlaceStep, PTL DEF SystemSpec
<1>4. SystemSpec => []HandedFirst
  BY <1>3, HandedFirstInit, HandedFirstStep, PTL DEF SystemSpec
<1>5. SysInv /\ HandedFirst /\ SP!RInv /\ [SystemNext]_systemVars
        => [Executor!Next]_(Executor!vars)
  BY ExecutorStep DEF ExecutorInv
<1> QED
  BY <1>1, <1>3, <1>4, <1>5, ExecutorStart, SerializerAsAlone, ProvedOfSerial, PTL
     DEF SystemSpec, Executor!Spec, ImplementsTimedExecutor
===============================================================================
