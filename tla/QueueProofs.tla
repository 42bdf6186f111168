----------------------------- MODULE QueueProofs -----------------------------
(***************************************************************************)
(* What the queues and the peek functions of the simulator return, proved  *)
(* for queues of any content.                                              *)
(***************************************************************************)
EXTENDS SimulatorProperties, FiniteInduction

-----------------------------------------------------------------------------
(***************************************************************************)
(* Instants and durations.                                                 *)
(***************************************************************************)

(* A set of instants, if it is not empty, has a first one. *)
LEMMA LeastExists ==
  ASSUME NEW S, S \subseteq Nat, S # {}
  PROVE  Least(S) \in S /\ \A y \in S : Least(S) <= y
<1> QED
  BY NaturalsHaveLeast DEF Least

(* A difference is a duration; it is exact unless it is cut off. *)
LEMMA SinceExact ==
  ASSUME NEW t \in Nat, NEW now \in Nat
  PROVE  /\ Since(t, now) \in 0 .. DURATION_MAX
         /\ t >= now => t >= now + Since(t, now)
         /\ Since(t, now) < DURATION_MAX => now + Since(t, now) = Later(t, now)
BY SimQueueAssumption DEF Since, Later

LEMMA SinceTyped ==
  ASSUME NEW t \in Nat, NEW now \in Nat
  PROVE  Since(t, now) \in Nat
BY SinceExact, SimQueueAssumption

(* What is late is due now. *)
LEMMA SinceLate ==
  ASSUME NEW t \in Nat, NEW now \in Nat
  PROVE  Since(Later(t, now), now) = Since(t, now)
<1>1. CASE t > now
  BY <1>1 DEF Later
<1>2. CASE ~(t > now)
  BY <1>2, SimQueueAssumption DEF Later, Since
<1> QED
  BY <1>1, <1>2

LEMMA SinceReaches ==
  ASSUME NEW t \in Nat, NEW now \in Nat, Since(t, now) < DURATION_MAX
  PROVE  t <= now + Since(t, now)
BY SimQueueAssumption DEF Since

LEMMA SinceMonotone ==
  ASSUME NEW t \in Nat, NEW u \in Nat, NEW now \in Nat, t <= u
  PROVE  Since(t, now) <= Since(u, now)
BY SimQueueAssumption DEF Since

-----------------------------------------------------------------------------
(***************************************************************************)
(* The first event of a heap.                                              *)
(***************************************************************************)
Rank(e) == event_to_usize[e.event]

(* The order of events, as a number. *)
Key(e) == 10 * e.time + Rank(e)

LEMMA RankTyped ==
  ASSUME NEW e \in SimEvent
  PROVE  Rank(e) \in 0 .. 9 /\ e.time \in Nat /\ Key(e) \in Nat
<1>1. Rank(e) \in 0 .. 9 /\ e.time \in Nat
  BY DEF Rank, SimEvent, event_to_usize
<1> QED
  BY <1>1 DEF Key

LEMMA EarlierByKey ==
  ASSUME NEW e \in SimEvent, NEW f \in SimEvent
  PROVE  Earlier(e, f) <=> Key(e) < Key(f)
BY RankTyped DEF Earlier, Key, Rank

(* A heap that is not empty yields an event, and the events it may yield
   agree on the time and the kind.                                         *)
LEMMA TopFirst ==
  ASSUME NEW heap, DOMAIN heap \subseteq SimEvent, ~Empty(heap)
  PROVE  /\ Top(heap) \in Tops(heap)
         /\ Tops(heap) \subseteq DOMAIN heap
         /\ \A e \in Tops(heap) : e.time = Top(heap).time
<1> DEFINE keys == {Key(e) : e \in DOMAIN heap}
<1>1. keys \subseteq Nat /\ keys # {}
  BY RankTyped DEF Empty
<1>2. PICK e \in DOMAIN heap : \A k \in keys : Key(e) <= k
  BY <1>1, LeastExists
<1>3. e \in Tops(heap)
  BY <1>2, EarlierByKey, RankTyped DEF Tops
<1>4. Top(heap) \in Tops(heap)
  BY <1>3 DEF Top
<1>5. ASSUME NEW f \in Tops(heap), NEW g \in Tops(heap)
      PROVE  Key(f) = Key(g)
  <2>1. /\ f \in SimEvent /\ g \in SimEvent
        /\ ~Earlier(f, g) /\ ~Earlier(g, f)
    BY DEF Tops
  <2> QED
    BY <2>1, EarlierByKey, RankTyped
<1>6. ASSUME NEW f \in SimEvent, NEW g \in SimEvent, Key(f) = Key(g)
      PROVE  f.time = g.time
  <2>1. /\ Rank(f) \in 0 .. 9 /\ f.time \in Nat
        /\ Rank(g) \in 0 .. 9 /\ g.time \in Nat
    BY RankTyped
  <2>2. \A a, b \in Nat, r, s \in 0 .. 9 : 10 * a + r = 10 * b + s => a = b
    OBVIOUS
  <2> QED
    BY <1>6, <2>1, <2>2 DEF Key
<1> QED
  BY <1>4, <1>5, <1>6 DEF Tops

-----------------------------------------------------------------------------
(***************************************************************************)
(* The queues of a side: every event in the heap of its kind.              *)
(***************************************************************************)
SideOK(queues, side) ==
  /\ queues = [q \in Queue |-> queues[q]]
  /\ \A q \in Queue :
       /\ IsBag(queues[q], SimEvent)
       /\ \A e \in DOMAIN queues[q] : e.side = side /\ QueueOf(e) = q

SidesOK(sides) ==
  /\ sides = [side \in Side |-> sides[side]]
  /\ \A side \in Side : SideOK(sides[side], side)

LEMMA BagAddTyped ==
  ASSUME NEW S, NEW bag, IsBag(bag, S), NEW e \in S
  PROVE  IsBag(BagAdd(bag, e), S) /\ DOMAIN BagAdd(bag, e) = DOMAIN bag \cup {e}
<1>1. DOMAIN BagAdd(bag, e) = DOMAIN bag \cup {e}
  BY DEF BagAdd
<1>2. IsFiniteSet(DOMAIN bag \cup {e})
  BY FS_AddElement DEF IsBag
<1>3. \A d \in DOMAIN bag \cup {e} : d \in S /\ BagAdd(bag, e)[d] \in Nat \ {0}
  BY DEF IsBag, BagAdd
<1> QED
  BY <1>1, <1>2, <1>3 DEF IsBag

LEMMA BagRemoveTyped ==
  ASSUME NEW S, NEW bag, IsBag(bag, S), NEW e
  PROVE  /\ IsBag(BagRemove(bag, e), S)
         /\ DOMAIN BagRemove(bag, e) \subseteq DOMAIN bag
<1>1. DOMAIN BagRemove(bag, e) \subseteq DOMAIN bag
  BY DEF BagRemove
<1>2. IsFiniteSet(DOMAIN BagRemove(bag, e))
  BY <1>1, FS_Subset DEF IsBag
<1>3. \A d \in DOMAIN BagRemove(bag, e) : d \in S /\ BagRemove(bag, e)[d] \in Nat \ {0}
  BY DEF IsBag, BagRemove
<1> QED
  BY <1>1, <1>2, <1>3 DEF IsBag

LEMMA QueueOfTyped ==
  ASSUME NEW e \in SimEvent
  PROVE  QueueOf(e) \in Queue
BY DEF QueueOf, Queue

LEMMA PushKeeps ==
  ASSUME NEW side, NEW queues, SideOK(queues, side),
         NEW e \in SimEvent, e.side = side
  PROVE  SideOK(Push(queues, e), side)
<1> DEFINE new == Push(queues, e)
           q   == QueueOf(e)
<1>1. q \in Queue
  BY QueueOfTyped
<1>2. /\ queues = [r \in Queue |-> queues[r]]
      /\ \A r \in Queue : IsBag(queues[r], SimEvent)
  BY DEF SideOK
<1>3. /\ new = [r \in Queue |-> new[r]]
      /\ new[q] = BagAdd(queues[q], e)
      /\ \A r \in Queue \ {q} : new[r] = queues[r]
  BY <1>1, <1>2 DEF Push
<1> HIDE DEF new
<1>4. /\ IsBag(new[q], SimEvent)
      /\ DOMAIN new[q] = DOMAIN queues[q] \cup {e}
  <2>1. IsBag(queues[q], SimEvent)
    BY <1>1, <1>2
  <2>2. IsBag(BagAdd(queues[q], e), SimEvent)
        /\ DOMAIN BagAdd(queues[q], e) = DOMAIN queues[q] \cup {e}
    BY <2>1, BagAddTyped
  <2> QED
    BY <1>3, <2>2
<1>5. \A r \in Queue : /\ IsBag(new[r], SimEvent)
                       /\ \A f \in DOMAIN new[r] :
                            (f = e /\ r = q) \/ f \in DOMAIN queues[r]
  BY <1>2, <1>3, <1>4
<1>6. ASSUME NEW r \in Queue, NEW f \in DOMAIN new[r]
      PROVE  f.side = side /\ QueueOf(f) = r
  <2>1. CASE f = e /\ r = q
    BY <2>1
  <2>2. CASE f \in DOMAIN queues[r]
    BY <2>2 DEF SideOK
  <2> QED
    BY <1>5, <2>1, <2>2
<1>7. \A r \in Queue : IsBag(new[r], SimEvent)
  BY <1>5
<1> QED
  BY <1>3, <1>6, <1>7 DEF SideOK, new

LEMMA PopKeeps ==
  ASSUME NEW side, NEW queues, SideOK(queues, side), NEW q \in Queue, NEW e
  PROVE  SideOK(Pop(queues, q, e), side)
<1> DEFINE new == Pop(queues, q, e)
<1>1. /\ queues = [r \in Queue |-> queues[r]]
      /\ \A r \in Queue : IsBag(queues[r], SimEvent)
  BY DEF SideOK
<1>2. /\ new = [r \in Queue |-> new[r]]
      /\ new[q] = BagRemove(queues[q], e)
      /\ \A r \in Queue \ {q} : new[r] = queues[r]
  BY <1>1 DEF Pop
<1>3. /\ IsBag(new[q], SimEvent)
      /\ DOMAIN new[q] \subseteq DOMAIN queues[q]
  BY <1>1, <1>2, BagRemoveTyped
<1> HIDE DEF new
<1>4. \A r \in Queue : /\ IsBag(new[r], SimEvent)
                       /\ DOMAIN new[r] \subseteq DOMAIN queues[r]
  BY <1>1, <1>2, <1>3
<1>5. ASSUME NEW r \in Queue, NEW f \in DOMAIN new[r]
      PROVE  f.side = side /\ QueueOf(f) = r
  BY <1>4 DEF SideOK
<1>6. \A r \in Queue : IsBag(new[r], SimEvent)
  BY <1>4
<1> QED
  BY <1>2, <1>5, <1>6 DEF SideOK, new

(* One side changes: what PickNext and the network do to the queues. *)
LEMMA SideChanges ==
  ASSUME NEW sides, SidesOK(sides), NEW side \in Side,
         NEW queues, SideOK(queues, side)
  PROVE  SidesOK([sides EXCEPT ![side] = queues])
BY DEF SidesOK

-----------------------------------------------------------------------------
(***************************************************************************)
(* The first event of a side.                                              *)
(***************************************************************************)

(* The events that a heap of a side may yield. *)
LEMMA TopTyped ==
  ASSUME NEW side, NEW queues, SideOK(queues, side), NEW q \in Filled(queues)
  PROVE  /\ q \in Queue
         /\ Top(queues[q]) \in Tops(queues[q])
         /\ \A e \in Tops(queues[q]) :
              /\ e \in SimEvent /\ e \in DOMAIN queues[q]
              /\ e.side = side /\ QueueOf(e) = q
              /\ e.time = Top(queues[q]).time
<1>1. q \in Queue /\ ~Empty(queues[q]) /\ DOMAIN queues[q] \subseteq SimEvent
  BY DEF Filled, SideOK, IsBag
<1> QED
  BY <1>1, TopFirst DEF SideOK

LEMMA ShiftedTyped ==
  ASSUME NEW e \in SimEvent, NEW q, NEW delay \in Nat
  PROVE  /\ Shifted(e, q, delay) \in SimEvent
         /\ Shifted(e, q, delay).event = e.event
         /\ Shifted(e, q, delay).side = e.side
         /\ Shifted(e, q, delay).bypass = e.bypass
         /\ Shifted(e, q, delay).contains_padding = e.contains_padding
         /\ Shifted(e, q, delay).time = IF q = "base" THEN e.time + delay ELSE e.time
BY DEF Shifted, SimEvent

(* All of the events a heap may yield are due at the same time. *)
LEMMA DueTyped ==
  ASSUME NEW side, NEW queues, SideOK(queues, side), NEW q \in Filled(queues),
         NEW delay \in Nat
  PROVE  /\ Due(queues, q, delay) \in Nat
         /\ Top(queues[q]).time \in Nat
         /\ q # "base" => Due(queues, q, delay) = Top(queues[q]).time
         /\ \A e \in Tops(queues[q]) : Shifted(e, q, delay).time = Due(queues, q, delay)
<1>1. \A e \in Tops(queues[q]) : e \in SimEvent /\ e.time = Top(queues[q]).time
  BY TopTyped
<1>2. Top(queues[q]) \in Tops(queues[q])
  BY TopTyped
<1>3. \A e \in Tops(queues[q]) :
        Shifted(e, q, delay).time = IF q = "base" THEN e.time + delay ELSE e.time
  BY <1>1, ShiftedTyped
<1>4. Top(queues[q]).time \in Nat
  BY <1>1, <1>2, RankTyped
<1> QED
  BY <1>1, <1>2, <1>3, <1>4 DEF Due

(* The order of queues by their first events, as a number. *)
Order(queues, q, delay) ==
  4 * Key(Shifted(Top(queues[q]), q, delay)) + Preference[q]

LEMMA PrecedesByOrder ==
  ASSUME NEW side, NEW queues, SideOK(queues, side), NEW delay \in Nat,
         NEW q \in Filled(queues), NEW r \in Filled(queues)
  PROVE  /\ Order(queues, q, delay) \in Nat
         /\ Precedes(queues, q, r, delay)
            <=> Order(queues, q, delay) < Order(queues, r, delay)
<1> DEFINE e == Shifted(Top(queues[q]), q, delay)
           f == Shifted(Top(queues[r]), r, delay)
<1>1. e \in SimEvent /\ f \in SimEvent
  BY TopTyped, ShiftedTyped
<1>2. Preference[q] \in 0 .. 3 /\ Preference[r] \in 0 .. 3
  BY TopTyped DEF Preference, Queue
<1>3. /\ Key(e) \in Nat /\ Key(f) \in Nat
      /\ Earlier(e, f) <=> Key(e) < Key(f)
      /\ Earlier(f, e) <=> Key(f) < Key(e)
  BY <1>1, RankTyped, EarlierByKey
<1>4. Precedes(queues, q, r, delay)
      <=> (Key(e) < Key(f)) \/ (~(Key(f) < Key(e)) /\ Preference[q] < Preference[r])
  BY <1>3 DEF Precedes
<1>5. /\ Order(queues, q, delay) = 4 * Key(e) + Preference[q]
      /\ Order(queues, r, delay) = 4 * Key(f) + Preference[r]
  BY DEF Order
<1> HIDE DEF e, f
<1>6. \A a, b \in Nat, m, n \in 0 .. 3 :
        (4 * a + m < 4 * b + n) <=> (a < b \/ (~(b < a) /\ m < n))
  OBVIOUS
<1>7. Order(queues, q, delay) < Order(queues, r, delay)
      <=> (Key(e) < Key(f)) \/ (~(Key(f) < Key(e)) /\ Preference[q] < Preference[r])
  BY <1>2, <1>3, <1>5, <1>6
<1> QED
  BY <1>2, <1>3, <1>4, <1>5, <1>7

(* FirstQueue finds a queue if there is an event, and the first one. *)
LEMMA FirstQueueFilled ==
  ASSUME NEW side, NEW queues, SideOK(queues, side), NEW delay \in Nat,
         Filled(queues) # {}
  PROVE  /\ FirstQueue(queues, delay) \in Filled(queues)
         /\ \A r \in Filled(queues) \ {FirstQueue(queues, delay)} :
              Precedes(queues, FirstQueue(queues, delay), r, delay)
<1> DEFINE orders == {Order(queues, q, delay) : q \in Filled(queues)}
<1>1. orders \subseteq Nat /\ orders # {}
  BY PrecedesByOrder
<1>2. \E k \in orders : \A l \in orders : k <= l
  <2> HIDE DEF orders
  <2> QED
    BY <1>1, NaturalsHaveLeast
<1>3. PICK q \in Filled(queues) :
        \A r \in Filled(queues) : Order(queues, q, delay) <= Order(queues, r, delay)
  BY <1>2
<1>4. ASSUME NEW r \in Filled(queues) \ {q}
      PROVE  Precedes(queues, q, r, delay)
  <2>1. \/ Precedes(queues, q, r, delay) \/ Precedes(queues, r, q, delay)
    <3>1. q \in Queue /\ r \in Queue /\ Preference[q] # Preference[r]
          /\ Preference[q] \in 0 .. 3 /\ Preference[r] \in 0 .. 3
      BY TopTyped DEF Preference, Queue
    <3> QED
      BY <3>1 DEF Precedes
  <2>2. Order(queues, q, delay) \in Nat /\ Order(queues, r, delay) \in Nat
    BY PrecedesByOrder
  <2> QED
    BY <1>3, <2>1, <2>2, PrecedesByOrder
<1> QED
  BY <1>4 DEF FirstQueue

LEMMA SidePeekSound ==
  ASSUME NEW side, NEW queues, SideOK(queues, side), ~NoEvents(queues),
         NEW delay \in Nat, NEW now \in Nat
  PROVE  LET p == SidePeek(queues, delay, now, side) IN
         /\ p.side = side /\ p.queue \in Filled(queues)
         /\ p.duration = Since(Due(queues, p.queue, delay), now)
<1>1. FirstQueue(queues, delay) \in Filled(queues)
  BY FirstQueueFilled DEF NoEvents
<1> QED
  BY <1>1 DEF SidePeek, Pick

(* SimQueue::peek finds an event of either side if there is one. *)
LEMMA PeekAllSound ==
  ASSUME NEW sides, SidesOK(sides), \E side \in Side : ~NoEvents(sides[side]),
         NEW delay \in [Side -> Nat], NEW now \in Nat
  PROVE  LET p == PeekAll(sides, delay, now) IN
         /\ p.side \in Side /\ p.queue \in Filled(sides[p.side])
         /\ p.duration = Since(Due(sides[p.side], p.queue, delay[p.side]), now)
<1> DEFINE c == SidePeek(sides["client"], delay["client"], now, "client")
           s == SidePeek(sides["server"], delay["server"], now, "server")
           p == PeekAll(sides, delay, now)
           Sound(x, side) ==
             /\ x.side = side /\ x.queue \in Filled(sides[side])
             /\ x.duration = Since(Due(sides[side], x.queue, delay[side]), now)
<1>1. /\ ~NoEvents(sides["client"]) => Sound(c, "client")
      /\ ~NoEvents(sides["server"]) => Sound(s, "server")
  BY SidePeekSound DEF SidesOK, Side
<1>2. ~NoEvents(sides["client"]) \/ ~NoEvents(sides["server"])
  BY DEF Side
<1>3. \/ p = c /\ (NoEvents(sides["server"]) \/ ~NoEvents(sides["client"]))
      \/ p = s /\ ~NoEvents(sides["server"])
  BY DEF PeekAll
<1> HIDE DEF c, s
<1>4. \/ p = c /\ Sound(c, "client")
      \/ p = s /\ Sound(s, "server")
  BY <1>1, <1>2, <1>3
<1> HIDE DEF p
<1>5. \E side \in Side : Sound(p, side)
  BY <1>4 DEF Side
<1>6. /\ p.side \in Side /\ p.queue \in Filled(sides[p.side])
      /\ p.duration = Since(Due(sides[p.side], p.queue, delay[p.side]), now)
  BY <1>5
<1> QED
  BY <1>6 DEF p

-----------------------------------------------------------------------------
(***************************************************************************)
(* What may leave its queue.                                               *)
(***************************************************************************)

(* p does not pass a block of its side: it is no packet for the tunnel, the
   block lets it pass, or it is due when the block has ended.              *)
Passes(until, bypassable, now, p) ==
  \/ p.queue \in {"base", "internal"}
  \/ until[p.side] = None
  \/ p.queue = "bypassable" /\ bypassable[p.side]
  \/ Since(until[p.side], now) <= p.duration

(* What is picked, unless it is nothing, is an event that is due and may go. *)
Sound(sides, until, bypassable, delay, now, p) ==
  /\ p.side \in Side /\ p.queue \in Queue /\ p.duration \in 0 .. DURATION_MAX
  /\ p.duration < DURATION_MAX =>
       /\ p.queue \in Filled(sides[p.side])
       /\ Due(sides[p.side], p.queue, delay[p.side]) <= now + p.duration
       /\ Passes(until, bypassable, now, p)

(* What peek_non_blocking finds, and that it is not held by the block. *)
LEMMA FirstNonBlockingPasses ==
  ASSUME NEW queues, NEW bypassable \in BOOLEAN, NEW delay
  PROVE  LET q == FirstNonBlocking(queues, bypassable, delay) IN
         /\ q \in {"base", "internal"} \/ (q = "bypassable" /\ bypassable)
         /\ \E r \in {"base", "internal"} :
              /\ IsFirstUnblockable(queues, r, delay)
              /\ q = IF bypassable THEN Sooner(queues, r, "bypassable") ELSE r
<1>1. PICK r \in {"base", "internal"} : IsFirstUnblockable(queues, r, delay)
  BY DEF IsFirstUnblockable
<1>2. \A x \in {"base", "internal"} : IsFirstUnblockable(queues, x, delay) => x = r
  BY <1>1 DEF IsFirstUnblockable
<1> DEFINE q == IF bypassable THEN Sooner(queues, r, "bypassable") ELSE r
<1>3. q \in Queue /\ (q \in {"base", "internal"} \/ (q = "bypassable" /\ bypassable))
  BY DEF Sooner, Queue
<1>4. FirstNonBlocking(queues, bypassable, delay) = q
  BY <1>1, <1>2, <1>3 DEF FirstNonBlocking
<1> QED
  BY <1>1, <1>3, <1>4

LEMMA EarliestOfSideSound ==
  ASSUME NEW sides, SidesOK(sides), NEW side \in Side,
         NEW until \in [Side -> Nat \cup {None}],
         NEW bypassable \in [Side -> BOOLEAN],
         NEW delay \in [Side -> Nat], NEW now \in Nat
  PROVE  Sound(sides, until, bypassable, delay, now,
               EarliestOfSide(sides[side], until[side], bypassable[side],
                              delay[side], now, side))
<1> DEFINE queues == sides[side]
           held == FirstBlocking(queues, bypassable[side])
           free == FirstNonBlocking(queues, bypassable[side], delay[side])
           ends == IF until[side] = None THEN now ELSE until[side]
           held_time == Later(Top(queues[held]).time, ends)
           free_time == Due(queues, free, delay[side])
           p == EarliestOfSide(queues, until[side], bypassable[side],
                               delay[side], now, side)
<1> SUFFICES Sound(sides, until, bypassable, delay, now, p)
  OBVIOUS
<1>1. SideOK(queues, side) /\ delay[side] \in Nat /\ bypassable[side] \in BOOLEAN
      /\ until[side] \in Nat \cup {None}
  BY DEF SidesOK
<1>2. held \in {"blocking", "bypassable"}
  BY DEF FirstBlocking, Sooner
<1>3. free \in {"base", "internal"} \/ (free = "bypassable" /\ bypassable[side])
  BY <1>1, FirstNonBlockingPasses
<1>4. held \in Queue /\ free \in Queue
  BY <1>2, <1>3 DEF Queue
<1>5. \/ p = Pick(DURATION_MAX, "blocking", side)
      \/ p = Pick(Since(held_time, now), held, side) /\ ~Empty(queues[held])
      \/ p = Pick(Since(free_time, now), free, side) /\ ~Empty(queues[free])
  BY DEF EarliestOfSide
<1> HIDE DEF p, held, free
<1>6. CASE p = Pick(DURATION_MAX, "blocking", side)
  BY <1>6, SimQueueAssumption DEF Pick, Sound, Queue
<1>7. CASE p = Pick(Since(held_time, now), held, side) /\ ~Empty(queues[held])
  <2>1. held \in Filled(queues)
    BY <1>4, <1>7 DEF Filled
  <2>2. ends \in Nat /\ (until[side] # None => ends = until[side])
    BY <1>1
  <2>3. Top(queues[held]).time \in Nat
        /\ Due(queues, held, delay[side]) = Top(queues[held]).time
    BY <1>1, <1>2, <2>1, DueTyped
  <2> HIDE DEF ends
  <2>4. /\ held_time \in Nat /\ Due(queues, held, delay[side]) <= held_time
        /\ ends <= held_time
    BY <2>2, <2>3 DEF Later
  <2>5. /\ p.side = side /\ p.queue = held
        /\ p.duration = Since(held_time, now)
    BY <1>7 DEF Pick
  <2> HIDE DEF held_time
  <2>6. p.duration \in 0 .. DURATION_MAX
    BY <2>4, <2>5, SinceExact
  <2>7. p.duration < DURATION_MAX => held_time <= now + p.duration
    BY <2>4, <2>5, SinceReaches
  <2>8. Since(ends, now) <= p.duration
    BY <2>2, <2>4, <2>5, SinceMonotone
  <2>9. p.duration < DURATION_MAX =>
          Due(queues, held, delay[side]) <= now + p.duration
    BY <2>3, <2>4, <2>6, <2>7
  <2> QED
    BY <1>4, <2>1, <2>2, <2>5, <2>6, <2>8, <2>9 DEF Sound, Passes
<1>8. CASE p = Pick(Since(free_time, now), free, side) /\ ~Empty(queues[free])
  <2>1. free \in Filled(queues)
    BY <1>4, <1>8 DEF Filled
  <2>2. free_time \in Nat
    BY <1>1, <2>1, DueTyped
  <2>3. /\ p.side = side /\ p.queue = free
        /\ p.duration = Since(free_time, now)
    BY <1>8 DEF Pick
  <2>4. p.duration \in 0 .. DURATION_MAX
        /\ (p.duration < DURATION_MAX => free_time <= now + p.duration)
    BY <2>2, <2>3, SinceExact, SinceReaches
  <2> QED
    BY <1>3, <1>4, <2>1, <2>3, <2>4 DEF Sound, Passes
<1> QED
  BY <1>5, <1>6, <1>7, <1>8

(* peek_queue finds nothing, or an event that is due and may go. *)
LEMMA PeekQueueSound ==
  ASSUME NEW sides, SidesOK(sides),
         NEW until \in [Side -> Nat \cup {None}],
         NEW bypassable \in [Side -> BOOLEAN],
         NEW delay \in [Side -> Nat], NEW earliest, NEW now \in Nat
  PROVE  Sound(sides, until, bypassable, delay, now,
               PeekQueue(sides, until, bypassable, delay, earliest, now))
<1> DEFINE p == PeekQueue(sides, until, bypassable, delay, earliest, now)
           first == PeekAll(sides, delay, now)
           of(side) == EarliestOfSide(sides[side], until[side], bypassable[side],
                                      delay[side], now, side)
<1>1. \/ p = NoPick
      \/ /\ p = first /\ Unblocked(sides, until, bypassable, first)
         /\ \E side \in Side : ~NoEvents(sides[side])
      \/ \E side \in Side : p = of(side)
  BY DEF PeekQueue, Side
<1>2. CASE p = NoPick
  BY <1>2, SimQueueAssumption DEF NoPick, Pick, Sound, Queue, Side
<1>3. CASE \E side \in Side : p = of(side)
  BY <1>3, EarliestOfSideSound
<1>4. CASE /\ p = first /\ Unblocked(sides, until, bypassable, first)
           /\ \E side \in Side : ~NoEvents(sides[side])
  <2> DEFINE top == Top(sides[p.side][p.queue])
  <2>1. /\ p.side \in Side /\ p.queue \in Filled(sides[p.side])
        /\ p.duration = Since(Due(sides[p.side], p.queue, delay[p.side]), now)
    BY <1>4, PeekAllSound
  <2>2. Unblocked(sides, until, bypassable, p)
    BY <1>4
  <2> HIDE DEF p, first
  <2>3. SideOK(sides[p.side], p.side) /\ delay[p.side] \in Nat
    BY <2>1 DEF SidesOK
  <2>4. p.queue \in Queue /\ QueueOf(top) = p.queue
    BY <2>1, <2>3, TopTyped
  <2>5. Due(sides[p.side], p.queue, delay[p.side]) \in Nat
    BY <2>1, <2>3, DueTyped
  <2>6. /\ p.duration \in 0 .. DURATION_MAX
        /\ p.duration < DURATION_MAX =>
             Due(sides[p.side], p.queue, delay[p.side]) <= now + p.duration
    BY <2>1, <2>5, SinceExact, SinceReaches
  <2>7. \/ p.queue \in {"base", "internal"}
        \/ until[p.side] = None
        \/ p.queue = "bypassable" /\ bypassable[p.side]
    BY <2>2, <2>4 DEF Unblocked, QueueOf
  <2> QED
    BY <2>1, <2>4, <2>6, <2>7 DEF Sound, Passes, p
<1> QED
  BY <1>1, <1>2, <1>3, <1>4

-----------------------------------------------------------------------------
(***************************************************************************)
(* What is scheduled, expires or is pending.                               *)
(***************************************************************************)

(* Nothing that is ahead happens before what is peeked, which exists. *)
LEMMA PeekTimesSound ==
  ASSUME NEW times, times \subseteq Nat, NEW now \in Nat
  PROVE  LET d == PeekTimes(times, now) IN
         /\ d \in 0 .. DURATION_MAX
         /\ \A t \in times : t >= now => t >= now + d
         /\ d < DURATION_MAX => now + d \in times
<1> DEFINE ahead == {t \in times : t >= now}
<1>1. CASE ahead = {}
  BY <1>1, SimQueueAssumption DEF PeekTimes
<1>2. CASE ahead # {}
  <2>1. /\ Least(ahead) \in ahead
        /\ \A t \in ahead : Least(ahead) <= t
    BY <1>2, LeastExists
  <2>2. PeekTimes(times, now) = Since(Least(ahead), now)
    BY <1>2 DEF PeekTimes
  <2>3. Least(ahead) \in times /\ Least(ahead) \in Nat /\ Least(ahead) >= now
    BY <2>1
  <2>4. /\ PeekTimes(times, now) \in 0 .. DURATION_MAX
        /\ Least(ahead) >= now + PeekTimes(times, now)
        /\ PeekTimes(times, now) < DURATION_MAX =>
             now + PeekTimes(times, now) = Least(ahead)
    <3> DEFINE m == Least(ahead)
    <3>1. m \in Nat /\ m >= now
      BY <2>3
    <3> HIDE DEF m
    <3>2. /\ Since(m, now) \in 0 .. DURATION_MAX
          /\ m >= now + Since(m, now)
          /\ Since(m, now) < DURATION_MAX => now + Since(m, now) = m
      BY <3>1, SimQueueAssumption DEF Since
    <3> QED
      BY <2>2, <3>2 DEF m
  <2>5. \A t \in times : t >= now => t >= Least(ahead)
    BY <2>1
  <2> QED
    BY <2>3, <2>4, <2>5
<1> QED
  BY <1>1, <1>2

(* The expiry peeked is that of a block, and no block expires before it. *)
LEMMA PeekBlockedExpSound ==
  ASSUME NEW until \in [Side -> Nat \cup {None}], NEW now \in Nat
  PROVE  LET p == PeekBlockedExp(until, now) IN
         /\ p.side \in Side /\ p.duration \in 0 .. DURATION_MAX
         /\ p.duration < DURATION_MAX =>
              /\ until[p.side] \in Nat
              /\ until[p.side] >= now => now + p.duration = until[p.side]
         /\ \A side \in Side : until[side] # None =>
              /\ p.duration <= Since(until[side], now)
              /\ until[side] >= now => until[side] >= now + p.duration
<1> DEFINE p == PeekBlockedExp(until, now)
<1>1. /\ p.side \in Side
      /\ p.duration = IF until[p.side] = None THEN DURATION_MAX
                      ELSE Since(until[p.side], now)
      /\ \A side \in Side : until[side] # None =>
           /\ until[p.side] # None /\ until[p.side] <= until[side]
  <2>1. /\ until["client"] \in Nat \cup {None}
        /\ until["server"] \in Nat \cup {None}
        /\ until.client = until["client"] /\ until.server = until["server"]
    BY DEF Side
  <2> DEFINE first == CASE until.server = None -> "client"
                        [] until.client = None -> "server"
                        [] OTHER -> IF until.client < until.server THEN "client"
                                    ELSE "server"
  <2>2. /\ p.side = first
        /\ p.duration = IF until[first] = None THEN DURATION_MAX
                        ELSE Since(until[first], now)
    BY DEF PeekBlockedExp
  <2>3. /\ first \in Side
        /\ \A side \in Side : until[side] # None =>
             /\ until[first] # None /\ until[first] <= until[side]
    BY <2>1 DEF Side, None
  <2> QED
    BY <2>2, <2>3
<1> HIDE DEF p
<1>2. until[p.side] # None => until[p.side] \in Nat
  BY <1>1
<1>3. /\ p.duration \in 0 .. DURATION_MAX
      /\ p.duration < DURATION_MAX =>
           /\ until[p.side] \in Nat
           /\ until[p.side] >= now => now + p.duration = until[p.side]
  <2>1. CASE until[p.side] = None
    BY <1>1, <2>1, SimQueueAssumption
  <2>2. CASE until[p.side] # None
    <3>1. until[p.side] \in Nat /\ p.duration = Since(until[p.side], now)
      BY <1>1, <1>2, <2>2
    <3>2. p.duration \in 0 .. DURATION_MAX
      BY <3>1, SinceExact
    <3>3. ASSUME p.duration < DURATION_MAX, until[p.side] >= now
          PROVE  now + p.duration = until[p.side]
      BY <3>1, <3>3, SimQueueAssumption DEF Since
    <3> QED
      BY <3>1, <3>2, <3>3
  <2> QED
    BY <2>1, <2>2
<1>4. ASSUME NEW side \in Side, until[side] # None
      PROVE  /\ p.duration <= Since(until[side], now)
             /\ until[side] >= now => until[side] >= now + p.duration
  <2>1. until[side] \in Nat
    BY <1>4
  <2>2. p.duration <= Since(until[side], now)
    BY <1>1, <1>2, <1>4, <2>1, SinceMonotone
  <2>3. until[side] >= now => until[side] >= now + Since(until[side], now)
    BY <2>1, SinceExact
  <2>4. Since(until[side], now) \in 0 .. DURATION_MAX
    BY <2>1, SinceExact
  <2> QED
    BY <1>3, <2>1, <2>2, <2>3, <2>4
<1> QED
  BY <1>1, <1>3, <1>4 DEF p

(* No pending delay takes effect before what peek_aggregate_delay finds. *)
LEMMA PeekAggregateDelaySound ==
  ASSUME NEW pending, IsBag(pending, PendingAggregateDelay), NEW now \in Nat
  PROVE  LET d == PeekAggregateDelay(pending, now, DURATION_MAX) IN
         /\ d \in 0 .. DURATION_MAX
         /\ \A e \in DOMAIN pending : e.time >= now => e.time >= now + d
         /\ d < DURATION_MAX => \E e \in DOMAIN pending : e.time <= now + d
<1>1. \A e \in DOMAIN pending : e.time \in Nat
  BY DEF IsBag, PendingAggregateDelay
<1>2. CASE Empty(pending)
  BY <1>2, SimQueueAssumption DEF PeekAggregateDelay, Empty
<1>3. CASE ~Empty(pending)
  <2> DEFINE times == {e.time : e \in DOMAIN pending}
             first == CHOOSE e \in FirstPending(pending) : TRUE
             d == PeekAggregateDelay(pending, now, DURATION_MAX)
  <2>1. times \subseteq Nat /\ times # {}
    BY <1>1, <1>3 DEF Empty
  <2>2. \E t \in times : \A u \in times : t <= u
    <3> HIDE DEF times
    <3> QED
      BY <2>1, NaturalsHaveLeast
  <2>3. FirstPending(pending) # {}
    BY <2>2 DEF FirstPending
  <2>4. first \in FirstPending(pending)
    BY <2>3
  <2>5. d = Since(first.time, now)
    BY <1>3 DEF PeekAggregateDelay
  <2> HIDE DEF first, d
  <2>6. first.time \in Nat /\ \A e \in DOMAIN pending : first.time <= e.time
    BY <1>1, <2>4 DEF FirstPending
  <2>7. d \in 0 .. DURATION_MAX
    BY <2>5, <2>6, SinceExact
  <2>8. ASSUME NEW e \in DOMAIN pending, e.time >= now
        PROVE  e.time >= now + d
    <3>1. d <= Since(e.time, now)
      BY <1>1, <2>5, <2>6, SinceMonotone
    <3>2. e.time \in Nat /\ e.time >= now + Since(e.time, now)
          /\ Since(e.time, now) \in 0 .. DURATION_MAX
      BY <1>1, <2>8, SinceExact
    <3> QED
      BY <2>7, <3>1, <3>2
  <2>9. first \in DOMAIN pending /\ (d < DURATION_MAX => first.time <= now + d)
    BY <2>4, <2>5, <2>6, SinceReaches DEF FirstPending
  <2> QED
    BY <2>7, <2>8, <2>9 DEF d
<1> QED
  BY <1>2, <1>3

-----------------------------------------------------------------------------
(***************************************************************************)
(* Nothing that may leave its queue is passed over.                        *)
(***************************************************************************)

(* No event of a heap is before its first ones. *)
LEMMA TopLeast ==
  ASSUME NEW heap, DOMAIN heap \subseteq SimEvent, NEW e \in DOMAIN heap
  PROVE  ~Empty(heap) /\ Top(heap).time <= e.time
<1>1. ~Empty(heap)
  BY DEF Empty
<1>2. Top(heap) \in DOMAIN heap /\ ~Earlier(e, Top(heap))
  BY <1>1, TopFirst DEF Tops
<1>3. Top(heap).time \in Nat /\ e.time \in Nat
  BY <1>2, RankTyped
<1> QED
  BY <1>1, <1>2, <1>3 DEF Earlier

(* The queue that precedes is due first. *)
LEMMA PrecedesIsDue ==
  ASSUME NEW side, NEW queues, SideOK(queues, side), NEW delay \in Nat,
         NEW q \in Filled(queues), NEW r \in Filled(queues),
         Precedes(queues, q, r, delay) \/ ~Precedes(queues, r, q, delay)
  PROVE  Due(queues, q, delay) <= Due(queues, r, delay)
<1> DEFINE e == Shifted(Top(queues[q]), q, delay)
           f == Shifted(Top(queues[r]), r, delay)
<1>1. e \in SimEvent /\ f \in SimEvent
  BY TopTyped, ShiftedTyped
<1>2. e.time \in Nat /\ f.time \in Nat
  BY <1>1, RankTyped
<1>3. f.time < e.time => Earlier(f, e) /\ ~Earlier(e, f)
  BY <1>2 DEF Earlier
<1>4. Due(queues, q, delay) = e.time /\ Due(queues, r, delay) = f.time
  BY DEF Due
<1>5. /\ Precedes(queues, q, r, delay) => Earlier(e, f) \/ ~Earlier(f, e)
      /\ ~Precedes(queues, r, q, delay) => ~Earlier(f, e)
  BY DEF Precedes
<1> HIDE DEF e, f
<1> QED
  BY <1>2, <1>3, <1>4, <1>5

(* FirstQueue finds the queue that is due first. *)
LEMMA FirstQueueLeast ==
  ASSUME NEW side, NEW queues, SideOK(queues, side), NEW delay \in Nat,
         NEW q \in Filled(queues)
  PROVE  /\ FirstQueue(queues, delay) \in Filled(queues)
         /\ Due(queues, FirstQueue(queues, delay), delay) <= Due(queues, q, delay)
<1> DEFINE first == FirstQueue(queues, delay)
<1>1. first \in Filled(queues) /\ \A r \in Filled(queues) \ {first} :
                                    Precedes(queues, first, r, delay)
  BY FirstQueueFilled
<1>2. CASE q = first
  BY <1>1, <1>2, DueTyped
<1>3. CASE q # first
  BY <1>1, <1>3, PrecedesIsDue
<1> QED
  BY <1>1, <1>2, <1>3

(* Of two queues the sooner is not due later, in the time of the trace. *)
LEMMA SoonerLeast ==
  ASSUME NEW side, NEW queues, SideOK(queues, side), NEW q \in Queue, NEW r \in Queue
  PROVE  LET s == Sooner(queues, q, r) IN
         /\ s \in {q, r}
         /\ \A x \in {q, r} : ~Empty(queues[x]) =>
              ~Empty(queues[s]) /\ Top(queues[s]).time <= Top(queues[x]).time
<1>1. \A x \in Queue : ~Empty(queues[x]) => x \in Filled(queues)
  BY DEF Filled
<1>2. \A x \in Queue : ~Empty(queues[x]) => Top(queues[x]).time \in Nat
  <2>1. 0 \in Nat
    OBVIOUS
  <2> QED
    BY <1>1, <2>1, DueTyped
<1>3. CASE Beats(queues[r], queues[q])
  <2>1. Sooner(queues, q, r) = r
    BY <1>3 DEF Sooner
  <2>2. ~Empty(queues[r])
    BY <1>3 DEF Beats
  <2>3. ~Empty(queues[q]) => Top(queues[r]).time <= Top(queues[q]).time
    <3>1. SUFFICES ASSUME ~Empty(queues[q])
                   PROVE  Top(queues[r]).time <= Top(queues[q]).time
      OBVIOUS
    <3>2. Earlier(Top(queues[r]), Top(queues[q]))
      BY <1>3, <3>1 DEF Beats
    <3>3. Top(queues[r]).time \in Nat /\ Top(queues[q]).time \in Nat
      BY <1>2, <2>2, <3>1
    <3>4. \/ Top(queues[r]).time < Top(queues[q]).time
          \/ Top(queues[r]).time = Top(queues[q]).time
      BY <3>2 DEF Earlier
    <3> QED
      BY <3>3, <3>4
  <2>4. Top(queues[r]).time <= Top(queues[r]).time
    BY <1>2, <2>2
  <2> QED
    BY <2>1, <2>2, <2>3, <2>4
<1>4. CASE ~Beats(queues[r], queues[q])
  <2>1. Sooner(queues, q, r) = q
    BY <1>4 DEF Sooner
  <2>2. ~Empty(queues[q]) => Top(queues[q]).time <= Top(queues[q]).time
    BY <1>2
  <2>3. ~Empty(queues[r]) =>
          ~Empty(queues[q]) /\ Top(queues[q]).time <= Top(queues[r]).time
    <3>1. SUFFICES ASSUME ~Empty(queues[r])
                   PROVE  ~Empty(queues[q]) /\ Top(queues[q]).time <= Top(queues[r]).time
      OBVIOUS
    <3>2. ~Empty(queues[q]) /\ ~Earlier(Top(queues[r]), Top(queues[q]))
      BY <1>4, <3>1 DEF Beats
    <3>3. Top(queues[r]).time \in Nat /\ Top(queues[q]).time \in Nat
      BY <1>2, <3>1, <3>2
    <3>4. ~(Top(queues[r]).time < Top(queues[q]).time)
      BY <3>2 DEF Earlier
    <3> QED
      BY <3>2, <3>3, <3>4
  <2> QED
    BY <2>1, <2>2, <2>3
<1> QED
  BY <1>3, <1>4

(* The queue that peek_non_blocking finds of base and internal is due first. *)
LEMMA FirstUnblockableLeast ==
  ASSUME NEW side, NEW queues, SideOK(queues, side), NEW delay \in Nat,
         NEW r \in {"base", "internal"}, IsFirstUnblockable(queues, r, delay),
         NEW q \in {"base", "internal"}, q \in Filled(queues)
  PROVE  r \in Filled(queues) /\ Due(queues, r, delay) <= Due(queues, q, delay)
<1>1. q = r => Due(queues, r, delay) <= Due(queues, q, delay)
  BY DueTyped
<1>2. queues["base"] = queues.base /\ queues["internal"] = queues.internal
  OBVIOUS
<1>3. ASSUME q # r
      PROVE  /\ r \in Filled(queues)
             /\ Precedes(queues, r, q, delay) \/ ~Precedes(queues, q, r, delay)
  BY <1>2, <1>3 DEF IsFirstUnblockable, BaseFirst, Filled, Queue
<1> QED
  BY <1>1, <1>3, PrecedesIsDue

(***************************************************************************)
(* May the events of queue q leave it?  until and bypassable are those of  *)
(* their side.                                                             *)
(***************************************************************************)
Free(q, until, bypassable) ==
  q \in {"base", "internal"} \/ until = None \/ (q = "bypassable" /\ bypassable)

(* peek_non_blocking finds what is due first of what is not held, provided
   that the trace is not shifted: it takes the time of a base event from the
   trace when it compares it with a bypassable one.                        *)
LEMMA FirstNonBlockingLeast ==
  ASSUME NEW side, NEW queues, SideOK(queues, side), NEW delay \in Nat,
         NEW bypassable \in BOOLEAN, NEW q \in Filled(queues),
         q \in {"base", "internal"} \/ (q = "bypassable" /\ bypassable /\ delay = 0)
  PROVE  LET free == FirstNonBlocking(queues, bypassable, delay) IN
         free \in Filled(queues) /\ Due(queues, free, delay) <= Due(queues, q, delay)
<1> DEFINE free == FirstNonBlocking(queues, bypassable, delay)
<1> SUFFICES free \in Filled(queues) /\ Due(queues, free, delay) <= Due(queues, q, delay)
  OBVIOUS
<1>1. PICK r \in {"base", "internal"} :
        /\ IsFirstUnblockable(queues, r, delay)
        /\ free = IF bypassable THEN Sooner(queues, r, "bypassable") ELSE r
  BY FirstNonBlockingPasses
<1> HIDE DEF free
<1>2. r \in Queue /\ "bypassable" \in Queue
  BY DEF Queue
<1>3. \A x \in Queue : ~Empty(queues[x]) <=> x \in Filled(queues)
  BY DEF Filled
<1>4. ASSUME NEW x \in Filled(queues)
      PROVE  /\ x \in Queue /\ Top(queues[x]).time \in Nat /\ Due(queues, x, delay) \in Nat
             /\ Top(queues[x]).time <= Due(queues, x, delay)
             /\ x # "base" \/ delay = 0 => Due(queues, x, delay) = Top(queues[x]).time
  <2>1. /\ x \in Queue
        /\ Top(queues[x]) \in SimEvent /\ Top(queues[x]).time \in Nat
        /\ Due(queues, x, delay) \in Nat
    BY TopTyped, DueTyped
  <2>2. Due(queues, x, delay) = IF x = "base" THEN Top(queues[x]).time + delay
                                ELSE Top(queues[x]).time
    BY <2>1, ShiftedTyped DEF Due
  <2> QED
    BY <2>1, <2>2
<1>5. CASE ~bypassable
  BY <1>1, <1>5, FirstUnblockableLeast
<1>6. CASE bypassable /\ q \in {"base", "internal"}
  <2>1. r \in Filled(queues) /\ Due(queues, r, delay) <= Due(queues, q, delay)
    BY <1>1, <1>6, FirstUnblockableLeast
  <2>2. /\ free \in {r, "bypassable"} /\ free \in Filled(queues)
        /\ Top(queues[free]).time <= Top(queues[r]).time
    BY <1>1, <1>2, <1>3, <1>6, <2>1, SoonerLeast
  <2> QED
    BY <1>4, <2>1, <2>2
<1>7. CASE bypassable /\ q = "bypassable" /\ delay = 0
  <2>1. /\ free \in {r, "bypassable"} /\ free \in Filled(queues)
        /\ Top(queues[free]).time <= Top(queues[q]).time
    BY <1>1, <1>2, <1>3, <1>7, SoonerLeast
  <2> QED
    BY <1>4, <1>7, <2>1
<1> QED
  BY <1>5, <1>6, <1>7

(* What peek_queue_earliest_side finds is due first of what may leave. *)
LEMMA EarliestOfSideLeast ==
  ASSUME NEW side, NEW queues, SideOK(queues, side), NEW delay \in Nat,
         NEW until \in Nat \cup {None}, NEW bypassable \in BOOLEAN, NEW now \in Nat,
         NEW q \in Filled(queues), Free(q, until, bypassable),
         q = "bypassable" => delay = 0
  PROVE  EarliestOfSide(queues, until, bypassable, delay, now, side).duration
           <= Since(Due(queues, q, delay), now)
<1> DEFINE held == FirstBlocking(queues, bypassable)
           free == FirstNonBlocking(queues, bypassable, delay)
           held_time == Later(Top(queues[held]).time, IF until = None THEN now ELSE until)
           free_time == Due(queues, free, delay)
           p == EarliestOfSide(queues, until, bypassable, delay, now, side)
<1>1. \A x \in Queue : ~Empty(queues[x]) <=> x \in Filled(queues)
  BY DEF Filled
<1>2. held \in Queue /\ free \in Queue /\ q \in Queue /\ held # "base"
  BY FirstNonBlockingPasses, TopTyped DEF Queue, FirstBlocking, Sooner
<1>3. /\ Due(queues, q, delay) \in Nat
      /\ ~Empty(queues[free]) => free_time \in Nat
      /\ ~Empty(queues[held]) => Top(queues[held]).time \in Nat /\ held_time \in Nat
  BY <1>1, <1>2, DueTyped DEF Later
<1>4. /\ ~Empty(queues[held]) \/ ~Empty(queues[free]) =>
           \/ p.duration = Since(held_time, now) /\ ~Empty(queues[held])
           \/ p.duration = Since(free_time, now) /\ ~Empty(queues[free])
      /\ ~Empty(queues[held]) /\ p.duration # Since(held_time, now) =>
           ~Empty(queues[free]) /\ ~(held_time < free_time)
      /\ ~Empty(queues[free]) /\ p.duration # Since(free_time, now) =>
           /\ ~Empty(queues[held])
           /\ held_time < free_time \/ held_time = free_time
  BY DEF EarliestOfSide, Pick
<1> HIDE DEF p, held, free, held_time, free_time
<1>5. /\ ~Empty(queues[held]) => p.duration <= Since(held_time, now)
      /\ ~Empty(queues[free]) => p.duration <= Since(free_time, now)
  <2>1. /\ ~Empty(queues[held]) => Since(held_time, now) \in Nat
        /\ ~Empty(queues[free]) => Since(free_time, now) \in Nat
    BY <1>3, SinceTyped
  <2>2. ASSUME ~Empty(queues[held]) PROVE p.duration <= Since(held_time, now)
    <3>1. CASE p.duration = Since(held_time, now)
      BY <2>1, <2>2, <3>1
    <3>2. CASE p.duration # Since(held_time, now)
      <4>1. free_time <= held_time /\ ~Empty(queues[free])
        BY <1>3, <1>4, <2>2, <3>2
      <4>2. p.duration = Since(free_time, now)
        BY <1>4, <2>2, <3>2
      <4> QED
        BY <1>3, <2>2, <4>1, <4>2, SinceMonotone
    <3> QED
      BY <3>1, <3>2
  <2>3. ASSUME ~Empty(queues[free]) PROVE p.duration <= Since(free_time, now)
    <3>1. CASE p.duration = Since(free_time, now)
      BY <2>1, <2>3, <3>1
    <3>2. CASE p.duration # Since(free_time, now)
      <4>1. held_time <= free_time /\ ~Empty(queues[held])
        BY <1>3, <1>4, <2>3, <3>2
      <4>2. p.duration = Since(held_time, now)
        BY <1>4, <2>3, <3>2
      <4> QED
        BY <1>3, <2>3, <4>1, <4>2, SinceMonotone
    <3> QED
      BY <3>1, <3>2
  <2> QED
    BY <2>2, <2>3
<1>6. ASSUME ~Empty(queues[held]) \/ ~Empty(queues[free])
      PROVE  p.duration \in Nat
  BY <1>3, <1>4, <1>6, SinceTyped
<1>7. CASE q \in {"base", "internal"} \/ (q = "bypassable" /\ bypassable)
  <2>1. free \in Filled(queues) /\ free_time <= Due(queues, q, delay)
    BY <1>7, FirstNonBlockingLeast DEF free, free_time
  <2>2. ~Empty(queues[free])
    BY <1>1, <1>2, <2>1
  <2>3. Since(free_time, now) <= Since(Due(queues, q, delay), now)
    BY <1>3, <2>1, <2>2, SinceMonotone
  <2>4. /\ Since(free_time, now) \in Nat
        /\ Since(Due(queues, q, delay), now) \in Nat
    BY <1>3, <2>2, SinceTyped
  <2> QED
    BY <1>5, <1>6, <2>2, <2>3, <2>4 DEF p
<1>8. CASE until = None /\ q \in {"blocking", "bypassable"} /\ ~(q = "bypassable" /\ bypassable)
  <2>1. ~Empty(queues[q]) /\ Top(queues[q]).time \in Nat
        /\ Due(queues, q, delay) = Top(queues[q]).time
    BY <1>1, <1>2, <1>8, DueTyped
  <2>2. ~Empty(queues[held]) /\ Top(queues[held]).time <= Top(queues[q]).time
    <3>1. CASE bypassable
      BY <1>8, <2>1, <3>1 DEF FirstBlocking, held
    <3>2. CASE ~bypassable
      <4>1. "blocking" \in Queue /\ "bypassable" \in Queue
        BY DEF Queue
      <4>2. held = Sooner(queues, "bypassable", "blocking")
        BY <3>2 DEF FirstBlocking, held
      <4> QED
        BY <1>8, <2>1, <4>1, <4>2, SoonerLeast
    <3> QED
      BY <3>1, <3>2
  <2>3. held_time = Later(Top(queues[held]).time, now)
    BY <1>8 DEF held_time, held
  <2>4. Since(held_time, now) = Since(Top(queues[held]).time, now)
    BY <1>3, <2>2, <2>3, SinceLate
  <2>5. Since(held_time, now) <= Since(Due(queues, q, delay), now)
    BY <1>3, <2>1, <2>2, <2>4, SinceMonotone
  <2>6. /\ Since(held_time, now) \in Nat
        /\ Since(Due(queues, q, delay), now) \in Nat
    BY <1>3, <2>2, SinceTyped
  <2> QED
    BY <1>5, <1>6, <2>2, <2>5, <2>6 DEF p
<1> QED
  BY <1>2, <1>7, <1>8 DEF Free, Queue

(* SimQueue::peek finds what is due first on either side. *)
LEMMA PeekAllLeast ==
  ASSUME NEW sides, SidesOK(sides), NEW delay \in [Side -> Nat], NEW now \in Nat,
         NEW side \in Side, NEW q \in Filled(sides[side])
  PROVE  /\ PeekAll(sides, delay, now).duration \in Nat
         /\ PeekAll(sides, delay, now).duration
              <= Since(Due(sides[side], q, delay[side]), now)
<1> DEFINE peek(x) == SidePeek(sides[x], delay[x], now, x)
           p == PeekAll(sides, delay, now)
<1>1. ASSUME NEW x \in Side, NEW r \in Filled(sides[x])
      PROVE  /\ peek(x).duration \in Nat
             /\ peek(x).duration <= Since(Due(sides[x], r, delay[x]), now)
  <2> DEFINE first == FirstQueue(sides[x], delay[x])
  <2>1. SideOK(sides[x], x) /\ delay[x] \in Nat
    BY DEF SidesOK
  <2>2. /\ first \in Filled(sides[x])
        /\ Due(sides[x], first, delay[x]) <= Due(sides[x], r, delay[x])
    BY <2>1, FirstQueueLeast
  <2>3. peek(x).duration = Since(Due(sides[x], first, delay[x]), now)
    BY DEF SidePeek, Pick
  <2> HIDE DEF first, peek
  <2>4. /\ Due(sides[x], first, delay[x]) \in Nat
        /\ Due(sides[x], r, delay[x]) \in Nat
    BY <2>1, <2>2, DueTyped
  <2> QED
    BY <2>2, <2>3, <2>4, SinceTyped, SinceMonotone
<1>2. \A x \in Side : ~NoEvents(sides[x]) => peek(x).duration \in Nat
  BY <1>1 DEF NoEvents
<1>3. p = IF \/ NoEvents(sides.server)
             \/ /\ ~NoEvents(sides.client)
                /\ \/ peek("client").duration < peek("server").duration
                   \/ /\ peek("client").duration = peek("server").duration
                      /\ LET c == peek("client")
                             s == peek("server")
                         IN event_to_usize[Top(sides[c.side][c.queue]).event]
                              <= event_to_usize[Top(sides[s.side][s.queue]).event]
          THEN peek("client") ELSE peek("server")
  BY DEF PeekAll
<1> HIDE DEF p, peek
<1>4. ~NoEvents(sides[side])
  BY DEF NoEvents
<1>5. /\ p.duration \in Nat
      /\ p.duration <= peek(side).duration
  <2>1. /\ ~NoEvents(sides["client"]) => peek("client").duration \in Nat
        /\ ~NoEvents(sides["server"]) => peek("server").duration \in Nat
        /\ side = "client" \/ side = "server"
    BY <1>2 DEF Side
  <2>2. CASE NoEvents(sides.server)
    BY <1>3, <1>4, <2>1, <2>2
  <2>3. CASE NoEvents(sides.client)
    BY <1>3, <1>4, <2>1, <2>3
  <2>4. CASE ~NoEvents(sides.server) /\ ~NoEvents(sides.client)
    <3> DEFINE c == peek("client").duration
               s == peek("server").duration
    <3>1. c \in Nat /\ s \in Nat
      BY <2>1, <2>4
    <3>2. \/ p = peek("client") /\ (c < s \/ c = s)
          \/ p = peek("server") /\ ~(c < s)
      BY <1>3, <2>4
    <3>3. CASE p = peek("client") /\ (c < s \/ c = s)
      BY <2>1, <3>1, <3>3
    <3>4. CASE p = peek("server") /\ ~(c < s)
      BY <2>1, <3>1, <3>4
    <3> QED
      BY <3>2, <3>3, <3>4
  <2> QED
    BY <2>2, <2>3, <2>4
<1>6. /\ peek(side).duration \in Nat
      /\ peek(side).duration <= Since(Due(sides[side], q, delay[side]), now)
  BY <1>1
<1>7. Since(Due(sides[side], q, delay[side]), now) \in Nat
  <2>1. SideOK(sides[side], side) /\ delay[side] \in Nat
    BY DEF SidesOK
  <2>2. Due(sides[side], q, delay[side]) \in Nat
    BY <2>1, DueTyped
  <2> QED
    BY <2>2, SinceTyped
<1> QED
  BY <1>5, <1>6, <1>7 DEF p

(***************************************************************************)
(* peek_queue passes over nothing that may leave its queue and is due no   *)
(* later than the earliest of everything else that may be next.            *)
(***************************************************************************)
LEMMA PeekQueueLeast ==
  ASSUME NEW sides, SidesOK(sides),
         NEW until \in [Side -> Nat \cup {None}],
         NEW bypassable \in [Side -> BOOLEAN],
         NEW delay \in [Side -> Nat], NEW earliest \in Nat, NEW now \in Nat,
         NEW side \in Side, NEW q \in Filled(sides[side]),
         Free(q, until[side], bypassable[side]),
         q = "bypassable" => delay[side] = 0
  PROVE  \/ PeekQueue(sides, until, bypassable, delay, earliest, now).duration
              <= Since(Due(sides[side], q, delay[side]), now)
         \/ Since(Due(sides[side], q, delay[side]), now) > earliest
<1> DEFINE p == PeekQueue(sides, until, bypassable, delay, earliest, now)
           first == PeekAll(sides, delay, now)
           of(x) == EarliestOfSide(sides[x], until[x], bypassable[x], delay[x], now, x)
           d == Since(Due(sides[side], q, delay[side]), now)
<1> SUFFICES p.duration <= d \/ d > earliest
  OBVIOUS
<1>1. SideOK(sides[side], side) /\ delay[side] \in Nat
      /\ until[side] \in Nat \cup {None} /\ bypassable[side] \in BOOLEAN
  BY DEF SidesOK
<1>2. d \in Nat
  BY <1>1, DueTyped, SinceTyped
<1>3. first.duration \in Nat /\ first.duration <= d
  BY PeekAllLeast
<1>4. of(side).duration <= d
  BY <1>1, EarliestOfSideLeast
<1>5. of("client").duration \in Nat /\ of("server").duration \in Nat
  <2>1. \A x \in Side : of(x).duration \in 0 .. DURATION_MAX
    BY EarliestOfSideSound DEF Sound
  <2> QED
    BY <2>1, SimQueueAssumption DEF Side
<1>6. ~NoEvents(sides[side])
  BY DEF NoEvents
<1>7. \/ first.duration > earliest
      \/ p = first
      \/ p = IF of("client").duration <= of("server").duration
             THEN of("client") ELSE of("server")
  BY <1>6 DEF PeekQueue
<1> HIDE DEF p, first, of, d
<1>8. side = "client" \/ side = "server"
  BY DEF Side
<1> QED
  BY <1>2, <1>3, <1>4, <1>5, <1>7, <1>8
=============================================================================
