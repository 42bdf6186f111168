--------------------------- MODULE SimulatorProofs ---------------------------
(***************************************************************************)
(* Theorems about the simulator, for every trace, network, integration and *)
(* every way the frameworks may answer.                                    *)
(***************************************************************************)
EXTENDS QueueProofs, SequenceTheorems

-----------------------------------------------------------------------------
(***************************************************************************)
(* The bottleneck.                                                         *)
(***************************************************************************)

(* A trace has packets in any window that ends with one of its packets. *)
LEMMA InWindowPositive ==
  ASSUME NEW t \in Traces, NEW k \in DOMAIN t
  PROVE  InWindow(t, k) \in 1 .. Len(t)
<1> DEFINE In == {j \in 1 .. k : /\ t[j].direction = t[k].direction
                                 /\ t[k].time - t[j].time <= TraceWindow}
<1>1. /\ Len(t) \in Nat /\ DOMAIN t = 1 .. Len(t)
      /\ k \in 1 .. Len(t) /\ t[k].time \in Nat
  BY SimulatorAssumption DEF IsTrace
<1>2. k \in In
  BY <1>1, NetworkAssumption
<1>3. IsFiniteSet(1 .. k) /\ Cardinality(1 .. k) = k
  BY <1>1, FS_Interval
<1>4. IsFiniteSet(In) /\ Cardinality(In) <= k
  BY <1>3, FS_Subset
<1>5. Cardinality(In) \in Nat
  BY <1>4, FS_CardinalityType
<1>6. Cardinality(In) # 0
  BY <1>2, <1>4, FS_EmptySet
<1>7. InWindow(t, k) = Cardinality(In)
  BY DEF InWindow
<1> HIDE DEF In
<1> QED
  BY <1>1, <1>4, <1>5, <1>6, <1>7

(* The bottleneck derived from a trace lets packets pass. *)
LEMMA MaxPpsPositive ==
  ASSUME NEW t \in Traces
  PROVE  MaxPps(t) \in Nat \ {0}
<1> DEFINE counts == {InWindow(t, k) : k \in DOMAIN t}
           m == CHOOSE m \in counts : \A c \in counts : c <= m
           scale == Window \div TraceWindow
<1>1. Len(t) \in Nat /\ DOMAIN t = 1 .. Len(t) /\ t # <<>>
  BY SimulatorAssumption DEF IsTrace
<1>2. counts \subseteq 1 .. Len(t) /\ counts # {}
  <2>1. \A k \in DOMAIN t : InWindow(t, k) \in 1 .. Len(t)
    BY InWindowPositive
  <2>2. DOMAIN t # {}
    BY <1>1
  <2> QED
    BY <2>1, <2>2
<1>3. \E x \in counts : \A y \in counts : y <= x
  <2>1. counts \subseteq Nat /\ \A x \in counts : x <= Len(t)
    BY <1>1, <1>2
  <2> HIDE DEF counts
  <2> QED
    BY <1>1, <1>2, <2>1, BoundedHaveGreatest
<1>4. m \in counts
  BY <1>3
<1>5. m \in Nat \ {0}
  <2> HIDE DEF m, counts
  <2> QED
    BY <1>1, <1>2, <1>4
<1>6. scale \in Nat \ {0}
  <2>1. Window \in Nat /\ TraceWindow \in Nat /\ TraceWindow > 0 /\ Window >= TraceWindow
    BY NetworkAssumption
  <2>2. Window \div TraceWindow \in Nat
    BY <2>1
  <2>3. Window \div TraceWindow > 0
    BY <2>1
  <2> QED
    BY <2>2, <2>3
<1>7. MaxPps(t) = m * scale
  BY DEF MaxPps
<1> HIDE DEF m, scale
<1>8. m * scale \in Nat \ {0}
  <2>1. m \in Nat /\ m > 0 /\ scale \in Nat /\ scale > 0
    BY <1>5, <1>6
  <2>2. m * scale > 0
    BY <2>1
  <2>3. m * scale \in Nat
    BY <2>1
  <2> QED
    BY <2>2, <2>3
<1> QED
  BY <1>7, <1>8

LEMMA AddedDelayTyped ==
  ASSUME NEW count \in Nat, NEW limit \in Nat \ {0}
  PROVE  AddedDelay(count, limit) \in Nat
<1>1. Window \div limit \in Nat
  BY NetworkAssumption
<1>2. count > limit => count - limit \in Nat
  OBVIOUS
<1>3. \A a, b \in Nat : a * b \in Nat
  OBVIOUS
<1> QED
  BY <1>1, <1>2, <1>3 DEF AddedDelay

(* The window keeps the time that is added. *)
LEMMA WindowAddTyped ==
  ASSUME NEW w \in Seq(Nat), NEW now \in Nat
  PROVE  WindowAdd(w, now) \in Seq(Nat)
<1> DEFINE all   == Append(w, now)
           fresh == {k \in DOMAIN all : Since(now, all[k]) <= Window}
<1>1. /\ all \in Seq(Nat) /\ Len(all) = Len(w) + 1
      /\ all[Len(all)] = now
  BY AppendProperties
<1> HIDE DEF all
<1>2. Len(all) \in Nat /\ DOMAIN all = 1 .. Len(all) /\ Len(all) \in DOMAIN all
  BY <1>1
<1>3. Since(now, now) = 0
  BY SimQueueAssumption DEF Since
<1>4. fresh \subseteq Nat /\ Len(all) \in fresh
  <2>1. Since(now, all[Len(all)]) <= Window
    BY <1>1, <1>3, NetworkAssumption
  <2>2. DOMAIN all \subseteq Nat
    BY <1>2
  <2> QED
    BY <1>2, <2>1, <2>2
<1>5. Least(fresh) \in fresh
  <2> HIDE DEF fresh
  <2> QED
    BY <1>4, LeastExists
<1>6. Least(fresh) \in 1 .. Len(all)
  BY <1>2, <1>5
<1>7. \A i \in Least(fresh) .. Len(all) : all[i] \in Nat
  BY <1>1, <1>2, <1>6
<1>8. WindowAdd(w, now) = SubSeq(all, Least(fresh), Len(all))
  BY DEF WindowAdd, all
<1> HIDE DEF fresh
<1> QED
  BY <1>2, <1>6, <1>7, <1>8, SubSeqProperties

-----------------------------------------------------------------------------
(***************************************************************************)
(* Aggregate delays.                                                       *)
(***************************************************************************)

(* Pending delays take effect after they are pushed. *)
LEMMA PushAggregateTyped ==
  ASSUME NEW pending, IsBag(pending, PendingAggregateDelay),
         NEW duration \in Nat, NEW now \in Nat, NEW side
  PROVE  LET new == PushAggregateDelay(pending, duration, now, side) IN
         /\ IsBag(new, PendingAggregateDelay)
         /\ \A d \in DOMAIN new : d \in DOMAIN pending \/ d.time >= now
<1> DEFINE client == Since(IF side = "client" THEN 4 * NetworkDelay ELSE NetworkDelay, duration)
           server == Since(IF side = "client" THEN 3 * NetworkDelay ELSE 4 * NetworkDelay, duration)
           c == Pending("client", now + client, duration)
           s == Pending("server", now + server, duration)
           one == BagAdd(pending, c)
           new == BagAdd(one, s)
<1>1. client \in Nat /\ server \in Nat
  <2>1. \A n \in Nat : Since(n, duration) \in Nat
    BY SinceTyped
  <2>2. NetworkDelay \in Nat /\ 3 * NetworkDelay \in Nat /\ 4 * NetworkDelay \in Nat
    BY NetworkAssumption
  <2> QED
    BY <2>1, <2>2
<1> HIDE DEF client, server
<1>2. /\ c \in PendingAggregateDelay /\ c.time >= now
      /\ s \in PendingAggregateDelay /\ s.time >= now
  BY <1>1 DEF Pending, PendingAggregateDelay, Side
<1> HIDE DEF c, s
<1>3. IsBag(one, PendingAggregateDelay) /\ DOMAIN one = DOMAIN pending \cup {c}
  BY <1>2, BagAddTyped
<1> HIDE DEF one
<1>4. IsBag(new, PendingAggregateDelay) /\ DOMAIN new = DOMAIN one \cup {s}
  BY <1>2, <1>3, BagAddTyped
<1>5. PushAggregateDelay(pending, duration, now, side) = new
  BY DEF PushAggregateDelay, new, one, c, s, client, server
<1> HIDE DEF new
<1> QED
  BY <1>2, <1>3, <1>4, <1>5

LEMMA PushIfAnyTyped ==
  ASSUME NEW pending, IsBag(pending, PendingAggregateDelay),
         NEW duration \in Nat \cup {None}, NEW now \in Nat, NEW side
  PROVE  LET new == PushIfAny(pending, duration, now, side) IN
         /\ IsBag(new, PendingAggregateDelay)
         /\ \A d \in DOMAIN new : d \in DOMAIN pending \/ d.time >= now
<1>1. CASE duration = None
  BY <1>1 DEF PushIfAny
<1>2. CASE duration # None
  BY <1>2, PushAggregateTyped DEF PushIfAny
<1> QED
  BY <1>1, <1>2

(* The burst that a held packet begins is over after a window. *)
LEMMA BurstTailTyped ==
  ASSUME NEW side, NEW queues, SideOK(queues, side), NEW since \in Nat
  PROVE  BurstTail(queues, since) \in Nat
<1> DEFINE burst == {e.time : e \in {f \in Buffered(queues) :
                       Since(f.time, since) <= BufferWindow /\ f.time > since}}
           tail == CHOOSE t \in burst : \A u \in burst : u <= t
<1>1. \A e \in Buffered(queues) : e.time \in Nat
  BY RankTyped DEF Buffered, SideOK, IsBag, Queue
<1>2. \A t \in Nat : Since(t, since) <= BufferWindow => t <= since + BufferWindow
  BY NetworkAssumption, SimQueueAssumption DEF Since
<1>3. /\ burst \subseteq Nat /\ since + BufferWindow \in Nat
      /\ \A t \in burst : t <= since + BufferWindow
  <2>1. since + BufferWindow \in Nat
    BY NetworkAssumption
  <2> QED
    BY <1>1, <1>2, <2>1
<1>4. burst # {} => tail \in burst
  <2> HIDE DEF burst
  <2>1. burst # {} => \E t \in burst : \A u \in burst : u <= t
    BY <1>3, BoundedHaveGreatest
  <2> QED
    BY <2>1
<1>5. BurstTail(queues, since) = IF BufferSize(queues) > 2 /\ burst # {} THEN tail ELSE since
  BY DEF BurstTail
<1> HIDE DEF burst, tail
<1> QED
  BY <1>3, <1>4, <1>5

LEMMA DelayOnExpiryTyped ==
  ASSUME NEW side, NEW queues, SideOK(queues, side),
         NEW expiry \in Nat, NEW since \in Nat, NEW delay
  PROVE  DelayOnExpiry(queues, expiry, since, delay) \in Nat \cup {None}
<1>1. BurstTail(queues, since) \in Nat
  BY BurstTailTyped
<1>2. Since(expiry, BurstTail(queues, since)) \in Nat
  BY <1>1, SinceTyped
<1> QED
  BY <1>2 DEF DelayOnExpiry

LEMMA DelayOnReplaceTyped ==
  ASSUME NEW queues, NEW now \in Nat, NEW since \in Nat, NEW delay
  PROVE  DelayOnReplace(queues, now, since, delay) \in Nat \cup {None}
BY SinceTyped DEF DelayOnReplace

(* Only packets for the tunnel are held. *)
LEMMA FirstBlockingHeld ==
  ASSUME NEW queues, NEW bypassable
  PROVE  FirstBlocking(queues, bypassable) \in {"blocking", "bypassable"}
BY DEF FirstBlocking, Sooner

LEMMA ExpiryDelayTyped ==
  ASSUME SidesOK(sq), NEW side \in Side, NEW expiry \in Nat
  PROVE  ExpiryDelay(side, expiry) \in Nat \cup {None}
<1> DEFINE q == FirstBlocking(sq[side], FALSE)
           since == Top(sq[side][q]).time
<1>1. q \in Queue
  BY FirstBlockingHeld DEF Queue
<1>2. SideOK(sq[side], side)
  BY DEF SidesOK
<1> HIDE DEF q
<1>3. ~Empty(sq[side][q]) => since \in Nat
  <2>1. ~Empty(sq[side][q]) => q \in Filled(sq[side])
    BY <1>1 DEF Filled
  <2>2. 0 \in Nat
    OBVIOUS
  <2> QED
    BY <1>2, <2>1, <2>2, DueTyped
<1>4. ~Empty(sq[side][q]) =>
        DelayOnExpiry(sq[side], expiry, since, aggregate_base_delay[side])
          \in Nat \cup {None}
  BY <1>2, <1>3, DelayOnExpiryTyped
<1> QED
  BY <1>4 DEF ExpiryDelay, q

-----------------------------------------------------------------------------
(***************************************************************************)
(* The parsed trace.                                                       *)
(***************************************************************************)
LEMMA ParseTyped ==
  ASSUME NEW t \in Traces, NEW delays, \A k \in DOMAIN t : delays[k] \in Nat
  PROVE  /\ SidesOK(ParseTrace(t, delays))
         /\ FirstBaseTime(ParseTrace(t, delays)) \in Nat
<1> DEFINE event(k) == BaseEvent(t[k], delays[k])
           lines(side) == {k \in DOMAIN t : SenderOf(t[k]) = side}
           base(side) == [e \in {event(k) : k \in lines(side)} |->
                            Cardinality({k \in lines(side) : event(k) = e})]
           sides == ParseTrace(t, delays)
<1>1. /\ Len(t) \in Nat /\ DOMAIN t = 1 .. Len(t) /\ t # <<>>
      /\ \A k \in DOMAIN t : t[k].time \in Nat /\ t[k].time - NetworkDelay \in Nat
  BY SimulatorAssumption, NetworkAssumption DEF IsTrace
<1>2. ASSUME NEW k \in DOMAIN t
      PROVE  /\ event(k) \in SimEvent /\ event(k).event = "NormalSent"
             /\ event(k).side = SenderOf(t[k]) /\ SenderOf(t[k]) \in Side
  <2>1. SenderOf(t[k]) \in Side
    BY DEF SenderOf, Side
  <2>2. SentAt(t[k]) + delays[k] \in Nat
    BY <1>1 DEF SentAt
  <2>3. delays[k] \in Nat
    OBVIOUS
  <2> QED
    BY <2>1, <2>2, <2>3 DEF BaseEvent, Plain, SimEvent, event_to_usize
<1>3. ASSUME NEW side \in Side
      PROVE  /\ IsBag(base(side), SimEvent)
             /\ \A e \in DOMAIN base(side) : e.side = side /\ QueueOf(e) = "base"
  <2>1. IsFiniteSet(DOMAIN t)
    BY <1>1, FS_Interval
  <2>2. ASSUME NEW e \in DOMAIN base(side)
        PROVE  base(side)[e] \in Nat \ {0}
    <3> DEFINE K == {k \in lines(side) : event(k) = e}
    <3>1. K # {}
      OBVIOUS
    <3>2. IsFiniteSet(K)
      BY <2>1, FS_Subset
    <3> HIDE DEF K
    <3>3. Cardinality(K) \in Nat
      BY <3>2, FS_CardinalityType
    <3>4. Cardinality(K) # 0
      BY <3>1, <3>2, FS_EmptySet
    <3> QED
      BY <3>3, <3>4 DEF K
  <2>3. \A e \in DOMAIN base(side) : \E k \in lines(side) : e = event(k)
    OBVIOUS
  <2>4. ASSUME NEW e \in DOMAIN base(side)
        PROVE  e \in SimEvent /\ e.side = side /\ QueueOf(e) = "base"
    <3>1. PICK k \in lines(side) : e = event(k)
      BY <2>3
    <3>2. /\ event(k) \in SimEvent /\ event(k).event = "NormalSent"
          /\ event(k).side = side
      BY <1>2
    <3> HIDE DEF event
    <3> QED
      BY <3>1, <3>2 DEF QueueOf
  <2>5. IsFiniteSet(DOMAIN base(side))
    <3> DEFINE f == [k \in DOMAIN t |-> event(k)]
    <3>1. DOMAIN base(side) \subseteq {f[k] : k \in DOMAIN f}
      OBVIOUS
    <3>2. IsFiniteSet(DOMAIN f)
      BY <2>1
    <3> HIDE DEF f, base
    <3> QED
      BY <3>1, <3>2, ImageIsFinite
  <2> HIDE DEF base
  <2> QED
    BY <2>2, <2>4, <2>5 DEF IsBag
<1>4. sides = [side \in Side |-> [EmptyQueues EXCEPT !.base = base(side)]]
  BY DEF ParseTrace
<1> HIDE DEF sides, base
<1>5. \A side \in Side :
        /\ sides[side] = [q \in Queue |-> sides[side][q]]
        /\ sides[side]["base"] = base(side)
        /\ \A q \in Queue \ {"base"} : DOMAIN sides[side][q] = {}
  BY <1>4 DEF EmptyQueues, Queue
<1>6. ASSUME NEW side \in Side, NEW q \in Queue
      PROVE  /\ IsBag(sides[side][q], SimEvent)
             /\ \A e \in DOMAIN sides[side][q] : e.side = side /\ QueueOf(e) = q
  <2>1. CASE q = "base"
    BY <1>3, <1>5, <2>1
  <2>2. CASE q # "base"
    <3>1. DOMAIN sides[side][q] = {}
      BY <1>5, <2>2
    <3> QED
      BY <3>1, FS_EmptySet DEF IsBag
  <2> QED
    BY <2>1, <2>2
<1>7. SidesOK(sides)
  BY <1>4, <1>5, <1>6 DEF SidesOK, SideOK
<1>8. FirstBaseTime(sides) \in Nat
  <2> DEFINE events == UNION {DOMAIN sides[side].base : side \in Side}
             times == {e.time : e \in events}
  <2>1. \A side \in Side : sides[side].base = base(side)
    BY <1>5
  <2>2. \A e \in events : e.time \in Nat
    BY <1>3, <2>1, RankTyped DEF IsBag
  <2>3. events # {}
    <3>1. 1 \in DOMAIN t
      BY <1>1
    <3>2. event(1) \in DOMAIN base(SenderOf(t[1])) /\ SenderOf(t[1]) \in Side
      BY <1>2, <3>1 DEF base
    <3> QED
      BY <2>1, <3>2
  <2>4. FirstBaseTime(sides) = Least(times)
    BY DEF FirstBaseTime
  <2>5. times \subseteq Nat /\ times # {}
    BY <2>2, <2>3
  <2> HIDE DEF times
  <2> QED
    BY <2>4, <2>5, LeastExists
<1> QED
  BY <1>7, <1>8 DEF sides

-----------------------------------------------------------------------------
(***************************************************************************)
(* The type invariant.  It is inductive once it says that the queues and   *)
(* the timers are functions.                                               *)
(***************************************************************************)
Slot ==
  {NoScheduled} \cup
  [action : {a \in TriggerAction : a.kind \in {"SendPadding", "BlockOutgoing"}},
   time : Nat]

Typed ==
  /\ trace \in Traces
  /\ current_time \in Nat
  /\ SidesOK(sq)
  /\ scheduled_action \in [Side -> [MachineId -> Slot]]
  /\ scheduled_internal_timer \in [Side -> [MachineId -> Nat \cup {None}]]
  /\ blocking_until \in [Side -> Nat \cup {None}]
  /\ blocking_bypassable \in [Side -> BOOLEAN]
  /\ aggregate_base_delay \in [Side -> Nat]
  /\ IsBag(aggregate_delay_queue, PendingAggregateDelay)
  /\ window \in [Side -> Seq(Nat)]
  /\ pc \in {"pick", "network", "trigger", "done"}
  /\ next \in SimEvent
  /\ answers \in 0 .. MaxActions
  /\ blocking_active \in [Side -> BOOLEAN]
  /\ received \in [Side -> Nat]
  /\ due \in Nat
  /\ freed \in [Side -> Nat]

LEMMA TypedIsTypeOK == Typed => TypeOK
<1> SUFFICES ASSUME Typed PROVE TypeOK
  OBVIOUS
<1>1. sq \in [Side -> [Queue -> {sq[s][q] : s \in Side, q \in Queue}]]
  <2> DEFINE H == {sq[s][q] : s \in Side, q \in Queue}
  <2>1. \A s \in Side, q \in Queue : sq[s][q] \in H
    OBVIOUS
  <2>2. /\ sq = [side \in Side |-> sq[side]]
        /\ \A s \in Side : sq[s] = [q \in Queue |-> sq[s][q]]
    BY DEF Typed, SidesOK, SideOK
  <2> HIDE DEF H
  <2>3. \A s \in Side : sq[s] \in [Queue -> H]
    BY <2>1, <2>2
  <2>4. sq \in [Side -> [Queue -> H]]
    BY <2>2, <2>3
  <2> QED
    BY <2>4 DEF H
<1>2. QueuesOK
  BY DEF Typed, SidesOK, SideOK, QueuesOK
<1>3. ScheduledOK
  BY DEF Typed, Slot, ScheduledOK
<1> QED
  BY <1>1, <1>2, <1>3 DEF Typed, TypeOK

-----------------------------------------------------------------------------
(***************************************************************************)
(* What pick_next peeks at.                                                *)
(***************************************************************************)
LEMMA ScheduledInSound ==
  ASSUME Typed
  PROVE  /\ ScheduledIn \in 0 .. DURATION_MAX
         /\ \A side \in Side : \A m \in Scheduled(side) :
              scheduled_action[side][m].time >= current_time
                => scheduled_action[side][m].time >= current_time + ScheduledIn
         /\ ScheduledIn < DURATION_MAX =>
              \E side \in Side : \E m \in Scheduled(side) :
                scheduled_action[side][m].time = current_time + ScheduledIn
<1> DEFINE times == UNION {{scheduled_action[s][m].time : m \in Scheduled(s)} : s \in Side}
<1>1. \A side \in Side : \A m \in Scheduled(side) : scheduled_action[side][m].time \in Nat
  BY DEF Typed, Slot, Scheduled
<1>2. times \subseteq Nat /\ current_time \in Nat
  BY <1>1 DEF Typed
<1>3. \A t : t \in times <=>
        \E side \in Side : \E m \in Scheduled(side) : t = scheduled_action[side][m].time
  OBVIOUS
<1>4. ScheduledIn = PeekTimes(times, current_time)
  BY DEF ScheduledIn
<1> HIDE DEF times
<1>5. /\ ScheduledIn \in 0 .. DURATION_MAX
      /\ \A t \in times : t >= current_time => t >= current_time + ScheduledIn
      /\ ScheduledIn < DURATION_MAX => current_time + ScheduledIn \in times
  BY <1>2, <1>4, PeekTimesSound
<1> QED
  BY <1>3, <1>5

LEMMA TimerInSound ==
  ASSUME Typed
  PROVE  /\ TimerIn \in 0 .. DURATION_MAX
         /\ \A side \in Side : \A m \in TimerSet(side) :
              scheduled_internal_timer[side][m] >= current_time
                => scheduled_internal_timer[side][m] >= current_time + TimerIn
         /\ TimerIn < DURATION_MAX =>
              \E side \in Side : \E m \in TimerSet(side) :
                scheduled_internal_timer[side][m] = current_time + TimerIn
<1> DEFINE times == UNION {{scheduled_internal_timer[s][m] : m \in TimerSet(s)} : s \in Side}
<1>1. \A side \in Side : \A m \in TimerSet(side) : scheduled_internal_timer[side][m] \in Nat
  BY DEF Typed, TimerSet
<1>2. times \subseteq Nat /\ current_time \in Nat
  BY <1>1 DEF Typed
<1>3. \A t : t \in times <=>
        \E side \in Side : \E m \in TimerSet(side) : t = scheduled_internal_timer[side][m]
  OBVIOUS
<1>4. TimerIn = PeekTimes(times, current_time)
  BY DEF TimerIn
<1> HIDE DEF times
<1>5. /\ TimerIn \in 0 .. DURATION_MAX
      /\ \A t \in times : t >= current_time => t >= current_time + TimerIn
      /\ TimerIn < DURATION_MAX => current_time + TimerIn \in times
  BY <1>2, <1>4, PeekTimesSound
<1> QED
  BY <1>3, <1>5

(* The peeks are durations. *)
PeeksTyped(p) ==
  /\ {p.action, p.timer, p.aggregate} \subseteq 0 .. DURATION_MAX
  /\ p.expiry.side \in Side /\ p.expiry.duration \in 0 .. DURATION_MAX
  /\ p.queue.side \in Side /\ p.queue.duration \in 0 .. DURATION_MAX

QueuedSound(p) ==
  Sound(sq, blocking_until, blocking_bypassable, aggregate_base_delay, current_time, p)

LEMMA PeeksSound ==
  ASSUME Typed
  PROVE  PeeksTyped(Peeks) /\ QueuedSound(Peeks.queue)
<1>1. ScheduledIn \in 0 .. DURATION_MAX /\ TimerIn \in 0 .. DURATION_MAX
  BY ScheduledInSound, TimerInSound
<1>2. Expiry.side \in Side /\ Expiry.duration \in 0 .. DURATION_MAX
  BY PeekBlockedExpSound DEF Typed, Expiry
<1>3. AggregateIn \in 0 .. DURATION_MAX
  BY PeekAggregateDelaySound DEF Typed, AggregateIn
<1>4. QueuedSound(Queued)
  BY PeekQueueSound DEF Typed, Queued, QueuedSound
<1>5. Queued.side \in Side /\ Queued.duration \in 0 .. DURATION_MAX
  BY <1>4 DEF QueuedSound, Sound
<1> QED
  BY <1>1, <1>2, <1>3, <1>4, <1>5 DEF Peeks, PeeksTyped

(* What is picked is ahead of the rest, and there is such a thing. *)
LEMMA ExpiryAhead ==
  ASSUME NEW p, PeeksTyped(p), ExpiryFirst(p)
  PROVE  /\ p.expiry.duration < DURATION_MAX
         /\ p.expiry.duration < p.aggregate
         /\ \A d \in {p.action, p.timer, p.queue.duration} : p.expiry.duration <= d
BY SimQueueAssumption DEF PeeksTyped, ExpiryFirst, AggregateFirst

LEMMA QueueAhead ==
  ASSUME NEW p, PeeksTyped(p), QueueFirst(p)
  PROVE  /\ p.queue.duration < DURATION_MAX
         /\ p.queue.duration < p.expiry.duration
         /\ p.queue.duration < p.aggregate
         /\ \A d \in {p.action, p.timer} : p.queue.duration <= d
BY SimQueueAssumption DEF PeeksTyped, QueueFirst, ExpiryFirst, AggregateFirst

LEMMA TimerAhead ==
  ASSUME NEW p, PeeksTyped(p), TimerFirst(p)
  PROVE  /\ p.timer < DURATION_MAX /\ p.timer <= p.action
         /\ \A d \in {p.queue.duration, p.expiry.duration, p.aggregate} : p.timer < d
BY SimQueueAssumption DEF PeeksTyped, TimerFirst, QueueFirst, ExpiryFirst, AggregateFirst

LEMMA ActionAhead ==
  ASSUME NEW p, PeeksTyped(p), ActionFirst(p)
  PROVE  /\ p.action < DURATION_MAX
         /\ \A d \in {p.timer, p.queue.duration, p.expiry.duration, p.aggregate} :
              p.action < d
BY SimQueueAssumption DEF PeeksTyped, ActionFirst, TimerFirst, QueueFirst, ExpiryFirst,
                          AggregateFirst

-----------------------------------------------------------------------------
(***************************************************************************)
(* Every step keeps the types.                                             *)
(***************************************************************************)
LEMMA SidePush ==
  ASSUME NEW sides, SidesOK(sides), NEW side \in Side,
         NEW e \in SimEvent, e.side = side
  PROVE  SidesOK([sides EXCEPT ![side] = Push(@, e)])
<1>1. SideOK(sides[side], side)
  BY DEF SidesOK
<1>2. SideOK(Push(sides[side], e), side)
  BY <1>1, PushKeeps
<1> QED
  BY <1>2, SideChanges

LEMMA SidePop ==
  ASSUME NEW sides, SidesOK(sides), NEW side \in Side, NEW q \in Queue, NEW e
  PROVE  SidesOK([sides EXCEPT ![side] = Pop(@, q, e)])
<1>1. SideOK(sides[side], side)
  BY DEF SidesOK
<1>2. SideOK(Pop(sides[side], q, e), side)
  BY <1>1, PopKeeps
<1> QED
  BY <1>2, SideChanges

(* An event of this kind, padding or not, joins queue q of a side. *)
AddTo(side, e) == [sq EXCEPT ![side] = Push(@, e)]

Queues(side, q, event, padding) ==
  \E e \in SimEvent :
    /\ e.side = side /\ e.event = event /\ e.contains_padding = padding
    /\ QueueOf(e) = q
    /\ sq' = AddTo(side, e)

(* An event of this kind joins the queues of a side, to be reported then. *)
ReportsAt(side, event, time) ==
  \E e \in SimEvent :
    /\ e.side = side /\ e.event = event /\ e.time = time
    /\ sq' = AddTo(side, e)

LEMMA QueuesTyped ==
  ASSUME Typed, NEW side \in Side, NEW q, NEW event, NEW padding,
         Queues(side, q, event, padding)
  PROVE  SidesOK(sq')
<1>1. PICK e \in SimEvent : e.side = side /\ sq' = AddTo(side, e)
  BY DEF Queues
<1> QED
  BY <1>1, SidePush DEF Typed, AddTo

(* Of the machines that are due the first is chosen. *)
LEMMA DueMachine ==
  ASSUME NEW due_at, \A side \in Side : due_at[side] \subseteq MachineId,
         \E side \in Side : due_at[side] # {}
  PROVE  /\ DueSide(due_at) \in Side
         /\ Least(due_at[DueSide(due_at)]) \in due_at[DueSide(due_at)]
         /\ Least(due_at[DueSide(due_at)]) \in MachineId
<1>1. DueSide(due_at) \in Side /\ due_at[DueSide(due_at)] # {}
  BY DEF DueSide, Side
<1>2. MachineId \subseteq Nat
  BY DEF MachineId
<1>3. due_at[DueSide(due_at)] \subseteq MachineId
  BY <1>1
<1> QED
  BY <1>1, <1>2, <1>3, LeastExists

(* What an integration takes is a duration. *)
LEMMA DelaysTyped ==
  \A side \in Side : /\ ReportingDelay[side] \subseteq Nat
                     /\ ActionDelay[side] \subseteq Nat
                     /\ TriggerDelay[side] \subseteq Nat
BY SimulatorAssumption

LEMMA PickNothingTyped ==
  ASSUME Typed, PickNothing(Peeks)
  PROVE  Typed'
BY DEF Typed, PickNothing, timers, blocks, net, history

LEMMA PickAggregateDelayTyped ==
  ASSUME Typed, PickAggregateDelay(Peeks)
  PROVE  Typed'
<1>1. PICK d \in FirstPending(aggregate_delay_queue) :
        /\ aggregate_delay_queue' = BagRemove(aggregate_delay_queue, d)
        /\ aggregate_base_delay' = [aggregate_base_delay EXCEPT ![d.side] = @ + d.delay]
  BY DEF PickAggregateDelay
<1>2. d.side \in Side /\ d.delay \in Nat
  BY DEF Typed, IsBag, FirstPending, PendingAggregateDelay
<1>3. aggregate_base_delay' \in [Side -> Nat]
  BY <1>1, <1>2 DEF Typed
<1>4. IsBag(aggregate_delay_queue', PendingAggregateDelay)
  BY <1>1, BagRemoveTyped DEF Typed
<1> QED
  BY <1>3, <1>4 DEF Typed, PickAggregateDelay, timers, blocks, history

(* The end of a block is queued to be reported, or picked. *)
LEMMA ExpiryQueues ==
  ASSUME Typed, PickExpiry(Peeks)
  PROVE  LET side == Peeks.expiry.side IN
         /\ side \in Side /\ current_time + Peeks.expiry.duration \in Nat
         /\ \/ /\ Queues(side, "internal", "BlockingEnd", FALSE)
               /\ UNCHANGED <<pc, next, due>>
            \/ /\ UNCHANGED sq
               /\ pc' = "network" /\ next' \in SimEvent /\ due' \in Nat
               /\ next'.event = "BlockingEnd" /\ ~next'.contains_padding
<1> DEFINE side   == Peeks.expiry.side
           expiry == current_time + Peeks.expiry.duration
<1>1. side \in Side /\ expiry \in Nat
  <2>1. side \in Side /\ Peeks.expiry.duration \in 0 .. DURATION_MAX
    BY PeeksSound DEF PeeksTyped
  <2>2. current_time \in Nat
    BY DEF Typed
  <2> QED
    BY <2>1, <2>2
<1>2. PICK delay \in ReportingDelay[side] :
        LET e == Plain("BlockingEnd", side, expiry + delay, delay)
        IN  IF delay > 0
            THEN sq' = [sq EXCEPT ![side] = Push(@, e)] /\ UNCHANGED <<pc, next, due>>
            ELSE pc' = "network" /\ next' = e /\ due' = e.time /\ UNCHANGED sq
  BY DEF PickExpiry
<1> HIDE DEF side, expiry
<1> DEFINE e == Plain("BlockingEnd", side, expiry + delay, delay)
<1>3. /\ e \in SimEvent /\ e.side = side /\ e.time \in Nat
      /\ e.event = "BlockingEnd" /\ e.contains_padding = FALSE
  <2>1. delay \in Nat /\ expiry + delay \in Nat
    BY <1>1, DelaysTyped
  <2> QED
    BY <1>1, <2>1 DEF Plain, SimEvent, event_to_usize
<1>4. QueueOf(e) = "internal"
  BY <1>3 DEF QueueOf
<1>5. IF delay > 0
      THEN sq' = [sq EXCEPT ![side] = Push(@, e)] /\ UNCHANGED <<pc, next, due>>
      ELSE pc' = "network" /\ next' = e /\ due' = e.time /\ UNCHANGED sq
  BY <1>2
<1> HIDE DEF e
<1>6. CASE delay > 0
  <2>1. sq' = AddTo(side, e)
    BY <1>5, <1>6 DEF AddTo
  <2>2. Queues(side, "internal", "BlockingEnd", FALSE)
    BY <1>3, <1>4, <2>1 DEF Queues
  <2> QED
    BY <1>1, <1>5, <1>6, <2>2 DEF side, expiry
<1>7. CASE ~(delay > 0)
  BY <1>1, <1>3, <1>5, <1>7 DEF side, expiry
<1> QED
  BY <1>6, <1>7

LEMMA PickExpiryTyped ==
  ASSUME Typed, PickExpiry(Peeks)
  PROVE  Typed'
<1> DEFINE side   == Peeks.expiry.side
           expiry == current_time + Peeks.expiry.duration
<1>1. side \in Side /\ expiry \in Nat
  BY ExpiryQueues
<1>2. \/ /\ Queues(side, "internal", "BlockingEnd", FALSE)
         /\ UNCHANGED <<pc, next, due>>
      \/ /\ UNCHANGED sq
         /\ pc' = "network" /\ next' \in SimEvent /\ due' \in Nat
  BY ExpiryQueues
<1>3. /\ blocking_until' = [blocking_until EXCEPT ![side] = None]
      /\ aggregate_delay_queue' =
           PushIfAny(aggregate_delay_queue, ExpiryDelay(side, expiry), expiry, side)
      /\ freed' = [freed EXCEPT ![side] = expiry]
  BY DEF PickExpiry
<1> HIDE DEF side, expiry
<1>4. SidesOK(sq')
  BY <1>1, <1>2, QueuesTyped DEF Typed
<1>5. pc' \in {"pick", "network", "trigger", "done"} /\ next' \in SimEvent /\ due' \in Nat
  BY <1>2 DEF Typed
<1>6. IsBag(aggregate_delay_queue', PendingAggregateDelay)
  <2>1. ExpiryDelay(side, expiry) \in Nat \cup {None}
    BY <1>1, ExpiryDelayTyped DEF Typed
  <2> QED
    BY <1>1, <1>3, <2>1, PushIfAnyTyped DEF Typed
<1>7. blocking_until' \in [Side -> Nat \cup {None}] /\ freed' \in [Side -> Nat]
  BY <1>1, <1>3 DEF Typed
<1> QED
  BY <1>4, <1>5, <1>6, <1>7 DEF Typed, PickExpiry, timers

(* What pick_next takes out of a queue, and when. *)
LEMMA QueuePicked ==
  ASSUME Typed, PickQueue(Peeks)
  PROVE  LET p == Peeks.queue IN
         /\ p.side \in Side /\ p.queue \in Filled(sq[p.side])
         /\ Passes(blocking_until, blocking_bypassable, current_time, p)
         /\ next' \in SimEvent /\ next'.side = p.side /\ due' \in Nat
         /\ next'.time = current_time + p.duration /\ due' <= next'.time
         /\ \E top \in Tops(sq[p.side][p.queue]) :
              /\ QueueOf(top) = p.queue
              /\ next'.event = top.event /\ next'.bypass = top.bypass
              /\ next'.contains_padding = top.contains_padding
              /\ due' = Shifted(top, p.queue, aggregate_base_delay[p.side]).time
              /\ sq' = [sq EXCEPT ![p.side] = Pop(@, p.queue, top)]
<1> DEFINE p == Peeks.queue
           shift == aggregate_base_delay[p.side]
<1>1. PeeksTyped(Peeks) /\ QueuedSound(p)
  BY PeeksSound
<1>2. p.duration \in 0 .. DURATION_MAX /\ p.duration < DURATION_MAX
  BY <1>1, QueueAhead DEF PickQueue, PeeksTyped
<1>3. PICK top \in Tops(sq[p.side][p.queue]) :
        LET e == Shifted(top, p.queue, shift) IN
        /\ sq' = [sq EXCEPT ![p.side] = Pop(@, p.queue, top)]
        /\ next' = [e EXCEPT !.time = Later(@, current_time + p.duration)]
        /\ due' = e.time
  BY DEF PickQueue
<1> HIDE DEF p
<1>4. /\ p.side \in Side /\ p.queue \in Filled(sq[p.side])
      /\ Due(sq[p.side], p.queue, shift) <= current_time + p.duration
      /\ Passes(blocking_until, blocking_bypassable, current_time, p)
  BY <1>1, <1>2 DEF QueuedSound, Sound
<1>5. SideOK(sq[p.side], p.side) /\ shift \in Nat /\ current_time \in Nat
  BY <1>4 DEF Typed, SidesOK
<1>6. top \in SimEvent /\ top.side = p.side /\ QueueOf(top) = p.queue
  BY <1>4, <1>5, TopTyped
<1> DEFINE e == Shifted(top, p.queue, shift)
<1>7. /\ e \in SimEvent /\ e.event = top.event /\ e.bypass = top.bypass
      /\ e.side = p.side /\ e.contains_padding = top.contains_padding
  BY <1>5, <1>6, ShiftedTyped
<1>8. e.time = Due(sq[p.side], p.queue, shift) /\ e.time \in Nat
  BY <1>3, <1>4, <1>5, DueTyped
<1>9. next' = [e EXCEPT !.time = Later(@, current_time + p.duration)] /\ due' = e.time
  BY <1>3
<1> HIDE DEF e, shift
<1>10. Later(e.time, current_time + p.duration) = current_time + p.duration
  BY <1>2, <1>4, <1>5, <1>8 DEF Later
<1>11. current_time + p.duration \in Nat
  BY <1>2, <1>5
<1>12. /\ next' \in SimEvent /\ next'.side = p.side /\ next'.event = top.event
       /\ next'.bypass = top.bypass /\ next'.time = current_time + p.duration
       /\ next'.contains_padding = top.contains_padding
  BY <1>7, <1>9, <1>10, <1>11 DEF SimEvent
<1>13. due' = Shifted(top, p.queue, aggregate_base_delay[p.side]).time /\ due' \in Nat
  BY <1>8, <1>9 DEF e, shift
<1>14. due' <= next'.time
  BY <1>4, <1>8, <1>9, <1>12
<1>15. \E t \in Tops(sq[p.side][p.queue]) :
         /\ QueueOf(t) = p.queue
         /\ next'.event = t.event /\ next'.bypass = t.bypass
         /\ next'.contains_padding = t.contains_padding
         /\ due' = Shifted(t, p.queue, aggregate_base_delay[p.side]).time
         /\ sq' = [sq EXCEPT ![p.side] = Pop(@, p.queue, t)]
  BY <1>3, <1>6, <1>12, <1>13
<1> QED
  BY <1>4, <1>12, <1>13, <1>14, <1>15 DEF p

LEMMA PickQueueTyped ==
  ASSUME Typed, PickQueue(Peeks)
  PROVE  Typed'
<1> DEFINE p == Peeks.queue
<1>1. PICK top : sq' = [sq EXCEPT ![p.side] = Pop(@, p.queue, top)]
  BY QueuePicked
<1>2. p.side \in Side /\ p.queue \in Queue /\ next' \in SimEvent /\ due' \in Nat
  BY QueuePicked DEF Filled
<1> HIDE DEF p
<1>3. SidesOK(sq')
  BY <1>1, <1>2, SidePop DEF Typed
<1> QED
  BY <1>2, <1>3 DEF Typed, PickQueue, timers, blocks, net

(* A timer that fires is reported. *)
LEMMA TimerQueues ==
  ASSUME Typed, PickTimer(Peeks)
  PROVE  \E side \in Side, m \in MachineId :
           /\ Queues(side, "internal", "TimerEnd", FALSE)
           /\ ReportsAt(side, "TimerEnd", current_time + Peeks.timer)
           /\ scheduled_internal_timer' =
                [scheduled_internal_timer EXCEPT ![side][m] = None]
<1> DEFINE target == current_time + Peeks.timer
           due_at == [s \in Side |->
                        {m \in TimerSet(s) : scheduled_internal_timer[s][m] = target}]
           side == DueSide(due_at)
           m == Least(due_at[side])
           e == [Plain("TimerEnd", side, target, 0) EXCEPT !.machine = m]
<1>1. Peeks.timer \in 0 .. DURATION_MAX /\ Peeks.timer < DURATION_MAX
  BY PeeksSound, TimerAhead DEF PickTimer, PeeksTyped
<1>2. target \in Nat
  BY <1>1 DEF Typed
<1>3. \E s \in Side : due_at[s] # {}
  BY <1>1, TimerInSound DEF Peeks
<1>4. \A s \in Side : due_at[s] \subseteq MachineId
  BY DEF TimerSet
<1>5. side \in Side /\ m \in MachineId
  <2> HIDE DEF due_at
  <2> QED
    BY <1>3, <1>4, DueMachine
<1>6. /\ scheduled_internal_timer' = [scheduled_internal_timer EXCEPT ![side][m] = None]
      /\ sq' = AddTo(side, e)
  BY DEF PickTimer, AddTo
<1> HIDE DEF target, side, m
<1>7. /\ e \in SimEvent /\ e.side = side /\ e.event = "TimerEnd"
      /\ e.contains_padding = FALSE /\ e.time = target
  BY <1>2, <1>5 DEF Plain, SimEvent, event_to_usize
<1> HIDE DEF e
<1>8. QueueOf(e) = "internal"
  BY <1>7 DEF QueueOf
<1>9. Queues(side, "internal", "TimerEnd", FALSE)
  BY <1>6, <1>7, <1>8 DEF Queues
<1>10. ReportsAt(side, "TimerEnd", current_time + Peeks.timer)
  BY <1>6, <1>7 DEF ReportsAt, target
<1> QED
  BY <1>5, <1>6, <1>9, <1>10

LEMMA PickTimerTyped ==
  ASSUME Typed, PickTimer(Peeks)
  PROVE  Typed'
<1>1. PICK side \in Side, m \in MachineId :
        /\ Queues(side, "internal", "TimerEnd", FALSE)
        /\ scheduled_internal_timer' = [scheduled_internal_timer EXCEPT ![side][m] = None]
  BY TimerQueues
<1>2. SidesOK(sq')
  BY <1>1, QueuesTyped
<1>3. scheduled_internal_timer' \in [Side -> [MachineId -> Nat \cup {None}]]
  BY <1>1 DEF Typed
<1> QED
  BY <1>2, <1>3 DEF Typed, PickTimer, blocks, net, history

(* The action that pick_next carries out is padding or blocking. *)
LEMMA ActionPicked ==
  ASSUME Typed, PickAction(Peeks)
  PROVE  \E side \in Side, m \in MachineId :
           LET a == scheduled_action[side][m] IN
           /\ a \in Slot /\ a # NoScheduled
           /\ a.time = current_time + Peeks.action
           /\ scheduled_action' = [scheduled_action EXCEPT ![side][m] = NoScheduled]
           /\ \/ a.action.kind = "SendPadding" /\ SendPadding(side, m, a)
              \/ a.action.kind = "BlockOutgoing" /\ BlockOutgoing(side, m, a)
<1> DEFINE target == current_time + Peeks.action
           due_at == [s \in Side |->
                        {m \in Scheduled(s) : scheduled_action[s][m].time = target}]
           side == DueSide(due_at)
           m == Least(due_at[side])
<1>1. Peeks.action < DURATION_MAX
  BY PeeksSound, ActionAhead DEF PickAction
<1>2. \E s \in Side : due_at[s] # {}
  BY <1>1, ScheduledInSound DEF Peeks
<1>3. \A s \in Side : due_at[s] \subseteq MachineId
  BY DEF Scheduled
<1>4. side \in Side /\ m \in MachineId /\ m \in due_at[side]
  <2> HIDE DEF due_at
  <2> QED
    BY <1>2, <1>3, DueMachine
<1>5. /\ scheduled_action' = [scheduled_action EXCEPT ![side][m] = NoScheduled]
      /\ LET a == scheduled_action[side][m] IN
         \/ a.action.kind = "SendPadding" /\ SendPadding(side, m, a)
         \/ a.action.kind = "BlockOutgoing" /\ BlockOutgoing(side, m, a)
  BY DEF PickAction
<1> HIDE DEF side, m
<1>6. m \in Scheduled(side) /\ scheduled_action[side][m].time = target
  BY <1>4
<1>7. scheduled_action[side][m] \in Slot /\ scheduled_action[side][m] # NoScheduled
  BY <1>4, <1>6 DEF Typed, Scheduled
<1> QED
  BY <1>4, <1>5, <1>6, <1>7

LEMMA SendPaddingQueues ==
  ASSUME Typed, NEW side \in Side, NEW m \in MachineId,
         NEW a \in Slot, a # NoScheduled, SendPadding(side, m, a)
  PROVE  /\ Queues(side, "internal", "PaddingSent", TRUE)
         /\ ReportsAt(side, "PaddingSent", a.time)
         /\ UNCHANGED <<blocking_until, blocking_bypassable, freed>>
<1>1. PICK delay \in ActionDelay[side] :
        sq' = [sq EXCEPT ![side] =
          Push(@, [Plain("PaddingSent", side, a.time, delay) EXCEPT
                     !.machine = m, !.contains_padding = TRUE,
                     !.bypass = a.action.bypass, !.replace = a.action.replace])]
  BY DEF SendPadding
<1> DEFINE e == [Plain("PaddingSent", side, a.time, delay) EXCEPT
                   !.machine = m, !.contains_padding = TRUE,
                   !.bypass = a.action.bypass, !.replace = a.action.replace]
<1>2. delay \in Nat
  BY DelaysTyped
<1>3. a.time \in Nat /\ a.action.bypass \in BOOLEAN /\ a.action.replace \in BOOLEAN
  BY DEF Slot, TriggerAction
<1>4. /\ e \in SimEvent /\ e.side = side /\ e.event = "PaddingSent"
      /\ e.contains_padding = TRUE /\ e.time = a.time
  BY <1>2, <1>3 DEF Plain, SimEvent, event_to_usize
<1>5. sq' = AddTo(side, e)
  BY <1>1 DEF AddTo
<1> HIDE DEF e
<1>6. QueueOf(e) = "internal"
  BY <1>4 DEF QueueOf
<1>7. Queues(side, "internal", "PaddingSent", TRUE)
  BY <1>4, <1>5, <1>6 DEF Queues
<1>8. ReportsAt(side, "PaddingSent", a.time)
  BY <1>4, <1>5 DEF ReportsAt
<1> QED
  BY <1>7, <1>8 DEF SendPadding, blocks

LEMMA BlockOutgoingQueues ==
  ASSUME Typed, NEW side \in Side, NEW m \in MachineId,
         NEW a \in Slot, a # NoScheduled, BlockOutgoing(side, m, a)
  PROVE  /\ Queues(side, "internal", "BlockingBegin", FALSE)
         /\ \E time \in Nat : /\ time >= a.time
                              /\ Prompt(side) => time = a.time
                              /\ ReportsAt(side, "BlockingBegin", time)
         /\ blocking_until' \in [Side -> Nat \cup {None}]
         /\ blocking_bypassable' \in [Side -> BOOLEAN]
         /\ freed' \in [Side -> Nat]
<1>1. /\ a.time \in Nat /\ a.action.bypass \in BOOLEAN
      /\ a.action.duration \in Nat
  BY DEF Slot, TriggerAction
<1>2. blocking_until' \in [Side -> Nat \cup {None}]
  <2>1. a.time + a.action.duration \in Nat
    BY <1>1
  <2>2. blocking_until' \in {blocking_until,
          [blocking_until EXCEPT ![side] = a.time + a.action.duration]}
    BY DEF BlockOutgoing
  <2> QED
    BY <2>1, <2>2 DEF Typed
<1>3. blocking_bypassable' \in [Side -> BOOLEAN]
  <2>1. blocking_bypassable' \in {blocking_bypassable,
          [blocking_bypassable EXCEPT ![side] = a.action.bypass]}
    BY DEF BlockOutgoing
  <2> QED
    BY <1>1, <2>1 DEF Typed
<1>4. freed' \in [Side -> Nat]
  <2>1. freed' \in {freed, [freed EXCEPT ![side] = a.time]}
    BY DEF BlockOutgoing
  <2> QED
    BY <1>1, <2>1 DEF Typed
<1>5. PICK action_delay \in ActionDelay[side], reporting_delay \in ReportingDelay[side] :
        LET delay == action_delay + reporting_delay
        IN  sq' = [sq EXCEPT ![side] =
              Push(@, [Plain("BlockingBegin", side, a.time + delay, delay) EXCEPT
                         !.machine = m, !.bypass = blocking_bypassable'[side]])]
  BY DEF BlockOutgoing
<1> DEFINE delay == action_delay + reporting_delay
           e == [Plain("BlockingBegin", side, a.time + delay, delay) EXCEPT
                   !.machine = m, !.bypass = blocking_bypassable'[side]]
<1>6. delay \in Nat /\ a.time + delay \in Nat /\ blocking_bypassable'[side] \in BOOLEAN
  BY <1>1, <1>3, DelaysTyped
<1>7. sq' = AddTo(side, e)
  BY <1>5 DEF AddTo
<1>11. Prompt(side) => delay = 0
  BY DEF Prompt
<1> HIDE DEF delay
<1>8. /\ e \in SimEvent /\ e.side = side /\ e.event = "BlockingBegin"
      /\ e.contains_padding = FALSE /\ e.time = a.time + delay
  BY <1>6 DEF Plain, SimEvent, event_to_usize
<1> HIDE DEF e
<1>9. QueueOf(e) = "internal"
  BY <1>8 DEF QueueOf
<1>10. Queues(side, "internal", "BlockingBegin", FALSE)
  BY <1>7, <1>8, <1>9 DEF Queues
<1>12. ReportsAt(side, "BlockingBegin", e.time)
  BY <1>7, <1>8 DEF ReportsAt
<1>13. e.time \in Nat /\ e.time >= a.time /\ (Prompt(side) => e.time = a.time)
  BY <1>1, <1>6, <1>8, <1>11
<1> QED
  BY <1>2, <1>3, <1>4, <1>10, <1>12, <1>13

LEMMA PickActionTyped ==
  ASSUME Typed, PickAction(Peeks)
  PROVE  Typed'
<1>1. PICK side \in Side, m \in MachineId :
        LET a == scheduled_action[side][m] IN
        /\ a \in Slot /\ a # NoScheduled
        /\ scheduled_action' = [scheduled_action EXCEPT ![side][m] = NoScheduled]
        /\ SendPadding(side, m, a) \/ BlockOutgoing(side, m, a)
  BY ActionPicked
<1>2. scheduled_action' \in [Side -> [MachineId -> Slot]]
  BY <1>1 DEF Typed, Slot
<1>3. /\ SidesOK(sq')
      /\ blocking_until' \in [Side -> Nat \cup {None}]
      /\ blocking_bypassable' \in [Side -> BOOLEAN]
      /\ freed' \in [Side -> Nat]
  <2>1. CASE SendPadding(side, m, scheduled_action[side][m])
    BY <1>1, <2>1, SendPaddingQueues, QueuesTyped DEF Typed
  <2>2. CASE BlockOutgoing(side, m, scheduled_action[side][m])
    BY <1>1, <2>2, BlockOutgoingQueues, QueuesTyped
  <2> QED
    BY <1>1, <2>1, <2>2
<1> QED
  BY <1>2, <1>3 DEF Typed, PickAction, net

LEMMA PickNextTyped ==
  ASSUME Typed, PickNext
  PROVE  Typed'
BY PickNothingTyped, PickAggregateDelayTyped, PickExpiryTyped, PickQueueTyped,
   PickTimerTyped, PickActionTyped DEF PickNext

(* What sim_network_stack finds. *)
LEMMA AdvanceTyped ==
  ASSUME Typed, NEW event, Advance(event)
  PROVE  /\ current_time' \in Nat /\ pc' = "trigger"
         /\ next.side \in Side /\ next.time \in Nat /\ next.integration_delay \in Nat
         /\ next.bypass \in BOOLEAN /\ next.contains_padding \in BOOLEAN
         /\ SideOK(sq[next.side], next.side)
         /\ UNCHANGED <<trace, timers, blocks, next, answers, blocking_active, due>>
<1>1. /\ next.side \in Side /\ next.time \in Nat /\ next.integration_delay \in Nat
      /\ next.bypass \in BOOLEAN /\ next.contains_padding \in BOOLEAN
  BY DEF Typed, SimEvent
<1>2. SideOK(sq[next.side], next.side)
  BY <1>1 DEF Typed, SidesOK
<1> QED
  BY <1>1, <1>2 DEF Advance

(* A normal packet is queued as one that blocking holds. *)
LEMMA NormalSentQueues ==
  ASSUME Typed, NormalSent
  PROVE  next.side \in Side /\ Queues(next.side, "blocking", "TunnelSent", FALSE)
<1> DEFINE e == Plain("TunnelSent", next.side, next.time, next.integration_delay)
<1>1. /\ e \in SimEvent /\ e.side = next.side /\ next.side \in Side
      /\ e.event = "TunnelSent" /\ e.contains_padding = FALSE /\ e.bypass = FALSE
  <2>1. next.side \in Side /\ next.time \in Nat /\ next.integration_delay \in Nat
    BY AdvanceTyped DEF NormalSent
  <2> QED
    BY <2>1 DEF Plain, SimEvent, event_to_usize
<1>2. sq' = AddTo(next.side, e)
  BY DEF NormalSent, AddTo
<1> HIDE DEF e
<1>3. QueueOf(e) = "blocking"
  BY <1>1 DEF QueueOf
<1> QED
  BY <1>1, <1>2, <1>3 DEF Queues

LEMMA NormalSentTyped ==
  ASSUME Typed, NormalSent
  PROVE  Typed'
<1>1. SidesOK(sq')
  BY NormalSentQueues, QueuesTyped
<1>2. current_time' \in Nat /\ pc' = "trigger"
  BY AdvanceTyped DEF NormalSent
<1> QED
  BY <1>1, <1>2 DEF Typed, NormalSent, Advance, timers, blocks, net

LEMMA PaddingQueues ==
  ASSUME Typed, QueuePadding
  PROVE  /\ next.side \in Side
         /\ \E q : Queues(next.side, q, "TunnelSent", next.contains_padding)
<1> DEFINE e == [next EXCEPT !.event = "TunnelSent", !.machine = None]
<1>1. /\ e \in SimEvent /\ e.side = next.side /\ next.side \in Side
      /\ e.event = "TunnelSent" /\ e.contains_padding = next.contains_padding
  BY DEF Typed, SimEvent, event_to_usize
<1>2. sq' = AddTo(next.side, e)
  BY DEF QueuePadding, AddTo
<1> HIDE DEF e
<1>3. Queues(next.side, QueueOf(e), "TunnelSent", next.contains_padding)
  BY <1>1, <1>2 DEF Queues
<1> QED
  BY <1>1, <1>3

LEMMA QueuePaddingTyped ==
  ASSUME Typed, QueuePadding
  PROVE  Typed'
<1>1. SidesOK(sq')
  BY PaddingQueues, QueuesTyped
<1>2. current_time' \in Nat /\ pc' = "trigger"
  BY AdvanceTyped DEF QueuePadding
<1> QED
  BY <1>1, <1>2 DEF Typed, QueuePadding, Advance, timers, blocks, net

LEMMA DropPaddingTyped ==
  ASSUME Typed, DropPadding
  PROVE  Typed'
<1>1. current_time' \in Nat /\ pc' = "trigger"
  BY AdvanceTyped DEF DropPadding
<1> QED
  BY <1>1 DEF Typed, DropPadding, Advance, timers, blocks, net

(* The packet that replaces padding. *)
LEMMA ReplacementTyped ==
  ASSUME Typed, next.side \in Side, NEW e \in Replacements
  PROVE  e \in SimEvent /\ e.side = next.side /\ ReplaceQueue \in Queue
<1>1. ReplaceQueue \in Queue
  BY FirstBlockingHeld DEF ReplaceQueue, Queue
<1>2. SideOK(sq[next.side], next.side)
  BY DEF Typed, SidesOK
<1>3. e \in Tops(sq[next.side][ReplaceQueue])
  BY DEF Replacements
<1>4. ReplaceQueue \in Filled(sq[next.side])
  BY <1>1, <1>3 DEF Filled, Tops, Empty
<1> QED
  BY <1>1, <1>2, <1>3, <1>4, TopTyped

LEMMA ReplacePaddingTyped ==
  ASSUME Typed, ReplacePadding
  PROVE  Typed' /\ \A d \in DOMAIN aggregate_delay_queue' :
                      d \in DOMAIN aggregate_delay_queue \/ d.time >= next.time
<1>1. PICK e \in Replacements :
        LET popped == Pop(sq[next.side], ReplaceQueue, e)
        IN  /\ sq' = [sq EXCEPT ![next.side] =
                 Push(popped, [e EXCEPT !.bypass = TRUE, !.replace = FALSE])]
            /\ aggregate_delay_queue' =
                 PushIfAny(aggregate_delay_queue,
                           DelayOnReplace(popped, next.time, e.time,
                                          aggregate_base_delay[next.side]),
                           next.time, next.side)
  BY DEF ReplacePadding
<1> DEFINE popped == Pop(sq[next.side], ReplaceQueue, e)
           f == [e EXCEPT !.bypass = TRUE, !.replace = FALSE]
           d == DelayOnReplace(popped, next.time, e.time, aggregate_base_delay[next.side])
<1>2. /\ current_time' \in Nat /\ pc' = "trigger"
      /\ next.side \in Side /\ next.time \in Nat
      /\ SideOK(sq[next.side], next.side)
  BY AdvanceTyped DEF ReplacePadding
<1>3. e \in SimEvent /\ e.side = next.side /\ ReplaceQueue \in Queue /\ e.time \in Nat
  BY <1>2, ReplacementTyped, RankTyped
<1>4. f \in SimEvent /\ f.side = next.side
  BY <1>3 DEF SimEvent
<1>5. SideOK(popped, next.side)
  BY <1>2, <1>3, PopKeeps
<1> HIDE DEF popped, f
<1>6. SideOK(Push(popped, f), next.side)
  BY <1>4, <1>5, PushKeeps
<1>7. sq' = [sq EXCEPT ![next.side] = Push(popped, f)]
  BY <1>1 DEF popped, f
<1>8. SidesOK(sq')
  BY <1>2, <1>6, <1>7, SideChanges DEF Typed
<1>9. d \in Nat \cup {None}
  BY <1>2, <1>3, DelayOnReplaceTyped
<1>10. aggregate_delay_queue' = PushIfAny(aggregate_delay_queue, d, next.time, next.side)
  BY <1>1 DEF popped
<1> HIDE DEF d
<1>11. /\ IsBag(aggregate_delay_queue', PendingAggregateDelay)
       /\ \A x \in DOMAIN aggregate_delay_queue' :
            x \in DOMAIN aggregate_delay_queue \/ x.time >= next.time
  BY <1>2, <1>9, <1>10, PushIfAnyTyped DEF Typed
<1>12. freed' \in [Side -> Nat]
  BY <1>2 DEF Typed, ReplacePadding
<1> QED
  BY <1>2, <1>8, <1>11, <1>12 DEF Typed, ReplacePadding, Advance, timers, blocks

LEMMA PpsLimitPositive ==
  ASSUME Typed
  PROVE  PpsLimit \in Nat \ {0}
BY MaxPpsPositive, SimulatorAssumption DEF Typed, PpsLimit

LEMMA TunnelSentTyped ==
  ASSUME Typed, TunnelSent
  PROVE  /\ Typed' /\ next.side \in Side
         /\ \A d \in DOMAIN aggregate_delay_queue' :
              d \in DOMAIN aggregate_delay_queue \/ d.time >= next.time
         /\ Queues(Other(next.side), "internal", "TunnelRecv", next.contains_padding)
         /\ \E time \in Nat : /\ time >= next.time
                              /\ ReportsAt(Other(next.side), "TunnelRecv", time)
<1> DEFINE side == next.side
           added == AddedDelay(Len(window'[side]), PpsLimit)
<1>1. /\ current_time' \in Nat /\ pc' = "trigger"
      /\ side \in Side /\ next.time \in Nat /\ next.integration_delay \in Nat
      /\ next.contains_padding \in BOOLEAN
  BY AdvanceTyped DEF TunnelSent
<1>2. window' \in [Side -> Seq(Nat)]
  <2>1. WindowAdd(window[side], next.time) \in Seq(Nat)
    BY <1>1, WindowAddTyped DEF Typed
  <2>2. window' = [window EXCEPT ![side] = WindowAdd(window[side], next.time)]
    BY DEF TunnelSent
  <2> QED
    BY <1>1, <2>1, <2>2 DEF Typed
<1>3. added \in Nat
  <2>1. Len(window'[side]) \in Nat
    BY <1>1, <1>2
  <2> QED
    BY <2>1, PpsLimitPositive, AddedDelayTyped
<1>4. /\ aggregate_delay_queue' =
           IF added > 0 /\ DelayPropagates(sq[side], next.time, aggregate_base_delay["client"])
           THEN PushAggregateDelay(aggregate_delay_queue, added, next.time, side)
           ELSE aggregate_delay_queue
      /\ \E delay \in ReportingDelay[Other(side)] :
           sq' = [sq EXCEPT ![Other(side)] =
             Push(@, [Plain("TunnelRecv", Other(side),
                            ReportedAt(next, NetworkDelay + added + delay), delay)
                        EXCEPT !.contains_padding = next.contains_padding])]
  BY DEF TunnelSent
<1> HIDE DEF added, side
<1>5. /\ IsBag(aggregate_delay_queue', PendingAggregateDelay)
      /\ \A d \in DOMAIN aggregate_delay_queue' :
           d \in DOMAIN aggregate_delay_queue \/ d.time >= next.time
  <2>1. IsBag(aggregate_delay_queue, PendingAggregateDelay)
    BY DEF Typed
  <2> QED
    BY <1>1, <1>3, <1>4, <2>1, PushAggregateTyped
<1>6. PICK delay \in ReportingDelay[Other(side)] :
        sq' = [sq EXCEPT ![Other(side)] =
          Push(@, [Plain("TunnelRecv", Other(side),
                         ReportedAt(next, NetworkDelay + added + delay), delay)
                     EXCEPT !.contains_padding = next.contains_padding])]
  BY <1>4
<1> DEFINE time == ReportedAt(next, NetworkDelay + added + delay)
           e == [Plain("TunnelRecv", Other(side), time, delay)
                   EXCEPT !.contains_padding = next.contains_padding]
<1>7. Other(side) \in Side
  BY DEF Other, Side
<1>8. delay \in Nat
  BY <1>7, DelaysTyped
<1>9. time \in Nat /\ time >= next.time
  <2>1. NetworkDelay + added + delay \in Nat
    BY <1>3, <1>8, NetworkAssumption
  <2> QED
    BY <1>1, <2>1 DEF ReportedAt, Later
<1> HIDE DEF time
<1>10. /\ e \in SimEvent /\ e.side = Other(side)
       /\ e.event = "TunnelRecv" /\ e.contains_padding = next.contains_padding
       /\ e.time = time
  BY <1>1, <1>7, <1>8, <1>9 DEF Plain, SimEvent, event_to_usize
<1>11. sq' = AddTo(Other(side), e)
  BY <1>6 DEF time, AddTo
<1> HIDE DEF e
<1>12. QueueOf(e) = "internal"
  BY <1>10 DEF QueueOf
<1>13. Queues(Other(side), "internal", "TunnelRecv", next.contains_padding)
  BY <1>10, <1>11, <1>12 DEF Queues
<1>14. SidesOK(sq')
  BY <1>7, <1>13, QueuesTyped
<1>15. Typed'
  BY <1>1, <1>2, <1>5, <1>14 DEF Typed, TunnelSent, Advance, timers, blocks
<1>16. ReportsAt(Other(side), "TunnelRecv", time)
  BY <1>10, <1>11 DEF ReportsAt
<1> QED
  BY <1>1, <1>5, <1>9, <1>13, <1>15, <1>16 DEF side

(* What leaves the tunnel is reported as a packet or as padding. *)
LEMMA TunnelRecvQueues ==
  ASSUME Typed, TunnelRecv
  PROVE  /\ next.side \in Side
         /\ \E event \in {"PaddingRecv", "NormalRecv"} :
              Queues(next.side, "internal", event, next.contains_padding)
<1> DEFINE event == IF next.contains_padding THEN "PaddingRecv" ELSE "NormalRecv"
           e == [next EXCEPT !.event = event]
<1>1. /\ e \in SimEvent /\ e.side = next.side /\ next.side \in Side
      /\ e.event = event /\ e.contains_padding = next.contains_padding
  BY DEF Typed, SimEvent, event_to_usize
<1>2. sq' = AddTo(next.side, e)
  BY DEF TunnelRecv, AddTo
<1>3. event \in {"PaddingRecv", "NormalRecv"}
  OBVIOUS
<1> HIDE DEF e, event
<1>4. QueueOf(e) = "internal"
  BY <1>1, <1>3 DEF QueueOf
<1> QED
  BY <1>1, <1>2, <1>3, <1>4 DEF Queues

LEMMA TunnelRecvTyped ==
  ASSUME Typed, TunnelRecv
  PROVE  Typed'
<1>1. SidesOK(sq') /\ next.side \in Side
  BY TunnelRecvQueues, QueuesTyped
<1>2. current_time' \in Nat /\ pc' = "trigger"
  BY AdvanceTyped DEF TunnelRecv
<1>3. received' \in [Side -> Nat]
  BY <1>1 DEF Typed, TunnelRecv
<1> QED
  BY <1>1, <1>2, <1>3 DEF Typed, TunnelRecv, Advance, timers, blocks, net

LEMMA NotNetworkTyped ==
  ASSUME Typed, NotNetwork
  PROVE  Typed'
<1>1. PICK e : Advance(e)
  BY DEF NotNetwork
<1>2. current_time' \in Nat /\ pc' = "trigger"
  BY <1>1, AdvanceTyped
<1> QED
  BY <1>1, <1>2 DEF Typed, NotNetwork, Advance, timers, blocks, net

LEMMA SimNetworkStackTyped ==
  ASSUME Typed, SimNetworkStack
  PROVE  Typed'
BY NormalSentTyped, QueuePaddingTyped, DropPaddingTyped, ReplacePaddingTyped,
   TunnelSentTyped, TunnelRecvTyped, NotNetworkTyped DEF SimNetworkStack

(* Reports of timers are added to the internal queue. *)
LEMMA BagUnionTyped ==
  ASSUME NEW S, NEW bag, IsBag(bag, S), NEW E, E \subseteq S, IsFiniteSet(E)
  PROVE  IsBag(bag (+) SetToBag(E), S) /\ DOMAIN (bag (+) SetToBag(E)) = DOMAIN bag \cup E
<1> DEFINE new == bag (+) SetToBag(E)
<1>1. DOMAIN SetToBag(E) = E /\ \A e \in E : SetToBag(E)[e] = 1
  BY DEF SetToBag
<1>2. new = [e \in DOMAIN bag \cup E |->
               (IF e \in DOMAIN bag THEN bag[e] ELSE 0)
               + (IF e \in E THEN SetToBag(E)[e] ELSE 0)]
  BY <1>1 DEF (+)
<1>3. \A e \in DOMAIN bag : bag[e] \in Nat \ {0}
  BY DEF IsBag
<1> HIDE DEF new
<1>4. \A e \in DOMAIN bag \cup E : new[e] \in Nat \ {0}
  BY <1>1, <1>2, <1>3
<1>5. DOMAIN new = DOMAIN bag \cup E
  BY <1>2
<1>6. IsFiniteSet(DOMAIN bag \cup E)
  BY FS_Union DEF IsBag
<1> QED
  BY <1>4, <1>5, <1>6 DEF IsBag, new

Report(queues, E) == [queues EXCEPT !.internal = @ (+) SetToBag(E)]

LEMMA InternalKeeps ==
  ASSUME NEW side, NEW queues, SideOK(queues, side),
         NEW E, E \subseteq SimEvent, IsFiniteSet(E),
         \A e \in E : e.side = side /\ QueueOf(e) = "internal"
  PROVE  SideOK(Report(queues, E), side)
<1> DEFINE heap == queues["internal"] (+) SetToBag(E)
           new  == [queues EXCEPT !["internal"] = heap]
<1>1. IsBag(heap, SimEvent) /\ DOMAIN heap = DOMAIN queues["internal"] \cup E
  <2>1. IsBag(queues["internal"], SimEvent)
    BY DEF SideOK, Queue
  <2> DEFINE bag == queues["internal"]
  <2> HIDE DEF bag
  <2>2. IsBag(bag, SimEvent)
    BY <2>1 DEF bag
  <2>3. IsBag(bag (+) SetToBag(E), SimEvent)
    BY <2>2, BagUnionTyped
  <2>4. DOMAIN (bag (+) SetToBag(E)) = DOMAIN bag \cup E
    BY DEF (+), SetToBag
  <2> QED
    BY <2>3, <2>4 DEF bag
<1> HIDE DEF heap
<1>2. /\ new = [q \in Queue |-> new[q]]
      /\ new["internal"] = heap
      /\ \A q \in Queue \ {"internal"} : new[q] = queues[q]
  BY DEF SideOK, Queue
<1> HIDE DEF new
<1>3. \A q \in Queue : IsBag(new[q], SimEvent)
  BY <1>1, <1>2 DEF SideOK
<1>4. ASSUME NEW q \in Queue, NEW e \in DOMAIN new[q]
      PROVE  e.side = side /\ QueueOf(e) = q
  <2>1. CASE q = "internal"
    BY <1>1, <1>2, <2>1 DEF SideOK
  <2>2. CASE q # "internal"
    BY <1>2, <2>2 DEF SideOK
  <2> QED
    BY <2>1, <2>2
<1>5. SideOK(new, side)
  BY <1>2, <1>3, <1>4 DEF SideOK
<1> QED
  BY <1>5 DEF new, heap, Report

(* What the frameworks answer, and what becomes of it. *)
LEMMA AnswersTyped ==
  ASSUME Typed, NEW f \in Answers
  PROVE  /\ next.side \in Side
         /\ \A m \in MachineId : f[m] \in TriggerAction
         /\ answers + Cardinality({m \in MachineId : f[m] # NoAction}) \in 0 .. MaxActions
<1>1. next.side \in Side /\ next.event \in DOMAIN event_to_usize
  BY DEF Typed, SimEvent
<1>2. NoAction \in TriggerAction
  BY DEF NoAction, TriggerAction
<1>3. \A m \in MachineId : f[m] \in {NoAction} \cup Response(next.side, m, next.event)
  BY DEF Answers
<1>4. \A m \in MachineId : f[m] \in TriggerAction
  BY <1>1, <1>2, <1>3, SimulatorAssumption
<1> DEFINE K == {m \in MachineId : f[m] # NoAction}
<1>5. answers + Cardinality(K) <= MaxActions
  BY DEF Answers
<1>6. Cardinality(K) \in Nat
  <2>1. IsFiniteSet(MachineId)
    BY FS_Interval, SimQueueAssumption DEF MachineId
  <2>2. IsFiniteSet(K)
    BY <2>1, FS_Subset
  <2> QED
    BY <2>2, FS_CardinalityType
<1>7. answers \in Nat /\ MaxActions \in Nat
  BY SimulatorAssumption DEF Typed
<1> HIDE DEF K
<1>8. answers + Cardinality(K) \in 0 .. MaxActions
  BY <1>5, <1>6, <1>7
<1> QED
  BY <1>1, <1>4, <1>8 DEF K

LEMMA ActionTimerTyped ==
  ASSUME Typed, next.side \in Side, NEW m \in MachineId,
         NEW a \in TriggerAction, NEW delay \in Nat
  PROVE  /\ ActionTimer(m, a, delay) \in Slot
         /\ \/ ActionTimer(m, a, delay) = NoScheduled
            \/ ActionTimer(m, a, delay) = scheduled_action[next.side][m]
            \/ ActionTimer(m, a, delay).time >= current_time
<1>1. scheduled_action[next.side][m] \in Slot /\ NoScheduled \in Slot
  BY DEF Typed, Slot
<1>2. CASE a.kind \in {"SendPadding", "BlockOutgoing"}
  <2>1. current_time \in Nat /\ a.timeout \in Nat
    BY DEF Typed, TriggerAction
  <2>2. current_time + a.timeout + delay \in Nat
        /\ current_time + a.timeout + delay >= current_time
    BY <2>1
  <2>3. ActionTimer(m, a, delay) = [action |-> a, time |-> current_time + a.timeout + delay]
    BY <1>2 DEF ActionTimer
  <2> QED
    BY <1>2, <2>2, <2>3 DEF Slot
<1>3. CASE a.kind \notin {"SendPadding", "BlockOutgoing"}
  BY <1>1, <1>3 DEF ActionTimer
<1> QED
  BY <1>2, <1>3

LEMMA InternalTimerTyped ==
  ASSUME Typed, next.side \in Side, NEW m \in MachineId, NEW a \in TriggerAction
  PROVE  /\ InternalTimer(m, a) \in Nat \cup {None}
         /\ \/ InternalTimer(m, a) = None
            \/ InternalTimer(m, a) = scheduled_internal_timer[next.side][m]
            \/ InternalTimer(m, a) >= current_time
<1>1. /\ scheduled_internal_timer[next.side][m] \in Nat \cup {None}
      /\ current_time \in Nat /\ a.duration \in Nat
  BY DEF Typed, TriggerAction
<1>2. current_time + a.duration \in Nat /\ current_time + a.duration >= current_time
  BY <1>1
<1> QED
  BY <1>1, <1>2 DEF InternalTimer

(* What trigger_update adds to the queues. *)
ReportTo(side, E) == [sq EXCEPT ![side] = Report(@, E)]

LEMMA TimersReported ==
  ASSUME Typed, TriggerUpdate
  PROVE  /\ next.side \in Side
         /\ \E E : /\ E \subseteq SimEvent /\ IsFiniteSet(E)
                   /\ \A e \in E : /\ e.side = next.side /\ e.event = "TimerBegin"
                                    /\ e.time = current_time
                   /\ sq' = ReportTo(next.side, E)
<1>1. PICK f \in Answers :
        sq' = [sq EXCEPT ![next.side].internal =
          @ (+) SetToBag({TimerBegin(m) : m \in {k \in MachineId : SetsTimer(k, f[k])}})]
  BY DEF TriggerUpdate
<1> DEFINE E == {TimerBegin(m) : m \in {k \in MachineId : SetsTimer(k, f[k])}}
<1>2. next.side \in Side
  BY DEF Typed, SimEvent
<1>3. \A m \in MachineId :
        /\ TimerBegin(m) \in SimEvent /\ TimerBegin(m).side = next.side
        /\ TimerBegin(m).event = "TimerBegin" /\ TimerBegin(m).time = current_time
  BY <1>2 DEF Typed, TimerBegin, Plain, SimEvent, event_to_usize
<1>4. /\ E \subseteq SimEvent
      /\ \A e \in E : e.side = next.side /\ e.event = "TimerBegin" /\ e.time = current_time
  BY <1>3
<1>5. IsFiniteSet(E)
  <2> DEFINE g == [m \in MachineId |-> TimerBegin(m)]
  <2>1. IsFiniteSet(MachineId)
    BY FS_Interval, SimQueueAssumption DEF MachineId
  <2>2. E \subseteq {g[m] : m \in DOMAIN g}
    OBVIOUS
  <2>3. IsFiniteSet(DOMAIN g)
    BY <2>1
  <2> HIDE DEF E, g
  <2> QED
    BY <2>2, <2>3, ImageIsFinite
<1>6. sq' = ReportTo(next.side, E)
  BY <1>1 DEF ReportTo, Report
<1> HIDE DEF E
<1> QED
  BY <1>2, <1>4, <1>5, <1>6

LEMMA TriggerUpdateTyped ==
  ASSUME Typed, TriggerUpdate
  PROVE  Typed'
<1>1. PICK f \in Answers, delay \in TriggerDelay[next.side] :
        /\ scheduled_action' = [scheduled_action EXCEPT ![next.side] =
             [m \in MachineId |-> ActionTimer(m, f[m], delay)]]
        /\ scheduled_internal_timer' = [scheduled_internal_timer EXCEPT ![next.side] =
             [m \in MachineId |-> InternalTimer(m, f[m])]]
        /\ sq' = [sq EXCEPT ![next.side].internal =
             @ (+) SetToBag({TimerBegin(m) : m \in {k \in MachineId : SetsTimer(k, f[k])}})]
        /\ answers' = answers + Cardinality({m \in MachineId : f[m] # NoAction})
  BY DEF TriggerUpdate
<1>2. /\ next.side \in Side
      /\ \A m \in MachineId : f[m] \in TriggerAction
      /\ answers' \in 0 .. MaxActions
  BY <1>1, AnswersTyped
<1>3. delay \in Nat
  BY <1>2, DelaysTyped
<1>4. scheduled_action' \in [Side -> [MachineId -> Slot]]
  <2>1. \A m \in MachineId : ActionTimer(m, f[m], delay) \in Slot
    BY <1>2, <1>3, ActionTimerTyped
  <2> QED
    BY <1>1, <1>2, <2>1 DEF Typed
<1>5. scheduled_internal_timer' \in [Side -> [MachineId -> Nat \cup {None}]]
  <2>1. \A m \in MachineId : InternalTimer(m, f[m]) \in Nat \cup {None}
    BY <1>2, InternalTimerTyped
  <2> QED
    BY <1>1, <1>2, <2>1 DEF Typed
<1>6. SidesOK(sq')
  <2>1. PICK E : /\ E \subseteq SimEvent /\ IsFiniteSet(E)
                 /\ \A e \in E : e.side = next.side /\ e.event = "TimerBegin"
                 /\ sq' = ReportTo(next.side, E)
    BY TimersReported
  <2> DEFINE queues == sq[next.side]
             new == Report(queues, E)
  <2>2. \A e \in E : e.side = next.side /\ QueueOf(e) = "internal"
    BY <2>1 DEF QueueOf
  <2>3. SideOK(queues, next.side)
    BY <1>2 DEF Typed, SidesOK
  <2>4. sq' = [sq EXCEPT ![next.side] = new]
    BY <2>1 DEF ReportTo
  <2> HIDE DEF queues
  <2>5. SideOK(new, next.side)
    BY <2>1, <2>2, <2>3, InternalKeeps
  <2> HIDE DEF new
  <2> QED
    BY <1>2, <2>4, <2>5, SideChanges DEF Typed
<1>7. blocking_active' \in [Side -> BOOLEAN]
  BY <1>2 DEF Typed, TriggerUpdate
<1>8. pc' \in {"pick", "network", "trigger", "done"}
  BY DEF TriggerUpdate
<1>9. next' \in SimEvent /\ due' \in Nat
  BY DEF TriggerUpdate, NoEvent, Plain, SimEvent, Side, event_to_usize
<1> QED
  BY <1>2, <1>4, <1>5, <1>6, <1>7, <1>8, <1>9 DEF Typed, TriggerUpdate, blocks, net

LEMMA InitTyped == Init => Typed
<1> SUFFICES ASSUME Init PROVE Typed
  OBVIOUS
<1>1. PICK delays \in [DOMAIN trace -> UNION {ReportingDelay[s] : s \in Side}] :
        sq = ParseTrace(trace, delays)
  BY DEF Init
<1>2. trace \in Traces
  BY DEF Init
<1>3. \A k \in DOMAIN trace : delays[k] \in Nat
  BY DelaysTyped
<1>4. SidesOK(sq) /\ FirstBaseTime(sq) \in Nat
  BY <1>1, <1>2, <1>3, ParseTyped
<1>5. NoEvent \in SimEvent
  BY DEF NoEvent, Plain, SimEvent, Side, event_to_usize
<1>6. IsBag(aggregate_delay_queue, PendingAggregateDelay)
  BY FS_EmptySet DEF Init, IsBag
<1>7. scheduled_action \in [Side -> [MachineId -> Slot]]
  BY DEF Init, Slot
<1>8. answers \in 0 .. MaxActions
  BY SimulatorAssumption DEF Init
<1>9. window \in [Side -> Seq(Nat)]
  BY DEF Init
<1> QED
  BY <1>2, <1>4, <1>5, <1>6, <1>7, <1>8, <1>9 DEF Init, Typed

LEMMA StepTyped == Typed /\ [Next]_vars => Typed'
<1> SUFFICES ASSUME Typed, [Next]_vars PROVE Typed'
  OBVIOUS
<1>1. CASE PickNext
  BY <1>1, PickNextTyped
<1>2. CASE SimNetworkStack
  BY <1>2, SimNetworkStackTyped
<1>3. CASE TriggerUpdate
  BY <1>3, TriggerUpdateTyped
<1>4. CASE UNCHANGED vars
  BY <1>4 DEF Typed, vars, timers, blocks, net, history
<1> QED
  BY <1>1, <1>2, <1>3, <1>4 DEF Next, Run, Finished

LEMMA AlwaysTyped == Spec => []Typed
<1> QED
  BY InitTyped, StepTyped, PTL DEF Spec

(* The variables keep their types, and every event is in the queue of its
   side and kind.                                                          *)
THEOREM SimulatorTypeCorrect == Spec => []TypeOK
<1> QED
  BY AlwaysTyped, TypedIsTypeOK, PTL

-----------------------------------------------------------------------------
(***************************************************************************)
(* Blocking fails closed.  A packet for the tunnel is picked only if the   *)
(* peek let it pass, and not because its block would be over by then: the  *)
(* end of the block would have been picked first.                          *)
(***************************************************************************)
LEMMA PickQueueFailsClosed ==
  ASSUME Typed, PickQueue(Peeks)
  PROVE  FailClosed'
<1> DEFINE p == Peeks.queue
<1>1. /\ p.side \in Side /\ next'.side = p.side
      /\ Passes(blocking_until, blocking_bypassable, current_time, p)
  BY QueuePicked
<1>2. PICK top : /\ QueueOf(top) = p.queue
                 /\ next'.event = top.event /\ next'.bypass = top.bypass
  BY QueuePicked
<1>3. UNCHANGED <<blocking_until, blocking_bypassable>>
  BY DEF PickQueue, blocks
<1> SUFFICES ASSUME next'.event = "TunnelSent", blocking_until[p.side] # None
             PROVE  next'.bypass /\ blocking_bypassable[p.side]
  BY <1>1, <1>3 DEF FailClosed
<1>4. p.duration < Peeks.expiry.duration
  BY PeeksSound, QueueAhead DEF PickQueue
<1>5. Peeks.expiry.duration <= Since(blocking_until[p.side], current_time)
  BY <1>1, PeekBlockedExpSound DEF Peeks, Expiry, Typed
<1>6. ~(Since(blocking_until[p.side], current_time) <= p.duration)
  <2>1. /\ p.duration \in Nat /\ Peeks.expiry.duration \in Nat
        /\ Since(blocking_until[p.side], current_time) \in Nat
    <3>1. p.duration \in 0 .. DURATION_MAX /\ Peeks.expiry.duration \in 0 .. DURATION_MAX
      BY PeeksSound DEF PeeksTyped
    <3>2. blocking_until[p.side] \in Nat /\ current_time \in Nat
      BY <1>1 DEF Typed
    <3> HIDE DEF p
    <3>3. Since(blocking_until[p.side], current_time) \in Nat
      BY <3>2, SinceTyped
    <3> QED
      BY <3>1, <3>3, SimQueueAssumption
  <2> HIDE DEF p
  <2> QED
    BY <1>4, <1>5, <2>1
<1>7. p.queue \in {"blocking", "bypassable"} /\ (p.queue = "bypassable" => top.bypass)
  BY <1>2 DEF QueueOf
<1> QED
  BY <1>1, <1>2, <1>6, <1>7 DEF Passes

LEMMA StepFailsClosed ==
  ASSUME Typed, FailClosed, [Next]_vars
  PROVE  FailClosed'
<1>1. CASE PickNext
  <2>1. CASE PickQueue(Peeks)
    BY <2>1, PickQueueFailsClosed
  <2>2. CASE PickExpiry(Peeks)
    <3>1. pc = "pick" /\ (pc' = pc \/ next'.event = "BlockingEnd")
      BY <1>1, <2>2 DEF PickNext, PickExpiry, Plain
    <3> QED
      BY <3>1 DEF FailClosed
  <2>3. CASE \/ PickNothing(Peeks) \/ PickAggregateDelay(Peeks)
             \/ PickTimer(Peeks) \/ PickAction(Peeks)
    <3>1. pc' # "network"
      BY <1>1, <2>3 DEF PickNext, PickNothing, PickAggregateDelay, PickTimer, PickAction
    <3> QED
      BY <3>1 DEF FailClosed
  <2> QED
    BY <1>1, <2>1, <2>2, <2>3 DEF PickNext
<1>2. CASE SimNetworkStack
  <2>1. pc' = "trigger"
    BY <1>2 DEF SimNetworkStack, NormalSent, QueuePadding, DropPadding, ReplacePadding,
                TunnelSent, TunnelRecv, NotNetwork, Advance
  <2> QED
    BY <2>1 DEF FailClosed
<1>3. CASE TriggerUpdate
  BY <1>3 DEF TriggerUpdate, FailClosed
<1>4. CASE UNCHANGED vars
  BY <1>4 DEF FailClosed, vars, blocks
<1> QED
  BY <1>1, <1>2, <1>3, <1>4 DEF Next, Run, Finished

(* No packet leaves its queue while its side is blocked, unless both the
   packet and the block permit it.                                         *)
THEOREM BlockingFailsClosed == Spec => []FailClosed
<1>1. Init => FailClosed
  BY DEF Init, FailClosed
<1>2. Typed /\ FailClosed /\ [Next]_vars => FailClosed'
  BY StepFailsClosed
<1> QED
  BY <1>1, <1>2, AlwaysTyped, PTL DEF Spec

-----------------------------------------------------------------------------
(***************************************************************************)
(* Nothing is passed over.  The time that counts is that of the event      *)
(* picked as soon as there is one: nothing that is scheduled is before it. *)
(***************************************************************************)
Horizon == IF pc = "network" THEN next.time ELSE current_time

ActionsFrom(actions, t) ==
  \A side \in Side, m \in MachineId :
    actions[side][m] # NoScheduled => actions[side][m].time >= t

TimersFrom(internal, t) ==
  \A side \in Side, m \in MachineId :
    internal[side][m] # None => internal[side][m] >= t

BlocksFrom(until, t) == \A side \in Side : until[side] # None => until[side] >= t

PendingFrom(pending, t) == \A d \in DOMAIN pending : d.time >= t

From(t) ==
  /\ ActionsFrom(scheduled_action, t) /\ TimersFrom(scheduled_internal_timer, t)
  /\ BlocksFrom(blocking_until, t) /\ PendingFrom(aggregate_delay_queue, t)

Ahead == Horizon >= current_time /\ From(Horizon)

LEMMA AheadIsNothingPassedOver ==
  ASSUME Typed, Ahead
  PROVE  NothingPassedOver
<1>1. Horizon \in Nat /\ current_time \in Nat /\ Horizon >= current_time
  BY DEF Typed, SimEvent, Horizon, Ahead
<1>2. \A t \in Nat : t >= Horizon => t >= current_time
  BY <1>1
<1>3. ASSUME NEW side \in Side, NEW m \in Scheduled(side)
      PROVE  scheduled_action[side][m].time >= current_time
  <2>1. scheduled_action[side][m].time \in Nat
    BY DEF Typed, Slot, Scheduled
  <2> QED
    BY <1>2, <2>1 DEF Ahead, From, ActionsFrom, Scheduled
<1>4. ASSUME NEW side \in Side, NEW m \in TimerSet(side)
      PROVE  scheduled_internal_timer[side][m] >= current_time
  <2>1. scheduled_internal_timer[side][m] \in Nat
    BY DEF Typed, TimerSet
  <2> QED
    BY <1>2, <2>1 DEF Ahead, From, TimersFrom, TimerSet
<1>5. ASSUME NEW side \in Side, blocking_until[side] # None
      PROVE  blocking_until[side] >= current_time
  <2>1. blocking_until[side] \in Nat
    BY <1>5 DEF Typed
  <2> QED
    BY <1>2, <1>5, <2>1 DEF Ahead, From, BlocksFrom
<1>6. ASSUME NEW d \in DOMAIN aggregate_delay_queue
      PROVE  d.time >= current_time
  <2>1. d.time \in Nat
    BY DEF Typed, IsBag, PendingAggregateDelay
  <2> QED
    BY <1>2, <2>1 DEF Ahead, From, PendingFrom
<1>7. pc = "network" => next.time >= current_time
  BY <1>1 DEF Horizon
<1> QED
  BY <1>3, <1>4, <1>5, <1>6, <1>7 DEF NothingPassedOver

(* Nothing is before what is picked of the peeks. *)
LEMMA PeeksFrom ==
  ASSUME Typed, From(current_time), NEW d \in Nat,
         d <= Peeks.action, d <= Peeks.timer, d <= Peeks.expiry.duration, d <= Peeks.aggregate
  PROVE  From(current_time + d)
<1>1. \A t, n \in Nat : t >= current_time + n /\ d <= n => t >= current_time + d
  BY DEF Typed
<1>2. /\ Peeks.action \in Nat /\ Peeks.timer \in Nat
      /\ Peeks.expiry.duration \in Nat /\ Peeks.aggregate \in Nat
  <2>1. PeeksTyped(Peeks)
    BY PeeksSound
  <2>2. 0 .. DURATION_MAX \subseteq Nat
    BY SimQueueAssumption
  <2> QED
    BY <2>1, <2>2 DEF PeeksTyped
<1>3. ASSUME NEW side \in Side, NEW m \in MachineId, scheduled_action[side][m] # NoScheduled
      PROVE  scheduled_action[side][m].time >= current_time + d
  <2>1. m \in Scheduled(side) /\ scheduled_action[side][m].time \in Nat
    BY <1>3 DEF Typed, Slot, Scheduled
  <2>2. scheduled_action[side][m].time >= current_time
    BY <1>3 DEF From, ActionsFrom
  <2>3. scheduled_action[side][m].time >= current_time + Peeks.action
    BY <2>1, <2>2, ScheduledInSound DEF Peeks
  <2> QED
    BY <1>1, <1>2, <2>1, <2>3
<1>4. ASSUME NEW side \in Side, NEW m \in MachineId, scheduled_internal_timer[side][m] # None
      PROVE  scheduled_internal_timer[side][m] >= current_time + d
  <2>1. m \in TimerSet(side) /\ scheduled_internal_timer[side][m] \in Nat
    BY <1>4 DEF Typed, TimerSet
  <2>2. scheduled_internal_timer[side][m] >= current_time
    BY <1>4 DEF From, TimersFrom
  <2>3. scheduled_internal_timer[side][m] >= current_time + Peeks.timer
    BY <2>1, <2>2, TimerInSound DEF Peeks
  <2> QED
    BY <1>1, <1>2, <2>1, <2>3
<1>5. ASSUME NEW side \in Side, blocking_until[side] # None
      PROVE  blocking_until[side] >= current_time + d
  <2>1. blocking_until[side] \in Nat
    BY <1>5 DEF Typed
  <2>2. blocking_until[side] >= current_time
    BY <1>5 DEF From, BlocksFrom
  <2>3. blocking_until[side] >= current_time + Peeks.expiry.duration
    BY <1>5, <2>2, PeekBlockedExpSound DEF Typed, Peeks, Expiry
  <2> QED
    BY <1>1, <1>2, <2>1, <2>3
<1>6. ASSUME NEW e \in DOMAIN aggregate_delay_queue
      PROVE  e.time >= current_time + d
  <2>1. e.time \in Nat
    BY DEF Typed, IsBag, PendingAggregateDelay
  <2>2. e.time >= current_time
    BY DEF From, PendingFrom
  <2>3. e.time >= current_time + Peeks.aggregate
    BY <2>2, PeekAggregateDelaySound DEF Typed, Peeks, AggregateIn
  <2> QED
    BY <1>1, <1>2, <2>1, <2>3
<1> QED
  BY <1>3, <1>4, <1>5, <1>6 DEF From, ActionsFrom, TimersFrom, BlocksFrom, PendingFrom

(* The end of a block that is picked is where the block ends. *)
LEMMA PickExpiryAhead ==
  ASSUME Typed, Ahead, pc = "pick", PickExpiry(Peeks)
  PROVE  Ahead'
<1> DEFINE side   == Peeks.expiry.side
           expiry == current_time + Peeks.expiry.duration
<1>1. /\ side \in Side /\ Peeks.expiry.duration \in Nat
      /\ current_time \in Nat /\ expiry \in Nat /\ expiry >= current_time
  <2>1. side \in Side /\ Peeks.expiry.duration \in 0 .. DURATION_MAX
    BY PeeksSound DEF PeeksTyped
  <2>2. current_time \in Nat
    BY DEF Typed
  <2>3. Peeks.expiry.duration \in Nat
    BY <2>1, SimQueueAssumption
  <2> QED
    BY <2>1, <2>2, <2>3
<1>2. From(current_time)
  BY DEF Ahead, Horizon
<1>3. From(expiry)
  <2>1. /\ Peeks.expiry.duration <= Peeks.action /\ Peeks.expiry.duration <= Peeks.timer
        /\ Peeks.expiry.duration < Peeks.aggregate
    BY PeeksSound, ExpiryAhead DEF PickExpiry
  <2>2. Peeks.aggregate \in Nat
    BY PeeksSound, SimQueueAssumption DEF PeeksTyped
  <2>3. /\ Peeks.expiry.duration <= Peeks.aggregate
        /\ Peeks.expiry.duration <= Peeks.expiry.duration
    BY <1>1, <2>1, <2>2
  <2> QED
    BY <1>1, <1>2, <2>1, <2>3, PeeksFrom
<1>4. PICK delay \in ReportingDelay[side] :
        LET e == Plain("BlockingEnd", side, expiry + delay, delay)
        IN  IF delay > 0
            THEN UNCHANGED pc
            ELSE pc' = "network" /\ next' = e
  BY DEF PickExpiry
<1>5. /\ blocking_until' = [blocking_until EXCEPT ![side] = None]
      /\ aggregate_delay_queue' =
           PushIfAny(aggregate_delay_queue, ExpiryDelay(side, expiry), expiry, side)
      /\ UNCHANGED <<current_time, scheduled_action, scheduled_internal_timer>>
  BY DEF PickExpiry, timers
<1> HIDE DEF side, expiry
<1>6. delay \in Nat
  BY <1>1, DelaysTyped
<1>7. Horizon' = current_time \/ Horizon' = expiry
  <2>1. CASE delay > 0
    BY <1>4, <1>5, <2>1 DEF Horizon
  <2>2. CASE ~(delay > 0)
    <3>1. delay = 0
      BY <1>6, <2>2
    <3>2. expiry + delay = expiry
      BY <1>1, <3>1
    <3> QED
      BY <1>4, <2>2, <3>2 DEF Horizon, Plain
  <2> QED
    BY <2>1, <2>2
<1>8. PICK t : t = Horizon' /\ t \in Nat /\ t >= current_time /\ t <= expiry /\ From(t)
  BY <1>1, <1>2, <1>3, <1>7
<1>9. PendingFrom(aggregate_delay_queue', t)
  <2>1. \A x \in DOMAIN aggregate_delay_queue' :
          x \in DOMAIN aggregate_delay_queue \/ x.time >= expiry
    <3>1. ExpiryDelay(side, expiry) \in Nat \cup {None}
      BY <1>1, ExpiryDelayTyped DEF Typed
    <3> QED
      BY <1>1, <1>5, <3>1, PushIfAnyTyped DEF Typed
  <2>2. \A x \in DOMAIN aggregate_delay_queue' : x.time \in Nat
    <3>1. Typed'
      BY PickExpiryTyped
    <3> QED
      BY <3>1 DEF Typed, IsBag, PendingAggregateDelay
  <2>3. \A n \in Nat : n >= expiry => n >= t
    BY <1>1, <1>8
  <2> QED
    BY <1>8, <2>1, <2>2, <2>3 DEF From, PendingFrom
<1>10. BlocksFrom(blocking_until', t)
  BY <1>1, <1>5, <1>8 DEF From, BlocksFrom, Typed
<1> QED
  BY <1>5, <1>8, <1>9, <1>10 DEF Ahead, From

(* The time moves to the event picked, and nothing is before that. *)
LEMMA PickQueueAhead ==
  ASSUME Typed, Ahead, pc = "pick", PickQueue(Peeks)
  PROVE  Ahead'
<1> DEFINE d == Peeks.queue.duration
<1>1. /\ d \in Nat /\ Peeks.aggregate \in Nat /\ Peeks.expiry.duration \in Nat
      /\ current_time \in Nat
  <2>1. PeeksTyped(Peeks)
    BY PeeksSound
  <2>2. 0 .. DURATION_MAX \subseteq Nat
    BY SimQueueAssumption
  <2> QED
    BY <2>1, <2>2 DEF PeeksTyped, Typed
<1>2. From(current_time)
  BY DEF Ahead, Horizon
<1>3. /\ d < Peeks.expiry.duration /\ d < Peeks.aggregate
      /\ d <= Peeks.action /\ d <= Peeks.timer
  BY PeeksSound, QueueAhead DEF PickQueue
<1>4. next'.time = current_time + d
  BY QueuePicked
<1> HIDE DEF d
<1>5. From(current_time + d)
  <2>1. d <= Peeks.expiry.duration /\ d <= Peeks.aggregate
    BY <1>1, <1>3
  <2> QED
    BY <1>1, <1>2, <1>3, <2>1, PeeksFrom
<1>6. /\ pc' = "network"
      /\ UNCHANGED <<current_time, scheduled_action, scheduled_internal_timer,
                     blocking_until, aggregate_delay_queue>>
  BY DEF PickQueue, timers, blocks, net
<1>7. Horizon' = current_time + d
  BY <1>4, <1>6 DEF Horizon
<1> QED
  BY <1>1, <1>5, <1>6, <1>7 DEF Ahead, From

LEMMA PickActionAhead ==
  ASSUME Typed, Ahead, pc = "pick", PickAction(Peeks)
  PROVE  Ahead'
<1>1. PICK side \in Side, m \in MachineId :
        LET a == scheduled_action[side][m] IN
        /\ a \in Slot /\ a # NoScheduled /\ a.time = current_time + Peeks.action
        /\ scheduled_action' = [scheduled_action EXCEPT ![side][m] = NoScheduled]
        /\ SendPadding(side, m, a) \/ BlockOutgoing(side, m, a)
  BY ActionPicked
<1> DEFINE a == scheduled_action[side][m]
<1>2. From(current_time)
  BY DEF Ahead, Horizon
<1>3. ActionsFrom(scheduled_action', current_time)
  BY <1>1, <1>2 DEF From, ActionsFrom, Typed
<1>4. a.time >= current_time /\ a.time \in Nat /\ a.action.duration \in Nat
  BY <1>1, <1>2 DEF From, ActionsFrom, Slot, TriggerAction
<1>5. BlocksFrom(blocking_until', current_time)
  <2>1. current_time \in Nat /\ a.time + a.action.duration >= current_time
    BY <1>4 DEF Typed
  <2>2. blocking_until' \in {blocking_until,
          [blocking_until EXCEPT ![side] = a.time + a.action.duration]}
    BY <1>1 DEF SendPadding, BlockOutgoing, blocks
  <2> HIDE DEF a
  <2> QED
    BY <1>2, <2>1, <2>2 DEF From, BlocksFrom, Typed
<1>6. UNCHANGED <<current_time, scheduled_internal_timer, aggregate_delay_queue, pc>>
  BY DEF PickAction, net
<1>7. Horizon' = current_time /\ current_time >= current_time
  BY <1>6 DEF Horizon, Typed
<1> QED
  BY <1>2, <1>3, <1>5, <1>6, <1>7 DEF Ahead, From

LEMMA PickTimerAhead ==
  ASSUME Typed, Ahead, pc = "pick", PickTimer(Peeks)
  PROVE  Ahead'
<1>1. From(current_time)
  BY DEF Ahead, Horizon
<1>2. PICK side, m : scheduled_internal_timer' =
                       [scheduled_internal_timer EXCEPT ![side][m] = None]
  BY DEF PickTimer
<1>3. TimersFrom(scheduled_internal_timer', current_time)
  BY <1>1, <1>2 DEF From, TimersFrom, Typed
<1>4. UNCHANGED <<current_time, scheduled_action, blocking_until, aggregate_delay_queue, pc>>
  BY DEF PickTimer, net, blocks
<1>5. Horizon' = current_time /\ current_time >= current_time
  BY <1>4 DEF Horizon, Typed
<1> QED
  BY <1>1, <1>3, <1>4, <1>5 DEF Ahead, From

LEMMA PickNextAhead ==
  ASSUME Typed, Ahead, PickNext
  PROVE  Ahead'
<1>1. pc = "pick" /\ current_time \in Nat
  BY DEF PickNext, Typed
<1>2. From(current_time) /\ current_time >= current_time
  BY <1>1 DEF Ahead, Horizon
<1>3. CASE PickNothing(Peeks)
  <2>1. /\ UNCHANGED <<current_time, scheduled_action, scheduled_internal_timer,
                       blocking_until, aggregate_delay_queue>>
        /\ pc' = "done"
    BY <1>3 DEF PickNothing, timers, blocks, net
  <2> QED
    BY <1>2, <2>1 DEF Ahead, From, Horizon
<1>4. CASE PickAggregateDelay(Peeks)
  <2>1. PICK d : aggregate_delay_queue' = BagRemove(aggregate_delay_queue, d)
    BY <1>4 DEF PickAggregateDelay
  <2>2. DOMAIN aggregate_delay_queue' \subseteq DOMAIN aggregate_delay_queue
    BY <2>1, BagRemoveTyped DEF Typed
  <2>3. PendingFrom(aggregate_delay_queue', current_time)
    BY <1>2, <2>2 DEF From, PendingFrom
  <2>4. UNCHANGED <<current_time, scheduled_action, scheduled_internal_timer,
                    blocking_until, pc>>
    BY <1>4 DEF PickAggregateDelay, timers, blocks
  <2> QED
    BY <1>1, <1>2, <2>3, <2>4 DEF Ahead, From, Horizon
<1> QED
  BY <1>1, <1>3, <1>4, PickExpiryAhead, PickQueueAhead, PickTimerAhead, PickActionAhead
     DEF PickNext

LEMMA SimNetworkStackAhead ==
  ASSUME Typed, Ahead, SimNetworkStack
  PROVE  Ahead'
<1>1. /\ pc = "network" /\ pc' = "trigger" /\ current_time' = next.time
      /\ UNCHANGED <<scheduled_action, scheduled_internal_timer, blocking_until>>
  BY DEF SimNetworkStack, NormalSent, QueuePadding, DropPadding, ReplacePadding,
         TunnelSent, TunnelRecv, NotNetwork, Advance, timers, blocks
<1>2. From(next.time) /\ next.time \in Nat
  BY <1>1 DEF Ahead, Horizon, Typed, SimEvent
<1>3. PendingFrom(aggregate_delay_queue', next.time)
  <2>1. CASE UNCHANGED aggregate_delay_queue
    BY <1>2, <2>1 DEF From
  <2>2. CASE ReplacePadding \/ TunnelSent
    <3>1. \A d \in DOMAIN aggregate_delay_queue' :
            d \in DOMAIN aggregate_delay_queue \/ d.time >= next.time
      BY <2>2, ReplacePaddingTyped, TunnelSentTyped
    <3> QED
      BY <1>2, <3>1 DEF From, PendingFrom
  <2> QED
    BY <2>1, <2>2 DEF SimNetworkStack, NormalSent, QueuePadding, DropPadding,
                      TunnelRecv, NotNetwork, net
<1>4. Horizon' = next.time /\ next.time >= next.time
  BY <1>1, <1>2 DEF Horizon
<1> QED
  BY <1>1, <1>2, <1>3, <1>4 DEF Ahead, From

LEMMA TriggerUpdateAhead ==
  ASSUME Typed, Ahead, TriggerUpdate
  PROVE  Ahead'
<1>1. PICK f \in Answers, delay \in TriggerDelay[next.side] :
        /\ scheduled_action' = [scheduled_action EXCEPT ![next.side] =
             [m \in MachineId |-> ActionTimer(m, f[m], delay)]]
        /\ scheduled_internal_timer' = [scheduled_internal_timer EXCEPT ![next.side] =
             [m \in MachineId |-> InternalTimer(m, f[m])]]
  BY DEF TriggerUpdate
<1>2. /\ next.side \in Side
      /\ \A m \in MachineId : f[m] \in TriggerAction
  BY AnswersTyped
<1>3. delay \in Nat
  BY <1>2, DelaysTyped
<1>4. From(current_time) /\ current_time \in Nat
  BY DEF TriggerUpdate, Ahead, Horizon, Typed
<1>5. ActionsFrom(scheduled_action', current_time)
  <2>1. ASSUME NEW m \in MachineId, ActionTimer(m, f[m], delay) # NoScheduled
        PROVE  ActionTimer(m, f[m], delay).time >= current_time
    <3>1. \/ ActionTimer(m, f[m], delay) = scheduled_action[next.side][m]
          \/ ActionTimer(m, f[m], delay).time >= current_time
      BY <1>2, <1>3, <2>1, ActionTimerTyped
    <3> QED
      BY <1>2, <1>4, <2>1, <3>1 DEF From, ActionsFrom
  <2> QED
    BY <1>1, <1>2, <1>4, <2>1 DEF From, ActionsFrom, Typed
<1>6. TimersFrom(scheduled_internal_timer', current_time)
  <2>1. ASSUME NEW m \in MachineId, InternalTimer(m, f[m]) # None
        PROVE  InternalTimer(m, f[m]) >= current_time
    <3>1. \/ InternalTimer(m, f[m]) = scheduled_internal_timer[next.side][m]
          \/ InternalTimer(m, f[m]) >= current_time
      BY <1>2, <2>1, InternalTimerTyped
    <3> QED
      BY <1>2, <1>4, <2>1, <3>1 DEF From, TimersFrom
  <2> QED
    BY <1>1, <1>2, <1>4, <2>1 DEF From, TimersFrom, Typed
<1>7. /\ pc' # "network"
      /\ UNCHANGED <<current_time, blocking_until, aggregate_delay_queue>>
  BY DEF TriggerUpdate, blocks, net
<1>8. Horizon' = current_time /\ current_time >= current_time
  BY <1>4, <1>7 DEF Horizon
<1> QED
  BY <1>4, <1>5, <1>6, <1>7, <1>8 DEF Ahead, From

LEMMA InitAhead == Init => Ahead
<1> SUFFICES ASSUME Init PROVE Ahead
  OBVIOUS
<1>1. Horizon = current_time /\ current_time \in Nat
  BY InitTyped DEF Init, Horizon, Typed
<1> QED
  BY <1>1 DEF Init, Ahead, From, ActionsFrom, TimersFrom, BlocksFrom, PendingFrom

LEMMA StepAhead == Typed /\ Ahead /\ [Next]_vars => Ahead'
<1> SUFFICES ASSUME Typed, Ahead, [Next]_vars PROVE Ahead'
  OBVIOUS
<1>1. CASE UNCHANGED vars
  BY <1>1 DEF Ahead, From, Horizon, vars, timers, blocks, net
<1> QED
  BY <1>1, PickNextAhead, SimNetworkStackAhead, TriggerUpdateAhead DEF Next, Run, Finished

LEMMA AlwaysAhead == Spec => []Ahead
BY InitAhead, StepAhead, AlwaysTyped, PTL DEF Spec

(* Nothing that is scheduled is passed over, and the time of the event picked
   is never before the current time.                                       *)
THEOREM SimulatorPassesNothingOver == Spec => []NothingPassedOver
<1>1. Typed /\ Ahead => NothingPassedOver
  BY AheadIsNothingPassedOver
<1> QED
  BY <1>1, AlwaysAhead, AlwaysTyped, PTL
=============================================================================
