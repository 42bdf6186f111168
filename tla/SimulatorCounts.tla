--------------------------- MODULE SimulatorCounts ---------------------------
(***************************************************************************)
(* Theorems about what the simulator counts: the delays it adds to either  *)
(* side of the trace, and the packets it queues, sends and delivers.       *)
(***************************************************************************)
EXTENDS SimulatorProofs

-----------------------------------------------------------------------------
(***************************************************************************)
(* Adding an element to a bag, or removing it, changes its copies by one   *)
(* and leaves all others alone.                                            *)
(***************************************************************************)
Copies(bag, x) == IF x \in DOMAIN bag THEN bag[x] ELSE 0

OnlyDiffer(new, bag, x) ==
  /\ DOMAIN new \ {x} = DOMAIN bag \ {x}
  /\ \A y \in DOMAIN bag \ {x} : new[y] = bag[y]

LEMMA CopiesTyped ==
  ASSUME NEW S, NEW bag, IsBag(bag, S), NEW x
  PROVE  Copies(bag, x) \in Nat /\ (Copies(bag, x) # 0 <=> x \in DOMAIN bag)
BY DEF IsBag, Copies

LEMMA CopiesAdded ==
  ASSUME NEW S, NEW bag, IsBag(bag, S), NEW x
  PROVE  /\ OnlyDiffer(BagAdd(bag, x), bag, x)
         /\ Copies(BagAdd(bag, x), x) = Copies(bag, x) + 1
<1>1. DOMAIN BagAdd(bag, x) = DOMAIN bag \cup {x}
  BY DEF BagAdd
<1>2. BagAdd(bag, x)[x] = Copies(bag, x) + 1
  BY DEF BagAdd, Copies
<1>3. \A y \in DOMAIN bag \ {x} : BagAdd(bag, x)[y] = bag[y]
  BY DEF BagAdd
<1> QED
  BY <1>1, <1>2, <1>3 DEF OnlyDiffer, Copies

LEMMA CopiesRemoved ==
  ASSUME NEW S, NEW bag, IsBag(bag, S), NEW x \in DOMAIN bag
  PROVE  /\ OnlyDiffer(BagRemove(bag, x), bag, x)
         /\ Copies(BagRemove(bag, x), x) + 1 = Copies(bag, x)
<1>1. bag[x] \in Nat \ {0}
  BY DEF IsBag
<1>2. CASE bag[x] = 1
  BY <1>2 DEF BagRemove, OnlyDiffer, Copies
<1>3. CASE bag[x] # 1
  <2>1. BagRemove(bag, x) = [e \in DOMAIN bag |-> IF e = x THEN bag[e] - 1 ELSE bag[e]]
    BY <1>3 DEF BagRemove
  <2> QED
    BY <1>1, <2>1 DEF OnlyDiffer, Copies
<1> QED
  BY <1>2, <1>3

-----------------------------------------------------------------------------
(***************************************************************************)
(* The delays pending for a side.                                          *)
(***************************************************************************)
PendingFor(bag, side) ==
  SumFunction([d \in {e \in DOMAIN bag : e.side = side} |-> d.delay * bag[d]])

(* What a pending delay contributes to a side. *)
Adds(d, side) == IF d.side = side THEN d.delay ELSE 0

LEMMA ShiftIsSum ==
  \A side : Shift(side) = aggregate_base_delay[side]
                            + PendingFor(aggregate_delay_queue, side)
BY DEF Shift, PendingFor

LEMMA ProductsTyped ==
  \A m, n \in Nat : m * n \in Nat /\ m * (n + 1) = m * n + m
OBVIOUS

LEMMA PendingTyped ==
  ASSUME NEW bag, IsBag(bag, PendingAggregateDelay), NEW side
  PROVE  PendingFor(bag, side) \in Nat
<1> DEFINE S == {e \in DOMAIN bag : e.side = side}
           f == [d \in S |-> d.delay * bag[d]]
<1>1. IsFiniteSet(S)
  BY FS_Subset DEF IsBag
<1>2. \A d \in S : d.delay \in Nat /\ bag[d] \in Nat
  BY DEF IsBag, PendingAggregateDelay
<1>3. \A d \in S : f[d] \in Nat
  BY <1>2, ProductsTyped
<1>4. PendingFor(bag, side) = SumFunctionOnSet(f, S)
  BY DEF PendingFor, SumFunction
<1> HIDE DEF S, f
<1> QED
  BY <1>1, <1>3, <1>4, SumTyped

(* It changes by what the one delay contributes whose copies change. *)
LEMMA PendingChanges ==
  ASSUME NEW bag, IsBag(bag, PendingAggregateDelay),
         NEW new, IsBag(new, PendingAggregateDelay),
         NEW x \in PendingAggregateDelay, OnlyDiffer(new, bag, x), NEW side,
         Copies(new, x) = Copies(bag, x) + 1
  PROVE  PendingFor(new, side) = PendingFor(bag, side) + Adds(x, side)
<1> DEFINE S == {e \in DOMAIN bag : e.side = side}
           T == {e \in DOMAIN new : e.side = side}
           f == [d \in S |-> d.delay * bag[d]]
           g == [d \in T |-> d.delay * new[d]]
<1>1. IsFiniteSet(S) /\ IsFiniteSet(T)
  BY FS_Subset DEF IsBag
<1>2. /\ \A d \in S : d.delay \in Nat /\ bag[d] \in Nat
      /\ \A d \in T : d.delay \in Nat /\ new[d] \in Nat
  BY DEF IsBag, PendingAggregateDelay
<1>3. (\A d \in S : f[d] \in Nat) /\ (\A d \in T : g[d] \in Nat)
  BY <1>2, ProductsTyped
<1>4. S \ {x} = T \ {x}
  BY DEF OnlyDiffer
<1>5. \A d \in S \ {x} : f[d] = g[d]
  BY <1>4 DEF OnlyDiffer
<1>6. x \in DOMAIN new
  BY CopiesTyped
<1>7. x.delay \in Nat /\ Copies(bag, x) \in Nat
  BY CopiesTyped DEF PendingAggregateDelay
<1>8. x.side = side => x \in T /\ g[x] = x.delay * Copies(bag, x) + x.delay
  <2>1. new[x] = Copies(bag, x) + 1
    BY <1>6 DEF Copies
  <2> QED
    BY <1>6, <1>7, <2>1, ProductsTyped
<1>9. x.side = side => x.delay * Copies(bag, x) = IF x \in S THEN f[x] ELSE 0
  BY <1>7 DEF Copies
<1>10. x.side # side => x \notin S /\ x \notin T
  OBVIOUS
<1>11. /\ PendingFor(bag, side) = SumFunctionOnSet(f, S)
       /\ PendingFor(new, side) = SumFunctionOnSet(g, T)
  BY DEF PendingFor, SumFunction
<1>12. PendingFor(bag, side) \in Nat /\ PendingFor(new, side) \in Nat
  BY PendingTyped
<1> HIDE DEF S, T, f, g
<1>13. SumFunctionOnSet(g, T) + (IF x \in S THEN f[x] ELSE 0)
         = SumFunctionOnSet(f, S) + (IF x \in T THEN g[x] ELSE 0)
  BY <1>1, <1>3, <1>4, <1>5, SumChanges
<1>14. CASE x.side = side
  <2> DEFINE p == x.delay * Copies(bag, x)
  <2>1. p \in Nat
    BY <1>7, ProductsTyped
  <2>2. PendingFor(new, side) + p = PendingFor(bag, side) + (p + x.delay)
    BY <1>8, <1>9, <1>11, <1>13, <1>14
  <2> HIDE DEF p
  <2> QED
    BY <1>7, <1>12, <1>14, <2>1, <2>2 DEF Adds
<1>15. CASE x.side # side
  BY <1>10, <1>11, <1>12, <1>13, <1>15 DEF Adds
<1> QED
  BY <1>14, <1>15

LEMMA PendingAdded ==
  ASSUME NEW bag, IsBag(bag, PendingAggregateDelay),
         NEW x \in PendingAggregateDelay, NEW side
  PROVE  PendingFor(BagAdd(bag, x), side) = PendingFor(bag, side) + Adds(x, side)
<1>1. IsBag(BagAdd(bag, x), PendingAggregateDelay)
  BY BagAddTyped
<1>2. OnlyDiffer(BagAdd(bag, x), bag, x)
  BY CopiesAdded
<1>3. Copies(BagAdd(bag, x), x) = Copies(bag, x) + 1
  BY CopiesAdded
<1> QED
  BY <1>1, <1>2, <1>3, PendingChanges

LEMMA PendingRemoved ==
  ASSUME NEW bag, IsBag(bag, PendingAggregateDelay), NEW x \in DOMAIN bag, NEW side
  PROVE  PendingFor(BagRemove(bag, x), side) + Adds(x, side) = PendingFor(bag, side)
<1> DEFINE new == BagRemove(bag, x)
<1>1. IsBag(new, PendingAggregateDelay)
  BY BagRemoveTyped
<1>2. OnlyDiffer(new, bag, x) /\ Copies(new, x) + 1 = Copies(bag, x)
  BY CopiesRemoved
<1>3. x \in PendingAggregateDelay
  BY DEF IsBag
<1> HIDE DEF new
<1>4. OnlyDiffer(bag, new, x)
  BY <1>2 DEF OnlyDiffer
<1>5. PendingFor(bag, side) = PendingFor(new, side) + Adds(x, side)
  BY <1>1, <1>2, <1>3, <1>4, PendingChanges
<1> QED
  BY <1>5 DEF new

-----------------------------------------------------------------------------
(***************************************************************************)
(* The delays of held-up packets shift both sides alike.                   *)
(***************************************************************************)

(* A delay that is pushed is pending for both sides. *)
LEMMA PushedForBoth ==
  ASSUME NEW pending, IsBag(pending, PendingAggregateDelay),
         NEW duration \in Nat, NEW now \in Nat, NEW from, NEW side \in Side
  PROVE  PendingFor(PushAggregateDelay(pending, duration, now, from), side)
           = PendingFor(pending, side) + duration
<1> DEFINE client == Since(IF from = "client" THEN 4 * NetworkDelay ELSE NetworkDelay, duration)
           server == Since(IF from = "client" THEN 3 * NetworkDelay ELSE 4 * NetworkDelay, duration)
           c == Pending("client", now + client, duration)
           s == Pending("server", now + server, duration)
           one == BagAdd(pending, c)
<1>1. client \in Nat /\ server \in Nat
  <2>1. \A n \in Nat : Since(n, duration) \in Nat
    BY SinceTyped
  <2>2. NetworkDelay \in Nat /\ 3 * NetworkDelay \in Nat /\ 4 * NetworkDelay \in Nat
    BY NetworkAssumption
  <2> QED
    BY <2>1, <2>2
<1>2. PushAggregateDelay(pending, duration, now, from) = BagAdd(one, s)
  BY DEF PushAggregateDelay
<1> HIDE DEF client, server
<1>3. c \in PendingAggregateDelay /\ s \in PendingAggregateDelay
  BY <1>1 DEF Pending, PendingAggregateDelay, Side
<1>4. Adds(c, side) + Adds(s, side) = duration /\ Adds(c, side) \in Nat /\ Adds(s, side) \in Nat
  BY DEF Adds, Pending, Side
<1> HIDE DEF c, s
<1>5. IsBag(one, PendingAggregateDelay)
  BY <1>3, BagAddTyped
<1>6. PendingFor(one, side) = PendingFor(pending, side) + Adds(c, side)
  BY <1>3, PendingAdded
<1> HIDE DEF one
<1>7. PendingFor(BagAdd(one, s), side) = PendingFor(one, side) + Adds(s, side)
  BY <1>3, <1>5, PendingAdded
<1>8. PendingFor(pending, side) \in Nat
  BY PendingTyped
<1> QED
  BY <1>2, <1>4, <1>6, <1>7, <1>8

LEMMA PushKeepsBalance ==
  ASSUME Typed, DelaysBalance, NEW duration \in Nat, NEW now \in Nat, NEW from,
         aggregate_delay_queue' = PushAggregateDelay(aggregate_delay_queue, duration, now, from),
         UNCHANGED aggregate_base_delay
  PROVE  DelaysBalance'
<1>1. IsBag(aggregate_delay_queue, PendingAggregateDelay)
  BY DEF Typed
<1> DEFINE before(side) == PendingFor(aggregate_delay_queue, side)
<1>2. \A side \in Side : /\ before(side) \in Nat /\ aggregate_base_delay[side] \in Nat
                         /\ PendingFor(aggregate_delay_queue', side) = before(side) + duration
  BY <1>1, PendingTyped, PushedForBoth DEF Typed
<1>3. \A side \in Side : /\ Shift(side) = aggregate_base_delay[side] + before(side)
                         /\ Shift(side)' = aggregate_base_delay[side] + (before(side) + duration)
  BY <1>2, ShiftIsSum DEF Shift, PendingFor
<1> HIDE DEF before
<1>4. \A side \in Side : Shift(side)' = Shift(side) + duration
  BY <1>2, <1>3
<1> QED
  BY <1>4 DEF DelaysBalance, Side

LEMMA PushIfAnyKeepsBalance ==
  ASSUME Typed, DelaysBalance, NEW duration \in Nat \cup {None}, NEW now \in Nat, NEW from,
         aggregate_delay_queue' = PushIfAny(aggregate_delay_queue, duration, now, from),
         UNCHANGED aggregate_base_delay
  PROVE  DelaysBalance'
<1>1. CASE duration = None
  BY <1>1 DEF PushIfAny, DelaysBalance, Shift
<1>2. CASE duration # None
  BY <1>2, PushKeepsBalance DEF PushIfAny
<1> QED
  BY <1>1, <1>2

(* A pending delay that takes effect moves from one term to the other. *)
LEMMA PopKeepsBalance ==
  ASSUME Typed, DelaysBalance, PickAggregateDelay(Peeks)
  PROVE  DelaysBalance'
<1>1. PICK d \in FirstPending(aggregate_delay_queue) :
        /\ aggregate_delay_queue' = BagRemove(aggregate_delay_queue, d)
        /\ aggregate_base_delay' = [aggregate_base_delay EXCEPT ![d.side] = @ + d.delay]
  BY DEF PickAggregateDelay
<1>2. IsBag(aggregate_delay_queue, PendingAggregateDelay) /\ d \in DOMAIN aggregate_delay_queue
  BY DEF Typed, FirstPending
<1>3. d.side \in Side /\ d.delay \in Nat
  BY <1>2 DEF IsBag, PendingAggregateDelay
<1> DEFINE before(side) == PendingFor(aggregate_delay_queue, side)
           after(side) == PendingFor(aggregate_delay_queue', side)
<1>4. IsBag(aggregate_delay_queue', PendingAggregateDelay)
  BY <1>1, <1>2, BagRemoveTyped
<1>5. \A side \in Side : after(side) \in Nat /\ after(side) + Adds(d, side) = before(side)
  BY <1>1, <1>2, <1>4, PendingTyped, PendingRemoved
<1>6. \A side \in Side : /\ aggregate_base_delay[side] \in Nat /\ Adds(d, side) \in Nat
                         /\ aggregate_base_delay'[side] = aggregate_base_delay[side] + Adds(d, side)
  BY <1>1, <1>3 DEF Typed, Adds
<1>7. \A side \in Side : /\ Shift(side) = aggregate_base_delay[side] + before(side)
                         /\ Shift(side)' = aggregate_base_delay'[side] + after(side)
  BY ShiftIsSum DEF Shift, PendingFor
<1> HIDE DEF before, after
<1>8. \A side \in Side : Shift(side)' = Shift(side)
  BY <1>5, <1>6, <1>7
<1> QED
  BY <1>8 DEF DelaysBalance, Side

LEMMA StepKeepsBalance ==
  ASSUME Typed, DelaysBalance, [Next]_vars
  PROVE  DelaysBalance'
<1>1. CASE PickNext
  <2>1. CASE PickAggregateDelay(Peeks)
    BY <2>1, PopKeepsBalance
  <2>2. CASE PickExpiry(Peeks)
    <3> DEFINE side   == Peeks.expiry.side
               expiry == current_time + Peeks.expiry.duration
    <3>1. side \in Side /\ Peeks.expiry.duration \in 0 .. DURATION_MAX /\ current_time \in Nat
      BY PeeksSound DEF PeeksTyped, Typed
    <3>2. expiry \in Nat
      BY <3>1
    <3>3. aggregate_delay_queue' =
            PushIfAny(aggregate_delay_queue, ExpiryDelay(side, expiry), expiry, side)
      BY <2>2 DEF PickExpiry
    <3>4. UNCHANGED aggregate_base_delay
      BY <2>2 DEF PickExpiry
    <3> HIDE DEF side, expiry
    <3>5. ExpiryDelay(side, expiry) \in Nat \cup {None}
      BY <3>1, <3>2, ExpiryDelayTyped DEF Typed, side
    <3> QED
      BY <3>2, <3>3, <3>4, <3>5, PushIfAnyKeepsBalance
  <2>3. CASE \/ PickNothing(Peeks) \/ PickQueue(Peeks)
             \/ PickTimer(Peeks) \/ PickAction(Peeks)
    <3>1. UNCHANGED <<aggregate_base_delay, aggregate_delay_queue>>
      BY <2>3 DEF PickNothing, PickQueue, PickTimer, PickAction, net
    <3> QED
      BY <3>1 DEF DelaysBalance, Shift
  <2> QED
    BY <1>1, <2>1, <2>2, <2>3 DEF PickNext
<1>2. CASE ReplacePadding
  <2>1. PICK e \in Replacements :
          aggregate_delay_queue' =
            PushIfAny(aggregate_delay_queue,
                      DelayOnReplace(Pop(sq[next.side], ReplaceQueue, e), next.time, e.time,
                                     aggregate_base_delay[next.side]),
                      next.time, next.side)
    BY <1>2 DEF ReplacePadding
  <2> DEFINE d == DelayOnReplace(Pop(sq[next.side], ReplaceQueue, e), next.time, e.time,
                                 aggregate_base_delay[next.side])
  <2>2. next.side \in Side /\ next.time \in Nat
    BY <1>2, AdvanceTyped DEF ReplacePadding
  <2>3. e.time \in Nat
    BY <2>2, ReplacementTyped, RankTyped
  <2>4. d \in Nat \cup {None}
    BY <2>2, <2>3, DelayOnReplaceTyped
  <2>5. aggregate_delay_queue' = PushIfAny(aggregate_delay_queue, d, next.time, next.side)
    BY <2>1
  <2>6. UNCHANGED aggregate_base_delay
    BY <1>2 DEF ReplacePadding
  <2> HIDE DEF d
  <2> QED
    BY <2>2, <2>4, <2>5, <2>6, PushIfAnyKeepsBalance
<1>3. CASE TunnelSent
  <2> DEFINE added == AddedDelay(Len(window'[next.side]), PpsLimit)
  <2>1. next.side \in Side /\ next.time \in Nat
    BY <1>3, AdvanceTyped DEF TunnelSent
  <2>2. added \in Nat
    <3>1. window' \in [Side -> Seq(Nat)]
      BY <1>3, TunnelSentTyped DEF Typed
    <3>2. Len(window'[next.side]) \in Nat
      BY <2>1, <3>1
    <3> QED
      BY <3>2, PpsLimitPositive, AddedDelayTyped
  <2>3. \/ aggregate_delay_queue' =
             PushAggregateDelay(aggregate_delay_queue, added, next.time, next.side)
        \/ UNCHANGED aggregate_delay_queue
    BY <1>3 DEF TunnelSent
  <2>4. UNCHANGED aggregate_base_delay
    BY <1>3 DEF TunnelSent
  <2> HIDE DEF added
  <2>5. CASE UNCHANGED aggregate_delay_queue
    BY <2>4, <2>5 DEF DelaysBalance, Shift
  <2> QED
    BY <2>1, <2>2, <2>3, <2>4, <2>5, PushKeepsBalance
<1>4. CASE \/ NormalSent \/ QueuePadding \/ DropPadding \/ TunnelRecv \/ NotNetwork
           \/ TriggerUpdate \/ UNCHANGED vars
  <2>1. UNCHANGED <<aggregate_base_delay, aggregate_delay_queue>>
    BY <1>4 DEF NormalSent, QueuePadding, DropPadding, TunnelRecv, NotNetwork,
                TriggerUpdate, vars, net
  <2> QED
    BY <2>1 DEF DelaysBalance, Shift
<1> QED
  BY <1>1, <1>2, <1>3, <1>4 DEF Next, Run, Finished, SimNetworkStack

(* Whatever is held up, and in whatever order delays take effect, what was
   added to the trace and what is still to be added is the same for both
   sides.                                                                  *)
THEOREM DelaysStayBalanced == Spec => []DelaysBalance
<1>1. Init => DelaysBalance
  <2> SUFFICES ASSUME Init PROVE DelaysBalance
    OBVIOUS
  <2>1. \A side \in Side : Shift(side) = PendingFor(<<>>, side) + 0
    <3>1. \A side : PendingFor(<<>>, side) \in Nat
      BY FS_EmptySet, PendingTyped DEF IsBag
    <3> QED
      BY <3>1, ShiftIsSum DEF Init
  <2>2. \A side \in Side : [d \in {e \in DOMAIN <<>> : e.side = side} |-> d.delay * <<>>[d]]
                             = [d \in {} |-> 0]
    OBVIOUS
  <2>3. \A side \in Side : PendingFor(<<>>, side) = SumFunction([d \in {} |-> 0])
    BY <2>2, Zenon DEF PendingFor
  <2> QED
    BY <2>1, <2>3 DEF DelaysBalance, Side
<1>2. Typed /\ DelaysBalance /\ [Next]_vars => DelaysBalance'
  BY StepKeepsBalance
<1> QED
  BY <1>1, <1>2, AlwaysTyped, PTL DEF Spec

-----------------------------------------------------------------------------
(***************************************************************************)
(* The packets that wait in a heap.                                        *)
(***************************************************************************)
One(e, event) == IF IsPacket(e, event) THEN 1 ELSE 0

LEMMA InQueueTyped ==
  ASSUME NEW heap, IsBag(heap, SimEvent), NEW event
  PROVE  InQueue(heap, event) \in Nat
<1> DEFINE S == {e \in DOMAIN heap : IsPacket(e, event)}
<1>1. IsFiniteSet(S) /\ \A e \in S : heap[e] \in Nat
  BY FS_Subset DEF IsBag
<1> HIDE DEF S
<1>2. SumFunctionOnSet(heap, S) \in Nat
  BY <1>1, SumTyped
<1> QED
  BY <1>2 DEF InQueue, S

LEMMA InQueueChanges ==
  ASSUME NEW heap, IsBag(heap, SimEvent), NEW new, IsBag(new, SimEvent), NEW x,
         OnlyDiffer(new, heap, x), Copies(new, x) = Copies(heap, x) + 1, NEW event
  PROVE  InQueue(new, event) = InQueue(heap, event) + One(x, event)
<1> DEFINE S == {e \in DOMAIN heap : IsPacket(e, event)}
           T == {e \in DOMAIN new : IsPacket(e, event)}
<1>1. IsFiniteSet(S) /\ IsFiniteSet(T)
  BY FS_Subset DEF IsBag
<1>2. (\A e \in S : heap[e] \in Nat) /\ (\A e \in T : new[e] \in Nat)
  BY DEF IsBag
<1>3. S \ {x} = T \ {x} /\ \A e \in S \ {x} : heap[e] = new[e]
  BY DEF OnlyDiffer
<1>4. IsPacket(x, event) =>
        /\ Copies(heap, x) = IF x \in S THEN heap[x] ELSE 0
        /\ Copies(new, x) = IF x \in T THEN new[x] ELSE 0
  BY DEF Copies
<1>5. ~IsPacket(x, event) => x \notin S /\ x \notin T
  OBVIOUS
<1>6. /\ InQueue(heap, event) = SumFunctionOnSet(heap, S)
      /\ InQueue(new, event) = SumFunctionOnSet(new, T)
  BY DEF InQueue
<1>7. InQueue(heap, event) \in Nat /\ InQueue(new, event) \in Nat
  BY InQueueTyped
<1>8. Copies(heap, x) \in Nat
  BY CopiesTyped
<1> HIDE DEF S, T
<1>9. SumFunctionOnSet(new, T) + (IF x \in S THEN heap[x] ELSE 0)
        = SumFunctionOnSet(heap, S) + (IF x \in T THEN new[x] ELSE 0)
  BY <1>1, <1>2, <1>3, SumChanges
<1>10. CASE IsPacket(x, event)
  <2>1. InQueue(new, event) + Copies(heap, x) = InQueue(heap, event) + (Copies(heap, x) + 1)
    BY <1>4, <1>6, <1>9, <1>10
  <2> QED
    BY <1>7, <1>8, <1>10, <2>1 DEF One
<1>11. CASE ~IsPacket(x, event)
  BY <1>5, <1>6, <1>7, <1>9, <1>11 DEF One
<1> QED
  BY <1>10, <1>11

LEMMA InQueueAdded ==
  ASSUME NEW heap, IsBag(heap, SimEvent), NEW x \in SimEvent, NEW event
  PROVE  InQueue(BagAdd(heap, x), event) = InQueue(heap, event) + One(x, event)
<1>1. IsBag(BagAdd(heap, x), SimEvent)
  BY BagAddTyped
<1>2. /\ OnlyDiffer(BagAdd(heap, x), heap, x)
      /\ Copies(BagAdd(heap, x), x) = Copies(heap, x) + 1
  BY CopiesAdded
<1> QED
  BY <1>1, <1>2, InQueueChanges

LEMMA InQueueRemoved ==
  ASSUME NEW heap, IsBag(heap, SimEvent), NEW x \in DOMAIN heap, NEW event
  PROVE  InQueue(BagRemove(heap, x), event) + One(x, event) = InQueue(heap, event)
<1> DEFINE new == BagRemove(heap, x)
<1>1. IsBag(new, SimEvent)
  BY BagRemoveTyped
<1>2. OnlyDiffer(new, heap, x) /\ Copies(new, x) + 1 = Copies(heap, x)
  BY CopiesRemoved
<1> HIDE DEF new
<1>3. OnlyDiffer(heap, new, x)
  BY <1>2 DEF OnlyDiffer
<1>4. InQueue(heap, event) = InQueue(new, event) + One(x, event)
  BY <1>1, <1>2, <1>3, InQueueChanges
<1> QED
  BY <1>4 DEF new

(* Reports of other events change nothing. *)
LEMMA InQueueReported ==
  ASSUME NEW heap, IsBag(heap, SimEvent), NEW E, E \subseteq SimEvent, IsFiniteSet(E),
         NEW event, \A e \in E : e.event # event
  PROVE  InQueue(heap (+) SetToBag(E), event) = InQueue(heap, event)
<1> DEFINE new == heap (+) SetToBag(E)
           S == {e \in DOMAIN heap : IsPacket(e, event)}
           T == {e \in DOMAIN new : IsPacket(e, event)}
<1>1. DOMAIN new = DOMAIN heap \cup E
  BY BagUnionTyped
<1>2. \A e \in DOMAIN heap \ E : new[e] = heap[e]
  <2>1. \A e \in DOMAIN heap \ E : new[e] = heap[e] + 0
    BY DEF (+), SetToBag
  <2>2. \A e \in DOMAIN heap : heap[e] \in Nat
    BY DEF IsBag
  <2> HIDE DEF new
  <2> QED
    BY <2>1, <2>2
<1> HIDE DEF new
<1>3. S = T /\ \A e \in S : new[e] = heap[e]
  BY <1>1, <1>2 DEF IsPacket
<1>4. IsFiniteSet(S)
  BY FS_Subset DEF IsBag
<1>5. InQueue(new, event) = SumFunctionOnSet(new, T) /\ InQueue(heap, event) = SumFunctionOnSet(heap, S)
  BY DEF InQueue
<1> HIDE DEF S, T
<1>6. SumFunctionOnSet(new, S) = SumFunctionOnSet(heap, S)
  BY <1>3, <1>4, SumAgrees
<1> QED
  BY <1>3, <1>5, <1>6 DEF new

-----------------------------------------------------------------------------
(***************************************************************************)
(* The packets of both sides: what a push, a pop and reports do to them.   *)
(***************************************************************************)
LEMMA PacketPushed ==
  ASSUME NEW sides, SidesOK(sides), NEW side \in Side, NEW e \in SimEvent, e.side = side,
         NEW s \in Side, NEW q \in Queue, NEW event
  PROVE  InQueue([sides EXCEPT ![side] = Push(@, e)][s][q], event)
           = InQueue(sides[s][q], event) + Here(e, s, q, event)
<1> DEFINE new == [sides EXCEPT ![side] = Push(@, e)]
<1>1. IsBag(sides[s][q], SimEvent) /\ InQueue(sides[s][q], event) \in Nat
  BY InQueueTyped DEF SidesOK, SideOK
<1>2. CASE s = side /\ q = QueueOf(e)
  <2>1. new[s][q] = BagAdd(sides[s][q], e)
    BY <1>2 DEF SidesOK, SideOK, Push
  <2>2. InQueue(BagAdd(sides[s][q], e), event) = InQueue(sides[s][q], event) + One(e, event)
    BY <1>1, InQueueAdded
  <2> QED
    BY <1>2, <2>1, <2>2 DEF Here, One
<1>3. CASE ~(s = side /\ q = QueueOf(e))
  <2>1. new[s][q] = sides[s][q]
    BY <1>3 DEF SidesOK, SideOK, Push
  <2>2. Here(e, s, q, event) = 0
    BY <1>3 DEF Here
  <2> QED
    BY <1>1, <2>1, <2>2
<1> QED
  BY <1>2, <1>3

LEMMA PacketPopped ==
  ASSUME NEW sides, SidesOK(sides), NEW side \in Side, NEW r \in Queue,
         NEW e \in DOMAIN sides[side][r], NEW s \in Side, NEW q \in Queue, NEW event
  PROVE  InQueue([sides EXCEPT ![side] = Pop(@, r, e)][s][q], event) + Here(e, s, q, event)
           = InQueue(sides[s][q], event)
<1> DEFINE new == [sides EXCEPT ![side] = Pop(@, r, e)]
<1>1. IsBag(sides[s][q], SimEvent) /\ InQueue(sides[s][q], event) \in Nat
  BY InQueueTyped DEF SidesOK, SideOK
<1>2. e.side = side /\ QueueOf(e) = r
  BY DEF SidesOK, SideOK
<1>3. CASE s = side /\ q = r
  <2>1. new[s][q] = BagRemove(sides[s][q], e)
    BY <1>3 DEF SidesOK, SideOK, Pop
  <2>2. InQueue(BagRemove(sides[s][q], e), event) + One(e, event) = InQueue(sides[s][q], event)
    BY <1>1, <1>3, InQueueRemoved
  <2>3. Here(e, s, q, event) = One(e, event)
    BY <1>2, <1>3 DEF Here, One
  <2> QED
    BY <2>1, <2>2, <2>3
<1>4. CASE ~(s = side /\ q = r)
  <2>1. new[s][q] = sides[s][q]
    BY <1>4 DEF SidesOK, SideOK, Pop
  <2>2. Here(e, s, q, event) = 0
    BY <1>2, <1>4 DEF Here
  <2> QED
    BY <1>1, <2>1, <2>2
<1> QED
  BY <1>3, <1>4

-----------------------------------------------------------------------------
(***************************************************************************)
(* The packets a step moves: those that wait in a queue, and the one that  *)
(* is picked.                                                              *)
(***************************************************************************)
PacketKind == {"NormalSent", "TunnelSent", "TunnelRecv"}

Held(side, q, event) == InQueue(sq[side][q], event)

Carried(side, q, event) == IF pc = "network" THEN Here(next, side, q, event) ELSE 0

LEMMA PacketsTyped ==
  ASSUME Typed, NEW s \in Side, NEW q \in Queue, NEW event
  PROVE  /\ Held(s, q, event) \in Nat /\ Carried(s, q, event) \in Nat
         /\ Packets(s, q, event) = Held(s, q, event) + Carried(s, q, event)
<1>1. IsBag(sq[s][q], SimEvent)
  BY DEF Typed, SidesOK, SideOK
<1> QED
  BY <1>1, InQueueTyped DEF Held, Carried, Here, Packets

LEMMA PacketsNat ==
  ASSUME Typed, Typed', NEW s \in Side, NEW q \in Queue, NEW event
  PROVE  Packets(s, q, event) \in Nat /\ Packets(s, q, event)' \in Nat
<1>1. IsBag(sq[s][q], SimEvent) /\ IsBag(sq'[s][q], SimEvent)
  BY DEF Typed, SidesOK, SideOK
<1>2. InQueue(sq[s][q], event) \in Nat /\ InQueue(sq'[s][q], event) \in Nat
  BY <1>1, InQueueTyped
<1> QED
  BY <1>2 DEF Packets, Here

LEMMA HeldAdded ==
  ASSUME Typed, NEW side \in Side, NEW e \in SimEvent, e.side = side, sq' = AddTo(side, e),
         NEW s \in Side, NEW r \in Queue, NEW kind
  PROVE  Held(s, r, kind)' = Held(s, r, kind) + Here(e, s, r, kind)
<1>1. SidesOK(sq)
  BY DEF Typed
<1>2. InQueue([sq EXCEPT ![side] = Push(@, e)][s][r], kind)
        = InQueue(sq[s][r], kind) + Here(e, s, r, kind)
  BY <1>1, PacketPushed
<1> QED
  BY <1>2 DEF Held, AddTo

(* One packet joins queue q of its side. *)
Joins(side, q, event, s, r, kind) == IF s = side /\ r = q /\ kind = event THEN 1 ELSE 0

PacketJoins(side, q, event) == Queues(side, q, event, FALSE)

LEMMA HeldQueued ==
  ASSUME Typed, NEW side \in Side, NEW q \in Queue, NEW event,
         PacketJoins(side, q, event),
         NEW s \in Side, NEW r \in Queue, NEW kind
  PROVE  Held(s, r, kind)' = Held(s, r, kind) + Joins(side, q, event, s, r, kind)
<1>1. PICK e \in SimEvent :
        /\ e.side = side /\ e.event = event /\ e.contains_padding = FALSE
        /\ QueueOf(e) = q
        /\ sq' = AddTo(side, e)
  BY DEF PacketJoins, Queues
<1>2. Held(s, r, kind)' = Held(s, r, kind) + Here(e, s, r, kind)
  BY <1>1, HeldAdded
<1>3. Here(e, s, r, kind) = Joins(side, q, event, s, r, kind)
  BY <1>1 DEF Here, IsPacket, Joins
<1> QED
  BY <1>2, <1>3

(* Nothing of a kind that Tunnel sees joins a queue. *)
LEMMA HeldOtherwise ==
  ASSUME Typed, NEW side \in Side, NEW q \in Queue, NEW event, NEW padding \in BOOLEAN,
         Queues(side, q, event, padding), event \notin PacketKind \/ padding,
         NEW s \in Side, NEW r \in Queue, NEW kind \in PacketKind
  PROVE  Held(s, r, kind)' = Held(s, r, kind)
<1>1. PICK e \in SimEvent :
        /\ e.side = side /\ e.event = event /\ e.contains_padding = padding
        /\ sq' = AddTo(side, e)
  BY DEF Queues
<1>2. Held(s, r, kind)' = Held(s, r, kind) + Here(e, s, r, kind)
  BY <1>1, HeldAdded
<1>3. Here(e, s, r, kind) = 0
  BY <1>1 DEF Here, IsPacket
<1>4. Held(s, r, kind) \in Nat
  BY PacketsTyped
<1> QED
  BY <1>2, <1>3, <1>4

NothingMoves ==
  \A s \in Side, q \in Queue, kind \in PacketKind :
    Packets(s, q, kind)' = Packets(s, q, kind)

LEMMA NothingHeldMoves ==
  ASSUME Typed, Typed',
         \A s \in Side, q \in Queue, kind \in PacketKind :
           /\ Held(s, q, kind)' = Held(s, q, kind)
           /\ Carried(s, q, kind)' = Carried(s, q, kind)
  PROVE  NothingMoves
BY DEF NothingMoves, Packets, Held, Carried

(* While no event is picked, none is carried. *)
LEMMA NoneCarried ==
  ASSUME NEW s, NEW q, NEW kind
  PROVE  /\ pc # "network" => Carried(s, q, kind) = 0
         /\ pc' # "network" => Carried(s, q, kind)' = 0
         /\ ~IsPacket(next, kind) => Carried(s, q, kind) = 0
         /\ ~IsPacket(next', kind) => Carried(s, q, kind)' = 0
BY DEF Carried, Here

-----------------------------------------------------------------------------
(***************************************************************************)
(* Normal packets are not marked as padding, nor is padding as normal.     *)
(***************************************************************************)
MarkedRight(e) ==
  /\ e.event = "NormalSent" => ~e.contains_padding
  /\ e.event = "PaddingSent" => e.contains_padding

QueuedRight == \A s \in Side, q \in Queue : \A e \in DOMAIN sq[s][q] : MarkedRight(e)

Marked == MarkedRight(next) /\ QueuedRight

(* What a push and a pop leave queued. *)
LEMMA PushedOnly ==
  ASSUME NEW sides, SidesOK(sides), NEW side, NEW e, NEW s \in Side, NEW q \in Queue,
         NEW f \in DOMAIN ([sides EXCEPT ![side] = Push(@, e)][s][q])
  PROVE  f = e \/ f \in DOMAIN sides[s][q]
<1> DEFINE new == [sides EXCEPT ![side] = Push(@, e)]
<1>1. CASE s = side /\ q = QueueOf(e)
  <2>1. new[s][q] = BagAdd(sides[s][q], e)
    BY <1>1 DEF SidesOK, SideOK, Push
  <2>2. DOMAIN BagAdd(sides[s][q], e) = DOMAIN sides[s][q] \cup {e}
    BY DEF BagAdd
  <2> QED
    BY <2>1, <2>2
<1>2. CASE ~(s = side /\ q = QueueOf(e))
  <2>1. new[s][q] = sides[s][q]
    BY <1>2 DEF SidesOK, SideOK, Push
  <2> QED
    BY <2>1
<1> QED
  BY <1>1, <1>2

LEMMA PoppedOnly ==
  ASSUME NEW sides, SidesOK(sides), NEW side, NEW r, NEW e, NEW s \in Side, NEW q \in Queue,
         NEW f \in DOMAIN ([sides EXCEPT ![side] = Pop(@, r, e)][s][q])
  PROVE  f \in DOMAIN sides[s][q]
<1> DEFINE new == [sides EXCEPT ![side] = Pop(@, r, e)]
<1>1. CASE s = side /\ q = r
  <2>1. new[s][q] = BagRemove(sides[s][q], e)
    BY <1>1 DEF SidesOK, SideOK, Pop
  <2>2. DOMAIN BagRemove(sides[s][q], e) \subseteq DOMAIN sides[s][q]
    BY DEF BagRemove
  <2> QED
    BY <2>1, <2>2
<1>2. CASE ~(s = side /\ q = r)
  <2>1. new[s][q] = sides[s][q]
    BY <1>2 DEF SidesOK, SideOK, Pop
  <2> QED
    BY <2>1
<1> QED
  BY <1>1, <1>2

LEMMA QueuesRight ==
  ASSUME Typed, Marked, NEW side \in Side, NEW q, NEW event, NEW padding,
         Queues(side, q, event, padding), event # "NormalSent",
         event # "PaddingSent" \/ padding = TRUE
  PROVE  QueuedRight'
<1>1. PICK e \in SimEvent :
        /\ e.side = side /\ e.event = event /\ e.contains_padding = padding
        /\ sq' = AddTo(side, e)
  BY DEF Queues
<1>2. SidesOK(sq)
  BY DEF Typed
<1>3. sq' = [sq EXCEPT ![side] = Push(@, e)]
  BY <1>1 DEF AddTo
<1>4. ASSUME NEW s \in Side, NEW r \in Queue, NEW f \in DOMAIN sq'[s][r]
      PROVE  MarkedRight(f)
  <2>1. f \in DOMAIN ([sq EXCEPT ![side] = Push(@, e)][s][r])
    BY <1>3
  <2>2. f = e \/ f \in DOMAIN sq[s][r]
    BY <1>2, <2>1, PushedOnly
  <2> QED
    BY <1>1, <2>2 DEF Marked, QueuedRight, MarkedRight
<1> QED
  BY <1>4 DEF QueuedRight

LEMMA NextTyped ==
  ASSUME Typed
  PROVE  /\ next.side \in Side /\ Other(next.side) \in Side
         /\ next.contains_padding \in BOOLEAN /\ next.bypass \in BOOLEAN
BY DEF Typed, SimEvent, Other, Side

(* An action that is carried out is reported; only blocking changes a block,
   and only that of its side.                                              *)
LEMMA ActionQueues ==
  ASSUME Typed, PickAction(Peeks)
  PROVE  \E side \in Side :
           \/ /\ Queues(side, "internal", "PaddingSent", TRUE)
              /\ UNCHANGED <<blocking_until, blocking_bypassable>>
           \/ /\ Queues(side, "internal", "BlockingBegin", FALSE)
              /\ \A s \in Side \ {side} : UNCHANGED <<blocking_until[s], blocking_bypassable[s]>>
<1>1. PICK side \in Side, m \in MachineId :
        LET a == scheduled_action[side][m] IN
        /\ a \in Slot /\ a # NoScheduled
        /\ SendPadding(side, m, a) \/ BlockOutgoing(side, m, a)
  BY ActionPicked
<1> DEFINE a == scheduled_action[side][m]
<1> HIDE DEF a
<1>2. a \in Slot /\ a # NoScheduled /\ (SendPadding(side, m, a) \/ BlockOutgoing(side, m, a))
  BY <1>1 DEF a
<1>3. CASE SendPadding(side, m, a)
  BY <1>2, <1>3, SendPaddingQueues
<1>4. CASE BlockOutgoing(side, m, a)
  <2>1. Queues(side, "internal", "BlockingBegin", FALSE)
    BY <1>2, <1>4, BlockOutgoingQueues
  <2>2. \A s \in Side \ {side} : UNCHANGED <<blocking_until[s], blocking_bypassable[s]>>
    <3>1. /\ blocking_until' \in {blocking_until,
               [blocking_until EXCEPT ![side] = a.time + a.action.duration]}
          /\ blocking_bypassable' \in {blocking_bypassable,
               [blocking_bypassable EXCEPT ![side] = a.action.bypass]}
      BY <1>4 DEF BlockOutgoing
    <3>2. /\ blocking_until \in [Side -> Nat \cup {None}]
          /\ blocking_bypassable \in [Side -> BOOLEAN]
      BY DEF Typed
    <3> QED
      BY <3>1, <3>2
  <2> QED
    BY <2>1, <2>2
<1> QED
  BY <1>2, <1>3, <1>4

LEMMA MarkedPick ==
  ASSUME Typed, Marked, PickNext
  PROVE  Marked'
<1>1. CASE PickExpiry(Peeks)
  <2> DEFINE side == Peeks.expiry.side
  <2>1. /\ side \in Side
        /\ \/ Queues(side, "internal", "BlockingEnd", FALSE) /\ UNCHANGED <<pc, next, due>>
           \/ UNCHANGED sq /\ next'.event = "BlockingEnd"
    BY <1>1, ExpiryQueues
  <2> HIDE DEF side
  <2>2. CASE Queues(side, "internal", "BlockingEnd", FALSE) /\ UNCHANGED <<pc, next, due>>
    <3>1. QueuedRight'
      BY <2>1, <2>2, QueuesRight
    <3> QED
      BY <2>2, <3>1 DEF Marked, MarkedRight
  <2>3. CASE UNCHANGED sq /\ next'.event = "BlockingEnd"
    BY <2>3 DEF Marked, QueuedRight, MarkedRight
  <2> QED
    BY <2>1, <2>2, <2>3
<1>2. CASE PickQueue(Peeks)
  <2> DEFINE p == Peeks.queue
  <2>1. p.side \in Side /\ p.queue \in Filled(sq[p.side])
    BY <1>2, QueuePicked
  <2>2. PICK top \in Tops(sq[p.side][p.queue]) :
          /\ next'.event = top.event /\ next'.contains_padding = top.contains_padding
          /\ sq' = [sq EXCEPT ![p.side] = Pop(@, p.queue, top)]
    BY <1>2, QueuePicked
  <2> HIDE DEF p
  <2>3. p.queue \in Queue /\ top \in DOMAIN sq[p.side][p.queue] /\ SidesOK(sq)
    BY <2>1 DEF Filled, Tops, Typed
  <2>4. MarkedRight(next')
    BY <2>1, <2>2, <2>3 DEF Marked, QueuedRight, MarkedRight
  <2>5. \A s \in Side, q \in Queue : \A f \in DOMAIN sq'[s][q] : f \in DOMAIN sq[s][q]
    BY <2>1, <2>2, <2>3, PoppedOnly
  <2>6. QueuedRight'
    BY <2>5 DEF Marked, QueuedRight
  <2> QED
    BY <2>4, <2>6 DEF Marked, MarkedRight
<1>3. CASE PickTimer(Peeks)
  <2>1. PICK side \in Side : Queues(side, "internal", "TimerEnd", FALSE)
    BY <1>3, TimerQueues
  <2>2. QueuedRight'
    BY <2>1, QueuesRight
  <2> QED
    BY <1>3, <2>2 DEF PickTimer, Marked, MarkedRight
<1>4. CASE PickAction(Peeks)
  <2>1. \E side \in Side : \/ Queues(side, "internal", "PaddingSent", TRUE)
                           \/ Queues(side, "internal", "BlockingBegin", FALSE)
    BY <1>4, ActionQueues
  <2>2. PICK side \in Side : \/ Queues(side, "internal", "PaddingSent", TRUE)
                             \/ Queues(side, "internal", "BlockingBegin", FALSE)
    BY <2>1
  <2>3. Queues(side, "internal", "PaddingSent", TRUE) => QueuedRight'
    BY <2>2, QueuesRight
  <2>4. Queues(side, "internal", "BlockingBegin", FALSE) => QueuedRight'
    BY <2>2, QueuesRight
  <2>5. QueuedRight'
    BY <2>2, <2>3, <2>4
  <2> QED
    BY <1>4, <2>5 DEF PickAction, Marked, MarkedRight
<1>5. CASE PickNothing(Peeks) \/ PickAggregateDelay(Peeks)
  BY <1>5 DEF PickNothing, PickAggregateDelay, Marked, QueuedRight, MarkedRight
<1> QED
  BY <1>1, <1>2, <1>3, <1>4, <1>5 DEF PickNext

LEMMA MarkedNetwork ==
  ASSUME Typed, Marked, SimNetworkStack
  PROVE  Marked'
<1>1. MarkedRight(next)'
  <2>1. UNCHANGED next
    BY DEF SimNetworkStack, NormalSent, QueuePadding, DropPadding, ReplacePadding,
           TunnelSent, TunnelRecv, NotNetwork, Advance
  <2> QED
    BY <2>1 DEF Marked, MarkedRight
<1> SUFFICES QueuedRight'
  BY <1>1 DEF Marked
<1> DEFINE side  == next.side
           other == Other(side)
<1>2. CASE NormalSent
  <2>1. side \in Side /\ Queues(side, "blocking", "TunnelSent", FALSE)
    BY <1>2, NormalSentQueues
  <2> HIDE DEF side
  <2> QED
    BY <2>1, QueuesRight
<1>3. CASE QueuePadding
  <2>1. PICK q : side \in Side /\ Queues(side, q, "TunnelSent", next.contains_padding)
    BY <1>3, PaddingQueues
  <2> HIDE DEF side
  <2> QED
    BY <2>1, QueuesRight
<1>4. CASE TunnelSent
  <2>1. other \in Side /\ Queues(other, "internal", "TunnelRecv", next.contains_padding)
    BY <1>4, TunnelSentTyped, NextTyped
  <2> HIDE DEF other
  <2> QED
    BY <2>1, QueuesRight
<1>5. CASE TunnelRecv
  <2>1. PICK event \in {"PaddingRecv", "NormalRecv"} :
          side \in Side /\ Queues(side, "internal", event, next.contains_padding)
    BY <1>5, TunnelRecvQueues
  <2> HIDE DEF side
  <2> QED
    BY <2>1, QueuesRight
<1>6. CASE ReplacePadding
  <2>1. PICK e \in Replacements :
          sq' = [sq EXCEPT ![next.side] =
                   Push(Pop(@, ReplaceQueue, e), [e EXCEPT !.bypass = TRUE, !.replace = FALSE])]
    BY <1>6 DEF ReplacePadding
  <2> DEFINE f == [e EXCEPT !.bypass = TRUE, !.replace = FALSE]
             popped == [sq EXCEPT ![next.side] = Pop(@, ReplaceQueue, e)]
  <2>2. next.side \in Side /\ SidesOK(sq)
    BY NextTyped DEF Typed
  <2>3. /\ e \in SimEvent /\ e.side = next.side /\ ReplaceQueue \in Queue
        /\ e \in DOMAIN sq[next.side][ReplaceQueue]
    BY <2>2, ReplacementTyped DEF Replacements, Tops
  <2>4. f \in SimEvent /\ f.side = next.side /\ MarkedRight(f)
    BY <2>2, <2>3 DEF SimEvent, Marked, QueuedRight, MarkedRight
  <2> HIDE DEF f
  <2>5. SidesOK(popped)
    BY <2>2, <2>3, SidePop
  <2>6. sq' = [popped EXCEPT ![next.side] = Push(@, f)]
    BY <2>1, <2>2 DEF f, SidesOK
  <2>7. \A s \in Side, q \in Queue : \A g \in DOMAIN popped[s][q] : g \in DOMAIN sq[s][q]
    BY <2>2, <2>3, PoppedOnly
  <2> HIDE DEF popped
  <2>8. \A s \in Side, q \in Queue : \A g \in DOMAIN sq'[s][q] :
          g = f \/ g \in DOMAIN popped[s][q]
    BY <2>2, <2>4, <2>5, <2>6, PushedOnly
  <2> QED
    BY <2>4, <2>7, <2>8 DEF Marked, QueuedRight
<1>7. CASE DropPadding \/ NotNetwork
  BY <1>7 DEF DropPadding, NotNetwork, Marked, QueuedRight
<1> QED
  BY <1>2, <1>3, <1>4, <1>5, <1>6, <1>7 DEF SimNetworkStack

(* What trigger_update reports is no packet. *)
LEMMA TriggerReports ==
  ASSUME Typed, TriggerUpdate
  PROVE  \E E : /\ E \subseteq SimEvent /\ IsFiniteSet(E)
                /\ \A e \in E : e.event = "TimerBegin" /\ e.time = current_time
                /\ \A s \in Side, q \in Queue :
                     \/ sq'[s][q] = sq[s][q]
                     \/ sq'[s][q] = sq[s][q] (+) SetToBag(E)
<1>1. PICK E : /\ E \subseteq SimEvent /\ IsFiniteSet(E)
               /\ \A e \in E : e.side = next.side /\ e.event = "TimerBegin" /\ e.time = current_time
               /\ sq' = ReportTo(next.side, E)
  BY TimersReported
<1>2. next.side \in Side /\ SidesOK(sq)
  BY NextTyped DEF Typed
<1>3. \A s \in Side, q \in Queue :
        sq'[s][q] = IF s = next.side /\ q = "internal" THEN sq[s][q] (+) SetToBag(E)
                    ELSE sq[s][q]
  BY <1>1, <1>2 DEF ReportTo, Report, SidesOK, SideOK, Queue
<1> QED
  BY <1>1, <1>3

LEMMA MarkedTrigger ==
  ASSUME Typed, Marked, TriggerUpdate
  PROVE  Marked'
<1>1. PICK E : /\ E \subseteq SimEvent /\ IsFiniteSet(E)
               /\ \A e \in E : e.event = "TimerBegin"
               /\ \A s \in Side, q \in Queue :
                    \/ sq'[s][q] = sq[s][q]
                    \/ sq'[s][q] = sq[s][q] (+) SetToBag(E)
  BY TriggerReports
<1>2. \A s \in Side, q \in Queue : DOMAIN (sq[s][q] (+) SetToBag(E)) = DOMAIN sq[s][q] \cup E
  BY DEF (+), SetToBag
<1>3. \A s \in Side, q \in Queue : \A e \in DOMAIN sq'[s][q] : e \in DOMAIN sq[s][q] \/ e \in E
  BY <1>1, <1>2
<1>4. QueuedRight'
  BY <1>1, <1>3 DEF Marked, QueuedRight, MarkedRight
<1>5. next'.event = "TimerEnd"
  BY DEF TriggerUpdate, NoEvent, Plain
<1> QED
  BY <1>4, <1>5 DEF Marked, MarkedRight

(* Before the first step only the trace's packets are queued. *)
LEMMA QueuedAtFirst ==
  ASSUME Init, NEW s \in Side, NEW q \in Queue
  PROVE  /\ q # "base" => sq[s][q] = <<>>
         /\ \A e \in DOMAIN sq[s][q] : e.event = "NormalSent" /\ ~e.contains_padding
<1>1. PICK delays : sq = ParseTrace(trace, delays)
  BY DEF Init
<1> DEFINE event(k) == BaseEvent(trace[k], delays[k])
           lines(side) == {k \in DOMAIN trace : SenderOf(trace[k]) = side}
           base(side) == [e \in {event(k) : k \in lines(side)} |->
                            Cardinality({k \in lines(side) : event(k) = e})]
<1>2. sq = [side \in Side |-> [EmptyQueues EXCEPT !.base = base(side)]]
  BY <1>1 DEF ParseTrace
<1>3. \A k : event(k).event = "NormalSent" /\ event(k).contains_padding = FALSE
  BY DEF BaseEvent, Plain
<1>4. \A e \in DOMAIN base(s) : e.event = "NormalSent" /\ e.contains_padding = FALSE
  BY <1>3
<1> HIDE DEF base
<1>5. sq[s][q] = IF q = "base" THEN base(s) ELSE <<>>
  BY <1>2 DEF EmptyQueues, Queue
<1> QED
  BY <1>4, <1>5

LEMMA AlwaysMarked == Spec => []Marked
<1>1. Init => Marked
  <2> SUFFICES ASSUME Init PROVE Marked
    OBVIOUS
  <2>1. QueuedRight
    BY QueuedAtFirst DEF QueuedRight, MarkedRight
  <2>2. next.event = "TimerEnd"
    BY DEF Init, NoEvent, Plain
  <2> QED
    BY <2>1, <2>2 DEF Marked, MarkedRight
<1>2. Typed /\ Marked /\ [Next]_vars => Marked'
  <2> SUFFICES ASSUME Typed, Marked, [Next]_vars PROVE Marked'
    OBVIOUS
  <2>1. CASE Run
    BY <2>1, MarkedPick, MarkedNetwork, MarkedTrigger DEF Run
  <2>2. CASE UNCHANGED vars
    BY <2>2 DEF vars, Marked, QueuedRight, MarkedRight
  <2> QED
    BY <2>1, <2>2 DEF Next, Finished
<1> QED
  BY <1>1, <1>2, AlwaysTyped, PTL DEF Spec

-----------------------------------------------------------------------------
(***************************************************************************)
(* The refinement.  Steps that move no packet of the trace are stutters of *)
(* Tunnel, or set a gate.                                                  *)
(***************************************************************************)
GatesSame(S) == \A s \in S : Gate(s)' = Gate(s)

LEMMA GateSame ==
  ASSUME NEW S, \A s \in S : UNCHANGED <<blocking_until[s], blocking_bypassable[s]>>
  PROVE  GatesSame(S)
BY DEF GatesSame, Gate

(* The packets of a side that Tunnel sees. *)
SeenSame ==
  \A s \in Side : /\ Plainly(s)' = Plainly(s)
                  /\ Exempted(s)' = Exempted(s)
                  /\ Coming(s)' = Coming(s)

LEMMA NothingSeen ==
  ASSUME NothingMoves
  PROVE  SeenSame
<1> SUFFICES ASSUME NEW s \in Side
             PROVE  /\ Plainly(s)' = Plainly(s)
                    /\ Exempted(s)' = Exempted(s)
                    /\ Coming(s)' = Coming(s)
  BY DEF SeenSame
<1>1. /\ "base" \in Queue /\ "blocking" \in Queue /\ "bypassable" \in Queue
      /\ "internal" \in Queue /\ Other(s) \in Side
      /\ "NormalSent" \in PacketKind /\ "TunnelSent" \in PacketKind
      /\ "TunnelRecv" \in PacketKind
  BY DEF Queue, Other, Side, PacketKind
<1>2. /\ Packets(s, "base", "NormalSent")' = Packets(s, "base", "NormalSent")
      /\ Packets(s, "blocking", "TunnelSent")' = Packets(s, "blocking", "TunnelSent")
      /\ Packets(s, "bypassable", "TunnelSent")' = Packets(s, "bypassable", "TunnelSent")
  BY <1>1 DEF NothingMoves
<1> DEFINE other == Other(s)
<1>3. Packets(other, "internal", "TunnelRecv")' = Packets(other, "internal", "TunnelRecv")
  <2> HIDE DEF other
  <2> QED
    BY <1>1 DEF NothingMoves, other
<1> QED
  BY <1>2, <1>3 DEF Plainly, Exempted, Coming

LEMMA TunnelStutters ==
  ASSUME SeenSame, GatesSame(Side), UNCHANGED received
  PROVE  UNCHANGED (TunnelOf!tunnel)
BY DEF TunnelOf!tunnel, SeenSame, GatesSame

LEMMA TunnelGate ==
  ASSUME NothingMoves, UNCHANGED received,
         NEW side \in Side, GatesSame(Side \ {side})
  PROVE  TunnelOf!SetGate(side)
<1>1. Gate(side)' \in {"open", "bypass", "shut"}
  BY DEF Gate
<1>2. \A s \in Side : Gate(s)' = IF s = side THEN Gate(side)' ELSE Gate(s)
  BY DEF GatesSame
<1> QED
  BY <1>1, <1>2, NothingSeen DEF TunnelOf!SetGate, SeenSame

LEMMA OtherQueued ==
  ASSUME Typed, NEW side \in Side, NEW q \in Queue, NEW event, NEW padding \in BOOLEAN,
         Queues(side, q, event, padding), event \notin PacketKind \/ padding,
         \A s \in Side, r \in Queue, kind \in PacketKind :
           Carried(s, r, kind)' = Carried(s, r, kind)
  PROVE  NothingMoves
<1>1. \A s \in Side, r \in Queue, kind \in PacketKind : Held(s, r, kind)' = Held(s, r, kind)
  BY HeldOtherwise
<1> QED
  BY <1>1 DEF NothingMoves, Packets, Held, Carried

LEMMA NeverCarried ==
  ASSUME ~IsPacket(next, "NormalSent"), ~IsPacket(next, "TunnelSent"),
         ~IsPacket(next, "TunnelRecv"), pc' # "network"
  PROVE  \A s \in Side, r \in Queue, kind \in PacketKind :
           Carried(s, r, kind)' = Carried(s, r, kind)
BY DEF PacketKind, Carried, Here

(* The event picked is carried instead of queued. *)
LEMMA PickQueueMoves ==
  ASSUME Typed, pc = "pick", PickQueue(Peeks)
  PROVE  NothingMoves
<1> DEFINE p == Peeks.queue
<1>1. /\ p.side \in Side /\ p.queue \in Filled(sq[p.side])
      /\ next' \in SimEvent /\ next'.side = p.side /\ pc' = "network"
  BY QueuePicked DEF PickQueue
<1>2. PICK top \in Tops(sq[p.side][p.queue]) :
        /\ QueueOf(top) = p.queue
        /\ next'.event = top.event /\ next'.bypass = top.bypass
        /\ next'.contains_padding = top.contains_padding
        /\ sq' = [sq EXCEPT ![p.side] = Pop(@, p.queue, top)]
  BY QueuePicked
<1> HIDE DEF p
<1>3. p.queue \in Queue /\ top \in DOMAIN sq[p.side][p.queue] /\ SidesOK(sq)
  BY <1>1 DEF Filled, Tops, Typed
<1>4. top.side = p.side
  BY <1>1, <1>3 DEF SidesOK, SideOK
<1>5. ASSUME NEW s \in Side, NEW q \in Queue, NEW kind \in PacketKind
      PROVE  Packets(s, q, kind)' = Packets(s, q, kind)
  <2>1. InQueue([sq EXCEPT ![p.side] = Pop(@, p.queue, top)][s][q], kind) + Here(top, s, q, kind)
          = InQueue(sq[s][q], kind)
    BY <1>1, <1>3, PacketPopped
  <2>2. Here(next', s, q, kind) = Here(top, s, q, kind)
    BY <1>1, <1>2, <1>4 DEF Here, IsPacket, QueueOf
  <2>3. Packets(s, q, kind)' = InQueue(sq'[s][q], kind) + Here(next', s, q, kind)
    BY <1>1 DEF Packets
  <2>4. Packets(s, q, kind) = InQueue(sq[s][q], kind) + 0
    BY DEF Packets
  <2>5. InQueue(sq[s][q], kind) \in Nat
    BY PacketsTyped DEF Held
  <2> QED
    BY <1>2, <2>1, <2>2, <2>3, <2>4, <2>5
<1> QED
  BY <1>5 DEF NothingMoves

(* pick_next sets a gate, or does what Tunnel does not see. *)
LEMMA PickKeeps ==
  ASSUME Typed, PickNext
  PROVE  (\E side \in Side : TunnelOf!SetGate(side)) \/ UNCHANGED (TunnelOf!tunnel)
<1>0. pc = "pick"
  BY DEF PickNext
<1>1. CASE PickExpiry(Peeks)
  <2> DEFINE side == Peeks.expiry.side
  <2>1. /\ side \in Side
        /\ \/ Queues(side, "internal", "BlockingEnd", FALSE) /\ UNCHANGED <<pc, next>>
           \/ UNCHANGED sq /\ next'.event = "BlockingEnd"
    BY <1>1, ExpiryQueues
  <2>2. /\ blocking_until' = [blocking_until EXCEPT ![side] = None]
        /\ UNCHANGED blocking_bypassable /\ UNCHANGED received
    BY <1>1 DEF PickExpiry
  <2> HIDE DEF side
  <2>3. NothingMoves
    <3>1. CASE Queues(side, "internal", "BlockingEnd", FALSE) /\ UNCHANGED <<pc, next>>
      <4>1. \A s \in Side, r \in Queue, kind \in PacketKind :
              Carried(s, r, kind)' = Carried(s, r, kind)
        BY <3>1 DEF Carried
      <4>2. "internal" \in Queue /\ "BlockingEnd" \notin PacketKind
        BY DEF Queue, PacketKind
      <4> QED
        BY <2>1, <3>1, <4>1, <4>2, OtherQueued
    <3>2. CASE UNCHANGED sq /\ next'.event = "BlockingEnd"
      <4>1. \A s \in Side, r \in Queue, kind \in PacketKind :
              Here(next', s, r, kind) = 0
        BY <3>2 DEF Here, IsPacket, PacketKind
      <4> QED
        BY <1>0, <3>2, <4>1 DEF NothingMoves, Packets
    <3> QED
      BY <2>1, <3>1, <3>2
  <2>4. GatesSame(Side \ {side})
    <3>1. \A s \in Side \ {side} : UNCHANGED <<blocking_until[s], blocking_bypassable[s]>>
      BY <2>1, <2>2 DEF Typed
    <3> QED
      BY <3>1, GateSame
  <2> QED
    BY <2>1, <2>2, <2>3, <2>4, TunnelGate
<1>2. CASE PickQueue(Peeks)
  <2>1. NothingMoves
    BY <1>0, <1>2, PickQueueMoves
  <2>2. UNCHANGED <<blocking_until, blocking_bypassable, received>>
    BY <1>2 DEF PickQueue, blocks
  <2>3. GatesSame(Side)
    BY <2>2 DEF GatesSame, Gate
  <2> QED
    BY <2>1, <2>2, <2>3, NothingSeen, TunnelStutters
<1>3. CASE PickTimer(Peeks)
  <2>1. PICK side \in Side : Queues(side, "internal", "TimerEnd", FALSE)
    BY <1>3, TimerQueues
  <2>2. UNCHANGED <<blocking_until, blocking_bypassable, received, pc, next>>
    BY <1>3 DEF PickTimer, blocks, history
  <2>3. \A s \in Side, r \in Queue, kind \in PacketKind :
          Carried(s, r, kind)' = Carried(s, r, kind)
    BY <2>2 DEF Carried
  <2>4. "internal" \in Queue /\ "TimerEnd" \notin PacketKind
    BY DEF Queue, PacketKind
  <2>5. NothingMoves
    BY <2>1, <2>3, <2>4, OtherQueued
  <2>6. GatesSame(Side)
    BY <2>2 DEF GatesSame, Gate
  <2> QED
    BY <2>2, <2>5, <2>6, NothingSeen, TunnelStutters
<1>4. CASE PickAction(Peeks)
  <2>1. PICK side \in Side :
          \/ /\ Queues(side, "internal", "PaddingSent", TRUE)
             /\ UNCHANGED <<blocking_until, blocking_bypassable>>
          \/ /\ Queues(side, "internal", "BlockingBegin", FALSE)
             /\ \A s \in Side \ {side} : UNCHANGED <<blocking_until[s], blocking_bypassable[s]>>
    BY <1>4, ActionQueues
  <2>2. UNCHANGED <<received, pc, next>>
    BY <1>4 DEF PickAction
  <2>3. \A s \in Side, r \in Queue, kind \in PacketKind :
          Carried(s, r, kind)' = Carried(s, r, kind)
    BY <2>2 DEF Carried
  <2>4. /\ "internal" \in Queue
        /\ "PaddingSent" \notin PacketKind /\ "BlockingBegin" \notin PacketKind
    BY DEF Queue, PacketKind
  <2>5. Queues(side, "internal", "PaddingSent", TRUE) => NothingMoves
    BY <2>1, <2>3, <2>4, OtherQueued
  <2>6. Queues(side, "internal", "BlockingBegin", FALSE) => NothingMoves
    BY <2>1, <2>3, <2>4, OtherQueued
  <2>7. GatesSame(Side \ {side})
    <3>1. \A s \in Side \ {side} : UNCHANGED <<blocking_until[s], blocking_bypassable[s]>>
      BY <2>1
    <3> QED
      BY <3>1, GateSame
  <2> QED
    BY <2>1, <2>2, <2>5, <2>6, <2>7, TunnelGate
<1>5. CASE PickNothing(Peeks) \/ PickAggregateDelay(Peeks)
  <2>1. UNCHANGED <<sq, next, received, blocking_until, blocking_bypassable>> /\ pc' # "network"
    BY <1>0, <1>5 DEF PickNothing, PickAggregateDelay, blocks, history
  <2>2. NothingMoves
    BY <1>0, <2>1 DEF NothingMoves, Packets
  <2>3. GatesSame(Side)
    BY <2>1 DEF GatesSame, Gate
  <2> QED
    BY <2>1, <2>2, <2>3, NothingSeen, TunnelStutters
<1> QED
  BY <1>1, <1>2, <1>3, <1>4, <1>5 DEF PickNext

-----------------------------------------------------------------------------
(***************************************************************************)
(* The network stack takes the packet that is carried and queues another.  *)
(***************************************************************************)
NetworkStep == pc = "network" /\ pc' = "trigger"

LEMMA StackAdvances ==
  ASSUME SimNetworkStack
  PROVE  /\ NetworkStep
         /\ UNCHANGED <<blocking_until, blocking_bypassable>>
         /\ GatesSame(Side)
<1>1. NetworkStep /\ UNCHANGED <<blocking_until, blocking_bypassable>>
  BY DEF SimNetworkStack, NormalSent, QueuePadding, DropPadding, ReplacePadding,
         TunnelSent, TunnelRecv, NotNetwork, Advance, blocks, NetworkStep
<1> QED
  BY <1>1 DEF GatesSame, Gate

LEMMA NetworkMoves ==
  ASSUME Typed, NetworkStep, NEW side \in Side, NEW q \in Queue, NEW event,
         PacketJoins(side, q, event),
         NEW s \in Side, NEW r \in Queue, NEW kind
  PROVE  Packets(s, r, kind)' + Here(next, s, r, kind) =
           Packets(s, r, kind) + Joins(side, q, event, s, r, kind)
<1>1. Held(s, r, kind)' = Held(s, r, kind) + Joins(side, q, event, s, r, kind)
  BY HeldQueued
<1>2. Held(s, r, kind) \in Nat
  BY PacketsTyped
<1>3. Packets(s, r, kind)' = Held(s, r, kind)' + 0
  BY DEF Packets, Held, NetworkStep
<1>4. Packets(s, r, kind) = Held(s, r, kind) + Here(next, s, r, kind)
  BY DEF Packets, Held, NetworkStep
<1>5. Here(next, s, r, kind) \in {0, 1} /\ Joins(side, q, event, s, r, kind) \in {0, 1}
  BY DEF Here, Joins
<1> QED
  BY <1>1, <1>2, <1>3, <1>4, <1>5

(* Without a packet in hand, and none queued, nothing moves. *)
LEMMA NetworkPasses ==
  ASSUME Typed, NetworkStep, NEW side \in Side, NEW q \in Queue, NEW event,
         NEW padding \in BOOLEAN, Queues(side, q, event, padding),
         event \notin PacketKind \/ padding,
         \A kind \in PacketKind : ~IsPacket(next, kind)
  PROVE  NothingMoves
<1>1. \A s \in Side, r \in Queue, kind \in PacketKind :
        Carried(s, r, kind)' = Carried(s, r, kind)
  BY DEF Carried, Here, NetworkStep
<1> QED
  BY <1>1, OtherQueued

LEMMA QueuePaddingKeeps ==
  ASSUME Typed, Marked, QueuePadding
  PROVE  NothingMoves
<1> DEFINE side == next.side
<1>1. PICK q : side \in Side /\ Queues(side, q, "TunnelSent", next.contains_padding)
  BY PaddingQueues
<1>2. next.event = "PaddingSent" /\ next.contains_padding = TRUE
  <2>1. next.event = "PaddingSent" /\ next.contains_padding \in BOOLEAN
    BY NextTyped DEF QueuePadding, Advance
  <2> QED
    BY <2>1 DEF Marked, MarkedRight
<1>3. NetworkStep
  BY DEF QueuePadding, Advance, NetworkStep
<1>4. \A kind \in PacketKind : ~IsPacket(next, kind)
  BY <1>2 DEF IsPacket
<1>5. q \in Queue
  BY <1>1, QueueOfTyped DEF Queues
<1> HIDE DEF side
<1>6. Queues(side, q, "TunnelSent", TRUE)
  BY <1>1, <1>2
<1> QED
  BY <1>1, <1>3, <1>4, <1>5, <1>6, NetworkPasses

(* A normal packet still waits, but in another queue. *)
LEMMA NormalSentKeeps ==
  ASSUME Typed, Marked, NormalSent
  PROVE  SeenSame
<1> DEFINE side == next.side
<1>1. side \in Side /\ PacketJoins(side, "blocking", "TunnelSent")
  BY NormalSentQueues DEF PacketJoins
<1>2. next.event = "NormalSent" /\ next.contains_padding = FALSE
  <2>1. next.event = "NormalSent" /\ next.contains_padding \in BOOLEAN
    BY NextTyped DEF NormalSent, Advance
  <2> QED
    BY <2>1 DEF Marked, MarkedRight
<1>3. NetworkStep
  BY DEF NormalSent, Advance, NetworkStep
<1>4. \A s \in Side, r \in Queue, kind \in PacketKind :
        Here(next, s, r, kind) = IF s = side /\ r = "base" /\ kind = "NormalSent" THEN 1 ELSE 0
  BY <1>2 DEF Here, IsPacket, QueueOf
<1> HIDE DEF side
<1>5. \A s \in Side, r \in Queue, kind \in PacketKind :
        /\ Packets(s, r, kind)' + Here(next, s, r, kind) =
             Packets(s, r, kind) + Joins(side, "blocking", "TunnelSent", s, r, kind)
        /\ Packets(s, r, kind)' \in Nat /\ Packets(s, r, kind) \in Nat
  <2>1. "blocking" \in Queue
    BY DEF Queue
  <2>2. ASSUME NEW s \in Side, NEW r \in Queue, NEW kind \in PacketKind
        PROVE  Packets(s, r, kind)' + Here(next, s, r, kind) =
                 Packets(s, r, kind) + Joins(side, "blocking", "TunnelSent", s, r, kind)
    BY <1>1, <1>3, <2>1, NetworkMoves
  <2>3. ASSUME NEW s \in Side, NEW r \in Queue, NEW kind \in PacketKind
        PROVE  Packets(s, r, kind)' \in Nat /\ Packets(s, r, kind) \in Nat
    BY NormalSentTyped, PacketsNat
  <2> QED
    BY <2>2, <2>3
<1>6. ASSUME NEW s \in Side
      PROVE  Plainly(s)' = Plainly(s) /\ Exempted(s)' = Exempted(s) /\ Coming(s)' = Coming(s)
  <2>1. Other(s) \in Side
    BY DEF Other, Side
  <2>2. Plainly(s)' = Plainly(s)
    <3>1. /\ Here(next, s, "base", "NormalSent") = IF s = side THEN 1 ELSE 0
          /\ Here(next, s, "blocking", "TunnelSent") = 0
      BY <1>4 DEF Queue, PacketKind
    <3>2. /\ Packets(s, "base", "NormalSent")' + (IF s = side THEN 1 ELSE 0)
               = Packets(s, "base", "NormalSent")
          /\ Packets(s, "blocking", "TunnelSent")'
               = Packets(s, "blocking", "TunnelSent") + (IF s = side THEN 1 ELSE 0)
      BY <1>5, <3>1 DEF Queue, PacketKind, Joins
    <3>3. /\ Packets(s, "base", "NormalSent") \in Nat
          /\ Packets(s, "base", "NormalSent")' \in Nat
          /\ Packets(s, "blocking", "TunnelSent") \in Nat
          /\ Packets(s, "blocking", "TunnelSent")' \in Nat
      BY <1>5 DEF Queue, PacketKind
    <3> QED
      BY <3>2, <3>3 DEF Plainly
  <2>3. Exempted(s)' = Exempted(s)
    BY <1>4, <1>5 DEF Exempted, Queue, PacketKind, Joins
  <2>4. Coming(s)' = Coming(s)
    BY <1>4, <1>5, <2>1 DEF Coming, Queue, PacketKind, Joins
  <2> QED
    BY <2>2, <2>3, <2>4
<1> QED
  BY <1>6 DEF SeenSame

(* A packet enters the tunnel, through a gate that lets it pass. *)
LEMMA TunnelSentKeeps ==
  ASSUME Typed, FailClosed, TunnelSent
  PROVE  (\E side \in Side : TunnelOf!Enter(side)) \/ UNCHANGED (TunnelOf!tunnel)
<1> DEFINE side  == next.side
           other == Other(side)
<1>1. /\ side \in Side /\ other \in Side /\ "internal" \in Queue
      /\ Queues(other, "internal", "TunnelRecv", next.contains_padding)
      /\ next.contains_padding \in BOOLEAN /\ next.bypass \in BOOLEAN
  BY TunnelSentTyped, NextTyped DEF Queue
<1>2. NetworkStep /\ GatesSame(Side) /\ next.event = "TunnelSent" /\ UNCHANGED received
  BY StackAdvances DEF SimNetworkStack, TunnelSent, Advance
<1>3. CASE next.contains_padding
  <2>1. \A kind \in PacketKind : ~IsPacket(next, kind)
    BY <1>3 DEF IsPacket
  <2> HIDE DEF side, other
  <2>2. NothingMoves
    BY <1>1, <1>2, <1>3, <2>1, NetworkPasses
  <2> QED
    BY <1>2, <2>2, NothingSeen, TunnelStutters
<1>4. CASE ~next.contains_padding
  <2>1. PacketJoins(other, "internal", "TunnelRecv")
    BY <1>1, <1>4 DEF PacketJoins
  <2>2. \A s \in Side, r \in Queue, kind \in PacketKind :
          Here(next, s, r, kind) =
            Joins(side, IF next.bypass THEN "bypassable" ELSE "blocking", "TunnelSent", s, r, kind)
    BY <1>2, <1>4 DEF Here, Joins, IsPacket, QueueOf
  <2> DEFINE from == IF next.bypass THEN "bypassable" ELSE "blocking"
  <2>3. /\ next.bypass => Gate(side) # "shut"
        /\ ~next.bypass => Gate(side) = "open"
    <3>1. blocking_until[side] # None => next.bypass /\ blocking_bypassable[side]
      BY <1>2 DEF FailClosed, NetworkStep
    <3> HIDE DEF side
    <3>2. CASE blocking_until[side] = None
      <4>1. Gate(side) = "open"
        BY <3>2 DEF Gate
      <4> QED
        BY <4>1
    <3>3. CASE blocking_until[side] # None
      <4>1. next.bypass /\ blocking_bypassable[side]
        BY <3>1, <3>3
      <4>2. Gate(side) = "bypass"
        BY <3>3, <4>1 DEF Gate
      <4> QED
        BY <4>1, <4>2
    <3> QED
      BY <3>2, <3>3
  <2>4. \A s \in Side : s = side <=> Other(s) = other
    BY <1>1 DEF Other, Side
  <2> HIDE DEF side, other, from
  <2>5. ASSUME NEW s \in Side, NEW r \in Queue, NEW kind \in PacketKind
        PROVE  /\ Packets(s, r, kind)' + Joins(side, from, "TunnelSent", s, r, kind)
                    = Packets(s, r, kind) + Joins(other, "internal", "TunnelRecv", s, r, kind)
               /\ Packets(s, r, kind) \in Nat /\ Packets(s, r, kind)' \in Nat
    <3>1. Packets(s, r, kind)' + Here(next, s, r, kind)
            = Packets(s, r, kind) + Joins(other, "internal", "TunnelRecv", s, r, kind)
      BY <1>1, <1>2, <2>1, NetworkMoves
    <3>2. Here(next, s, r, kind) = Joins(side, from, "TunnelSent", s, r, kind)
      BY <2>2 DEF from
    <3>3. Packets(s, r, kind) \in Nat /\ Packets(s, r, kind)' \in Nat
      BY TunnelSentTyped, PacketsNat
    <3> QED
      BY <3>1, <3>2, <3>3
  <2>6. ASSUME NEW s \in Side
        PROVE  /\ Packets(s, "base", "NormalSent")' = Packets(s, "base", "NormalSent")
               /\ Packets(s, "base", "NormalSent") \in Nat
               /\ Packets(s, "blocking", "TunnelSent") =
                    Packets(s, "blocking", "TunnelSent")'
                      + Joins(side, from, "TunnelSent", s, "blocking", "TunnelSent")
               /\ Exempted(s) =
                    Exempted(s)' + Joins(side, from, "TunnelSent", s, "bypassable", "TunnelSent")
               /\ Packets(s, "blocking", "TunnelSent")' \in Nat
               /\ Exempted(s)' \in Nat
    <3>1. "base" \in Queue /\ "blocking" \in Queue /\ "bypassable" \in Queue
          /\ "NormalSent" \in PacketKind /\ "TunnelSent" \in PacketKind
      BY DEF Queue, PacketKind
    <3>2. /\ Joins(side, from, "TunnelSent", s, "base", "NormalSent") = 0
          /\ Joins(other, "internal", "TunnelRecv", s, "base", "NormalSent") = 0
          /\ Joins(other, "internal", "TunnelRecv", s, "blocking", "TunnelSent") = 0
          /\ Joins(other, "internal", "TunnelRecv", s, "bypassable", "TunnelSent") = 0
      BY DEF Joins
    <3>3. \A r \in Queue, kind \in PacketKind :
            Joins(side, from, "TunnelSent", s, r, kind) \in {0, 1}
      BY DEF Joins
    <3>4. /\ Packets(s, "base", "NormalSent")' = Packets(s, "base", "NormalSent")
          /\ Packets(s, "base", "NormalSent") \in Nat
      BY <2>5, <3>1, <3>2
    <3>5. /\ Packets(s, "blocking", "TunnelSent") =
               Packets(s, "blocking", "TunnelSent")'
                 + Joins(side, from, "TunnelSent", s, "blocking", "TunnelSent")
          /\ Packets(s, "blocking", "TunnelSent")' \in Nat
      BY <2>5, <3>1, <3>2, <3>3
    <3>6. /\ Packets(s, "bypassable", "TunnelSent") =
               Packets(s, "bypassable", "TunnelSent")'
                 + Joins(side, from, "TunnelSent", s, "bypassable", "TunnelSent")
          /\ Packets(s, "bypassable", "TunnelSent")' \in Nat
      BY <2>5, <3>1, <3>2, <3>3
    <3> QED
      BY <3>4, <3>5, <3>6 DEF Exempted
  <2>7. \A s \in Side : Coming(s)' = IF s = side THEN Coming(s) + 1 ELSE Coming(s)
    <3> SUFFICES ASSUME NEW s \in Side
                 PROVE  Coming(s)' = IF s = side THEN Coming(s) + 1 ELSE Coming(s)
      OBVIOUS
    <3> DEFINE o == Other(s)
    <3>1. o \in Side /\ (s = side <=> o = other)
      BY <2>4 DEF Other, Side
    <3> HIDE DEF o
    <3>2. "internal" \in Queue /\ "TunnelRecv" \in PacketKind
      BY DEF Queue, PacketKind
    <3>3. /\ Joins(side, from, "TunnelSent", o, "internal", "TunnelRecv") = 0
          /\ Joins(other, "internal", "TunnelRecv", o, "internal", "TunnelRecv")
               = IF s = side THEN 1 ELSE 0
      BY <3>1 DEF Joins
    <3>4. Packets(o, "internal", "TunnelRecv")' =
            Packets(o, "internal", "TunnelRecv")
              + Joins(other, "internal", "TunnelRecv", o, "internal", "TunnelRecv")
          /\ Packets(o, "internal", "TunnelRecv") \in Nat
      BY <2>5, <3>1, <3>2, <3>3
    <3>5. Packets(o, "internal", "TunnelRecv")' =
            IF s = side THEN Packets(o, "internal", "TunnelRecv") + 1
            ELSE Packets(o, "internal", "TunnelRecv")
      BY <3>3, <3>4
    <3> QED
      BY <3>5 DEF Coming, o
  <2>8. TunnelOf!Enter(side)
    <3>1. CASE next.bypass
      <4>1. \A s \in Side :
              /\ Joins(side, from, "TunnelSent", s, "blocking", "TunnelSent") = 0
              /\ Joins(side, from, "TunnelSent", s, "bypassable", "TunnelSent")
                   = IF s = side THEN 1 ELSE 0
        BY <3>1 DEF Joins, from
      <4>2. \A s \in Side :
              Packets(s, "blocking", "TunnelSent")' = Packets(s, "blocking", "TunnelSent")
        BY <2>6, <4>1
      <4>3. \A s \in Side : Plainly(s)' = Plainly(s)
        BY <2>6, <4>2 DEF Plainly
      <4>4. \A s \in Side : Exempted(s)' = IF s = side THEN Exempted(s) - 1 ELSE Exempted(s)
        BY <2>6, <4>1
      <4>5. Exempted(side) > 0
        BY <1>1, <2>6, <4>1
      <4> QED
        BY <1>1, <1>2, <2>3, <2>7, <3>1, <4>3, <4>4, <4>5 DEF TunnelOf!Enter, GatesSame
    <3>2. CASE ~next.bypass
      <4>1. \A s \in Side :
              /\ Joins(side, from, "TunnelSent", s, "bypassable", "TunnelSent") = 0
              /\ Joins(side, from, "TunnelSent", s, "blocking", "TunnelSent")
                   = IF s = side THEN 1 ELSE 0
        BY <3>2 DEF Joins, from
      <4>2. \A s \in Side : Exempted(s)' = Exempted(s)
        BY <2>6, <4>1
      <4>3. \A s \in Side :
              Packets(s, "blocking", "TunnelSent")' =
                IF s = side THEN Packets(s, "blocking", "TunnelSent") - 1
                ELSE Packets(s, "blocking", "TunnelSent")
        BY <2>6, <4>1
      <4>4. ASSUME NEW s \in Side
            PROVE  Plainly(s)' = IF s = side THEN Plainly(s) - 1 ELSE Plainly(s)
        <5>1. /\ Packets(s, "base", "NormalSent")' = Packets(s, "base", "NormalSent")
              /\ Packets(s, "base", "NormalSent") \in Nat
              /\ Packets(s, "blocking", "TunnelSent")' =
                   IF s = side THEN Packets(s, "blocking", "TunnelSent") - 1
                   ELSE Packets(s, "blocking", "TunnelSent")
              /\ Packets(s, "blocking", "TunnelSent")' \in Nat
              /\ Packets(s, "blocking", "TunnelSent") \in Nat
          BY <2>5, <2>6, <4>3 DEF Queue, PacketKind
        <5> QED
          BY <5>1 DEF Plainly
      <4>5. Plainly(side) > 0
        BY <1>1, <2>6, <4>1 DEF Plainly
      <4> QED
        BY <1>1, <1>2, <2>3, <2>7, <3>2, <4>2, <4>4, <4>5 DEF TunnelOf!Enter, GatesSame
    <3> QED
      BY <1>1, <3>1, <3>2
  <2> QED
    BY <1>1, <2>8
<1> QED
  BY <1>1, <1>3, <1>4

(* Padding passes its bypass flag on to a packet that waits plainly, or to
   one that has it already.                                                *)
LEMMA ReplacePaddingKeeps ==
  ASSUME Typed, Marked, ReplacePadding
  PROVE  (\E side \in Side : TunnelOf!Exempt(side)) \/ UNCHANGED (TunnelOf!tunnel)
<1> DEFINE side == next.side
           from == ReplaceQueue
<1>1. PICK e \in Replacements :
        sq' = [sq EXCEPT ![side] =
                 Push(Pop(@, from, e), [e EXCEPT !.bypass = TRUE, !.replace = FALSE])]
  BY DEF ReplacePadding
<1> DEFINE f == [e EXCEPT !.bypass = TRUE, !.replace = FALSE]
           popped == [sq EXCEPT ![side] = Pop(@, from, e)]
<1>2. side \in Side /\ SidesOK(sq) /\ NetworkStep /\ UNCHANGED received
  BY NextTyped DEF Typed, ReplacePadding, Advance, NetworkStep
<1>3. /\ e \in SimEvent /\ e.side = side /\ from \in Queue
      /\ e \in DOMAIN sq[side][from] /\ ~e.contains_padding
  BY <1>2, ReplacementTyped DEF Replacements, Tops
<1>4. from \in {"blocking", "bypassable"} /\ QueueOf(e) = from
  BY <1>2, <1>3 DEF ReplaceQueue, FirstBlocking, Sooner, SidesOK, SideOK
<1>5. /\ f \in SimEvent /\ f.side = side /\ f.event = e.event
      /\ f.bypass = TRUE /\ f.contains_padding = e.contains_padding
  BY <1>3 DEF SimEvent
<1>6. e.event = "TunnelSent"
  BY <1>4 DEF QueueOf
<1>7. \A s \in Side, r \in Queue, kind \in PacketKind :
        /\ Here(e, s, r, kind) = Joins(side, from, "TunnelSent", s, r, kind)
        /\ Here(f, s, r, kind) = Joins(side, "bypassable", "TunnelSent", s, r, kind)
        /\ Here(next, s, r, kind) = 0
  <2>1. next.event = "PaddingSent"
    BY DEF ReplacePadding, Advance
  <2>2. QueueOf(f) = "bypassable"
    BY <1>5, <1>6 DEF QueueOf
  <2> HIDE DEF f, from, side
  <2> QED
    BY <1>3, <1>4, <1>5, <1>6, <2>1, <2>2 DEF Here, IsPacket, Joins, PacketKind
<1>8. sq' = [popped EXCEPT ![side] = Push(@, f)]
  BY <1>1, <1>2 DEF SidesOK
<1> HIDE DEF side, from, f
<1>9. SidesOK(popped)
  BY <1>2, <1>3, SidePop
<1>10. ASSUME NEW s \in Side, NEW r \in Queue, NEW kind \in PacketKind
       PROVE  /\ Packets(s, r, kind)' + Joins(side, from, "TunnelSent", s, r, kind)
                   = Packets(s, r, kind) + Joins(side, "bypassable", "TunnelSent", s, r, kind)
              /\ Packets(s, r, kind) \in Nat /\ Packets(s, r, kind)' \in Nat
  <2>1. InQueue(popped[s][r], kind) + Here(e, s, r, kind) = InQueue(sq[s][r], kind)
    BY <1>2, <1>3, PacketPopped
  <2> HIDE DEF popped
  <2>2. InQueue([popped EXCEPT ![side] = Push(@, f)][s][r], kind)
          = InQueue(popped[s][r], kind) + Here(f, s, r, kind)
    BY <1>2, <1>5, <1>9, PacketPushed
  <2>3. InQueue(sq'[s][r], kind) = InQueue(popped[s][r], kind) + Here(f, s, r, kind)
    BY <1>8, <2>2
  <2>4. IsBag(popped[s][r], SimEvent)
    BY <1>9 DEF SidesOK, SideOK
  <2>5. InQueue(popped[s][r], kind) \in Nat
    BY <2>4, InQueueTyped
  <2>6. /\ Packets(s, r, kind) = InQueue(sq[s][r], kind) + 0
        /\ Packets(s, r, kind)' = InQueue(sq'[s][r], kind) + 0
    BY <1>2, <1>7 DEF Packets, NetworkStep
  <2>7. /\ Joins(side, from, "TunnelSent", s, r, kind) \in {0, 1}
        /\ Joins(side, "bypassable", "TunnelSent", s, r, kind) \in {0, 1}
    BY DEF Joins
  <2> QED
    BY <1>7, <2>1, <2>3, <2>5, <2>6, <2>7
<1>11. GatesSame(Side)
  BY StackAdvances DEF SimNetworkStack
<1>12. CASE from = "bypassable"
  <2>1. NothingMoves
    BY <1>10, <1>12 DEF NothingMoves, Joins
  <2> QED
    BY <1>2, <1>11, <2>1, NothingSeen, TunnelStutters
<1>13. CASE from = "blocking"
  <2>1. ASSUME NEW s \in Side
        PROVE  /\ Packets(s, "base", "NormalSent")' = Packets(s, "base", "NormalSent")
               /\ Packets(s, "base", "NormalSent") \in Nat
               /\ Packets(s, "blocking", "TunnelSent") =
                    IF s = side THEN Packets(s, "blocking", "TunnelSent")' + 1
                    ELSE Packets(s, "blocking", "TunnelSent")'
               /\ Packets(s, "blocking", "TunnelSent")' \in Nat
               /\ Packets(s, "bypassable", "TunnelSent")' =
                    IF s = side THEN Packets(s, "bypassable", "TunnelSent") + 1
                    ELSE Packets(s, "bypassable", "TunnelSent")
               /\ Packets(s, "internal", "TunnelRecv")' = Packets(s, "internal", "TunnelRecv")
    <3>1. /\ "base" \in Queue /\ "blocking" \in Queue /\ "bypassable" \in Queue
          /\ "internal" \in Queue
          /\ "NormalSent" \in PacketKind /\ "TunnelSent" \in PacketKind
          /\ "TunnelRecv" \in PacketKind
      BY DEF Queue, PacketKind
    <3>2. \A q \in Queue : /\ Joins(side, q, "TunnelSent", s, "base", "NormalSent") = 0
                           /\ Joins(side, q, "TunnelSent", s, "internal", "TunnelRecv") = 0
      BY DEF Joins
    <3>3. /\ Joins(side, "bypassable", "TunnelSent", s, "blocking", "TunnelSent") = 0
          /\ Joins(side, from, "TunnelSent", s, "bypassable", "TunnelSent") = 0
          /\ Joins(side, from, "TunnelSent", s, "blocking", "TunnelSent")
               = IF s = side THEN 1 ELSE 0
          /\ Joins(side, "bypassable", "TunnelSent", s, "bypassable", "TunnelSent")
               = IF s = side THEN 1 ELSE 0
      BY <1>13 DEF Joins
    <3>4. /\ Packets(s, "base", "NormalSent")' = Packets(s, "base", "NormalSent")
          /\ Packets(s, "base", "NormalSent") \in Nat
      BY <1>3, <1>10, <3>1, <3>2
    <3>5. /\ Packets(s, "blocking", "TunnelSent") =
               IF s = side THEN Packets(s, "blocking", "TunnelSent")' + 1
               ELSE Packets(s, "blocking", "TunnelSent")'
          /\ Packets(s, "blocking", "TunnelSent")' \in Nat
      BY <1>10, <3>1, <3>3
    <3>6. Packets(s, "bypassable", "TunnelSent")' =
            IF s = side THEN Packets(s, "bypassable", "TunnelSent") + 1
            ELSE Packets(s, "bypassable", "TunnelSent")
      BY <1>10, <3>1, <3>3
    <3>7. Packets(s, "internal", "TunnelRecv")' = Packets(s, "internal", "TunnelRecv")
      BY <1>3, <1>10, <3>1, <3>2
    <3> QED
      BY <3>4, <3>5, <3>6, <3>7
  <2>2. ASSUME NEW s \in Side
        PROVE  /\ Plainly(s) = IF s = side THEN Plainly(s)' + 1 ELSE Plainly(s)'
               /\ Plainly(s)' \in Nat
    BY <2>1 DEF Plainly
  <2>3. \A s \in Side : Exempted(s)' = IF s = side THEN Exempted(s) + 1 ELSE Exempted(s)
    BY <2>1 DEF Exempted
  <2>4. ASSUME NEW s \in Side
        PROVE  Coming(s)' = Coming(s)
    <3> DEFINE o == Other(s)
    <3>1. o \in Side
      BY DEF Other, Side
    <3> HIDE DEF o
    <3>2. Packets(o, "internal", "TunnelRecv")' = Packets(o, "internal", "TunnelRecv")
      BY <2>1, <3>1
    <3> QED
      BY <3>2 DEF Coming, o
  <2>5. \A s \in Side : Plainly(s)' = IF s = side THEN Plainly(s) - 1 ELSE Plainly(s)
    BY <2>2
  <2>6. Plainly(side) > 0
    BY <1>2, <2>2
  <2>7. TunnelOf!Exempt(side)
    BY <1>2, <1>11, <2>3, <2>4, <2>5, <2>6 DEF TunnelOf!Exempt, GatesSame
  <2> QED
    BY <1>2, <2>7
<1> QED
  BY <1>4, <1>12, <1>13

(* A packet leaves the tunnel; padding does so unseen. *)
LEMMA TunnelRecvKeeps ==
  ASSUME Typed, TunnelRecv
  PROVE  (\E side \in Side : TunnelOf!Leave(side)) \/ UNCHANGED (TunnelOf!tunnel)
<1> DEFINE side == next.side
           padding == next.contains_padding
<1>1. PICK event \in {"PaddingRecv", "NormalRecv"} :
        side \in Side /\ Queues(side, "internal", event, padding)
  BY TunnelRecvQueues
<1>2. /\ NetworkStep /\ GatesSame(Side) /\ next.event = "TunnelRecv"
      /\ padding \in BOOLEAN /\ "internal" \in Queue /\ event \notin PacketKind
  BY StackAdvances, NextTyped DEF SimNetworkStack, TunnelRecv, Advance, Queue, PacketKind
<1>3. CASE padding
  <2>1. \A kind \in PacketKind : ~IsPacket(next, kind)
    BY <1>3 DEF IsPacket
  <2>2. UNCHANGED received
    BY <1>3 DEF TunnelRecv
  <2> HIDE DEF side, padding
  <2>3. NothingMoves
    BY <1>1, <1>2, <2>1, NetworkPasses
  <2> QED
    BY <1>2, <2>2, <2>3, NothingSeen, TunnelStutters
<1>4. CASE ~padding
  <2>1. received \in [Side -> Nat]
    BY DEF Typed
  <2>2. received' = [received EXCEPT ![side] = @ + 1]
    BY <1>4 DEF TunnelRecv
  <2>3. \A s \in Side, r \in Queue, kind \in PacketKind :
          Here(next, s, r, kind) = Joins(side, "internal", "TunnelRecv", s, r, kind)
    BY <1>2, <1>4 DEF Here, IsPacket, QueueOf, Joins
  <2> HIDE DEF side, padding
  <2>4. ASSUME NEW s \in Side, NEW r \in Queue, NEW kind \in PacketKind
        PROVE  /\ Packets(s, r, kind) =
                    Packets(s, r, kind)' + Joins(side, "internal", "TunnelRecv", s, r, kind)
               /\ Packets(s, r, kind)' \in Nat
    <3>1. Held(s, r, kind)' = Held(s, r, kind)
      BY <1>1, <1>2, HeldOtherwise
    <3>2. Held(s, r, kind) \in Nat
      BY PacketsTyped
    <3>3. /\ Packets(s, r, kind)' = Held(s, r, kind)' + 0
          /\ Packets(s, r, kind) = Held(s, r, kind) + Here(next, s, r, kind)
      BY <1>2 DEF Packets, Held, NetworkStep
    <3> QED
      BY <2>3, <3>1, <3>2, <3>3
  <2>5. ASSUME NEW s \in Side
        PROVE  /\ Packets(s, "base", "NormalSent")' = Packets(s, "base", "NormalSent")
               /\ Packets(s, "blocking", "TunnelSent")' = Packets(s, "blocking", "TunnelSent")
               /\ Packets(s, "bypassable", "TunnelSent")' =
                    Packets(s, "bypassable", "TunnelSent")
               /\ Packets(s, "internal", "TunnelRecv") =
                    IF s = side THEN Packets(s, "internal", "TunnelRecv")' + 1
                    ELSE Packets(s, "internal", "TunnelRecv")'
               /\ Packets(s, "internal", "TunnelRecv")' \in Nat
    BY <2>4 DEF Queue, PacketKind, Joins
  <2>6. \A s \in Side : Plainly(s)' = Plainly(s) /\ Exempted(s)' = Exempted(s)
    BY <2>5 DEF Plainly, Exempted
  <2> DEFINE left == Other(side)
  <2>7. left \in Side /\ Other(left) = side
    BY <1>1 DEF Other, Side
  <2>8. \A s \in Side : s = left <=> Other(s) = side
    BY <1>1 DEF Other, Side
  <2> HIDE DEF left
  <2>9. ASSUME NEW s \in Side
        PROVE  /\ Coming(s) = IF s = left THEN Coming(s)' + 1 ELSE Coming(s)'
               /\ Coming(s)' \in Nat
               /\ received'[Other(s)] = IF s = left THEN received[Other(s)] + 1
                                        ELSE received[Other(s)]
    <3> DEFINE o == Other(s)
    <3>1. o \in Side /\ (s = left <=> o = side)
      BY <2>8 DEF Other, Side
    <3> HIDE DEF o
    <3>2. /\ Packets(o, "internal", "TunnelRecv") =
               IF s = left THEN Packets(o, "internal", "TunnelRecv")' + 1
               ELSE Packets(o, "internal", "TunnelRecv")'
          /\ Packets(o, "internal", "TunnelRecv")' \in Nat
      BY <2>5, <3>1
    <3>3. received'[o] = IF s = left THEN received[o] + 1 ELSE received[o]
      BY <2>1, <2>2, <3>1
    <3> QED
      BY <3>2, <3>3 DEF Coming, o
  <2>10. \A s \in Side : Coming(s)' = IF s = left THEN Coming(s) - 1 ELSE Coming(s)
    BY <2>9
  <2>11. Coming(left) > 0
    BY <2>7, <2>9
  <2>12. TunnelOf!Leave(left)
    BY <1>2, <2>6, <2>7, <2>9, <2>10, <2>11 DEF TunnelOf!Leave, GatesSame
  <2> QED
    BY <2>7, <2>12
<1> QED
  BY <1>2, <1>3, <1>4

(* Nothing is queued, and what is picked is no packet. *)
LEMMA StackPasses ==
  ASSUME DropPadding \/ NotNetwork
  PROVE  NothingMoves /\ UNCHANGED received
<1>1. NetworkStep /\ UNCHANGED <<sq, received>>
  BY DEF DropPadding, NotNetwork, Advance, NetworkStep
<1>2. next.event \in {"PaddingSent", "NormalRecv", "PaddingRecv", "BlockingBegin",
                      "BlockingEnd", "TimerBegin", "TimerEnd"}
  BY DEF DropPadding, NotNetwork, Advance
<1>3. \A s \in Side, q \in Queue, kind \in PacketKind : Here(next, s, q, kind) = 0
  BY <1>2 DEF Here, IsPacket, PacketKind
<1>4. ASSUME NEW s \in Side, NEW q \in Queue, NEW kind \in PacketKind
      PROVE  Packets(s, q, kind)' = Packets(s, q, kind)
  BY <1>1, <1>3 DEF Packets, NetworkStep
<1> QED
  BY <1>1, <1>4 DEF NothingMoves

LEMMA StackKeeps ==
  ASSUME Typed, FailClosed, Marked, SimNetworkStack
  PROVE  \/ \E side \in Side : TunnelOf!Exempt(side) \/ TunnelOf!Enter(side)
                               \/ TunnelOf!Leave(side)
         \/ UNCHANGED (TunnelOf!tunnel)
<1>1. GatesSame(Side)
  BY StackAdvances
<1>2. CASE NormalSent
  <2>1. UNCHANGED received
    BY <1>2 DEF NormalSent
  <2> QED
    BY <1>1, <1>2, <2>1, NormalSentKeeps, TunnelStutters
<1>3. CASE QueuePadding
  <2>1. UNCHANGED received
    BY <1>3 DEF QueuePadding
  <2>2. NothingMoves
    BY <1>3, QueuePaddingKeeps
  <2> QED
    BY <1>1, <2>1, <2>2, NothingSeen, TunnelStutters
<1>4. CASE DropPadding \/ NotNetwork
  BY <1>1, <1>4, StackPasses, NothingSeen, TunnelStutters
<1>5. CASE ReplacePadding
  BY <1>5, ReplacePaddingKeeps
<1>6. CASE TunnelSent
  BY <1>6, TunnelSentKeeps
<1>7. CASE TunnelRecv
  BY <1>7, TunnelRecvKeeps
<1> QED
  BY <1>2, <1>3, <1>4, <1>5, <1>6, <1>7 DEF SimNetworkStack

LEMMA TriggerKeeps ==
  ASSUME Typed, TriggerUpdate
  PROVE  UNCHANGED (TunnelOf!tunnel)
<1>1. /\ pc = "trigger" /\ pc' # "network"
      /\ UNCHANGED <<received, blocking_until, blocking_bypassable>>
  BY DEF TriggerUpdate, blocks
<1>2. PICK E : /\ E \subseteq SimEvent /\ IsFiniteSet(E)
               /\ \A e \in E : e.event = "TimerBegin"
               /\ \A s \in Side, q \in Queue :
                    \/ sq'[s][q] = sq[s][q]
                    \/ sq'[s][q] = sq[s][q] (+) SetToBag(E)
  BY TriggerReports
<1>3. ASSUME NEW s \in Side, NEW q \in Queue, NEW kind \in PacketKind
      PROVE  Packets(s, q, kind)' = Packets(s, q, kind)
  <2>1. IsBag(sq[s][q], SimEvent) /\ \A e \in E : e.event # kind
    BY <1>2 DEF Typed, SidesOK, SideOK, PacketKind
  <2>2. InQueue(sq[s][q] (+) SetToBag(E), kind) = InQueue(sq[s][q], kind)
    BY <1>2, <2>1, InQueueReported
  <2>3. InQueue(sq'[s][q], kind) = InQueue(sq[s][q], kind)
    BY <1>2, <2>2
  <2> QED
    BY <1>1, <2>3 DEF Packets
<1>4. NothingMoves
  BY <1>3 DEF NothingMoves
<1>5. GatesSame(Side)
  BY <1>1 DEF GatesSame, Gate
<1> QED
  BY <1>1, <1>4, <1>5, NothingSeen, TunnelStutters

(* Before the first step the trace's packets wait plainly. *)
LEMMA PacketsAtFirst ==
  ASSUME Init, NEW s \in Side, NEW q \in Queue, NEW kind \in PacketKind
  PROVE  /\ Packets(s, q, kind) = InQueue(sq[s][q], kind)
         /\ Packets(s, q, kind) \in Nat
         /\ kind # "NormalSent" => Packets(s, q, kind) = 0
<1>1. IsBag(sq[s][q], SimEvent) /\ pc # "network"
  BY InitTyped DEF Typed, SidesOK, SideOK, Init
<1>2. InQueue(sq[s][q], kind) \in Nat
  BY <1>1, InQueueTyped
<1>3. Packets(s, q, kind) = InQueue(sq[s][q], kind)
  BY <1>1, <1>2 DEF Packets
<1>4. ASSUME kind # "NormalSent" PROVE InQueue(sq[s][q], kind) = 0
  <2> DEFINE S == {e \in DOMAIN sq[s][q] : IsPacket(e, kind)}
  <2>1. S = {}
    BY <1>4, QueuedAtFirst DEF IsPacket
  <2> HIDE DEF S
  <2>2. SumFunctionOnSet(sq[s][q], S) = 0
    BY <2>1, FS_EmptySet, SumRecursion
  <2> QED
    BY <2>2 DEF InQueue, S
<1> QED
  BY <1>2, <1>3, <1>4

LEMMA SeenAtFirst ==
  ASSUME Init, NEW s \in Side
  PROVE  /\ Plainly(s) = InQueue(sq[s]["base"], "NormalSent") /\ Plainly(s) \in Nat
         /\ Exempted(s) = 0 /\ Coming(s) = 0 /\ received[Other(s)] = 0
         /\ Gate(s) = "open"
<1> DEFINE o == Other(s)
<1>1. /\ "base" \in Queue /\ "blocking" \in Queue /\ "bypassable" \in Queue
      /\ "internal" \in Queue /\ o \in Side
      /\ "NormalSent" \in PacketKind /\ "TunnelSent" \in PacketKind
      /\ "TunnelRecv" \in PacketKind
  BY DEF Queue, Other, Side, PacketKind
<1>2. received[o] = 0 /\ Gate(s) = "open"
  BY <1>1 DEF Init, Gate
<1> HIDE DEF o
<1>3. /\ Packets(s, "base", "NormalSent") = InQueue(sq[s]["base"], "NormalSent")
      /\ Packets(s, "base", "NormalSent") \in Nat
  BY <1>1, PacketsAtFirst
<1>4. Packets(s, "blocking", "TunnelSent") = 0 /\ Packets(s, "bypassable", "TunnelSent") = 0
  BY <1>1, PacketsAtFirst
<1>5. Packets(o, "internal", "TunnelRecv") = 0
  BY <1>1, PacketsAtFirst
<1> QED
  BY <1>2, <1>3, <1>4, <1>5 DEF Plainly, Exempted, Coming, o

LEMMA TunnelUntouched ==
  ASSUME Init
  PROVE  TunnelOf!Untouched
BY SeenAtFirst DEF TunnelOf!Untouched

LEMMA TunnelStep ==
  Typed /\ FailClosed /\ Marked /\ [Next]_vars => [TunnelOf!Move]_(TunnelOf!tunnel)
<1> SUFFICES ASSUME Typed, FailClosed, Marked, [Next]_vars
             PROVE  TunnelOf!Move \/ UNCHANGED (TunnelOf!tunnel)
  OBVIOUS
<1>1. CASE PickNext
  BY <1>1, PickKeeps DEF TunnelOf!Move
<1>2. CASE SimNetworkStack
  BY <1>2, StackKeeps DEF TunnelOf!Move
<1>3. CASE TriggerUpdate
  BY <1>3, TriggerKeeps
<1>4. CASE UNCHANGED vars
  <2>1. NothingMoves /\ GatesSame(Side) /\ UNCHANGED received
    BY <1>4 DEF vars, blocks, history, NothingMoves, Packets, GatesSame, Gate
  <2> QED
    BY <2>1, NothingSeen, TunnelStutters
<1> QED
  BY <1>1, <1>2, <1>3, <1>4 DEF Next, Run, Finished

(* For every trace, all delays and whatever the machines answer: what
   sim_advanced does implements the safety part of Tunnel.  No packet of the
   trace is lost, sent or delivered twice, or let through a gate that is shut
   to it.                                                                  *)
THEOREM SimulatorKeepsTunnel == Spec => KeepsTunnel
<1>1. Init => TunnelOf!Untouched
  BY TunnelUntouched
<1> QED
  BY <1>1, TunnelStep, AlwaysTyped, BlockingFailsClosed, AlwaysMarked, PTL
     DEF Spec, KeepsTunnel, TunnelOf!Safe

-----------------------------------------------------------------------------
(***************************************************************************)
(* The end of the simulation.  Tunnel conserves packets: those a side of   *)
(* the trace has sent, or is to send, are as many as it has lines.  So all *)
(* have arrived once none is left in a queue.                              *)
(***************************************************************************)
Lines(s) == {k \in DOMAIN trace : SenderOf(trace[k]) = s}

Total(s) == Plainly(s) + Exempted(s) + Coming(s) + received[Other(s)]

Conserved == \A s \in Side : Total(s) = Cardinality(Lines(s))

LEMMA SeenNat ==
  ASSUME Typed, NEW s \in Side
  PROVE  /\ Plainly(s) \in Nat /\ Exempted(s) \in Nat /\ Coming(s) \in Nat
         /\ received[Other(s)] \in Nat
<1> DEFINE o == Other(s)
<1>1. /\ "base" \in Queue /\ "blocking" \in Queue /\ "bypassable" \in Queue
      /\ "internal" \in Queue /\ o \in Side
  BY DEF Queue, Other, Side
<1> HIDE DEF o
<1>2. \A q \in Queue : \A kind : Packets(s, q, kind) \in Nat
  BY PacketsTyped
<1>3. Packets(o, "internal", "TunnelRecv") \in Nat
  BY <1>1, PacketsTyped
<1>4. received[o] \in Nat
  BY <1>1 DEF Typed
<1> QED
  BY <1>1, <1>2, <1>3, <1>4 DEF Plainly, Exempted, Coming, o

(* Every line of the trace is a packet that waits in the base queue. *)
LEMMA ConservedAtFirst ==
  ASSUME Init
  PROVE  Conserved
<1> SUFFICES ASSUME NEW s \in Side PROVE Total(s) = Cardinality(Lines(s))
  BY DEF Conserved
<1>1. PICK delays : sq = ParseTrace(trace, delays)
  BY DEF Init
<1> DEFINE event == [k \in Lines(s) |-> BaseEvent(trace[k], delays[k])]
           base  == sq[s]["base"]
           S     == {e \in DOMAIN base : IsPacket(e, "NormalSent")}
<1>2. base = [e \in {BaseEvent(trace[k], delays[k]) : k \in Lines(s)} |->
                Cardinality({k \in Lines(s) : BaseEvent(trace[k], delays[k]) = e})]
  BY <1>1 DEF ParseTrace, EmptyQueues, Queue, Lines
<1>3. IsFiniteSet(Lines(s))
  <2>1. trace \in Traces
    BY DEF Init
  <2>2. Len(trace) \in Nat /\ DOMAIN trace = 1 .. Len(trace)
    BY <2>1, SimulatorAssumption
  <2>3. IsFiniteSet(DOMAIN trace) /\ Lines(s) \in SUBSET DOMAIN trace
    BY <2>2, FS_Interval DEF Lines
  <2> QED
    BY <2>3, FS_Subset
<1>4. IsFiniteSet(DOMAIN base) /\ S = DOMAIN base
  <2>1. "base" \in Queue
    BY DEF Queue
  <2>2. IsFiniteSet(DOMAIN base)
    BY <2>1, InitTyped DEF Typed, SidesOK, SideOK, IsBag
  <2>3. \A e \in DOMAIN base : IsPacket(e, "NormalSent")
    BY <2>1, QueuedAtFirst DEF IsPacket
  <2> QED
    BY <2>2, <2>3
<1>5. \A k \in Lines(s) : event[k] \in DOMAIN base
  BY <1>2
<1>6. ASSUME NEW e \in DOMAIN base
      PROVE  base[e] = Cardinality({k \in Lines(s) : event[k] = e})
  <2>1. base[e] = Cardinality({k \in Lines(s) : BaseEvent(trace[k], delays[k]) = e})
    BY <1>2
  <2>2. {k \in Lines(s) : BaseEvent(trace[k], delays[k]) = e} = {k \in Lines(s) : event[k] = e}
    OBVIOUS
  <2> QED
    BY <2>1, <2>2, Zenon
<1>7. SumFunctionOnSet(base, DOMAIN base) = Cardinality(Lines(s))
  <2> HIDE DEF base, event
  <2> QED
    BY <1>3, <1>4, <1>5, <1>6, SumOfFibers
<1>8. InQueue(base, "NormalSent") = SumFunctionOnSet(base, DOMAIN base)
  BY <1>4, Zenon DEF InQueue
<1> HIDE DEF base
<1>9. /\ Plainly(s) = InQueue(base, "NormalSent") /\ Plainly(s) \in Nat
      /\ Exempted(s) = 0 /\ Coming(s) = 0 /\ received[Other(s)] = 0
  BY SeenAtFirst DEF base
<1> QED
  BY <1>7, <1>8, <1>9 DEF Total

LEMMA ConservedNext ==
  ASSUME Typed, Typed', FailClosed, Marked, [Next]_vars, Conserved
  PROVE  Conserved'
<1>1. UNCHANGED trace
  BY DEF Next, Run, Finished, PickNext, PickNothing, PickAggregateDelay, PickExpiry,
         PickQueue, PickTimer, PickAction, SimNetworkStack, NormalSent, QueuePadding,
         DropPadding, ReplacePadding, TunnelSent, TunnelRecv, NotNetwork, Advance,
         TriggerUpdate, vars
<1>2. SUFFICES ASSUME NEW s \in Side
               PROVE  Total(s)' = Total(s)
  BY <1>1 DEF Conserved, Lines
<1>3. /\ Plainly(s) \in Nat /\ Exempted(s) \in Nat /\ Coming(s) \in Nat
      /\ received[Other(s)] \in Nat
  BY SeenNat
<1>4. TunnelOf!Move \/ UNCHANGED (TunnelOf!tunnel)
  BY TunnelStep
<1>5. CASE UNCHANGED (TunnelOf!tunnel)
  BY <1>5 DEF TunnelOf!tunnel, Total
<1>6. CASE TunnelOf!Move
  <2>1. PICK e \in Side : \/ TunnelOf!SetGate(e) \/ TunnelOf!Exempt(e)
                          \/ TunnelOf!Enter(e) \/ TunnelOf!Leave(e)
    BY <1>6 DEF TunnelOf!Move
  <2>2. CASE TunnelOf!SetGate(e)
    <3>1. /\ Plainly(s)' = Plainly(s) /\ Exempted(s)' = Exempted(s)
          /\ Coming(s)' = Coming(s) /\ received'[Other(s)] = received[Other(s)]
      BY <2>2 DEF TunnelOf!SetGate
    <3> QED
      BY <3>1 DEF Total
  <2>3. CASE TunnelOf!Exempt(e)
    <3>1. /\ Plainly(s)' = IF s = e THEN Plainly(s) - 1 ELSE Plainly(s)
          /\ Exempted(s)' = IF s = e THEN Exempted(s) + 1 ELSE Exempted(s)
          /\ Coming(s)' = Coming(s) /\ received'[Other(s)] = received[Other(s)]
      BY <2>3 DEF TunnelOf!Exempt
    <3> QED
      BY <1>3, <3>1 DEF Total
  <2>4. CASE TunnelOf!Enter(e)
    <3>1. /\ \/ /\ Plainly(s)' = IF s = e THEN Plainly(s) - 1 ELSE Plainly(s)
                /\ Exempted(s)' = Exempted(s)
             \/ /\ Exempted(s)' = IF s = e THEN Exempted(s) - 1 ELSE Exempted(s)
                /\ Plainly(s)' = Plainly(s)
          /\ Coming(s)' = IF s = e THEN Coming(s) + 1 ELSE Coming(s)
          /\ received'[Other(s)] = received[Other(s)]
      <4> DEFINE plain  == [r \in Side |-> Plainly(r)]
                 exempt == [r \in Side |-> Exempted(r)]
                 coming == [r \in Side |-> Coming(r)]
                 out    == [r \in Side |-> received[Other(r)]]
      <4>1. /\ \/ plain' = [plain EXCEPT ![e] = @ - 1] /\ exempt' = exempt
               \/ exempt' = [exempt EXCEPT ![e] = @ - 1] /\ plain' = plain
            /\ coming' = [coming EXCEPT ![e] = @ + 1]
            /\ out' = out
        BY <2>4 DEF TunnelOf!Enter
      <4>2. /\ plain[s] = Plainly(s) /\ plain'[s] = Plainly(s)'
            /\ exempt[s] = Exempted(s) /\ exempt'[s] = Exempted(s)'
            /\ coming[s] = Coming(s) /\ coming'[s] = Coming(s)'
            /\ out[s] = received[Other(s)] /\ out'[s] = received'[Other(s)]
        OBVIOUS
      <4>3. DOMAIN plain = Side /\ DOMAIN exempt = Side /\ DOMAIN coming = Side
        OBVIOUS
      <4> HIDE DEF plain, exempt, coming, out
      <4> QED
        BY <4>1, <4>2, <4>3
    <3> QED
      BY <1>3, <3>1 DEF Total
  <2>5. CASE TunnelOf!Leave(e)
    <3>1. /\ Plainly(s)' = Plainly(s) /\ Exempted(s)' = Exempted(s)
          /\ Coming(s)' = IF s = e THEN Coming(s) - 1 ELSE Coming(s)
          /\ received'[Other(s)] = IF s = e THEN received[Other(s)] + 1
                                   ELSE received[Other(s)]
      BY <2>5 DEF TunnelOf!Leave
    <3> QED
      BY <1>3, <3>1 DEF Total
  <2> QED
    BY <2>1, <2>2, <2>3, <2>4, <2>5
<1> QED
  BY <1>4, <1>5, <1>6

(* Nothing lies so far ahead that a duration until then is cut off. *)
WithinReach ==
  \A side \in Side :
    /\ blocking_until[side] # None => blocking_until[side] < current_time + DURATION_MAX
    /\ \A q \in Queue : \A e \in DOMAIN sq[side][q] :
         Shifted(e, q, aggregate_base_delay[side]).time < current_time + DURATION_MAX

LEMMA SinceWithin ==
  ASSUME NEW t \in Nat, NEW now \in Nat, t < now + DURATION_MAX
  PROVE  Since(t, now) < DURATION_MAX
BY SimQueueAssumption, NetworkAssumption DEF Since

(* pick_next finds something as long as an event is queued: if a block
   holds it, at least the end of the block. *)
LEMMA NothingQueued ==
  ASSUME Typed, NothingLeft(Peeks), WithinReach
  PROVE  \A side \in Side : NoEvents(sq[side])
<1> DEFINE first    == PeekAll(sq, aggregate_base_delay, current_time)
           earliest == Least({ScheduledIn, TimerIn, Expiry.duration, AggregateIn})
<1> SUFFICES ASSUME \E side \in Side : ~NoEvents(sq[side]) PROVE FALSE
  OBVIOUS
<1>1. /\ ScheduledIn = DURATION_MAX /\ TimerIn = DURATION_MAX
      /\ Expiry.duration = DURATION_MAX /\ AggregateIn = DURATION_MAX
      /\ Queued.duration = DURATION_MAX
  BY DEF NothingLeft, Peeks
<1>2. earliest = DURATION_MAX
  <2>1. {ScheduledIn, TimerIn, Expiry.duration, AggregateIn} = {DURATION_MAX}
    BY <1>1
  <2>2. Least({DURATION_MAX}) = DURATION_MAX
    BY SimQueueAssumption, LeastExists
  <2> QED
    BY <2>1, <2>2, Zenon
<1>3. /\ SidesOK(sq) /\ current_time \in Nat
      /\ aggregate_base_delay \in [Side -> Nat]
      /\ blocking_until \in [Side -> Nat \cup {None}]
  BY DEF Typed
<1>4. /\ first.side \in Side /\ first.queue \in Filled(sq[first.side])
      /\ first.duration = Since(Due(sq[first.side], first.queue,
                                    aggregate_base_delay[first.side]), current_time)
  BY <1>3, PeekAllSound
<1>5. /\ Queued = IF first.duration > earliest THEN NoPick
                  ELSE IF Unblocked(sq, blocking_until, blocking_bypassable, first)
                  THEN first ELSE Queued
  BY DEF Queued, PeekQueue
<1> HIDE DEF first, earliest
<1>6. first.duration < DURATION_MAX
  <2> DEFINE side == first.side
             q    == first.queue
             at   == Due(sq[side], q, aggregate_base_delay[side])
  <2>1. side \in Side /\ q \in Filled(sq[side]) /\ SideOK(sq[side], side)
        /\ aggregate_base_delay[side] \in Nat
    BY <1>3, <1>4 DEF SidesOK
  <2>2. first.duration = Since(at, current_time)
    BY <1>4
  <2> HIDE DEF side, q
  <2>3. at \in Nat
    BY <2>1, DueTyped
  <2>4. q \in Queue /\ Top(sq[side][q]) \in DOMAIN sq[side][q]
    BY <2>1, TopTyped
  <2>5. at < current_time + DURATION_MAX
    BY <2>1, <2>4 DEF WithinReach, Due
  <2> QED
    BY <1>3, <2>2, <2>3, <2>5, SinceWithin
<1>7. ~Unblocked(sq, blocking_until, blocking_bypassable, first)
  <2>1. ~(first.duration > earliest)
    BY <1>2, <1>4, <1>6, SimQueueAssumption DEF Since
  <2> QED
    BY <1>1, <1>5, <1>6, <2>1, SimQueueAssumption
<1>8. blocking_until[first.side] # None
  BY <1>7 DEF Unblocked
<1>9. Expiry.duration <= Since(blocking_until[first.side], current_time)
  BY <1>3, <1>4, <1>8, PeekBlockedExpSound DEF Expiry
<1>10. Since(blocking_until[first.side], current_time) < DURATION_MAX
  <2>1. blocking_until[first.side] \in Nat
        /\ blocking_until[first.side] < current_time + DURATION_MAX
    BY <1>3, <1>4, <1>8 DEF WithinReach
  <2> QED
    BY <1>3, <2>1, SinceWithin
<1> QED
  BY <1>1, <1>3, <1>4, <1>8, <1>9, <1>10, SimQueueAssumption DEF Since

NoneLeft ==
  \A side \in Side, q \in Queue, kind \in PacketKind :
    \A e \in DOMAIN sq[side][q] : ~IsPacket(e, kind)

Ending == pc = "done" /\ WithinReach => NoneLeft

LEMMA EndingNext ==
  ASSUME Typed, Typed', Ending, [Next]_vars
  PROVE  Ending'
<1> SUFFICES ASSUME pc' = "done", WithinReach' PROVE NoneLeft'
  BY DEF Ending
<1>1. CASE UNCHANGED vars
  BY <1>1 DEF vars, net, blocks, Ending, NoneLeft, WithinReach
<1>2. CASE PickNothing(Peeks)
  <2>1. WithinReach /\ NothingLeft(Peeks) /\ UNCHANGED sq
    BY <1>2 DEF PickNothing, WithinReach, net, blocks
  <2>2. \A side \in Side : NoEvents(sq[side])
    BY <2>1, NothingQueued
  <2>3. \A side \in Side, q \in Queue : DOMAIN sq[side][q] = {}
    BY <2>2 DEF NoEvents, Filled, Empty
  <2> QED
    BY <2>1, <2>3 DEF NoneLeft
<1>3. CASE TriggerUpdate
  <2>1. \A side \in Side : NoNormalPackets(sq'[side])
    BY <1>3 DEF TriggerUpdate
  <2>2. ASSUME NEW side \in Side, NEW q \in Queue, NEW e \in DOMAIN sq'[side][q]
        PROVE  QueueOf(e) = q
    BY DEF Typed, SidesOK, SideOK
  <2>3. ASSUME NEW side \in Side, NEW q \in Queue, NEW kind \in PacketKind,
               NEW e \in DOMAIN sq'[side][q]
        PROVE  e.event # kind
    BY <2>1, <2>2 DEF NoNormalPackets, QueueOf, Queue, PacketKind, Empty
  <2> QED
    BY <2>3 DEF NoneLeft, IsPacket
<1>4. pc' = "done" => UNCHANGED vars \/ PickNothing(Peeks) \/ TriggerUpdate
  <2>1. CASE PickNext
    <3>1. ASSUME PickAggregateDelay(Peeks) \/ PickExpiry(Peeks) \/ PickQueue(Peeks)
                 \/ PickTimer(Peeks) \/ PickAction(Peeks)
          PROVE  pc' # "done"
      BY <2>1, <3>1 DEF PickNext, PickAggregateDelay, PickExpiry, PickQueue, PickTimer,
                        PickAction
    <3> QED
      BY <2>1, <3>1 DEF PickNext
  <2>2. CASE SimNetworkStack
    BY <2>2, StackAdvances DEF NetworkStep
  <2> QED
    BY <2>1, <2>2 DEF Next, Run, Finished
<1> QED
  BY <1>1, <1>2, <1>3, <1>4

LEMMA NoneLeftArrived ==
  ASSUME Typed, Conserved, NoneLeft, pc = "done", NEW s \in Side
  PROVE  received[Other(s)] = Cardinality(Lines(s))
<1>1. ASSUME NEW r \in Side, NEW q \in Queue, NEW kind \in PacketKind
      PROVE  Packets(r, q, kind) = 0
  <2> DEFINE S == {e \in DOMAIN sq[r][q] : IsPacket(e, kind)}
  <2>1. S = {}
    BY DEF NoneLeft
  <2> HIDE DEF S
  <2>2. SumFunctionOnSet(sq[r][q], S) = 0
    BY <2>1, FS_EmptySet, SumRecursion
  <2>3. InQueue(sq[r][q], kind) = 0
    BY <2>2 DEF InQueue, S
  <2> QED
    BY <2>3 DEF Packets
<1> DEFINE o == Other(s)
<1>2. o \in Side
  BY DEF Other, Side
<1> HIDE DEF o
<1>3. /\ Packets(s, "base", "NormalSent") = 0 /\ Packets(s, "blocking", "TunnelSent") = 0
      /\ Packets(s, "bypassable", "TunnelSent") = 0 /\ Packets(o, "internal", "TunnelRecv") = 0
  BY <1>1, <1>2 DEF Queue, PacketKind
<1>4. Plainly(s) = 0 /\ Exempted(s) = 0 /\ Coming(s) = 0
  BY <1>3 DEF Plainly, Exempted, Coming, o
<1>5. received[Other(s)] \in Nat
  BY SeenNat
<1> QED
  BY <1>4, <1>5 DEF Conserved, Total

(***************************************************************************)
(* sim_advanced's loop never cuts a trace short: whichever of its two ends *)
(* it reaches, every packet of the trace has left the tunnel, unless what  *)
(* is still queued is due, or its block ends, only after Duration::MAX,    *)
(* which pick_next takes for nothing at all.                               *)
(***************************************************************************)
THEOREM NothingIsCutOff == Spec => [](WithinReach => StopsAfterAll)
<1>1. Init => Conserved /\ Ending
  <2>1. Init => Conserved
    BY ConservedAtFirst
  <2> QED
    BY <2>1 DEF Init, Ending
<1>2. Typed /\ Typed' /\ FailClosed /\ Marked /\ Conserved /\ Ending /\ [Next]_vars
        => Conserved' /\ Ending'
  BY ConservedNext, EndingNext
<1>3. Typed /\ Conserved /\ Ending => (WithinReach => StopsAfterAll)
  <2> SUFFICES ASSUME Typed, Conserved, Ending, WithinReach, pc = "done", NEW s \in Side
               PROVE  received[Other(s)] = Cardinality(Lines(s))
    BY DEF StopsAfterAll, Lines
  <2>1. NoneLeft
    BY DEF Ending
  <2> QED
    BY <2>1, NoneLeftArrived
<1> QED
  BY <1>1, <1>2, <1>3, AlwaysTyped, BlockingFailsClosed, AlwaysMarked, PTL DEF Spec
=============================================================================
