---------------------------- MODULE SimulatorTimes ----------------------------
(***************************************************************************)
(* Theorems about when the simulator does what: nothing that may go is     *)
(* passed over, so that events are taken when they are due, and what has   *)
(* fired is reported before a framework answers again.                     *)
(***************************************************************************)
EXTENDS SimulatorCounts

-----------------------------------------------------------------------------
(***************************************************************************)
(* pick_next finds what is due first of all that may go, provided that     *)
(* base events are not shifted or no queued packet has the bypass flag:    *)
(* peek_non_blocking compares a base event with a bypassable packet by its *)
(* time in the trace.                                                      *)
(***************************************************************************)
Open(side, q) == Free(q, blocking_until[side], blocking_bypassable[side])

DueTime(side, q, e) == Shifted(e, q, aggregate_base_delay[side]).time

Comparable ==
  \A side \in Side : aggregate_base_delay[side] = 0 \/ Empty(sq[side]["bypassable"])

LEMMA PeeksNat ==
  ASSUME Typed
  PROVE  /\ Peeks.action \in Nat /\ Peeks.timer \in Nat /\ Peeks.aggregate \in Nat
         /\ Peeks.expiry.duration \in Nat /\ Peeks.queue.duration \in Nat
         /\ Peeks.queue.duration <= DURATION_MAX
         /\ current_time \in Nat
<1>1. PeeksTyped(Peeks)
  BY PeeksSound
<1>2. \A d \in 0 .. DURATION_MAX : d \in Nat /\ d <= DURATION_MAX
  BY SimQueueAssumption
<1> QED
  BY <1>1, <1>2 DEF PeeksTyped, Typed

LEMMA EventTyped ==
  ASSUME Typed, NEW side \in Side, NEW q \in Queue, NEW e \in DOMAIN sq[side][q]
  PROVE  /\ SideOK(sq[side], side) /\ q \in Filled(sq[side])
         /\ aggregate_base_delay[side] \in Nat
         /\ DOMAIN sq[side][q] \subseteq SimEvent
         /\ e \in SimEvent /\ e.time \in Nat /\ DueTime(side, q, e) \in Nat
         /\ e.side = side /\ QueueOf(e) = q
<1>1. SideOK(sq[side], side) /\ aggregate_base_delay[side] \in Nat
  BY DEF Typed, SidesOK
<1>2. DOMAIN sq[side][q] \subseteq SimEvent /\ e.side = side /\ QueueOf(e) = q
  BY <1>1 DEF SideOK, IsBag
<1>3. q \in Filled(sq[side])
  BY DEF Filled, Empty
<1>4. e \in SimEvent /\ e.time \in Nat
  BY <1>2, RankTyped
<1>5. DueTime(side, q, e) \in Nat
  BY <1>1, <1>4, ShiftedTyped, RankTyped DEF DueTime
<1> QED
  BY <1>1, <1>2, <1>3, <1>4, <1>5

LEMMA QueuedLeast ==
  ASSUME Typed, Comparable, NEW side \in Side, NEW q \in Filled(sq[side]), Open(side, q)
  PROVE  LET d == Since(Due(sq[side], q, aggregate_base_delay[side]), current_time) IN
         \/ Peeks.queue.duration <= d
         \/ \E x \in {Peeks.action, Peeks.timer, Peeks.expiry.duration, Peeks.aggregate} :
              d > x
<1> DEFINE d == Since(Due(sq[side], q, aggregate_base_delay[side]), current_time)
           S == {ScheduledIn, TimerIn, Expiry.duration, AggregateIn}
           earliest == Least(S)
<1> SUFFICES \/ Peeks.queue.duration <= d
             \/ \E x \in {Peeks.action, Peeks.timer, Peeks.expiry.duration, Peeks.aggregate} :
                  d > x
  OBVIOUS
<1>1. S = {Peeks.action, Peeks.timer, Peeks.expiry.duration, Peeks.aggregate}
  BY DEF Peeks
<1>2. S \subseteq Nat /\ S # {}
  BY <1>1, PeeksNat
<1>3. Peeks.queue = PeekQueue(sq, blocking_until, blocking_bypassable,
                              aggregate_base_delay, earliest, current_time)
  BY DEF Peeks, Queued
<1> HIDE DEF S
<1>4. earliest \in S /\ earliest \in Nat
  BY <1>2, LeastExists
<1>5. q = "bypassable" => aggregate_base_delay[side] = 0
  BY DEF Comparable, Filled
<1> HIDE DEF earliest
<1>6. \/ Peeks.queue.duration <= d
      \/ d > earliest
  <2>1. /\ SidesOK(sq)
        /\ blocking_until \in [Side -> Nat \cup {None}]
        /\ blocking_bypassable \in [Side -> BOOLEAN]
        /\ aggregate_base_delay \in [Side -> Nat]
        /\ current_time \in Nat
    BY DEF Typed
  <2>2. Free(q, blocking_until[side], blocking_bypassable[side])
    BY DEF Open
  <2> QED
    BY <1>3, <1>4, <1>5, <2>1, <2>2, PeekQueueLeast
<1> QED
  BY <1>1, <1>4, <1>6

(* Of what may go nothing is due before what is picked. *)
LEMMA NothingDueBefore ==
  ASSUME Typed, Comparable, NEW n \in Nat,
         n <= Peeks.action, n <= Peeks.timer, n <= Peeks.expiry.duration,
         n <= Peeks.aggregate,
         NEW side \in Side, NEW q \in Queue, Open(side, q), NEW e \in DOMAIN sq[side][q]
  PROVE  /\ n <= Peeks.queue.duration /\ n # 0 => DueTime(side, q, e) >= current_time + n
         /\ n < Peeks.queue.duration => DueTime(side, q, e) > current_time + n
<1> DEFINE first == Due(sq[side], q, aggregate_base_delay[side])
           d == Since(first, current_time)
<1>1. /\ SideOK(sq[side], side) /\ q \in Filled(sq[side])
      /\ aggregate_base_delay[side] \in Nat /\ e \in SimEvent
      /\ DOMAIN sq[side][q] \subseteq SimEvent /\ DueTime(side, q, e) \in Nat
  BY EventTyped
<1>2. current_time \in Nat /\ Peeks.queue.duration \in Nat
  BY PeeksNat
<1>3. first \in Nat /\ d \in Nat
  BY <1>1, <1>2, DueTyped, SinceTyped
<1>4. first <= DueTime(side, q, e)
  <2>1. Top(sq[side][q]).time <= e.time
    BY <1>1, TopLeast
  <2>2. Top(sq[side][q]) \in SimEvent
    BY <1>1, TopTyped
  <2>3. Top(sq[side][q]).time \in Nat /\ e.time \in Nat
    BY <1>1, <2>2, RankTyped
  <2>4. /\ first = IF q = "base" THEN Top(sq[side][q]).time + aggregate_base_delay[side]
                   ELSE Top(sq[side][q]).time
        /\ DueTime(side, q, e) = IF q = "base" THEN e.time + aggregate_base_delay[side]
                                 ELSE e.time
    BY <1>1, <2>2, ShiftedTyped DEF Due, DueTime
  <2> QED
    BY <1>1, <2>1, <2>3, <2>4
<1>5. \/ Peeks.queue.duration <= d
      \/ \E x \in {Peeks.action, Peeks.timer, Peeks.expiry.duration, Peeks.aggregate} :
           d > x
  BY <1>1, QueuedLeast
<1>6. \/ Peeks.queue.duration <= d
      \/ d > n
  BY <1>2, <1>3, <1>5, PeeksNat
<1>7. \A k \in Nat : k # 0 /\ k <= d => first >= current_time + k
  BY <1>2, <1>3, SimQueueAssumption DEF Since
<1> HIDE DEF first, d
<1>8. ASSUME n <= Peeks.queue.duration, n # 0
      PROVE  DueTime(side, q, e) >= current_time + n
  <2>1. n <= d
    BY <1>2, <1>3, <1>6, <1>8
  <2>2. first >= current_time + n
    BY <1>7, <1>8, <2>1
  <2> QED
    BY <1>1, <1>2, <1>3, <1>4, <2>2
<1>9. ASSUME n < Peeks.queue.duration
      PROVE  DueTime(side, q, e) > current_time + n
  <2>1. n + 1 <= d /\ n + 1 \in Nat /\ n + 1 # 0
    BY <1>2, <1>3, <1>6, <1>9
  <2>2. first >= current_time + (n + 1)
    BY <1>7, <2>1
  <2> QED
    BY <1>1, <1>2, <1>3, <1>4, <2>2
<1> QED
  BY <1>8, <1>9

-----------------------------------------------------------------------------
(***************************************************************************)
(* What a step queues.                                                     *)
(***************************************************************************)
Gains(E) ==
  \A s \in Side, q \in Queue : \A e \in DOMAIN sq'[s][q] : e \in DOMAIN sq[s][q] \/ e \in E

LEMMA PushGains ==
  ASSUME Typed, NEW side, NEW e, sq' = [sq EXCEPT ![side] = Push(@, e)]
  PROVE  Gains({e})
<1>1. SidesOK(sq)
  BY DEF Typed
<1>2. ASSUME NEW s \in Side, NEW q \in Queue, NEW f \in DOMAIN sq'[s][q]
      PROVE  f = e \/ f \in DOMAIN sq[s][q]
  <2>1. f \in DOMAIN ([sq EXCEPT ![side] = Push(@, e)][s][q])
    OBVIOUS
  <2> QED
    BY <1>1, <2>1, PushedOnly
<1> QED
  BY <1>2 DEF Gains

LEMMA PopGains ==
  ASSUME Typed, NEW side, NEW r, NEW e, sq' = [sq EXCEPT ![side] = Pop(@, r, e)]
  PROVE  Gains({})
<1>1. SidesOK(sq)
  BY DEF Typed
<1>2. ASSUME NEW s \in Side, NEW q \in Queue, NEW f \in DOMAIN sq'[s][q]
      PROVE  f \in DOMAIN sq[s][q]
  <2>1. f \in DOMAIN ([sq EXCEPT ![side] = Pop(@, r, e)][s][q])
    OBVIOUS
  <2> QED
    BY <1>1, <2>1, PoppedOnly
<1> QED
  BY <1>2 DEF Gains

LEMMA ReportGains ==
  ASSUME Typed, NEW side, NEW event, NEW time, ReportsAt(side, event, time)
  PROVE  \E e \in SimEvent : /\ e.side = side /\ e.event = event /\ e.time = time
                            /\ Gains({e})
<1>1. PICK e \in SimEvent :
        /\ e.side = side /\ e.event = event /\ e.time = time
        /\ sq' = [sq EXCEPT ![side] = Push(@, e)]
  BY DEF ReportsAt, AddTo
<1>2. Gains({e})
  BY <1>1, PushGains
<1> QED
  BY <1>1, <1>2

(* The end of a block is queued, or picked when it is due. *)
LEMMA ExpiryGains ==
  ASSUME Typed, PickExpiry(Peeks)
  PROVE  LET expiry == current_time + Peeks.expiry.duration IN
         \E e : /\ e.event = "BlockingEnd" /\ e.side = Peeks.expiry.side
               /\ e.time \in Nat /\ e.time >= expiry
               /\ \/ Gains({e}) /\ UNCHANGED <<pc, next, due>> /\ ~Prompt(e.side)
                  \/ /\ UNCHANGED sq /\ pc' = "network" /\ next' = e
                     /\ due' = expiry /\ e.time = expiry
<1> DEFINE side   == Peeks.expiry.side
           expiry == current_time + Peeks.expiry.duration
<1>1. PICK delay \in ReportingDelay[side] :
        LET e == Plain("BlockingEnd", side, expiry + delay, delay)
        IN  IF delay > 0
            THEN /\ sq' = [sq EXCEPT ![side] = Push(@, e)]
                 /\ UNCHANGED <<pc, next, due>>
            ELSE /\ pc' = "network" /\ next' = e /\ due' = e.time
                 /\ UNCHANGED sq
  BY DEF PickExpiry
<1>2. side \in Side
  BY PeeksSound DEF PeeksTyped
<1>3. expiry \in Nat /\ delay \in Nat /\ (Prompt(side) => delay = 0)
  BY <1>2, PeeksNat, DelaysTyped DEF Prompt
<1> DEFINE e == Plain("BlockingEnd", side, expiry + delay, delay)
<1>4. /\ e.event = "BlockingEnd" /\ e.side = side /\ e.time = expiry + delay
      /\ e.time \in Nat /\ e.time >= expiry
  BY <1>3 DEF Plain
<1>5. IF delay > 0
      THEN sq' = [sq EXCEPT ![side] = Push(@, e)] /\ UNCHANGED <<pc, next, due>>
      ELSE pc' = "network" /\ next' = e /\ due' = e.time /\ UNCHANGED sq
  BY <1>1
<1> HIDE DEF e, expiry, side
<1>6. CASE delay > 0
  <2>1. Gains({e}) /\ UNCHANGED <<pc, next, due>>
    BY <1>5, <1>6, PushGains
  <2>2. ~Prompt(e.side)
    BY <1>3, <1>4, <1>6
  <2> QED
    BY <1>4, <2>1, <2>2 DEF expiry, side
<1>7. CASE ~(delay > 0)
  <2>1. e.time = expiry
    BY <1>3, <1>4, <1>7
  <2>2. pc' = "network" /\ next' = e /\ due' = e.time /\ UNCHANGED sq
    BY <1>5, <1>7
  <2> QED
    BY <1>4, <2>1, <2>2 DEF expiry, side
<1> QED
  BY <1>6, <1>7

LEMMA PaddingGains ==
  ASSUME Typed, NEW side \in Side, NEW m \in MachineId,
         NEW a \in Slot, a # NoScheduled, SendPadding(side, m, a)
  PROVE  \E e : /\ e.event = "PaddingSent" /\ e.time = a.time
               /\ e.bypass = a.action.bypass /\ Gains({e})
<1>1. PICK delay \in ActionDelay[side] :
        sq' = [sq EXCEPT ![side] =
          Push(@, [Plain("PaddingSent", side, a.time, delay) EXCEPT
                     !.machine = m, !.contains_padding = TRUE,
                     !.bypass = a.action.bypass, !.replace = a.action.replace])]
  BY DEF SendPadding
<1> DEFINE e == [Plain("PaddingSent", side, a.time, delay) EXCEPT
                   !.machine = m, !.contains_padding = TRUE,
                   !.bypass = a.action.bypass, !.replace = a.action.replace]
<1>2. e.event = "PaddingSent" /\ e.time = a.time /\ e.bypass = a.action.bypass
  BY DEF Plain
<1>3. sq' = [sq EXCEPT ![side] = Push(@, e)]
  BY <1>1
<1> HIDE DEF e
<1> QED
  BY <1>2, <1>3, PushGains

LEMMA BlockGains ==
  ASSUME Typed, NEW side \in Side, NEW m \in MachineId,
         NEW a \in Slot, a # NoScheduled, BlockOutgoing(side, m, a)
  PROVE  \E e : /\ e.event = "BlockingBegin" /\ e.side = side
               /\ e.time \in Nat /\ e.time >= a.time /\ Gains({e})
<1>1. PICK action_delay \in ActionDelay[side], reporting_delay \in ReportingDelay[side] :
        LET delay == action_delay + reporting_delay
        IN  sq' = [sq EXCEPT ![side] =
              Push(@, [Plain("BlockingBegin", side, a.time + delay, delay) EXCEPT
                         !.machine = m, !.bypass = blocking_bypassable'[side]])]
  BY DEF BlockOutgoing
<1> DEFINE delay == action_delay + reporting_delay
           e == [Plain("BlockingBegin", side, a.time + delay, delay) EXCEPT
                   !.machine = m, !.bypass = blocking_bypassable'[side]]
<1>2. delay \in Nat /\ a.time \in Nat
  BY DelaysTyped DEF Slot
<1>3. sq' = [sq EXCEPT ![side] = Push(@, e)]
  BY <1>1
<1> HIDE DEF delay
<1>4. /\ e.event = "BlockingBegin" /\ e.side = side
      /\ e.time \in Nat /\ e.time >= a.time
  BY <1>2 DEF Plain
<1> HIDE DEF e
<1> QED
  BY <1>3, <1>4, PushGains

(* The network queues packets, and what it reports of them. *)
PacketEvent == {"TunnelSent", "TunnelRecv", "PaddingRecv", "NormalRecv"}

LEMMA NormalSentGains ==
  ASSUME Typed, NormalSent
  PROVE  \E e : /\ e.event = "TunnelSent" /\ e.bypass = FALSE /\ e.time = next.time
               /\ Gains({e})
<1> DEFINE e == Plain("TunnelSent", next.side, next.time, next.integration_delay)
<1>1. e.event = "TunnelSent" /\ e.bypass = FALSE /\ e.time = next.time
  BY DEF Plain
<1>2. sq' = [sq EXCEPT ![next.side] = Push(@, e)]
  BY DEF NormalSent
<1> HIDE DEF e
<1> QED
  BY <1>1, <1>2, PushGains

LEMMA QueuePaddingGains ==
  ASSUME Typed, QueuePadding
  PROVE  \E e : /\ e.event = "TunnelSent" /\ e.bypass = next.bypass /\ e.time = next.time
               /\ Gains({e})
<1> DEFINE e == [next EXCEPT !.event = "TunnelSent", !.machine = None]
<1>1. e.event = "TunnelSent" /\ e.bypass = next.bypass /\ e.time = next.time
  BY DEF Typed, SimEvent
<1>2. sq' = [sq EXCEPT ![next.side] = Push(@, e)]
  BY DEF QueuePadding
<1> HIDE DEF e
<1> QED
  BY <1>1, <1>2, PushGains

LEMMA ReplacePaddingGains ==
  ASSUME Typed, ReplacePadding
  PROVE  \E e : /\ e.event = "TunnelSent" /\ e.bypass = TRUE /\ e.side = next.side
               /\ Gains({e})
<1>1. PICK e \in Replacements :
        sq' = [sq EXCEPT ![next.side] =
          Push(Pop(sq[next.side], ReplaceQueue, e), [e EXCEPT !.bypass = TRUE, !.replace = FALSE])]
  BY DEF ReplacePadding
<1> DEFINE f == [e EXCEPT !.bypass = TRUE, !.replace = FALSE]
           popped == [sq EXCEPT ![next.side] = Pop(@, ReplaceQueue, e)]
<1>2. next.side \in Side /\ ReplaceQueue \in Queue /\ e \in SimEvent /\ e.side = next.side
  BY NextTyped, ReplacementTyped
<1>3. e.event = "TunnelSent"
  <2>1. e \in DOMAIN sq[next.side][ReplaceQueue]
    BY DEF Replacements, Tops
  <2>2. QueueOf(e) = ReplaceQueue /\ ReplaceQueue \in {"blocking", "bypassable"}
    BY <1>2, <2>1, EventTyped, FirstBlockingHeld DEF ReplaceQueue
  <2> QED
    BY <2>2 DEF QueueOf
<1>4. f.event = "TunnelSent" /\ f.bypass = TRUE /\ f.side = next.side
  BY <1>2, <1>3 DEF SimEvent
<1>5. SidesOK(sq) /\ SidesOK(popped)
  BY <1>2, SidePop DEF Typed
<1>6. sq' = [popped EXCEPT ![next.side] = Push(@, f)]
  BY <1>1, <1>2, <1>5 DEF SidesOK
<1> HIDE DEF f
<1>7. ASSUME NEW s \in Side, NEW q \in Queue, NEW x \in DOMAIN sq'[s][q]
      PROVE  x = f \/ x \in DOMAIN sq[s][q]
  <2>1. x = f \/ x \in DOMAIN popped[s][q]
    <3> HIDE DEF popped
    <3>1. x \in DOMAIN ([popped EXCEPT ![next.side] = Push(@, f)][s][q])
      BY <1>6
    <3> QED
      BY <1>5, <3>1, PushedOnly
  <2>2. x \in DOMAIN popped[s][q] => x \in DOMAIN sq[s][q]
    BY <1>5, PoppedOnly
  <2> QED
    BY <2>1, <2>2
<1>8. Gains({f})
  BY <1>7 DEF Gains
<1> QED
  BY <1>4, <1>8

LEMMA TunnelRecvGains ==
  ASSUME Typed, TunnelRecv
  PROVE  \E e : /\ e.event \in {"PaddingRecv", "NormalRecv"} /\ e.time = next.time
               /\ Gains({e})
<1> DEFINE e == [next EXCEPT !.event = IF next.contains_padding THEN "PaddingRecv"
                                       ELSE "NormalRecv"]
<1>1. e.event \in {"PaddingRecv", "NormalRecv"} /\ e.time = next.time
  BY DEF Typed, SimEvent
<1>2. sq' = [sq EXCEPT ![next.side] = Push(@, e)]
  BY DEF TunnelRecv
<1> HIDE DEF e
<1> QED
  BY <1>1, <1>2, PushGains

LEMMA StackGains ==
  ASSUME Typed, SimNetworkStack
  PROVE  \E E : /\ Gains(E)
               /\ \A e \in E :
                    /\ e.event \in PacketEvent
                    /\ e.event = "TunnelSent" /\ e.bypass =>
                         next.event = "PaddingSent" /\ next.bypass
                    /\ \/ e.time >= next.time
                       \/ /\ ReplacePadding
                          /\ e.event = "TunnelSent" /\ e.bypass /\ e.side = next.side
<1>1. next.time \in Nat /\ next.time >= next.time
  BY DEF Typed, SimEvent
<1>2. CASE NormalSent
  BY <1>1, <1>2, NormalSentGains DEF PacketEvent
<1>3. CASE QueuePadding
  <2>1. next.event = "PaddingSent"
    BY <1>3 DEF QueuePadding, Advance
  <2>2. PICK e : /\ e.event = "TunnelSent" /\ e.bypass = next.bypass /\ e.time = next.time
                 /\ Gains({e})
    BY <1>3, QueuePaddingGains
  <2>3. /\ e.event \in PacketEvent /\ e.time >= next.time
        /\ e.bypass => next.bypass
    BY <1>1, <2>2 DEF PacketEvent
  <2> QED
    BY <2>1, <2>2, <2>3
<1>4. CASE DropPadding \/ NotNetwork
  <2>1. Gains({})
    BY <1>4 DEF DropPadding, NotNetwork, Gains
  <2> QED
    BY <2>1
<1>5. CASE ReplacePadding
  <2>1. next.event = "PaddingSent" /\ next.bypass
    BY <1>5 DEF ReplacePadding, Advance
  <2>2. PICK e : /\ e.event = "TunnelSent" /\ e.bypass = TRUE /\ e.side = next.side
                 /\ Gains({e})
    BY <1>5, ReplacePaddingGains
  <2>3. e.event \in PacketEvent
    BY <2>2 DEF PacketEvent
  <2> QED
    BY <1>5, <2>1, <2>2, <2>3
<1>6. CASE TunnelSent
  <2>1. PICK time \in Nat : time >= next.time /\ ReportsAt(Other(next.side), "TunnelRecv", time)
    BY <1>6, TunnelSentTyped
  <2> DEFINE side == Other(next.side)
  <2>2. ReportsAt(side, "TunnelRecv", time)
    BY <2>1
  <2> HIDE DEF side
  <2>3. PICK e \in SimEvent : e.event = "TunnelRecv" /\ e.time = time /\ Gains({e})
    BY <2>2, ReportGains
  <2> QED
    BY <2>1, <2>3 DEF PacketEvent
<1>7. CASE TunnelRecv
  BY <1>1, <1>7, TunnelRecvGains DEF PacketEvent
<1> QED
  BY <1>2, <1>3, <1>4, <1>5, <1>6, <1>7 DEF SimNetworkStack

LEMMA TriggerGains ==
  ASSUME Typed, TriggerUpdate
  PROVE  \E E : /\ Gains(E)
               /\ \A e \in E : e.event = "TimerBegin" /\ e.time = current_time
<1>1. PICK E : /\ E \subseteq SimEvent /\ IsFiniteSet(E)
               /\ \A e \in E : e.event = "TimerBegin" /\ e.time = current_time
               /\ \A s \in Side, q \in Queue :
                    \/ sq'[s][q] = sq[s][q]
                    \/ sq'[s][q] = sq[s][q] (+) SetToBag(E)
  BY TriggerReports
<1>2. \A s \in Side, q \in Queue : DOMAIN (sq[s][q] (+) SetToBag(E)) = DOMAIN sq[s][q] \cup E
  BY DEF (+), SetToBag
<1>3. Gains(E)
  BY <1>1, <1>2 DEF Gains
<1> QED
  BY <1>1, <1>3

-----------------------------------------------------------------------------
(***************************************************************************)
(* If no framework pads with the bypass flag, no packet ever has it.       *)
(***************************************************************************)
NoBypass ==
  \A side \in Side, m \in MachineId, e \in DOMAIN event_to_usize :
    \A a \in Response(side, m, e) : a.kind = "SendPadding" => ~a.bypass

Unflagged(e) == e.event \in {"PaddingSent", "TunnelSent"} => ~e.bypass

Flagless ==
  /\ \A side \in Side, q \in Queue : \A e \in DOMAIN sq[side][q] : Unflagged(e)
  /\ \A side \in Side, m \in MachineId :
       LET a == scheduled_action[side][m].action IN a.kind = "SendPadding" => ~a.bypass
  /\ Unflagged(next)

LEMMA FlaglessIsComparable ==
  ASSUME Typed, Flagless
  PROVE  \A side \in Side : Empty(sq[side]["bypassable"])
<1> SUFFICES ASSUME NEW side \in Side, NEW e \in DOMAIN sq[side]["bypassable"] PROVE FALSE
  BY DEF Empty
<1>1. "bypassable" \in Queue
  BY DEF Queue
<1>2. QueueOf(e) = "bypassable"
  BY <1>1, EventTyped
<1>3. e.event = "TunnelSent" /\ e.bypass
  BY <1>2 DEF QueueOf
<1> QED
  BY <1>1, <1>3 DEF Flagless, Unflagged

LEMMA FlaglessPick ==
  ASSUME NoBypass, Typed, Flagless, PickNext
  PROVE  Flagless'
<1>1. ASSUME NEW E, Gains(E), \A e \in E : Unflagged(e)
      PROVE  \A side \in Side, q \in Queue : \A e \in DOMAIN sq'[side][q] : Unflagged(e)
  BY <1>1 DEF Gains, Flagless
<1>2. CASE PickNothing(Peeks) \/ PickAggregateDelay(Peeks)
  BY <1>2 DEF PickNothing, PickAggregateDelay, timers, Flagless
<1>3. CASE PickExpiry(Peeks)
  <2>1. UNCHANGED scheduled_action
    BY <1>3 DEF PickExpiry, timers
  <2>2. PICK e : /\ e.event = "BlockingEnd"
                 /\ \/ Gains({e}) /\ UNCHANGED next
                    \/ UNCHANGED sq /\ next' = e
    BY <1>3, ExpiryGains
  <2>3. Unflagged(e)
    BY <2>2 DEF Unflagged
  <2>4. CASE Gains({e}) /\ UNCHANGED next
    <3>1. \A side \in Side, q \in Queue : \A f \in DOMAIN sq'[side][q] : Unflagged(f)
      BY <1>1, <2>3, <2>4
    <3> QED
      BY <2>1, <2>4, <3>1 DEF Flagless, Unflagged
  <2>5. CASE UNCHANGED sq /\ next' = e
    BY <2>1, <2>3, <2>5 DEF Flagless, Unflagged
  <2> QED
    BY <2>2, <2>4, <2>5
<1>4. CASE PickQueue(Peeks)
  <2> DEFINE p == Peeks.queue
  <2>1. UNCHANGED scheduled_action
    BY <1>4 DEF PickQueue, timers
  <2>2. PICK top \in Tops(sq[p.side][p.queue]) :
          /\ p.side \in Side /\ p.queue \in Filled(sq[p.side])
          /\ next'.event = top.event /\ next'.bypass = top.bypass
          /\ sq' = [sq EXCEPT ![p.side] = Pop(@, p.queue, top)]
    BY <1>4, QueuePicked
  <2>3. Gains({})
    BY <2>2, PopGains
  <2>4. Unflagged(top)
    BY <2>2 DEF Flagless, Tops, Filled
  <2> HIDE DEF p
  <2>5. \A side \in Side, q \in Queue : \A f \in DOMAIN sq'[side][q] : Unflagged(f)
    BY <1>1, <2>3
  <2> QED
    BY <2>1, <2>2, <2>4, <2>5 DEF Flagless, Unflagged
<1>5. CASE PickTimer(Peeks)
  <2>1. UNCHANGED <<scheduled_action, next>>
    BY <1>5 DEF PickTimer
  <2>2. PICK side \in Side : ReportsAt(side, "TimerEnd", current_time + Peeks.timer)
    BY <1>5, TimerQueues
  <2>3. PICK e \in SimEvent : e.event = "TimerEnd" /\ Gains({e})
    BY <2>2, ReportGains
  <2>4. Unflagged(e)
    BY <2>3 DEF Unflagged
  <2>5. \A s \in Side, q \in Queue : \A f \in DOMAIN sq'[s][q] : Unflagged(f)
    BY <1>1, <2>3, <2>4
  <2> QED
    BY <2>1, <2>5 DEF Flagless, Unflagged
<1>6. CASE PickAction(Peeks)
  <2>1. PICK side \in Side, m \in MachineId :
          LET a == scheduled_action[side][m] IN
          /\ a \in Slot /\ a # NoScheduled
          /\ scheduled_action' = [scheduled_action EXCEPT ![side][m] = NoScheduled]
          /\ \/ a.action.kind = "SendPadding" /\ SendPadding(side, m, a)
             \/ a.action.kind = "BlockOutgoing" /\ BlockOutgoing(side, m, a)
    BY <1>6, ActionPicked
  <2> DEFINE a == scheduled_action[side][m]
  <2>2. PICK e : Unflagged(e) /\ Gains({e})
    <3>1. CASE a.action.kind = "SendPadding" /\ SendPadding(side, m, a)
      <4>1. ~a.action.bypass
        BY <3>1 DEF Flagless
      <4>2. a \in Slot /\ a # NoScheduled
        BY <2>1
      <4> HIDE DEF a
      <4> QED
        BY <3>1, <4>1, <4>2, PaddingGains DEF Unflagged
    <3>2. CASE a.action.kind = "BlockOutgoing" /\ BlockOutgoing(side, m, a)
      <4>1. a \in Slot /\ a # NoScheduled
        BY <2>1
      <4> HIDE DEF a
      <4> QED
        BY <3>2, <4>1, BlockGains DEF Unflagged
    <3> QED
      BY <2>1, <3>1, <3>2
  <2>3. \A s \in Side, q \in Queue : \A f \in DOMAIN sq'[s][q] : Unflagged(f)
    BY <1>1, <2>2
  <2>4. \A s \in Side, k \in MachineId :
          \/ scheduled_action'[s][k] = scheduled_action[s][k]
          \/ scheduled_action'[s][k] = NoScheduled
    BY <2>1 DEF Typed
  <2>5. NoScheduled.action.kind # "SendPadding"
    BY DEF NoScheduled, NoAction
  <2>6. UNCHANGED next
    BY <1>6 DEF PickAction
  <2> QED
    BY <2>3, <2>4, <2>5, <2>6 DEF Flagless, Unflagged
<1> QED
  BY <1>2, <1>3, <1>4, <1>5, <1>6 DEF PickNext

LEMMA FlaglessNetwork ==
  ASSUME NoBypass, Typed, Flagless, SimNetworkStack
  PROVE  Flagless'
<1>1. PICK E : /\ Gains(E)
               /\ \A e \in E :
                    /\ e.event \in PacketEvent
                    /\ e.event = "TunnelSent" /\ e.bypass =>
                         next.event = "PaddingSent" /\ next.bypass
  BY StackGains
<1>2. \A e \in E : Unflagged(e)
  BY <1>1 DEF Flagless, Unflagged, PacketEvent
<1>3. UNCHANGED <<scheduled_action, next>>
  BY DEF SimNetworkStack, NormalSent, QueuePadding, DropPadding, ReplacePadding,
         TunnelSent, TunnelRecv, NotNetwork, Advance, timers
<1>4. \A side \in Side, q \in Queue : \A e \in DOMAIN sq'[side][q] : Unflagged(e)
  BY <1>1, <1>2 DEF Gains, Flagless
<1> QED
  BY <1>3, <1>4 DEF Flagless, Unflagged

LEMMA FlaglessTrigger ==
  ASSUME NoBypass, Typed, Flagless, TriggerUpdate
  PROVE  Flagless'
<1>1. PICK E : Gains(E) /\ \A e \in E : e.event = "TimerBegin"
  BY TriggerGains
<1>2. \A side \in Side, q \in Queue : \A e \in DOMAIN sq'[side][q] : Unflagged(e)
  BY <1>1 DEF Gains, Flagless, Unflagged
<1>3. PICK f \in Answers, delay \in TriggerDelay[next.side] :
        scheduled_action' = [scheduled_action EXCEPT ![next.side] =
          [m \in MachineId |-> ActionTimer(m, f[m], delay)]]
  BY DEF TriggerUpdate
<1>4. next.side \in Side /\ next.event \in DOMAIN event_to_usize
  BY DEF Typed, SimEvent
<1>5. ASSUME NEW m \in MachineId
      PROVE  LET a == ActionTimer(m, f[m], delay).action IN
             a.kind = "SendPadding" => ~a.bypass
  <2>1. f[m] \in {NoAction} \cup Response(next.side, m, next.event)
    BY DEF Answers
  <2>2. f[m].kind = "SendPadding" => ~f[m].bypass
    BY <1>4, <2>1 DEF NoBypass, NoAction
  <2>3. NoScheduled.action.kind # "SendPadding"
    BY DEF NoScheduled, NoAction
  <2>4. LET b == scheduled_action[next.side][m].action IN b.kind = "SendPadding" => ~b.bypass
    BY <1>4 DEF Flagless
  <2>5. \/ ActionTimer(m, f[m], delay).action = f[m]
        \/ ActionTimer(m, f[m], delay) = NoScheduled
        \/ ActionTimer(m, f[m], delay) = scheduled_action[next.side][m]
    <3>1. CASE f[m].kind \in {"SendPadding", "BlockOutgoing"}
      BY <3>1 DEF ActionTimer
    <3>2. CASE f[m].kind \notin {"SendPadding", "BlockOutgoing"}
      BY <3>2 DEF ActionTimer
    <3> QED
      BY <3>1, <3>2
  <2> QED
    BY <2>2, <2>3, <2>4, <2>5
<1>6. ASSUME NEW side \in Side, NEW m \in MachineId
      PROVE  LET a == scheduled_action'[side][m].action IN a.kind = "SendPadding" => ~a.bypass
  <2>1. scheduled_action'[side][m] = IF side = next.side THEN ActionTimer(m, f[m], delay)
                                     ELSE scheduled_action[side][m]
    BY <1>3 DEF Typed
  <2> QED
    BY <1>5, <2>1 DEF Flagless
<1>7. Unflagged(next)'
  BY DEF TriggerUpdate, NoEvent, Plain, Unflagged
<1> QED
  BY <1>2, <1>6, <1>7 DEF Flagless

LEMMA AlwaysFlagless == Spec => [](NoBypass => Flagless)
<1>1. Init => (NoBypass => Flagless)
  <2> SUFFICES ASSUME Init PROVE Flagless
    OBVIOUS
  <2>1. \A side \in Side, q \in Queue : \A e \in DOMAIN sq[side][q] : e.event = "NormalSent"
    BY QueuedAtFirst
  <2>2. Unflagged(next)
    BY DEF Init, NoEvent, Plain, Unflagged
  <2>3. \A side \in Side, m \in MachineId :
          scheduled_action[side][m].action.kind # "SendPadding"
    BY DEF Init, NoScheduled, NoAction
  <2> QED
    BY <2>1, <2>2, <2>3 DEF Flagless, Unflagged
<1>2. Typed /\ (NoBypass => Flagless) /\ [Next]_vars => (NoBypass => Flagless)'
  <2> SUFFICES ASSUME Typed, NoBypass, Flagless, [Next]_vars PROVE Flagless'
    BY DEF NoBypass
  <2>1. CASE UNCHANGED vars
    BY <2>1 DEF Flagless, Unflagged, vars, timers
  <2> QED
    BY <2>1, FlaglessPick, FlaglessNetwork, FlaglessTrigger DEF Next, Run, Finished
<1> QED
  BY <1>1, <1>2, AlwaysTyped, PTL DEF Spec

-----------------------------------------------------------------------------
(***************************************************************************)
(* Nothing is late.  Of what may go nothing is due before the time the     *)
(* simulation has reached, unless it was freed no earlier than that.       *)
(***************************************************************************)
Unshifted == \A side \in Side : aggregate_base_delay[side] = 0

(* pick_next compares queued events by the time they are due. *)
Exact == NoBypass \/ Unshifted

Holding == {"blocking", "bypassable"}

Current(t) ==
  \A side \in Side, q \in Queue : Open(side, q) =>
    \/ \A e \in DOMAIN sq[side][q] : DueTime(side, q, e) >= t
    \/ q \in Holding /\ t <= freed[side]

OnTime == Current(Horizon) /\ TakenOnTime

LEMMA ExactIsComparable ==
  ASSUME Typed, NoBypass => Flagless, Exact
  PROVE  Comparable
BY FlaglessIsComparable DEF Exact, Unshifted, Comparable

LEMMA HorizonTyped ==
  ASSUME Typed
  PROVE  Horizon \in Nat
BY DEF Typed, SimEvent, Horizon

(* The time moves on as far as the next of what pick_next finds. *)
LEMMA CurrentOn ==
  ASSUME Typed, Comparable, Current(current_time), NEW n \in Nat,
         n <= Peeks.action, n <= Peeks.timer, n <= Peeks.expiry.duration,
         n <= Peeks.aggregate, n <= Peeks.queue.duration
  PROVE  Current(current_time + n)
<1>1. current_time \in Nat
  BY PeeksNat
<1>2. CASE n = 0
  <2>1. current_time + n = current_time
    BY <1>1, <1>2
  <2> QED
    BY <2>1
<1>3. CASE n # 0
  <2>1. ASSUME NEW side \in Side, NEW q \in Queue, Open(side, q),
               NEW e \in DOMAIN sq[side][q]
        PROVE  DueTime(side, q, e) >= current_time + n
    BY <1>3, <2>1, NothingDueBefore
  <2> QED
    BY <2>1 DEF Current
<1> QED
  BY <1>2, <1>3

(* A step keeps to the time t if it queues nothing for before t, and opens
   queues only to what is freed at t or later. *)
LEMMA CurrentKept ==
  ASSUME Typed, Typed', NEW t \in Nat, Current(t), NEW E, Gains(E),
         \A s \in Side : aggregate_base_delay[s] <= aggregate_base_delay'[s],
         \A s \in Side : freed'[s] = freed[s] \/ t <= freed'[s],
         \A s \in Side, q \in Queue :
           Open(s, q)' => Open(s, q) \/ (q \in Holding /\ t <= freed'[s]),
         \A e \in E : \/ e.time >= t
                      \/ QueueOf(e) = "bypassable" /\ t <= freed'[e.side]
  PROVE  Current(t)'
<1> SUFFICES ASSUME NEW s \in Side, NEW q \in Queue, Open(s, q)',
                    ~(q \in Holding /\ t <= freed'[s]),
                    NEW e \in DOMAIN sq'[s][q]
             PROVE  Shifted(e, q, aggregate_base_delay'[s]).time >= t
  BY DEF Current, DueTime
<1>1. Open(s, q) /\ ~(q \in Holding /\ t <= freed[s])
  BY DEF Typed
<1>2. e \in SimEvent /\ e.side = s /\ QueueOf(e) = q
  BY DEF Typed, SidesOK, SideOK, IsBag
<1>3. /\ aggregate_base_delay[s] \in Nat /\ aggregate_base_delay'[s] \in Nat
      /\ aggregate_base_delay[s] <= aggregate_base_delay'[s] /\ e.time \in Nat
  BY <1>2, RankTyped DEF Typed
<1>4. /\ Shifted(e, q, aggregate_base_delay'[s]).time =
           IF q = "base" THEN e.time + aggregate_base_delay'[s] ELSE e.time
      /\ DueTime(s, q, e) = IF q = "base" THEN e.time + aggregate_base_delay[s] ELSE e.time
  BY <1>2, <1>3, ShiftedTyped DEF DueTime
<1>5. e \in DOMAIN sq[s][q] \/ e \in E
  BY DEF Gains
<1>6. CASE e \in DOMAIN sq[s][q]
  <2>1. DueTime(s, q, e) >= t
    BY <1>1, <1>6 DEF Current
  <2> QED
    BY <1>3, <1>4, <2>1
<1>7. CASE e \in E
  <2>1. e.time >= t
    BY <1>2, <1>7 DEF Holding
  <2> QED
    BY <1>3, <1>4, <2>1
<1> QED
  BY <1>5, <1>6, <1>7

LEMMA PickExpiryOnTime ==
  ASSUME Typed, Typed', Comparable, pc = "pick", OnTime, PickExpiry(Peeks)
  PROVE  OnTime'
<1> DEFINE side   == Peeks.expiry.side
           n      == Peeks.expiry.duration
           expiry == current_time + n
<1>1. /\ n \in Nat /\ current_time \in Nat
      /\ n <= Peeks.action /\ n <= Peeks.timer /\ n <= Peeks.queue.duration
      /\ n <= Peeks.aggregate
  BY PeeksNat, PeeksSound, ExpiryAhead DEF PickExpiry
<1>2. side \in Side
  BY PeeksSound DEF PeeksTyped
<1>3. Current(current_time)
  BY DEF OnTime, Horizon
<1>4. Current(current_time + n)
  BY <1>1, <1>3, CurrentOn
<1>5. PICK e : /\ e.time \in Nat /\ e.time >= expiry
               /\ \/ Gains({e}) /\ UNCHANGED <<pc, next, due>>
                  \/ /\ UNCHANGED sq /\ pc' = "network" /\ next' = e
                     /\ due' = expiry /\ e.time = expiry
  BY ExpiryGains
<1>6. /\ UNCHANGED <<current_time, aggregate_base_delay, blocking_bypassable>>
      /\ blocking_until' = [blocking_until EXCEPT ![side] = None]
      /\ freed' = [freed EXCEPT ![side] = expiry]
  BY DEF PickExpiry
<1>7. expiry \in Nat /\ current_time <= expiry
  BY <1>1
<1>8. Current(expiry)
  BY <1>4
<1> HIDE DEF expiry, n, side
<1>9. Horizon' \in {current_time, expiry}
  BY <1>5, <1>6 DEF Horizon
<1>10. PICK t \in Nat : t = Horizon'
  BY <1>1, <1>7, <1>9
<1>11. Current(t) /\ t <= expiry
  BY <1>1, <1>3, <1>7, <1>8, <1>9, <1>10
<1>12. PICK E : Gains(E) /\ \A f \in E : f.time >= t
  <2>1. CASE Gains({e}) /\ UNCHANGED <<pc, next, due>>
    <3>1. e.time >= t
      BY <1>5, <1>7, <1>11
    <3> QED
      BY <2>1, <3>1
  <2>2. CASE UNCHANGED sq
    <3>1. Gains({})
      BY <2>2 DEF Gains
    <3> QED
      BY <3>1
  <2> QED
    BY <1>5, <2>1, <2>2
<1>13. \A s \in Side : freed'[s] = freed[s] \/ t <= freed'[s]
  BY <1>6, <1>11 DEF Typed
<1>14. \A s \in Side, q \in Queue :
         Open(s, q)' => Open(s, q) \/ (q \in Holding /\ t <= freed'[s])
  BY <1>2, <1>6, <1>11 DEF Open, Free, Holding, Queue, Typed
<1>15. \A s \in Side : aggregate_base_delay[s] <= aggregate_base_delay'[s]
  BY <1>6 DEF Typed
<1>16. Current(t)'
  BY <1>11, <1>12, <1>13, <1>14, <1>15, CurrentKept
<1>17. TakenOnTime'
  <2>1. pc' = "network" => next'.time = due' /\ due' = expiry
    BY <1>5
  <2>2. next'.side \in Side /\ freed' \in [Side -> Nat]
    BY DEF Typed, SimEvent
  <2> QED
    BY <1>7, <2>1, <2>2 DEF TakenOnTime, Later
<1> QED
  BY <1>10, <1>16, <1>17 DEF OnTime, Current

(* What pick_next takes out of a queue may go. *)
LEMMA PickedOpen ==
  ASSUME Typed, PickQueue(Peeks)
  PROVE  Open(Peeks.queue.side, Peeks.queue.queue)
<1> DEFINE p == Peeks.queue
<1>1. p.duration < Peeks.expiry.duration
  BY PeeksSound, QueueAhead DEF PickQueue
<1>2. p.side \in Side /\ Passes(blocking_until, blocking_bypassable, current_time, p)
  BY QueuePicked
<1>3. Peeks.expiry = PeekBlockedExp(blocking_until, current_time)
  BY DEF Peeks, Expiry
<1>4. blocking_until \in [Side -> Nat \cup {None}] /\ current_time \in Nat
  BY DEF Typed
<1>5. p.duration \in Nat /\ Peeks.expiry.duration \in Nat
  BY PeeksNat
<1> HIDE DEF p
<1>6. blocking_until[p.side] # None =>
        Peeks.expiry.duration <= Since(blocking_until[p.side], current_time)
  BY <1>2, <1>3, <1>4, PeekBlockedExpSound
<1>7. blocking_until[p.side] # None => Since(blocking_until[p.side], current_time) \in Nat
  BY <1>2, <1>4, SinceTyped
<1>8. blocking_until[p.side] # None =>
        ~(Since(blocking_until[p.side], current_time) <= p.duration)
  BY <1>1, <1>5, <1>6, <1>7
<1>9. \/ p.queue \in {"base", "internal"}
      \/ blocking_until[p.side] = None
      \/ p.queue = "bypassable" /\ blocking_bypassable[p.side]
  BY <1>2, <1>8 DEF Passes
<1> QED
  BY <1>9 DEF Open, Free, p

LEMMA PickQueueOnTime ==
  ASSUME Typed, Typed', Comparable, pc = "pick", OnTime, PickQueue(Peeks)
  PROVE  OnTime'
<1> DEFINE side == Peeks.queue.side
           q    == Peeks.queue.queue
           n    == Peeks.queue.duration
<1>1. /\ n \in Nat /\ current_time \in Nat
      /\ n <= Peeks.action /\ n <= Peeks.timer /\ n <= Peeks.expiry.duration
      /\ n <= Peeks.aggregate
  BY PeeksNat, PeeksSound, QueueAhead DEF PickQueue
<1>2. Current(current_time)
  BY DEF OnTime, Horizon
<1>3. Current(current_time + n)
  BY <1>1, <1>2, CurrentOn
<1>4. PICK top \in Tops(sq[side][q]) :
        /\ due' = Shifted(top, q, aggregate_base_delay[side]).time
        /\ sq' = [sq EXCEPT ![side] = Pop(@, q, top)]
  BY QueuePicked
<1>5. /\ side \in Side /\ q \in Queue /\ next'.side = side
      /\ next'.time = current_time + n /\ due' \in Nat
  BY QueuePicked DEF Filled
<1>6. Open(side, q)
  BY PickedOpen
<1>7. pc' = "network" /\ UNCHANGED <<freed, blocks, net>>
  BY DEF PickQueue
<1>8. PICK t \in Nat : t = current_time + n
  BY <1>1
<1> HIDE DEF side, q, n
<1>9. Horizon' = t
  BY <1>5, <1>7, <1>8 DEF Horizon
<1>10. Gains({})
  BY <1>4, PopGains
<1>11. Current(t)
  BY <1>3, <1>8
<1>12. \A s \in Side : aggregate_base_delay[s] <= aggregate_base_delay'[s]
  BY <1>7 DEF Typed, net
<1>13. \A s \in Side, r \in Queue : Open(s, r)' => Open(s, r)
  BY <1>7 DEF Open, blocks
<1>14. Current(t)'
  BY <1>7, <1>10, <1>11, <1>12, <1>13, CurrentKept
<1>15. TakenOnTime'
  <2>1. top \in DOMAIN sq[side][q]
    BY <1>4 DEF Tops
  <2>2. due' >= t \/ t <= freed[side]
    BY <1>4, <1>5, <1>6, <1>11, <2>1 DEF Current, DueTime
  <2>3. freed'[next'.side] = freed[side] /\ freed[side] \in Nat /\ next'.time = t
    BY <1>5, <1>7, <1>8 DEF Typed
  <2> QED
    BY <1>5, <2>2, <2>3 DEF TakenOnTime, Later
<1> QED
  BY <1>9, <1>14, <1>15 DEF OnTime, Current

(* A step of pick_next that goes on to the next level, and so does not move
   the time. *)
LEMMA StaysOnTime ==
  ASSUME Typed, Typed', pc # "network", pc' # "network", OnTime,
         UNCHANGED current_time, NEW E, Gains(E),
         \A s \in Side : aggregate_base_delay[s] <= aggregate_base_delay'[s],
         \A s \in Side : freed'[s] = freed[s] \/ current_time <= freed'[s],
         \A s \in Side, q \in Queue :
           Open(s, q)' => Open(s, q) \/ (q \in Holding /\ current_time <= freed'[s]),
         \A e \in E : e.time >= current_time
  PROVE  OnTime'
<1>1. PICK t \in Nat : t = current_time
  BY DEF Typed
<1>2. Horizon' = t /\ Current(t)
  BY <1>1 DEF Horizon, OnTime
<1>3. Current(t)'
  BY <1>1, <1>2, CurrentKept
<1>4. TakenOnTime'
  BY DEF TakenOnTime
<1> QED
  BY <1>2, <1>3, <1>4 DEF OnTime, Current

LEMMA PickTimerOnTime ==
  ASSUME Typed, Typed', pc = "pick", OnTime, PickTimer(Peeks)
  PROVE  OnTime'
<1>1. UNCHANGED <<pc, current_time, blocks, net, freed>>
  BY DEF PickTimer, history
<1>2. PICK side \in Side : ReportsAt(side, "TimerEnd", current_time + Peeks.timer)
  BY TimerQueues
<1>3. PICK e \in SimEvent : e.time = current_time + Peeks.timer /\ Gains({e})
  <2> DEFINE target == current_time + Peeks.timer
  <2>1. ReportsAt(side, "TimerEnd", target)
    BY <1>2
  <2> HIDE DEF target
  <2>2. \E e \in SimEvent : e.time = target /\ Gains({e})
    BY <2>1, ReportGains
  <2> QED
    BY <2>2 DEF target
<1>4. e.time >= current_time
  BY <1>3, PeeksNat
<1>5. \A s \in Side : aggregate_base_delay[s] <= aggregate_base_delay'[s]
  BY <1>1 DEF Typed, net
<1>6. \A s \in Side, q \in Queue : Open(s, q)' => Open(s, q)
  BY <1>1 DEF Open, blocks
<1> QED
  BY <1>1, <1>3, <1>4, <1>5, <1>6, StaysOnTime

LEMMA PickActionOnTime ==
  ASSUME Typed, Typed', pc = "pick", OnTime, PickAction(Peeks)
  PROVE  OnTime'
<1>1. UNCHANGED <<pc, current_time, net>>
  BY DEF PickAction
<1>2. PICK side \in Side, m \in MachineId :
        LET a == scheduled_action[side][m] IN
        /\ a \in Slot /\ a # NoScheduled
        /\ a.time = current_time + Peeks.action
        /\ \/ a.action.kind = "SendPadding" /\ SendPadding(side, m, a)
           \/ a.action.kind = "BlockOutgoing" /\ BlockOutgoing(side, m, a)
  BY ActionPicked
<1> DEFINE a == scheduled_action[side][m]
<1>3. a \in Slot /\ a # NoScheduled /\ a.time \in Nat /\ a.time >= current_time
  BY <1>2, PeeksNat
<1>4. \/ SendPadding(side, m, a)
      \/ a.action.kind = "BlockOutgoing" /\ BlockOutgoing(side, m, a)
  BY <1>2
<1> HIDE DEF a
<1>5. \A s \in Side : aggregate_base_delay[s] <= aggregate_base_delay'[s]
  BY <1>1 DEF Typed, net
<1>6. CASE SendPadding(side, m, a)
  <2>1. PICK e : e.time = a.time /\ Gains({e})
    BY <1>3, <1>6, PaddingGains
  <2>2. UNCHANGED <<blocks, freed>>
    BY <1>6 DEF SendPadding
  <2>3. \A s \in Side, q \in Queue : Open(s, q)' => Open(s, q)
    BY <2>2 DEF Open, blocks
  <2> QED
    BY <1>1, <1>3, <1>5, <2>1, <2>2, <2>3, StaysOnTime
<1>7. CASE a.action.kind = "BlockOutgoing" /\ BlockOutgoing(side, m, a)
  <2>1. PICK e : e.time \in Nat /\ e.time >= a.time /\ Gains({e})
    BY <1>3, <1>7, BlockGains
  <2>2. e.time >= current_time
    BY <1>3, <2>1 DEF Typed
  <2> DEFINE changes == ChangesBlock(side, a)
             frees == /\ changes /\ a.action.bypass
                      /\ blocking_until[side] # None /\ ~blocking_bypassable[side]
  <2>3. /\ blocking_until' =
             IF changes
             THEN [blocking_until EXCEPT ![side] = a.time + a.action.duration]
             ELSE blocking_until
        /\ blocking_bypassable' =
             IF changes THEN [blocking_bypassable EXCEPT ![side] = a.action.bypass]
             ELSE blocking_bypassable
        /\ freed' = IF frees THEN [freed EXCEPT ![side] = a.time] ELSE freed
    BY <1>7 DEF BlockOutgoing
  <2>4. a.time + a.action.duration # None
    BY <1>3, <1>7 DEF Slot, TriggerAction, None
  <2>5. \A s \in Side : freed'[s] = freed[s] \/ current_time <= freed'[s]
    BY <1>3, <2>3 DEF Typed
  <2>6. ASSUME NEW s \in Side, NEW q \in Queue, Open(s, q)', ~Open(s, q)
        PROVE  q \in Holding /\ current_time <= freed'[s]
    <3>1. q \in Holding /\ blocking_until[s] # None
      BY <2>6 DEF Open, Free, Holding, Queue
    <3>2. s = side /\ changes
      BY <2>3, <2>6 DEF Open, Typed
    <3>3. blocking_until'[s] # None
      BY <2>3, <2>4, <3>2 DEF Typed
    <3>4. q = "bypassable" /\ a.action.bypass /\ ~blocking_bypassable[s]
      BY <2>3, <2>6, <3>1, <3>2, <3>3 DEF Open, Free, Typed, Holding
    <3>5. freed'[s] = a.time
      BY <2>3, <3>1, <3>2, <3>4 DEF Typed
    <3> QED
      BY <1>3, <3>1, <3>5
  <2> QED
    BY <1>1, <1>5, <2>1, <2>2, <2>5, <2>6, StaysOnTime
<1> QED
  BY <1>4, <1>6, <1>7

LEMMA PickNextOnTime ==
  ASSUME Typed, Typed', Comparable, OnTime, PickNext
  PROVE  OnTime'
<1>1. pc = "pick"
  BY DEF PickNext
<1>2. ASSUME UNCHANGED <<current_time, sq, freed, blocks>>,
             pc' # "network",
             \A s \in Side : aggregate_base_delay[s] <= aggregate_base_delay'[s]
      PROVE  OnTime'
  <2>1. Gains({})
    BY <1>2 DEF Gains
  <2>2. \A s \in Side, q \in Queue : Open(s, q)' => Open(s, q)
    BY <1>2 DEF Open, blocks
  <2> QED
    BY <1>1, <1>2, <2>1, <2>2, StaysOnTime
<1>3. CASE PickNothing(Peeks)
  <2>1. pc' = "done" /\ UNCHANGED <<current_time, sq, freed, blocks, net>>
    BY <1>3 DEF PickNothing, history
  <2>2. \A s \in Side : aggregate_base_delay[s] <= aggregate_base_delay'[s]
    BY <2>1 DEF Typed, net
  <2> QED
    BY <1>2, <2>1, <2>2
<1>4. CASE PickAggregateDelay(Peeks)
  <2>1. PICK d \in FirstPending(aggregate_delay_queue) :
          aggregate_base_delay' = [aggregate_base_delay EXCEPT ![d.side] = @ + d.delay]
    BY <1>4 DEF PickAggregateDelay
  <2>2. d.delay \in Nat
    BY DEF Typed, FirstPending, IsBag, PendingAggregateDelay
  <2>3. ASSUME NEW s \in Side
        PROVE  aggregate_base_delay[s] <= aggregate_base_delay'[s]
    <3>1. aggregate_base_delay \in [Side -> Nat]
      BY DEF Typed
    <3>2. /\ s = d.side => aggregate_base_delay'[s] = aggregate_base_delay[s] + d.delay
          /\ s # d.side => aggregate_base_delay'[s] = aggregate_base_delay[s]
      BY <2>1, <3>1
    <3> QED
      BY <2>2, <3>1, <3>2
  <2>4. UNCHANGED <<current_time, sq, freed, blocks, pc>>
    BY <1>4 DEF PickAggregateDelay, history
  <2> QED
    BY <1>1, <1>2, <2>3, <2>4
<1> QED
  BY <1>1, <1>3, <1>4, PickExpiryOnTime, PickQueueOnTime, PickTimerOnTime,
     PickActionOnTime DEF PickNext

LEMMA SimNetworkStackOnTime ==
  ASSUME Typed, Typed', OnTime, SimNetworkStack
  PROVE  OnTime'
<1>1. /\ pc = "network" /\ current_time' = next.time /\ pc' = "trigger"
      /\ UNCHANGED <<aggregate_base_delay, blocks>>
      /\ \/ UNCHANGED freed
         \/ freed' = [freed EXCEPT ![next.side] = next.time]
      /\ ReplacePadding => freed' = [freed EXCEPT ![next.side] = next.time]
  BY DEF SimNetworkStack, NormalSent, QueuePadding, DropPadding, ReplacePadding,
         TunnelSent, TunnelRecv, NotNetwork, Advance, net
<1>2. next.time \in Nat /\ next.side \in Side
  BY DEF Typed, SimEvent
<1>3. PICK t \in Nat : t = next.time
  BY <1>2
<1>4. Current(t) /\ Horizon' = t
  BY <1>1, <1>3 DEF OnTime, Horizon
<1>5. PICK E : /\ Gains(E)
               /\ \A e \in E :
                    \/ e.time >= next.time
                    \/ /\ ReplacePadding
                       /\ e.event = "TunnelSent" /\ e.bypass /\ e.side = next.side
  BY StackGains
<1>6. \A s \in Side : freed'[s] = freed[s] \/ t <= freed'[s]
  <2>1. freed \in [Side -> Nat] /\ t <= t
    BY DEF Typed
  <2>2. freed' = [freed EXCEPT ![next.side] = t] \/ freed' = freed
    BY <1>1, <1>3
  <2> QED
    BY <1>2, <2>1, <2>2
<1>7. \A e \in E : e.time >= t \/ (QueueOf(e) = "bypassable" /\ t <= freed'[e.side])
  BY <1>1, <1>2, <1>3, <1>5 DEF Typed, QueueOf
<1>8. \A s \in Side, q \in Queue : Open(s, q)' => Open(s, q)
  BY <1>1 DEF Open, blocks
<1>9. \A s \in Side : aggregate_base_delay[s] <= aggregate_base_delay'[s]
  BY <1>1 DEF Typed
<1>10. Current(t)'
  BY <1>4, <1>5, <1>6, <1>7, <1>8, <1>9, CurrentKept
<1> QED
  BY <1>1, <1>4, <1>10 DEF OnTime, Current, TakenOnTime

LEMMA TriggerUpdateOnTime ==
  ASSUME Typed, Typed', OnTime, TriggerUpdate
  PROVE  OnTime'
<1>1. /\ pc = "trigger" /\ pc' # "network"
      /\ UNCHANGED <<current_time, blocks, net, freed>>
  BY DEF TriggerUpdate
<1>2. PICK E : Gains(E) /\ \A e \in E : e.time = current_time
  BY TriggerGains
<1>3. \A e \in E : e.time >= current_time
  BY <1>2 DEF Typed
<1>4. \A s \in Side, q \in Queue : Open(s, q)' => Open(s, q)
  BY <1>1 DEF Open, blocks
<1>5. \A s \in Side : aggregate_base_delay[s] <= aggregate_base_delay'[s]
  BY <1>1 DEF Typed, net
<1> QED
  BY <1>1, <1>2, <1>3, <1>4, <1>5, StaysOnTime

(* The simulation starts with the first packet. *)
LEMMA InitOnTime ==
  ASSUME Init, Typed
  PROVE  OnTime
<1> DEFINE times == {e.time : e \in UNION {DOMAIN sq[side].base : side \in Side}}
<1>1. /\ current_time = Least(times) /\ pc = "pick"
      /\ \A s \in Side : aggregate_base_delay[s] = 0
  BY DEF Init, FirstBaseTime
<1>2. ASSUME NEW side \in Side, NEW q \in Queue, NEW e \in DOMAIN sq[side][q]
      PROVE  DueTime(side, q, e) >= current_time
  <2>1. e.event = "NormalSent" /\ QueueOf(e) = q /\ e \in SimEvent /\ e.time \in Nat
    BY <1>2, QueuedAtFirst, EventTyped
  <2>2. q = "base"
    BY <2>1 DEF QueueOf
  <2>3. DueTime(side, q, e) = e.time
    BY <1>1, <1>2, <2>1, ShiftedTyped DEF DueTime
  <2>4. times \subseteq Nat
    <3> SUFFICES ASSUME NEW s \in Side, NEW f \in DOMAIN sq[s].base
                 PROVE  f.time \in Nat
      OBVIOUS
    <3>1. "base" \in Queue
      BY DEF Queue
    <3> QED
      BY <3>1, EventTyped
  <2>5. e.time \in times
    BY <1>2, <2>2
  <2> HIDE DEF times
  <2> QED
    BY <1>1, <2>1, <2>3, <2>4, <2>5, LeastExists
<1>3. Horizon = current_time
  BY <1>1 DEF Horizon
<1> QED
  BY <1>1, <1>2, <1>3 DEF OnTime, Current, TakenOnTime

LEMMA StepOnTime ==
  ASSUME Typed, NoBypass => Flagless, Exact, OnTime, [Next]_vars
  PROVE  OnTime'
<1>1. Typed'
  BY StepTyped
<1>2. Comparable
  BY ExactIsComparable
<1>3. CASE UNCHANGED vars
  BY <1>3 DEF OnTime, Current, TakenOnTime, Horizon, Open, DueTime, vars, blocks, net, history
<1> QED
  BY <1>1, <1>2, <1>3, PickNextOnTime, SimNetworkStackOnTime, TriggerUpdateOnTime
     DEF Next, Run, Finished

(* Delays only ever grow. *)
LEMMA StaysUnshifted ==
  ASSUME Typed, [Next]_vars, Unshifted'
  PROVE  Unshifted
<1>1. CASE UNCHANGED aggregate_base_delay
  BY <1>1 DEF Unshifted
<1>2. CASE PickAggregateDelay(Peeks)
  <2>1. PICK d \in FirstPending(aggregate_delay_queue) :
          aggregate_base_delay' = [aggregate_base_delay EXCEPT ![d.side] = @ + d.delay]
    BY <1>2 DEF PickAggregateDelay
  <2>2. d.delay \in Nat
    BY DEF Typed, FirstPending, IsBag, PendingAggregateDelay
  <2> QED
    BY <2>1, <2>2 DEF Typed, Unshifted
<1>3. \/ UNCHANGED aggregate_base_delay
      \/ PickAggregateDelay(Peeks)
  BY DEF Next, Run, Finished, PickNext, PickNothing, PickExpiry, PickQueue, PickTimer,
         PickAction, SimNetworkStack, NormalSent, QueuePadding, DropPadding,
         ReplacePadding, TunnelSent, TunnelRecv, NotNetwork, TriggerUpdate, vars, net
<1> QED
  BY <1>1, <1>2, <1>3

LEMMA AlwaysOnTime == Spec => [](Exact => OnTime)
<1>1. Init => (Exact => OnTime)
  BY InitOnTime, InitTyped
<1>2. Typed /\ (NoBypass => Flagless) /\ (Exact => OnTime) /\ [Next]_vars
        => (Exact => OnTime)'
  <2> SUFFICES ASSUME Typed, NoBypass => Flagless, Exact => OnTime, [Next]_vars, Exact'
               PROVE  OnTime'
    OBVIOUS
  <2>1. Exact
    BY StaysUnshifted DEF Exact, NoBypass
  <2> QED
    BY <2>1, StepOnTime
<1> QED
  BY <1>1, <1>2, AlwaysTyped, AlwaysFlagless, PTL DEF Spec

(***************************************************************************)
(* What pick_next takes is not late, be it held or not, as long as it      *)
(* compares queued events by the time they are due: no framework pads with *)
(* the bypass flag, or no base event has been shifted yet.  Both at once   *)
(* make peek_non_blocking hold a bypassable packet back for a later one.   *)
(***************************************************************************)
THEOREM SimulatorTakesOnTime == Spec => [](Exact => TakenOnTime)
<1>1. (Exact => OnTime) => (Exact => TakenOnTime)
  BY DEF OnTime
<1> QED
  BY <1>1, AlwaysOnTime, PTL

-----------------------------------------------------------------------------
(***************************************************************************)
(* No answer comes too late.  The report of a timer that has fired, or of  *)
(* padding that was sent, is the only one, and the recursion of pick_next  *)
(* takes it next: everything else lies behind it.                          *)
(***************************************************************************)
PositiveBlocks ==
  \A side \in Side, m \in MachineId, e \in DOMAIN event_to_usize :
    \A a \in Response(side, m, e) : a.kind = "BlockOutgoing" => a.duration > 0

(* Is the report of the beginning of a block made at once? *)
Prompted(e) ==
  e.event = "BlockingBegin" /\ Prompt(e.side) /\ NoBypass /\ PositiveBlocks

Fired(e) == e.event \in {"TimerEnd", "PaddingSent"} \/ Prompted(e)

FirstInLine(side, e) ==
  /\ sq[side]["internal"][e] = 1
  /\ current_time <= e.time /\ e.time < current_time + DURATION_MAX
  /\ \A s \in Side, q \in Queue : Open(s, q) =>
       \A f \in DOMAIN sq[s][q] \ {e} : DueTime(s, q, f) > e.time
  /\ ActionsFrom(scheduled_action, e.time) /\ TimersFrom(scheduled_internal_timer, e.time)
  /\ BlocksFrom(blocking_until, e.time + 1) /\ PendingFrom(aggregate_delay_queue, e.time + 1)

Flight ==
  \A side \in Side : \A e \in DOMAIN sq[side]["internal"] :
    Fired(e) => pc = "pick" /\ FirstInLine(side, e)

Landed == \A side \in Side : \A e \in DOMAIN sq[side]["internal"] : ~Fired(e)

(* The blocks that are scheduled last. *)
Lasting ==
  \A side \in Side, m \in MachineId :
    LET a == scheduled_action[side][m].action IN a.kind = "BlockOutgoing" => a.duration > 0

(* What is scheduled was answered. *)
LEMMA ScheduledAnswers ==
  ASSUME Typed, [Next]_vars, NEW side \in Side, NEW m \in MachineId
  PROVE  \/ scheduled_action'[side][m] = scheduled_action[side][m]
         \/ scheduled_action'[side][m].action = NoAction
         \/ \E e \in DOMAIN event_to_usize :
              scheduled_action'[side][m].action \in Response(side, m, e)
<1>1. CASE TriggerUpdate
  <2>1. PICK f \in Answers, delay \in TriggerDelay[next.side] :
          scheduled_action' = [scheduled_action EXCEPT ![next.side] =
            [k \in MachineId |-> ActionTimer(k, f[k], delay)]]
    BY <1>1 DEF TriggerUpdate
  <2>2. next.side \in Side /\ next.event \in DOMAIN event_to_usize
    BY DEF Typed, SimEvent
  <2>3. f[m] = NoAction \/ f[m] \in Response(next.side, m, next.event)
    BY DEF Answers
  <2>4. \/ ActionTimer(m, f[m], delay).action = f[m]
        \/ ActionTimer(m, f[m], delay) = NoScheduled
        \/ ActionTimer(m, f[m], delay) = scheduled_action[next.side][m]
    <3>1. CASE f[m].kind \in {"SendPadding", "BlockOutgoing"}
      BY <3>1 DEF ActionTimer
    <3>2. CASE f[m].kind \notin {"SendPadding", "BlockOutgoing"}
      BY <3>2 DEF ActionTimer
    <3> QED
      BY <3>1, <3>2
  <2>5. scheduled_action'[side][m] = IF side = next.side THEN ActionTimer(m, f[m], delay)
                                     ELSE scheduled_action[side][m]
    BY <2>1 DEF Typed
  <2> QED
    BY <2>2, <2>3, <2>4, <2>5 DEF NoScheduled
<1>2. CASE PickAction(Peeks) /\ pc = "pick"
  <2>1. PICK s \in Side, k \in MachineId :
          scheduled_action' = [scheduled_action EXCEPT ![s][k] = NoScheduled]
    BY <1>2, ActionPicked
  <2> QED
    BY <2>1 DEF Typed, NoScheduled
<1>3. CASE UNCHANGED scheduled_action
  BY <1>3
<1>4. \/ TriggerUpdate
      \/ PickAction(Peeks) /\ pc = "pick"
      \/ UNCHANGED scheduled_action
  BY DEF Next, Run, Finished, PickNext, PickNothing, PickAggregateDelay, PickExpiry,
         PickQueue, PickTimer, SimNetworkStack, NormalSent, QueuePadding, DropPadding,
         ReplacePadding, TunnelSent, TunnelRecv, NotNetwork, Advance, timers, vars
<1> QED
  BY <1>1, <1>2, <1>3, <1>4

LEMMA AlwaysLasting == Spec => [](PositiveBlocks => Lasting)
<1>1. Init => (PositiveBlocks => Lasting)
  BY DEF Init, Lasting, NoScheduled, NoAction
<1>2. Typed /\ (PositiveBlocks => Lasting) /\ [Next]_vars => (PositiveBlocks => Lasting)'
  <2> SUFFICES ASSUME Typed, PositiveBlocks, Lasting, [Next]_vars PROVE Lasting'
    BY DEF PositiveBlocks
  <2>1. NoAction.kind # "BlockOutgoing"
    BY DEF NoAction
  <2> QED
    BY <2>1, ScheduledAnswers DEF Lasting, PositiveBlocks
<1> QED
  BY <1>1, <1>2, AlwaysTyped, PTL DEF Spec

LEMMA FlightIsNoneInFlight ==
  ASSUME Flight
  PROVE  NoneInFlight
BY DEF Flight, Fired, NoneInFlight

LEMMA FlyingAhead ==
  ASSUME Typed, NEW side \in Side, NEW e \in DOMAIN sq[side]["internal"], FirstInLine(side, e)
  PROVE  LET n == e.time - current_time IN
         /\ n \in Nat /\ n < DURATION_MAX /\ e.time = current_time + n
         /\ n <= Peeks.action /\ n <= Peeks.timer
         /\ n < Peeks.expiry.duration /\ n < Peeks.aggregate
<1> DEFINE n == e.time - current_time
<1>1. e.time \in Nat /\ current_time \in Nat /\ "internal" \in Queue
  BY EventTyped, PeeksNat DEF Queue
<1>2. n \in Nat /\ n < DURATION_MAX /\ e.time = current_time + n
  BY <1>1, SimQueueAssumption DEF FirstInLine
<1>3. n <= Peeks.action
  <2>1. Peeks.action = ScheduledIn
    BY DEF Peeks
  <2>2. CASE ScheduledIn < DURATION_MAX
    <3>1. PICK s \in Side, m \in MachineId :
            /\ m \in Scheduled(s)
            /\ scheduled_action[s][m].time = current_time + ScheduledIn
      BY <2>2, ScheduledInSound DEF Scheduled
    <3>2. scheduled_action[s][m].time >= e.time
      BY <3>1 DEF FirstInLine, ActionsFrom, Scheduled
    <3> QED
      BY <1>1, <2>1, <3>1, <3>2, PeeksNat
  <2>3. CASE ~(ScheduledIn < DURATION_MAX)
    BY <1>2, <2>1, <2>3, PeeksNat, SimQueueAssumption
  <2> QED
    BY <2>2, <2>3
<1>4. n <= Peeks.timer
  <2>1. Peeks.timer = TimerIn
    BY DEF Peeks
  <2>2. CASE TimerIn < DURATION_MAX
    <3>1. PICK s \in Side, m \in MachineId :
            /\ m \in TimerSet(s)
            /\ scheduled_internal_timer[s][m] = current_time + TimerIn
      BY <2>2, TimerInSound DEF TimerSet
    <3>2. scheduled_internal_timer[s][m] >= e.time
      BY <3>1 DEF FirstInLine, TimersFrom, TimerSet
    <3> QED
      BY <1>1, <2>1, <3>1, <3>2, PeeksNat
  <2>3. CASE ~(TimerIn < DURATION_MAX)
    BY <1>2, <2>1, <2>3, PeeksNat, SimQueueAssumption
  <2> QED
    BY <2>2, <2>3
<1>5. n < Peeks.expiry.duration
  <2>1. Peeks.expiry = PeekBlockedExp(blocking_until, current_time)
    BY DEF Peeks, Expiry
  <2> DEFINE p == Peeks.expiry
  <2>2. CASE p.duration < DURATION_MAX
    <3>1. /\ p.side \in Side /\ blocking_until[p.side] \in Nat
          /\ blocking_until[p.side] >= current_time =>
               current_time + p.duration = blocking_until[p.side]
      BY <2>1, <2>2, PeekBlockedExpSound DEF Typed
    <3>2. blocking_until[p.side] >= e.time + 1
      BY <3>1 DEF FirstInLine, BlocksFrom, None
    <3>3. p.duration \in Nat
      BY PeeksNat
    <3> HIDE DEF p
    <3>4. n < p.duration
      BY <1>1, <1>2, <3>1, <3>2, <3>3
    <3> QED
      BY <3>4 DEF p
  <2>3. CASE ~(p.duration < DURATION_MAX)
    BY <1>2, <2>3, PeeksNat, SimQueueAssumption
  <2> QED
    BY <2>2, <2>3
<1>6. n < Peeks.aggregate
  <2>1. Peeks.aggregate = PeekAggregateDelay(aggregate_delay_queue, current_time, DURATION_MAX)
    BY DEF Peeks, AggregateIn
  <2>2. CASE Peeks.aggregate < DURATION_MAX
    <3>1. PICK d \in DOMAIN aggregate_delay_queue : d.time <= current_time + Peeks.aggregate
      BY <2>1, <2>2, PeekAggregateDelaySound DEF Typed
    <3>2. d.time >= e.time + 1
      BY DEF FirstInLine, PendingFrom
    <3>3. d.time \in Nat
      BY DEF Typed, IsBag, PendingAggregateDelay
    <3> QED
      BY <1>1, <3>1, <3>2, <3>3, PeeksNat
  <2>3. CASE ~(Peeks.aggregate < DURATION_MAX)
    BY <1>2, <2>3, PeeksNat, SimQueueAssumption
  <2> QED
    BY <2>2, <2>3
<1> QED
  BY <1>2, <1>3, <1>4, <1>5, <1>6

(* The report is the first event of its queue, and pick_next does nothing
   but take a queued event. *)
LEMMA FlyingFirst ==
  ASSUME Typed, Comparable, NEW side \in Side, NEW e \in DOMAIN sq[side]["internal"],
         FirstInLine(side, e), PickNext
  PROVE  PickQueue(Peeks) /\ Peeks.queue.duration <= e.time - current_time
<1> DEFINE n == e.time - current_time
           heap == sq[side]["internal"]
<1>1. /\ n \in Nat /\ n < DURATION_MAX /\ e.time = current_time + n
      /\ n <= Peeks.action /\ n <= Peeks.timer
      /\ n < Peeks.expiry.duration /\ n < Peeks.aggregate
  BY FlyingAhead
<1>2. /\ SideOK(sq[side], side) /\ "internal" \in Filled(sq[side]) /\ "internal" \in Queue
      /\ aggregate_base_delay[side] \in Nat /\ e \in SimEvent /\ e.time \in Nat
      /\ current_time \in Nat /\ DOMAIN heap \subseteq SimEvent
  BY EventTyped, PeeksNat DEF Queue
<1>3. Open(side, "internal")
  BY DEF Open, Free
<1>4. Due(sq[side], "internal", aggregate_base_delay[side]) = e.time
  <2>1. Top(heap).time <= e.time
    BY <1>2, TopLeast
  <2>2. Top(heap) \in SimEvent /\ Top(heap) \in DOMAIN heap
    BY <1>2, TopTyped
  <2>3. DueTime(side, "internal", Top(heap)) = Top(heap).time
    BY <1>2, <2>2, ShiftedTyped DEF DueTime
  <2>4. Top(heap) # e => Top(heap).time > e.time
    BY <1>2, <1>3, <2>2, <2>3 DEF FirstInLine
  <2>5. Top(heap).time \in Nat
    BY <2>2, RankTyped
  <2>6. Top(heap) = e
    BY <1>2, <2>1, <2>4, <2>5
  <2>7. Due(sq[side], "internal", aggregate_base_delay[side]) = Top(heap).time
    BY <1>2, DueTyped
  <2> QED
    BY <2>6, <2>7
<1>5. Since(e.time, current_time) = n
  BY <1>1, <1>2, SimQueueAssumption DEF Since
<1>6. Peeks.queue.duration <= n
  <2>1. \/ Peeks.queue.duration <= Since(e.time, current_time)
        \/ \E x \in {Peeks.action, Peeks.timer, Peeks.expiry.duration, Peeks.aggregate} :
             Since(e.time, current_time) > x
    BY <1>2, <1>3, <1>4, QueuedLeast
  <2> HIDE DEF n
  <2> QED
    BY <1>1, <1>5, <2>1, PeeksNat
<1> HIDE DEF n
<1>7. /\ Peeks.queue.duration # DURATION_MAX
      /\ Peeks.queue.duration < Peeks.aggregate
      /\ Peeks.queue.duration < Peeks.expiry.duration
      /\ Peeks.queue.duration <= Peeks.action /\ Peeks.queue.duration <= Peeks.timer
  BY <1>1, <1>6, PeeksNat, SimQueueAssumption
<1>8. ~NothingLeft(Peeks) /\ ~AggregateFirst(Peeks) /\ ~ExpiryFirst(Peeks)
  BY <1>7, PeeksNat DEF NothingLeft, AggregateFirst, ExpiryFirst
<1>9. QueueFirst(Peeks)
  BY <1>7, <1>8 DEF QueueFirst
<1>10. PickQueue(Peeks)
  BY <1>8, <1>9 DEF PickNext, PickNothing, PickAggregateDelay, PickExpiry, PickTimer,
                    PickAction, TimerFirst, ActionFirst
<1> QED
  BY <1>6, <1>10 DEF n

(* It is taken, and no other is left. *)
LEMMA FlyingLands ==
  ASSUME Typed, Comparable, Flight, NEW side \in Side,
         NEW e \in DOMAIN sq[side]["internal"], Fired(e), PickNext
  PROVE  Landed' /\ next'.event = e.event /\ next'.side = side
<1> DEFINE p == Peeks.queue
<1>1. FirstInLine(side, e)
  BY DEF Flight
<1>2. PickQueue(Peeks) /\ p.duration <= e.time - current_time
  BY <1>1, FlyingFirst
<1>3. PICK top \in Tops(sq[p.side][p.queue]) :
        /\ next'.event = top.event
        /\ due' = Shifted(top, p.queue, aggregate_base_delay[p.side]).time
        /\ sq' = [sq EXCEPT ![p.side] = Pop(@, p.queue, top)]
  BY <1>2, QueuePicked
<1>4. /\ p.side \in Side /\ p.queue \in Queue /\ due' \in Nat
      /\ next'.side = p.side /\ next'.time = current_time + p.duration /\ due' <= next'.time
  BY <1>2, QueuePicked DEF Filled
<1>5. Open(p.side, p.queue)
  BY <1>2, PickedOpen
<1>6. /\ e.time \in Nat /\ e.side = side /\ QueueOf(e) = "internal" /\ current_time \in Nat
      /\ p.duration \in Nat /\ "internal" \in Queue
  BY EventTyped, PeeksNat DEF Queue
<1> HIDE DEF p
<1>7. top \in DOMAIN sq[p.side][p.queue]
  BY <1>3 DEF Tops
<1>8. top = e
  <2>1. ~(DueTime(p.side, p.queue, top) > e.time)
    BY <1>2, <1>3, <1>4, <1>6 DEF DueTime
  <2> QED
    BY <1>1, <1>4, <1>5, <1>7, <2>1 DEF FirstInLine
<1>9. p.side = side /\ p.queue = "internal"
  BY <1>4, <1>6, <1>7, <1>8, EventTyped
<1>10. ASSUME NEW s \in Side, NEW f \in DOMAIN sq'[s]["internal"], Fired(f)
       PROVE  FALSE
  <2>1. Gains({})
    BY <1>3, PopGains
  <2>2. f \in DOMAIN sq[s]["internal"]
    BY <1>6, <2>1 DEF Gains
  <2>3. FirstInLine(s, f)
    BY <1>10, <2>2 DEF Flight
  <2>4. f.time \in Nat /\ f.side = s /\ f \in SimEvent /\ e \in SimEvent
    BY <1>6, <2>2, EventTyped
  <2>5. Open(s, "internal") /\ Open(side, "internal")
    BY DEF Open, Free
  <2>6. f = e
    <3>1. DueTime(s, "internal", f) = f.time /\ DueTime(side, "internal", e) = e.time
      BY <2>4, ShiftedTyped DEF DueTime, Typed
    <3>2. f # e => f.time > e.time /\ e.time > f.time
      BY <1>1, <1>6, <2>2, <2>3, <2>5, <3>1 DEF FirstInLine
    <3> QED
      BY <1>6, <2>4, <3>2
  <2>7. s = side
    BY <1>6, <2>4, <2>6
  <2>8. sq'[side]["internal"] = BagRemove(sq[side]["internal"], e)
    BY <1>3, <1>6, <1>8, <1>9 DEF Typed, SidesOK, SideOK, Pop
  <2>9. e \notin DOMAIN BagRemove(sq[side]["internal"], e)
    BY <1>1 DEF FirstInLine, BagRemove
  <2> QED
    BY <2>6, <2>7, <2>8, <2>9, <1>10
<1> QED
  BY <1>3, <1>4, <1>8, <1>9, <1>10 DEF Landed

(* A block that ends after what is picked ends behind it. *)
LEMMA BlocksBehind ==
  ASSUME Typed, From(current_time), NEW n \in Nat, n < Peeks.expiry.duration
  PROVE  BlocksFrom(blocking_until, current_time + n + 1)
<1> SUFFICES ASSUME NEW s \in Side, blocking_until[s] # None
             PROVE  blocking_until[s] >= current_time + n + 1
  BY DEF BlocksFrom
<1>1. blocking_until[s] \in Nat /\ blocking_until[s] >= current_time
  BY DEF Typed, From, BlocksFrom
<1>2. blocking_until[s] >= current_time + Peeks.expiry.duration
  BY <1>1, PeekBlockedExpSound DEF Typed, Peeks, Expiry
<1> QED
  BY <1>1, <1>2, PeeksNat

LEMMA GainsNoneFired ==
  ASSUME Landed, NEW E, Gains(E), \A e \in E : ~Fired(e)
  PROVE  Flight'
<1>1. "internal" \in Queue
  BY DEF Queue
<1>2. \A s \in Side : \A e \in DOMAIN sq'[s]["internal"] : ~Fired(e)
  BY <1>1 DEF Gains, Landed
<1> QED
  BY <1>2 DEF Flight

(* What fires is reported with everything else behind it. *)
LEMMA Launched ==
  ASSUME Typed, Typed', Comparable, Ahead, pc = "pick", pc' = "pick", Landed,
         NEW n \in Nat, n < DURATION_MAX, n <= Peeks.action, n <= Peeks.timer,
         n < Peeks.expiry.duration, n < Peeks.aggregate, n < Peeks.queue.duration,
         NEW side \in Side, NEW e \in SimEvent,
         e.side = side, Fired(e), e.time = current_time + n, sq' = AddTo(side, e),
         UNCHANGED <<current_time, net>>,
         BlocksFrom(blocking_until', current_time + n + 1),
         \A s \in Side, q \in Queue : Open(s, q)' => Open(s, q) \/ Empty(sq[s][q]),
         \A s \in Side, m \in MachineId :
           /\ scheduled_action'[s][m] \in {scheduled_action[s][m], NoScheduled}
           /\ scheduled_internal_timer'[s][m] \in {scheduled_internal_timer[s][m], None}
  PROVE  Flight'
<1>1. /\ current_time \in Nat /\ e.time \in Nat /\ "internal" \in Queue
      /\ QueueOf(e) = "internal"
  BY PeeksNat, RankTyped DEF Queue, QueueOf, Fired, Prompted
<1>2. From(current_time)
  BY DEF Ahead, Horizon
<1>3. From(current_time + n)
  BY <1>2, PeeksFrom, PeeksNat
<1>4. sq' = [sq EXCEPT ![side] = Push(@, e)]
  BY DEF AddTo
<1>5. Gains({e})
  BY <1>4, PushGains
<1>6. e \notin DOMAIN sq[side]["internal"]
  BY DEF Landed
<1>7. sq'[side]["internal"][e] = 1
  <2>1. sq'[side]["internal"] = BagAdd(sq[side]["internal"], e)
    BY <1>1, <1>4 DEF Typed, SidesOK, SideOK, Push
  <2> QED
    BY <1>6, <2>1 DEF BagAdd
<1>8. ASSUME NEW s \in Side, NEW q \in Queue, Open(s, q)', NEW f \in DOMAIN sq'[s][q] \ {e}
      PROVE  DueTime(s, q, f) > e.time
  <2>1. f \in DOMAIN sq[s][q] /\ Open(s, q)
    BY <1>5, <1>8 DEF Gains, Empty
  <2>2. n <= Peeks.expiry.duration /\ n <= Peeks.aggregate
    BY PeeksNat
  <2> QED
    BY <1>8, <2>1, <2>2, NothingDueBefore
<1>9. ActionsFrom(scheduled_action', e.time)
  BY <1>3 DEF From, ActionsFrom
<1>10. TimersFrom(scheduled_internal_timer', e.time)
  BY <1>3 DEF From, TimersFrom
<1>11. BlocksFrom(blocking_until', e.time + 1)
  OBVIOUS
<1>12. PendingFrom(aggregate_delay_queue, e.time + 1)
  <2> SUFFICES ASSUME NEW d \in DOMAIN aggregate_delay_queue
               PROVE  d.time >= e.time + 1
    BY DEF PendingFrom
  <2>1. d.time \in Nat /\ d.time >= current_time
    BY <1>2 DEF Typed, IsBag, PendingAggregateDelay, From, PendingFrom
  <2>2. d.time >= current_time + Peeks.aggregate
    BY <2>1, PeekAggregateDelaySound DEF Typed, Peeks, AggregateIn
  <2> QED
    BY <1>1, <2>1, <2>2, PeeksNat
<1>13. /\ current_time <= e.time /\ e.time < current_time + DURATION_MAX
  BY <1>1, SimQueueAssumption
<1>14. FirstInLine(side, e)'
  BY <1>7, <1>8, <1>9, <1>10, <1>11, <1>12, <1>13
     DEF FirstInLine, DueTime, net
<1>15. ASSUME NEW s \in Side, NEW f \in DOMAIN sq'[s]["internal"], Fired(f)
       PROVE  f = e /\ s = side
  <2>1. f = e
    BY <1>1, <1>5, <1>15 DEF Gains, Landed
  <2>2. f.side = s
    BY <1>1 DEF Typed, SidesOK, SideOK
  <2> QED
    BY <2>1, <2>2
<1> QED
  BY <1>14, <1>15 DEF Flight

LEMMA PickTimerFlies ==
  ASSUME Typed, Typed', Comparable, Ahead, pc = "pick", Landed, PickTimer(Peeks)
  PROVE  Flight'
<1> DEFINE n == Peeks.timer
<1>1. /\ n \in Nat /\ n < DURATION_MAX /\ n <= Peeks.action /\ n <= Peeks.timer
      /\ n < Peeks.expiry.duration /\ n < Peeks.aggregate /\ n < Peeks.queue.duration
  <2>1. PeeksTyped(Peeks) /\ TimerFirst(Peeks)
    BY PeeksSound DEF PickTimer
  <2>2. /\ n < DURATION_MAX /\ n <= Peeks.action
        /\ \A d \in {Peeks.queue.duration, Peeks.expiry.duration, Peeks.aggregate} : n < d
    BY <2>1, TimerAhead
  <2>3. n \in Nat
    BY PeeksNat
  <2> QED
    BY <2>2, <2>3
<1>2. PICK side \in Side, m \in MachineId :
        /\ ReportsAt(side, "TimerEnd", current_time + n)
        /\ scheduled_internal_timer' = [scheduled_internal_timer EXCEPT ![side][m] = None]
  BY TimerQueues
<1>3. PICK e \in SimEvent : /\ e.side = side /\ e.event = "TimerEnd"
                            /\ e.time = current_time + n /\ sq' = AddTo(side, e)
  BY <1>2 DEF ReportsAt
<1>4. UNCHANGED <<pc, current_time, scheduled_action, blocks, net>>
  BY DEF PickTimer
<1>5. \A s \in Side, k \in MachineId :
        /\ scheduled_action'[s][k] \in {scheduled_action[s][k], NoScheduled}
        /\ scheduled_internal_timer'[s][k] \in {scheduled_internal_timer[s][k], None}
  BY <1>2, <1>4 DEF Typed
<1>6. Fired(e)
  BY <1>3 DEF Fired
<1> HIDE DEF n
<1>7. BlocksFrom(blocking_until', current_time + n + 1)
  BY <1>1, <1>4, BlocksBehind DEF Ahead, Horizon, blocks, n
<1>8. \A s \in Side, q \in Queue : Open(s, q)' => Open(s, q)
  BY <1>4 DEF Open, blocks
<1> QED
  BY <1>1, <1>3, <1>4, <1>5, <1>6, <1>7, <1>8, Launched DEF n

LEMMA PickActionFlies ==
  ASSUME Typed, Typed', Comparable, NoBypass => Flagless, PositiveBlocks => Lasting,
         Ahead, pc = "pick", Landed, PickAction(Peeks)
  PROVE  Flight'
<1> DEFINE n == Peeks.action
<1>1. /\ n \in Nat /\ n < DURATION_MAX /\ n <= Peeks.action /\ n <= Peeks.timer
      /\ n < Peeks.expiry.duration /\ n < Peeks.aggregate /\ n < Peeks.queue.duration
  <2>1. /\ n < DURATION_MAX
        /\ \A d \in {Peeks.timer, Peeks.queue.duration, Peeks.expiry.duration, Peeks.aggregate} :
             n < d
    BY PeeksSound, ActionAhead DEF PickAction
  <2> QED
    BY <2>1, PeeksNat
<1>2. PICK side \in Side, m \in MachineId :
        LET a == scheduled_action[side][m] IN
        /\ a \in Slot /\ a # NoScheduled
        /\ a.time = current_time + n
        /\ scheduled_action' = [scheduled_action EXCEPT ![side][m] = NoScheduled]
        /\ \/ a.action.kind = "SendPadding" /\ SendPadding(side, m, a)
           \/ a.action.kind = "BlockOutgoing" /\ BlockOutgoing(side, m, a)
  BY ActionPicked
<1>3. UNCHANGED <<pc, current_time, scheduled_internal_timer, net>>
  BY DEF PickAction
<1> DEFINE a == scheduled_action[side][m]
<1>4. a \in Slot /\ a # NoScheduled /\ a.time = current_time + n
  BY <1>2
<1>5. \/ SendPadding(side, m, a)
      \/ a.action.kind = "BlockOutgoing" /\ BlockOutgoing(side, m, a)
  BY <1>2
<1>6. \A s \in Side, k \in MachineId :
        /\ scheduled_action'[s][k] \in {scheduled_action[s][k], NoScheduled}
        /\ scheduled_internal_timer'[s][k] \in {scheduled_internal_timer[s][k], None}
  BY <1>2, <1>3 DEF Typed
<1>7. PositiveBlocks /\ a.action.kind = "BlockOutgoing" => a.action.duration > 0
  BY DEF Lasting
<1>8. BlocksFrom(blocking_until, current_time + n + 1)
  BY <1>1, BlocksBehind DEF Ahead, Horizon
<1> HIDE DEF a, n
<1>9. CASE SendPadding(side, m, a)
  <2>1. PICK e \in SimEvent : /\ e.side = side /\ e.event = "PaddingSent"
                              /\ e.time = a.time /\ sq' = AddTo(side, e)
    BY <1>4, <1>9, SendPaddingQueues DEF ReportsAt
  <2>2. Fired(e) /\ e.time = current_time + n /\ UNCHANGED blocks
    BY <1>4, <1>9, <2>1 DEF Fired, SendPadding
  <2>3. BlocksFrom(blocking_until', current_time + n + 1)
    BY <1>8, <2>2 DEF blocks
  <2>4. \A s \in Side, q \in Queue : Open(s, q)' => Open(s, q)
    BY <2>2 DEF Open, blocks
  <2> QED
    BY <1>1, <1>3, <1>6, <2>1, <2>2, <2>3, <2>4, Launched DEF n
<1>10. CASE a.action.kind = "BlockOutgoing" /\ BlockOutgoing(side, m, a)
  <2>1. PICK time \in Nat : /\ Prompt(side) => time = a.time
                            /\ ReportsAt(side, "BlockingBegin", time)
    BY <1>4, <1>10, BlockOutgoingQueues
  <2>2. PICK e \in SimEvent : /\ e.side = side /\ e.event = "BlockingBegin"
                              /\ e.time = time /\ sq' = AddTo(side, e)
    BY <2>1 DEF ReportsAt
  <2>3. CASE Fired(e)
    <3>1. Prompt(side) /\ NoBypass /\ PositiveBlocks
      BY <2>2, <2>3 DEF Fired, Prompted
    <3>2. e.time = current_time + n
      BY <1>4, <2>1, <2>2, <3>1
    <3>3. /\ a.action.duration > 0 /\ a.action.duration \in Nat
          /\ n \in Nat /\ current_time \in Nat
      BY <1>1, <1>4, <1>7, <1>10, <3>1, PeeksNat DEF Slot, TriggerAction
    <3>4. a.time + a.action.duration >= current_time + n + 1
      BY <1>4, <3>3
    <3>5. BlocksFrom(blocking_until', current_time + n + 1)
      <4>1. blocking_until' \in {blocking_until,
              [blocking_until EXCEPT ![side] = a.time + a.action.duration]}
        BY <1>10 DEF BlockOutgoing
      <4> QED
        BY <1>8, <3>4, <4>1 DEF BlocksFrom, Typed
    <3>6. \A s \in Side : Empty(sq[s]["bypassable"])
      BY <3>1, FlaglessIsComparable
    <3>7. ASSUME NEW s \in Side, NEW q \in Queue, Open(s, q)', ~Open(s, q)
          PROVE  Empty(sq[s][q])
      <4>1. q \in {"blocking", "bypassable"} /\ blocking_until[s] # None
        BY <3>7 DEF Open, Free, Queue
      <4>2. blocking_until'[s] # None
        <5>1. blocking_until' \in {blocking_until,
                [blocking_until EXCEPT ![side] = a.time + a.action.duration]}
          BY <1>10 DEF BlockOutgoing
        <5>2. a.time + a.action.duration # None
          BY <1>4, <3>3, <3>4 DEF None
        <5> QED
          BY <4>1, <5>1, <5>2 DEF Typed
      <4>3. q = "bypassable"
        BY <3>7, <4>1, <4>2 DEF Open, Free
      <4> QED
        BY <3>6, <4>3
    <3> QED
      BY <1>1, <1>3, <1>6, <2>2, <2>3, <3>2, <3>5, <3>7, Launched DEF n
  <2>4. CASE ~Fired(e)
    <3>1. sq' = [sq EXCEPT ![side] = Push(@, e)]
      BY <2>2 DEF AddTo
    <3>2. Gains({e})
      BY <3>1, PushGains
    <3> QED
      BY <2>4, <3>2, GainsNoneFired
  <2> QED
    BY <2>3, <2>4
<1> QED
  BY <1>5, <1>9, <1>10

LEMMA PickNextFlight ==
  ASSUME Typed, Typed', Comparable, NoBypass => Flagless, PositiveBlocks => Lasting,
         Ahead, Flight, PickNext
  PROVE  Flight'
<1>1. pc = "pick"
  BY DEF PickNext
<1>2. CASE ~Landed
  <2>1. PICK side \in Side : \E e \in DOMAIN sq[side]["internal"] : Fired(e)
    BY <1>2 DEF Landed
  <2>2. PICK e \in DOMAIN sq[side]["internal"] : Fired(e)
    BY <2>1
  <2>3. \A s \in Side : \A f \in DOMAIN sq'[s]["internal"] : ~Fired(f)
    BY <2>2, FlyingLands DEF Landed
  <2> QED
    BY <2>3 DEF Flight
<1>3. CASE Landed /\ (PickNothing(Peeks) \/ PickAggregateDelay(Peeks))
  <2>1. Gains({})
    BY <1>3 DEF PickNothing, PickAggregateDelay, Gains
  <2> QED
    BY <1>3, <2>1, GainsNoneFired
<1>4. CASE Landed /\ PickExpiry(Peeks)
  <2>1. PICK e : e.event = "BlockingEnd" /\ (Gains({e}) \/ UNCHANGED sq)
    BY <1>4, ExpiryGains
  <2>2. Gains({e})
    BY <2>1 DEF Gains
  <2> QED
    BY <1>4, <2>1, <2>2, GainsNoneFired DEF Fired, Prompted
<1>5. CASE Landed /\ PickQueue(Peeks)
  <2> DEFINE p == Peeks.queue
  <2>1. PICK top : sq' = [sq EXCEPT ![p.side] = Pop(@, p.queue, top)]
    BY <1>5, QueuePicked
  <2>2. Gains({})
    BY <2>1, PopGains
  <2> QED
    BY <1>5, <2>2, GainsNoneFired
<1> QED
  BY <1>1, <1>2, <1>3, <1>4, <1>5, PickTimerFlies, PickActionFlies DEF PickNext

LEMMA StepFlight ==
  ASSUME Typed, NoBypass => Flagless, PositiveBlocks => Lasting, Exact, Ahead, Flight,
         [Next]_vars
  PROVE  Flight'
<1>1. Typed' /\ Comparable
  BY StepTyped, ExactIsComparable
<1>2. pc # "pick" => Landed
  BY DEF Flight, Landed
<1>3. CASE SimNetworkStack
  <2>1. Landed
    BY <1>2, <1>3 DEF SimNetworkStack, NormalSent, QueuePadding, DropPadding,
                      ReplacePadding, TunnelSent, TunnelRecv, NotNetwork, Advance
  <2>2. PICK E : Gains(E) /\ \A e \in E : e.event \in PacketEvent
    BY <1>3, StackGains
  <2>3. \A e \in E : ~Fired(e)
    BY <2>2 DEF Fired, Prompted, PacketEvent
  <2> QED
    BY <2>1, <2>2, <2>3, GainsNoneFired
<1>4. CASE TriggerUpdate
  <2>1. Landed
    BY <1>2, <1>4 DEF TriggerUpdate
  <2>2. PICK E : Gains(E) /\ \A e \in E : e.event = "TimerBegin"
    BY <1>4, TriggerGains
  <2>3. \A e \in E : ~Fired(e)
    BY <2>2 DEF Fired, Prompted
  <2> QED
    BY <2>1, <2>2, <2>3, GainsNoneFired
<1>5. CASE UNCHANGED vars
  BY <1>5 DEF Flight, FirstInLine, Open, DueTime, vars, timers, blocks, net
<1> QED
  BY <1>1, <1>3, <1>4, <1>5, PickNextFlight DEF Next, Run, Finished

LEMMA AlwaysFlight == Spec => [](Exact => Flight)
<1>1. Init => (Exact => Flight)
  <2> SUFFICES ASSUME Init PROVE Flight
    OBVIOUS
  <2>1. "internal" \in Queue
    BY DEF Queue
  <2> QED
    BY <2>1, QueuedAtFirst DEF Flight, Fired, Prompted
<1>2. /\ Typed /\ Ahead /\ (NoBypass => Flagless) /\ (PositiveBlocks => Lasting)
      /\ (Exact => Flight) /\ [Next]_vars
      => (Exact => Flight)'
  <2> SUFFICES ASSUME Typed, Ahead, NoBypass => Flagless, PositiveBlocks => Lasting,
                      Exact => Flight, [Next]_vars, Exact'
               PROVE  Flight'
    OBVIOUS
  <2>1. Exact
    BY StaysUnshifted DEF Exact, NoBypass
  <2> QED
    BY <2>1, StepFlight
<1> QED
  BY <1>1, <1>2, AlwaysTyped, AlwaysAhead, AlwaysFlagless, AlwaysLasting, PTL DEF Spec

(***************************************************************************)
(* While a framework answers, no timer that has fired and no padding that  *)
(* was sent waits to be reported, at either side: under the condition of   *)
(* the theorem before, for it is pick_next's order that the next level of  *)
(* the recursion takes what the last one has reported.                     *)
(***************************************************************************)
THEOREM SimulatorReportsFirst == Spec => [](Exact => NoneInFlight)
<1>1. (Exact => Flight) => (Exact => NoneInFlight)
  BY FlightIsNoneInFlight
<1> QED
  BY <1>1, AlwaysFlight, PTL
-----------------------------------------------------------------------------
(***************************************************************************)
(* What a framework was told agrees with the block of its side.            *)
(***************************************************************************)
Begun(side) ==
  \E e \in DOMAIN sq[side]["internal"] : e.event = "BlockingBegin"

(* What the framework will believe once it was told of the event picked. *)
Told(side) ==
  CASE pc \in {"network", "trigger"} /\ next.side = side /\ next.event = "BlockingBegin" -> TRUE
    [] pc \in {"network", "trigger"} /\ next.side = side /\ next.event = "BlockingEnd" -> FALSE
    [] OTHER -> blocking_active[side]

(* The end of a block is never queued, and the beginning only of one that
   has not ended.                                                         *)
InView(side) ==
  /\ \A e \in DOMAIN sq[side]["internal"] : e.event # "BlockingEnd"
  /\ Begun(side) => blocking_until[side] # None
  /\ ~Begun(side) => Told(side) = (blocking_until[side] # None)

View == \A side \in Side : Prompt(side) => InView(side)

LEMMA ViewIsViewAgrees ==
  ASSUME View
  PROVE  ViewAgrees
<1> SUFFICES ASSUME pc = "pick", NEW side \in Side, Prompt(side), ~Begun(side)
             PROVE  blocking_active[side] = (blocking_until[side] # None)
  BY DEF ViewAgrees, Begun
<1>1. Told(side) = blocking_active[side]
  BY DEF Told
<1> QED
  BY <1>1 DEF View, InView

(* A queued report of the beginning of a block is in flight. *)
LEMMA BegunFlies ==
  ASSUME Typed, NoBypass, PositiveBlocks, NEW side \in Side, Prompt(side)
  PROVE  \A e \in DOMAIN sq[side]["internal"] : e.event = "BlockingBegin" => Fired(e)
<1> SUFFICES ASSUME NEW e \in DOMAIN sq[side]["internal"], e.event = "BlockingBegin"
             PROVE  Fired(e)
  OBVIOUS
<1>1. e.side = side
  BY EventTyped DEF Queue
<1> QED
  BY <1>1 DEF Fired, Prompted

LEMMA LandedIsNotBegun ==
  ASSUME Typed, NoBypass, PositiveBlocks, Landed, NEW side \in Side, Prompt(side)
  PROVE  ~Begun(side)
BY BegunFlies DEF Landed, Begun

(* A side that reports nothing of blocks stays in view. *)
LEMMA StaysInView ==
  ASSUME NEW side \in Side, InView(side), ~Begun(side),
         NEW E, Gains(E),
         \A e \in E : e.side = side => e.event \notin {"BlockingBegin", "BlockingEnd"},
         Typed, Typed', Told(side)' = Told(side),
         blocking_until'[side] = blocking_until[side]
  PROVE  InView(side)'
<1>1. "internal" \in Queue
  BY DEF Queue
<1>2. ASSUME NEW e \in DOMAIN sq'[side]["internal"]
      PROVE  e.event \notin {"BlockingBegin", "BlockingEnd"}
  <2>1. e.side = side
    BY <1>1 DEF Typed, SidesOK, SideOK
  <2>2. e \in DOMAIN sq[side]["internal"] \/ e \in E
    BY <1>1, <1>2 DEF Gains
  <2> QED
    BY <2>1, <2>2 DEF InView, Begun
<1>3. ~Begun(side)'
  BY <1>2 DEF Begun
<1> QED
  BY <1>2, <1>3 DEF InView

LEMMA PickExpiryViews ==
  ASSUME Typed, Typed', NoBypass, PositiveBlocks, Landed, View, pc = "pick",
         PickExpiry(Peeks), NEW side \in Side, Prompt(side)
  PROVE  InView(side)'
<1>1. InView(side) /\ ~Begun(side)
  BY LandedIsNotBegun DEF View
<1>2. PICK e : /\ e.event = "BlockingEnd" /\ e.side = Peeks.expiry.side
               /\ \/ Gains({e}) /\ UNCHANGED <<pc, next>> /\ ~Prompt(e.side)
                  \/ UNCHANGED sq /\ pc' = "network" /\ next' = e
  BY ExpiryGains
<1>3. /\ blocking_until' = [blocking_until EXCEPT ![e.side] = None]
      /\ UNCHANGED blocking_active
  BY <1>2 DEF PickExpiry
<1>4. CASE side = e.side
  <2>1. UNCHANGED sq /\ pc' = "network" /\ next' = e
    BY <1>2, <1>4
  <2>2. Told(side)' = FALSE
    BY <1>2, <1>4, <2>1 DEF Told
  <2>3. blocking_until'[side] = None
    BY <1>3, <1>4 DEF Typed
  <2>4. (Told(side) = (blocking_until[side] # None))'
    BY <2>2, <2>3
  <2>5. \A f \in DOMAIN sq'[side]["internal"] :
          f.event \notin {"BlockingBegin", "BlockingEnd"}
    BY <1>1, <2>1 DEF InView, Begun
  <2>6. ~Begun(side)'
    BY <2>5 DEF Begun
  <2> QED
    BY <2>4, <2>5, <2>6 DEF InView
<1>5. CASE side # e.side
  <2>1. blocking_until'[side] = blocking_until[side]
    BY <1>3, <1>5 DEF Typed
  <2>2. Told(side)' = Told(side)
    BY <1>2, <1>3, <1>5 DEF Told
  <2>3. Gains({e})
    BY <1>2 DEF Gains
  <2> QED
    BY <1>1, <1>5, <2>1, <2>2, <2>3, StaysInView
<1> QED
  BY <1>4, <1>5

LEMMA PickQueueViews ==
  ASSUME Typed, Typed', Comparable, NoBypass, PositiveBlocks, Flight, View, pc = "pick",
         PickNext, PickQueue(Peeks), NEW side \in Side, Prompt(side)
  PROVE  InView(side)'
<1> DEFINE p == Peeks.queue
<1>1. InView(side)
  BY DEF View
<1>2. UNCHANGED <<blocking_until, blocking_active>> /\ pc' = "network"
  BY DEF PickQueue, blocks
<1>3. PICK top \in Tops(sq[p.side][p.queue]) :
        /\ p.side \in Side /\ p.queue \in Queue /\ QueueOf(top) = p.queue
        /\ next'.event = top.event /\ next'.side = p.side
        /\ sq' = [sq EXCEPT ![p.side] = Pop(@, p.queue, top)]
  BY QueuePicked DEF Filled
<1>4. Gains({})
  BY <1>3, PopGains
<1>5. "internal" \in Queue
  BY DEF Queue
<1> HIDE DEF p
<1>6. CASE Begun(side)
  <2>1. PICK e \in DOMAIN sq[side]["internal"] : e.event = "BlockingBegin"
    BY <1>6 DEF Begun
  <2>2. Fired(e)
    BY <2>1, BegunFlies
  <2>3. Landed' /\ next'.event = "BlockingBegin" /\ next'.side = side
    BY <2>1, <2>2, FlyingLands
  <2>4. ~Begun(side)'
    <3> SUFFICES ASSUME NEW f \in DOMAIN sq'[side]["internal"], f.event = "BlockingBegin"
                 PROVE  FALSE
      BY DEF Begun
    <3>1. f.side = side
      BY <1>5 DEF Typed, SidesOK, SideOK
    <3> QED
      BY <2>3, <3>1 DEF Landed, Fired, Prompted
  <2>5. Told(side)' = TRUE
    BY <1>2, <2>3 DEF Told
  <2>6. \A f \in DOMAIN sq'[side]["internal"] : f.event # "BlockingEnd"
    BY <1>1, <1>4, <1>5 DEF Gains, InView
  <2> QED
    BY <1>1, <1>2, <1>6, <2>4, <2>5, <2>6 DEF InView
<1>7. CASE ~Begun(side)
  <2>1. p.side = side => top.event \notin {"BlockingBegin", "BlockingEnd"}
    <3> SUFFICES ASSUME p.side = side, top.event \in {"BlockingBegin", "BlockingEnd"}
                 PROVE  FALSE
      OBVIOUS
    <3>1. p.queue = "internal"
      BY <1>3 DEF QueueOf
    <3>2. top \in DOMAIN sq[side]["internal"]
      BY <1>3, <3>1 DEF Tops
    <3> QED
      BY <1>1, <1>7, <3>2 DEF InView, Begun
  <2>2. Told(side)' = Told(side)
    BY <1>2, <1>3, <2>1 DEF Told
  <2> QED
    BY <1>1, <1>2, <1>4, <1>7, <2>2, StaysInView
<1> QED
  BY <1>6, <1>7

LEMMA PickActionViews ==
  ASSUME Typed, Typed', NoBypass, PositiveBlocks, Lasting, Landed, View, pc = "pick",
         PickAction(Peeks), NEW side \in Side, Prompt(side)
  PROVE  InView(side)'
<1>1. InView(side) /\ ~Begun(side)
  BY LandedIsNotBegun DEF View
<1>2. UNCHANGED <<pc, blocking_active>>
  BY DEF PickAction
<1>3. Told(side)' = Told(side)
  BY <1>2 DEF Told
<1>4. PICK s \in Side, m \in MachineId :
        LET a == scheduled_action[s][m] IN
        /\ a \in Slot /\ a # NoScheduled
        /\ \/ a.action.kind = "SendPadding" /\ SendPadding(s, m, a)
           \/ a.action.kind = "BlockOutgoing" /\ BlockOutgoing(s, m, a)
  BY ActionPicked
<1> DEFINE a == scheduled_action[s][m]
<1>5. a \in Slot /\ a # NoScheduled
  BY <1>4
<1>6. \/ SendPadding(s, m, a)
      \/ a.action.kind = "BlockOutgoing" /\ BlockOutgoing(s, m, a)
  BY <1>4
<1>7. a.action.kind = "BlockOutgoing" => a.action.duration > 0
  BY DEF Lasting
<1> HIDE DEF a
<1>8. CASE SendPadding(s, m, a)
  <2>1. PICK e : e.event = "PaddingSent" /\ Gains({e})
    BY <1>5, <1>8, PaddingGains
  <2>2. UNCHANGED blocking_until
    BY <1>8 DEF SendPadding, blocks
  <2> QED
    BY <1>1, <1>3, <2>1, <2>2, StaysInView
<1>9. CASE a.action.kind = "BlockOutgoing" /\ BlockOutgoing(s, m, a)
  <2>1. PICK time \in Nat : ReportsAt(s, "BlockingBegin", time)
    BY <1>5, <1>9, BlockOutgoingQueues
  <2>2. PICK e \in SimEvent : /\ e.side = s /\ e.event = "BlockingBegin"
                              /\ sq' = AddTo(s, e)
    BY <2>1 DEF ReportsAt
  <2>3. sq' = [sq EXCEPT ![s] = Push(@, e)]
    BY <2>2 DEF AddTo
  <2>4. Gains({e})
    BY <2>3, PushGains
  <2>5. blocking_until' = IF ChangesBlock(s, a)
                          THEN [blocking_until EXCEPT ![s] = a.time + a.action.duration]
                          ELSE blocking_until
    BY <1>9 DEF BlockOutgoing
  <2>6. CASE s # side
    <3>1. blocking_until'[side] = blocking_until[side]
      BY <2>5, <2>6 DEF Typed
    <3>2. \A f \in {e} : f.side = side => f.event \notin {"BlockingBegin", "BlockingEnd"}
      BY <2>2, <2>6
    <3> QED
      BY <1>1, <1>3, <2>4, <3>1, <3>2, StaysInView
  <2>7. CASE s = side
    <3>1. /\ a.time \in Nat /\ a.action.duration \in Nat /\ a.action.duration > 0
      BY <1>5, <1>7, <1>9 DEF Slot, TriggerAction
    <3>2. a.time + a.action.duration > a.time /\ a.time + a.action.duration # None
      BY <3>1 DEF None
    <3>3. blocking_until'[side] # None
      <4>1. CASE ChangesBlock(s, a)
        BY <2>5, <2>7, <3>2, <4>1 DEF Typed
      <4>2. CASE ~ChangesBlock(s, a)
        BY <2>5, <2>7, <3>2, <4>2 DEF ChangesBlock
      <4> QED
        BY <4>1, <4>2
    <3>4. e \in DOMAIN sq'[side]["internal"]
      <4>1. QueueOf(e) = "internal" /\ "internal" \in Queue
        BY <2>2 DEF QueueOf, Queue
      <4>2. sq'[side]["internal"] = BagAdd(sq[side]["internal"], e)
        BY <2>3, <2>7, <4>1 DEF Typed, SidesOK, SideOK, Push
      <4> QED
        BY <4>2 DEF BagAdd
    <3>5. Begun(side)'
      BY <2>2, <3>4 DEF Begun
    <3>6. \A f \in DOMAIN sq'[side]["internal"] : f.event # "BlockingEnd"
      BY <1>1, <2>2, <2>4 DEF Gains, InView, Queue
    <3> QED
      BY <3>3, <3>5, <3>6 DEF InView
  <2> QED
    BY <2>6, <2>7
<1> QED
  BY <1>6, <1>8, <1>9

LEMMA PickNextViews ==
  ASSUME Typed, Typed', Comparable, NoBypass, PositiveBlocks, Lasting, Flight, View, PickNext
  PROVE  View'
<1> SUFFICES ASSUME NEW side \in Side, Prompt(side) PROVE InView(side)'
  BY DEF View, Prompt
<1>1. pc = "pick"
  BY DEF PickNext
<1>2. ~PickQueue(Peeks) => Landed
  <2> SUFFICES ASSUME NEW s \in Side, NEW e \in DOMAIN sq[s]["internal"], Fired(e)
               PROVE  PickQueue(Peeks)
    BY DEF Landed
  <2>1. FirstInLine(s, e)
    BY DEF Flight
  <2> QED
    BY <2>1, FlyingFirst
<1>3. CASE PickQueue(Peeks)
  BY <1>1, <1>3, PickQueueViews
<1>4. CASE Landed /\ PickExpiry(Peeks)
  BY <1>1, <1>4, PickExpiryViews
<1>5. CASE Landed /\ PickAction(Peeks)
  BY <1>1, <1>5, PickActionViews
<1>6. CASE Landed /\ PickTimer(Peeks)
  <2>1. UNCHANGED <<pc, blocks, blocking_active>>
    BY <1>6 DEF PickTimer, history
  <2>2. PICK s \in Side : ReportsAt(s, "TimerEnd", current_time + Peeks.timer)
    BY <1>6, TimerQueues
  <2>3. PICK e \in SimEvent : e.event = "TimerEnd" /\ Gains({e})
    BY <2>2, ReportGains
  <2>4. InView(side) /\ ~Begun(side)
    BY <1>6, LandedIsNotBegun DEF View
  <2>5. Told(side)' = Told(side)
    BY <1>1, <2>1 DEF Told
  <2> QED
    BY <2>1, <2>3, <2>4, <2>5, StaysInView DEF blocks
<1>7. CASE PickNothing(Peeks) \/ PickAggregateDelay(Peeks)
  <2>1. UNCHANGED <<sq, blocks, blocking_active>> /\ pc' \in {"pick", "done"}
    BY <1>1, <1>7 DEF PickNothing, PickAggregateDelay, history
  <2>2. Told(side)' = Told(side)
    BY <1>1, <2>1 DEF Told
  <2> QED
    BY <2>1, <2>2 DEF View, InView, Begun, blocks
<1> QED
  BY <1>2, <1>3, <1>4, <1>5, <1>6, <1>7 DEF PickNext

LEMMA StepViews ==
  ASSUME Typed, NoBypass, Flagless, PositiveBlocks, Lasting, Flight, View, [Next]_vars
  PROVE  View'
<1>1. Typed' /\ Comparable
  BY StepTyped, ExactIsComparable DEF Exact
<1>2. pc # "pick" => Landed
  BY DEF Flight, Landed
<1>3. CASE PickNext
  BY <1>1, <1>3, PickNextViews
<1>4. CASE SimNetworkStack
  <2> SUFFICES ASSUME NEW side \in Side, Prompt(side) PROVE InView(side)'
    BY DEF View, Prompt
  <2>1. /\ pc = "network" /\ pc' = "trigger"
        /\ UNCHANGED <<blocks, next, blocking_active>>
    BY <1>4 DEF SimNetworkStack, NormalSent, QueuePadding, DropPadding,
                ReplacePadding, TunnelSent, TunnelRecv, NotNetwork, Advance
  <2>2. PICK E : Gains(E) /\ \A e \in E : e.event \in PacketEvent
    BY <1>4, StackGains
  <2>3. \A e \in E : e.event \notin {"BlockingBegin", "BlockingEnd"}
    BY <2>2 DEF PacketEvent
  <2>4. InView(side) /\ ~Begun(side)
    BY <1>2, <2>1, LandedIsNotBegun DEF View
  <2>5. Told(side)' = Told(side)
    BY <2>1 DEF Told
  <2> QED
    BY <1>1, <2>1, <2>2, <2>3, <2>4, <2>5, StaysInView DEF blocks
<1>5. CASE TriggerUpdate
  <2> SUFFICES ASSUME NEW side \in Side, Prompt(side) PROVE InView(side)'
    BY DEF View, Prompt
  <2>1. pc = "trigger" /\ pc' \in {"pick", "done"} /\ UNCHANGED blocks
    BY <1>5 DEF TriggerUpdate
  <2>2. PICK E : Gains(E) /\ \A e \in E : e.event = "TimerBegin"
    BY <1>5, TriggerGains
  <2>3. InView(side) /\ ~Begun(side)
    BY <1>2, <2>1, LandedIsNotBegun DEF View
  <2>4. blocking_active'[side] = Told(side)
    BY <1>5, <2>1 DEF TriggerUpdate, Told, Typed
  <2>5. Told(side)' = Told(side)
    BY <2>1, <2>4 DEF Told
  <2> QED
    BY <1>1, <2>1, <2>2, <2>3, <2>5, StaysInView DEF blocks
<1>6. CASE UNCHANGED vars
  BY <1>6 DEF View, InView, Begun, Told, vars, blocks, history
<1> QED
  BY <1>3, <1>4, <1>5, <1>6 DEF Next, Run, Finished

LEMMA AlwaysView == Spec => [](NoBypass /\ PositiveBlocks => View)
<1>1. Init => (NoBypass /\ PositiveBlocks => View)
  <2> SUFFICES ASSUME Init, NEW side \in Side PROVE InView(side)
    BY DEF View
  <2>1. "internal" \in Queue
    BY DEF Queue
  <2>2. \A e \in DOMAIN sq[side]["internal"] : e.event = "NormalSent"
    BY <2>1, QueuedAtFirst
  <2>3. Told(side) = FALSE /\ blocking_until[side] = None
    BY DEF Init, Told
  <2> QED
    BY <2>2, <2>3 DEF InView, Begun
<1>2. /\ Typed /\ (NoBypass => Flagless) /\ (PositiveBlocks => Lasting)
      /\ (Exact => Flight) /\ (NoBypass /\ PositiveBlocks => View) /\ [Next]_vars
      => (NoBypass /\ PositiveBlocks => View)'
  <2> SUFFICES ASSUME Typed, NoBypass => Flagless, PositiveBlocks => Lasting,
                      Exact => Flight, NoBypass /\ PositiveBlocks => View, [Next]_vars,
                      (NoBypass /\ PositiveBlocks)'
               PROVE  View'
    OBVIOUS
  <2>1. NoBypass /\ PositiveBlocks
    BY DEF NoBypass, PositiveBlocks
  <2> QED
    BY <2>1, StepViews DEF Exact
<1> QED
  BY <1>1, <1>2, AlwaysTyped, AlwaysFlagless, AlwaysLasting, AlwaysFlight, PTL DEF Spec

(***************************************************************************)
(* Between two events a framework believes its side to be blocked exactly  *)
(* while it is, unless a report is still queued: whenever its integration  *)
(* reports and acts without delay, blocks last and no framework pads with  *)
(* the bypass flag.  Then the beginning of a block is told before anything *)
(* else happens, and its end as it happens.                                *)
(***************************************************************************)
THEOREM SimulatorViewAgrees == Spec => [](NoBypass /\ PositiveBlocks => ViewAgrees)
<1>1. (NoBypass /\ PositiveBlocks => View) => (NoBypass /\ PositiveBlocks => ViewAgrees)
  BY ViewIsViewAgrees
<1> QED
  BY <1>1, AlwaysView, PTL
=============================================================================
