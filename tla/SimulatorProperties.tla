-------------------------- MODULE SimulatorProperties --------------------------
(***************************************************************************)
(* What makes the simulator correct.                                       *)
(***************************************************************************)
EXTENDS Simulator

(***************************************************************************)
(* The type invariant.  Every event is in the queue of its side and kind.  *)
(***************************************************************************)
IsBag(bag, S) ==
  /\ DOMAIN bag \subseteq S /\ IsFiniteSet(DOMAIN bag)
  /\ \A e \in DOMAIN bag : bag[e] \in Nat \ {0}

QueuesOK ==
  \A side \in Side, q \in Queue :
    /\ IsBag(sq[side][q], SimEvent)
    /\ \A e \in DOMAIN sq[side][q] : e.side = side /\ QueueOf(e) = q

ScheduledOK ==
  \A side \in Side, m \in MachineId :
    LET a == scheduled_action[side][m]
    IN  \/ a = NoScheduled
        \/ /\ a.action \in TriggerAction /\ a.time \in Nat
           /\ a.action.kind \in {"SendPadding", "BlockOutgoing"}

TypeOK ==
  /\ trace \in Traces
  /\ current_time \in Nat
  /\ sq \in [Side -> [Queue -> {sq[s][q] : s \in Side, q \in Queue}]]
  /\ QueuesOK
  /\ ScheduledOK
  /\ scheduled_internal_timer \in [Side -> [MachineId -> Nat \cup {None}]]
  /\ blocking_until \in [Side -> Nat \cup {None}]
  /\ blocking_bypassable \in [Side -> BOOLEAN]
  /\ aggregate_base_delay \in [Side -> Nat]
  /\ IsBag(aggregate_delay_queue, PendingAggregateDelay)
  /\ window \in [Side -> Seq(Nat)]
  /\ pc \in {"pick", "network", "trigger", "done"}
  /\ next \in SimEvent
  /\ answers \in 0 .. MaxActions
  /\ blocking_active \in [Side -> BOOLEAN]
  /\ received \in [Side -> Nat]
  /\ due \in Nat
  /\ freed \in [Side -> Nat]

-----------------------------------------------------------------------------
(***************************************************************************)
(* Blocking fails closed: a packet, padding or not, that pick_next takes   *)
(* out of its queue while its side is blocked has the bypass flag, and the *)
(* block admits bypassing.  The flag of a block that has ended stays       *)
(* behind, and five sources compete for the next step.                     *)
(***************************************************************************)
FailClosed ==
  pc = "network" /\ next.event = "TunnelSent" /\ blocking_until[next.side] # None
    => next.bypass /\ blocking_bypassable[next.side]

(***************************************************************************)
(* Nothing that is scheduled is passed over: actions, timers, ends of      *)
(* blocks and pending delays never lie in the past, where the peek         *)
(* functions would skip them for ever, and the event picked does not move  *)
(* the time backwards, where the loop would panic.                         *)
(***************************************************************************)
NothingPassedOver ==
  /\ \A side \in Side :
       /\ \A m \in Scheduled(side) : scheduled_action[side][m].time >= current_time
       /\ \A m \in TimerSet(side) : scheduled_internal_timer[side][m] >= current_time
       /\ blocking_until[side] # None => blocking_until[side] >= current_time
  /\ \A d \in DOMAIN aggregate_delay_queue : d.time >= current_time
  /\ pc = "network" => next.time >= current_time

(***************************************************************************)
(* What a framework was told agrees with the block of its side: between    *)
(* two events, unless a report is still queued, it believes its side to be *)
(* blocked exactly while it is.  For blocks of a positive duration, and a  *)
(* side whose integration reports and acts without delay: otherwise the    *)
(* end of a block may be reported after the beginning of the next.  And    *)
(* for padding that bypasses no block: pick_next carries a block out ahead *)
(* of its time, and a packet that it lets go may have it replaced before   *)
(* it was reported.                                                        *)
(***************************************************************************)
Prompt(side) == ReportingDelay[side] = {0} /\ ActionDelay[side] = {0}

ViewAgrees ==
  pc = "pick" =>
    \A side \in {s \in Side : Prompt(s)} :
      \/ blocking_active[side] = (blocking_until[side] # None)
      \/ \E e \in DOMAIN sq[side].internal : e.event \in {"BlockingBegin", "BlockingEnd"}

(***************************************************************************)
(* The delays of held-up packets shift both sides of the trace alike: what *)
(* was and will be added is the same on both sides, in whatever order the  *)
(* pending delays take effect.                                             *)
(***************************************************************************)
Shift(side) ==
  aggregate_base_delay[side] +
  SumFunction([d \in {e \in DOMAIN aggregate_delay_queue : e.side = side} |->
                 d.delay * aggregate_delay_queue[d]])

DelaysBalance == Shift("client") = Shift("server")

-----------------------------------------------------------------------------
(***************************************************************************)
(* The output for an event: sim_advanced removes from its time what the    *)
(* integration took to report it, or adds what it takes to act.            *)
(***************************************************************************)
Recorded(e) ==
  CASE e.event \in {"NormalSent", "TunnelRecv", "PaddingRecv", "NormalRecv"} ->
         e.time - e.integration_delay
    [] e.event = "PaddingSent" -> e.time + e.integration_delay
    [] e.event = "TunnelSent" ->
         IF e.contains_padding THEN e.time + e.integration_delay
         ELSE e.time - e.integration_delay
    [] OTHER -> e.time

(***************************************************************************)
(* As long as no machine acts, the client's packets in the output are at   *)
(* the times of the trace: parsing, the network and the correction of the  *)
(* output cancel out, and the bottleneck derived from the trace never      *)
(* delays it.  For reporting delays that do not vary (they may push more   *)
(* packets into a window than the trace has) and a server that reports     *)
(* before the client may have received the packet.                         *)
(***************************************************************************)
Steady ==
  /\ \A side \in Side : Cardinality(ReportingDelay[side]) = 1
  /\ \A c \in ReportingDelay["client"], s \in ReportingDelay["server"] :
       s <= NetworkDelay + c

Reproduces ==
  Steady /\ answers = 0 /\ pc = "network" /\ next.side = "client" =>
    LET times(direction) == {trace[k].time : k \in {j \in DOMAIN trace :
                                               trace[j].direction = direction}}
    IN  /\ next.event \in {"NormalSent", "TunnelSent"} => Recorded(next) \in times("s")
        /\ next.event \in {"TunnelRecv", "NormalRecv"} => Recorded(next) \in times("r")

(***************************************************************************)
(* The loop does not end before every packet of the trace has left the     *)
(* tunnel, be it that machines pad and block, or that it ends as soon as   *)
(* all normal packets have been processed.                                 *)
(***************************************************************************)
StopsAfterAll ==
  pc = "done" =>
    \A side \in Side :
      received[Other(side)] = Cardinality({k \in DOMAIN trace : SenderOf(trace[k]) = side})

-----------------------------------------------------------------------------
(***************************************************************************)
(* A packet that was held leaves when it is freed and not earlier: when    *)
(* the block ended, or began to admit it, or when padding gave it its      *)
(* bypass flag.                                                            *)
(***************************************************************************)
HeldUntilFreed ==
  pc = "network" /\ next.event = "TunnelSent" /\ next.time > due
    => next.time >= freed[next.side]

(***************************************************************************)
(* Nothing is late: an event is taken when it is due or, if it was held,   *)
(* as soon as it is freed.                                                 *)
(***************************************************************************)
TakenOnTime == pc = "network" => next.time <= Later(due, freed[next.side])

(***************************************************************************)
(* No answer comes too late: while a framework answers, no timer that has  *)
(* fired and no padding that was sent waits, at either side, to be         *)
(* reported, so that a Cancel never races with what it cancels.  Timers    *)
(* and actions are carried out in a recursion of pick_next that may move   *)
(* on to others before it returns.                                         *)
(***************************************************************************)
NoneInFlight ==
  pc = "trigger" =>
    \A side \in Side : \A e \in DOMAIN sq[side].internal :
      e.event \notin {"TimerEnd", "PaddingSent"}

-----------------------------------------------------------------------------
Gate(side) ==
  IF blocking_until[side] = None THEN "open"
  ELSE IF blocking_bypassable[side] THEN "bypass" ELSE "shut"

(* The packets of a side, queued or picked, of one kind of event. *)
IsPacket(e, event) == e.event = event /\ ~e.contains_padding

InQueue(heap, event) == SumFunctionOnSet(heap, {e \in DOMAIN heap : IsPacket(e, event)})

Here(e, side, q, event) ==
  IF IsPacket(e, event) /\ e.side = side /\ QueueOf(e) = q THEN 1 ELSE 0

Packets(side, q, event) ==
  InQueue(sq[side][q], event) + (IF pc = "network" THEN Here(next, side, q, event) ELSE 0)

Plainly(side) == Packets(side, "base", "NormalSent") + Packets(side, "blocking", "TunnelSent")

Exempted(side) == Packets(side, "bypassable", "TunnelSent")

(* Those on their way from a side are queued at the other. *)
Coming(side) == Packets(Other(side), "internal", "TunnelRecv")

TunnelOf == INSTANCE Tunnel WITH
  End        <- Side,
  gate       <- [s \in Side |-> Gate(s)],
  plain      <- [s \in Side |-> Plainly(s)],
  exempt     <- [s \in Side |-> Exempted(s)],
  travelling <- [s \in Side |-> Coming(s)],
  arrived    <- [s \in Side |-> received[Other(s)]]

(***************************************************************************)
(* The simulator implements Tunnel: no packet of the trace is lost, sent   *)
(* twice, delivered twice or let through a gate that is shut to it,        *)
(* however pick_next, the network stack and padding that is replaced move  *)
(* it from queue to queue.                                                 *)
(***************************************************************************)
KeepsTunnel == TunnelOf!Safe

(***************************************************************************)
(* All packets of the trace arrive: sim_advanced's loop does not end, nor  *)
(* go on for ever, while one waits behind a block.                         *)
(***************************************************************************)
AllArrive == TunnelOf!Arrival
=============================================================================
