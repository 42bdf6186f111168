------------------------------ MODULE Simulator ------------------------------
(***************************************************************************)
(* The simulator: sim_advanced's main loop, pick_next, the timers and      *)
(* blocks of either side's integration, the network stack and the actions  *)
(* the frameworks answer with.                                             *)
(*                                                                         *)
(* pc is the part of the loop that is about to run: "pick" one level of    *)
(* pick_next's recursion, "network" sim_network_stack for the event next,  *)
(* "trigger" trigger_update and the end of the loop's body.  A framework   *)
(* is represented by what it may answer: at most one action per machine    *)
(* (FrameworkContract), taken from Response.                               *)
(***************************************************************************)
EXTENDS QueuePeek, Network, Bags

CONSTANTS
  Traces,                  (* traces to parse and simulate                 *)
  Pps,                     (* Network::pps: None, or the bottleneck        *)
  ReportingDelay,          (* what an integration's delays may be, by      *)
  ActionDelay,             (*   side; {0} without an integration           *)
  TriggerDelay,
  Response(_, _, _),       (* actions of (side, machine) to an event       *)
  Continue,                (* continue_after_all_normal_packets_processed  *)
  MaxActions               (* bound on the actions frameworks answer with  *)

(* TriggerAction; durations and timeouts are those sampled. *)
NoAction == [kind |-> "None", timeout |-> 0, duration |-> 0, bypass |-> FALSE,
             replace |-> FALSE, timer |-> "All"]

TriggerAction ==
  [kind : {"None", "Cancel", "SendPadding", "BlockOutgoing", "UpdateTimer"},
   timeout : Nat, duration : Nat, bypass : BOOLEAN, replace : BOOLEAN,
   timer : {"Action", "Internal", "All"}]

IsTrace(trace) ==
  /\ trace # <<>>
  /\ \A k \in DOMAIN trace :
       /\ trace[k].direction \in {"s", "r"}
       /\ trace[k].time \in Nat /\ trace[k].time >= NetworkDelay
       /\ \A j \in 1 .. k : trace[j].time <= trace[k].time

ASSUME SimulatorAssumption ==
  /\ \A trace \in Traces : trace \in Seq([time : Nat, direction : {"s", "r"}])
                           /\ IsTrace(trace)
  /\ Pps = None \/ Pps \in Nat \ {0}
  /\ \A delays \in {ReportingDelay, ActionDelay, TriggerDelay} :
       \A side \in Side : delays[side] \subseteq Nat /\ delays[side] # {}
  /\ \A side \in Side, m \in MachineId, e \in DOMAIN event_to_usize :
       Response(side, m, e) \subseteq TriggerAction
  /\ Continue \in BOOLEAN
  /\ MaxActions \in Nat

VARIABLES
  trace,                   (* the trace being simulated                    *)
  current_time,
  sq,                      (* the queues of each side                      *)
  scheduled_action,        (* of each side and machine                     *)
  scheduled_internal_timer,
  blocking_until,          (* of each side: when its block ends, or None   *)
  blocking_bypassable,
  aggregate_base_delay,    (* of each side                                 *)
  aggregate_delay_queue,
  window,                  (* WindowCount of each side                     *)
  pc,
  next,                    (* the event picked                             *)
  answers,                 (* actions the frameworks have answered with    *)
  (* history, guarding nothing *)
  blocking_active,         (* what each framework was last told            *)
  received,                (* normal packets each side got from the tunnel *)
  due,                     (* when the event picked was due                *)
  freed                    (* when a side last freed packets it held       *)

timers  == <<scheduled_action, scheduled_internal_timer>>
blocks  == <<blocking_until, blocking_bypassable>>
net     == <<aggregate_base_delay, aggregate_delay_queue, window>>
history == <<blocking_active, received, due, freed>>
vars    == <<trace, current_time, sq, timers, blocks, net, pc, next, answers,
             history>>

NoEvent == Plain("TimerEnd", "client", 0, 0)

NoScheduled == [action |-> NoAction, time |-> None]

Scheduled(side) == {m \in MachineId : scheduled_action[side][m] # NoScheduled}

TimerSet(side) == {m \in MachineId : scheduled_internal_timer[side][m] # None}

PpsLimit == IF Pps = None THEN MaxPps(trace) ELSE Pps

-----------------------------------------------------------------------------
(* parse_trace_advanced, SimState::new and NetworkBottleneck::new. *)
Init ==
  /\ trace \in Traces
  /\ \E delays \in [DOMAIN trace -> UNION {ReportingDelay[s] : s \in Side}] :
       /\ \A k \in DOMAIN trace : delays[k] \in ReportingDelay[SenderOf(trace[k])]
       /\ sq = ParseTrace(trace, delays)
  /\ current_time = FirstBaseTime(sq)
  /\ scheduled_action = [s \in Side |-> [m \in MachineId |-> NoScheduled]]
  /\ scheduled_internal_timer = [s \in Side |-> [m \in MachineId |-> None]]
  /\ blocking_until = [s \in Side |-> None]
  /\ blocking_bypassable = [s \in Side |-> FALSE]
  /\ aggregate_base_delay = [s \in Side |-> 0]
  /\ aggregate_delay_queue = <<>>
  /\ window = [s \in Side |-> <<>>]
  /\ pc = "pick"
  /\ next = NoEvent
  /\ answers = 0
  /\ blocking_active = [s \in Side |-> FALSE]
  /\ received = [s \in Side |-> 0]
  /\ due = 0
  /\ freed = [s \in Side |-> 0]

-----------------------------------------------------------------------------
ScheduledIn ==
  PeekTimes(UNION {{scheduled_action[s][m].time : m \in Scheduled(s)} : s \in Side},
            current_time)

TimerIn ==
  PeekTimes(UNION {{scheduled_internal_timer[s][m] : m \in TimerSet(s)} : s \in Side},
            current_time)

Expiry == PeekBlockedExp(blocking_until, current_time)

AggregateIn == PeekAggregateDelay(aggregate_delay_queue, current_time, DURATION_MAX)

Queued ==
  PeekQueue(sq, blocking_until, blocking_bypassable, aggregate_base_delay,
            Least({ScheduledIn, TimerIn, Expiry.duration, AggregateIn}), current_time)

(* What pick_next finds that may be next, as durations from now. *)
Peeks == [action |-> ScheduledIn, timer |-> TimerIn, expiry |-> Expiry,
          aggregate |-> AggregateIn, queue |-> Queued]

(***************************************************************************)
(* Of what is due at the same time pick_next prefers pending delays, then  *)
(* the end of a block, the queues, timers and last scheduled actions.      *)
(***************************************************************************)
NothingLeft(p) ==
  {p.action, p.timer, p.expiry.duration, p.aggregate, p.queue.duration} = {DURATION_MAX}

AggregateFirst(p) ==
  \A d \in {p.action, p.timer, p.expiry.duration, p.queue.duration} : p.aggregate <= d

ExpiryFirst(p) ==
  /\ ~AggregateFirst(p)
  /\ \A d \in {p.action, p.timer, p.queue.duration} : p.expiry.duration <= d

(* Bug: timers and actions that are due at the same time go first. *)
QueueLast(p) ==
  /\ ~AggregateFirst(p) /\ ~ExpiryFirst(p)
  /\ \A d \in {p.action, p.timer} : p.queue.duration < d

QueueFirst(p) ==
  /\ ~AggregateFirst(p) /\ ~ExpiryFirst(p)
  /\ \A d \in {p.action, p.timer} : p.queue.duration <= d

TimerFirst(p) ==
  /\ ~AggregateFirst(p) /\ ~ExpiryFirst(p) /\ ~QueueFirst(p)
  /\ p.timer <= p.action

ActionFirst(p) ==
  ~AggregateFirst(p) /\ ~ExpiryFirst(p) /\ ~QueueFirst(p) /\ ~TimerFirst(p)

(* pick_next returns None: the loop ends. *)
PickNothing(p) ==
  /\ NothingLeft(p)
  /\ pc' = "done"
  /\ UNCHANGED <<trace, current_time, sq, timers, blocks, net, next, answers, history>>

(* pop_aggregate_delay *)
PickAggregateDelay(p) ==
  /\ ~NothingLeft(p) /\ AggregateFirst(p)
  /\ \E d \in FirstPending(aggregate_delay_queue) :
       /\ aggregate_delay_queue' = BagRemove(aggregate_delay_queue, d)
       /\ aggregate_base_delay' = [aggregate_base_delay EXCEPT ![d.side] = @ + d.delay]
  /\ UNCHANGED <<trace, current_time, sq, timers, blocks, window, pc, next, answers,
                 history>>

(* The delay to aggregate when a block of this side ends at expiry. *)
ExpiryDelay(side, expiry) ==
  LET q == FirstBlocking(sq[side], FALSE)
      since == Top(sq[side][q]).time
  IN  IF Empty(sq[side][q]) \/ since >= expiry THEN None
      ELSE DelayOnExpiry(sq[side], expiry, since, aggregate_base_delay[side])

(* A block expires; its end is reported at once, or queued to be reported. *)
PickExpiry(p) ==
  /\ ExpiryFirst(p)
  /\ LET side == p.expiry.side
         expiry == current_time + p.expiry.duration
     IN  /\ blocking_until' = [blocking_until EXCEPT ![side] = None]
         /\ aggregate_delay_queue' =
              PushIfAny(aggregate_delay_queue, ExpiryDelay(side, expiry), expiry, side)
         /\ freed' = [freed EXCEPT ![side] = expiry]
         /\ \E delay \in ReportingDelay[side] :
              LET e == Plain("BlockingEnd", side, expiry + delay, delay)
              IN  IF delay > 0
                  THEN /\ sq' = [sq EXCEPT ![side] = Push(@, e)]
                       /\ UNCHANGED <<pc, next, due>>
                  ELSE /\ pc' = "network" /\ next' = e /\ due' = e.time
                       /\ UNCHANGED sq
  /\ UNCHANGED <<trace, current_time, timers, blocking_bypassable, aggregate_base_delay,
                 window, answers, blocking_active, received>>

(* A queued event; it cannot be earlier than now, nor than a block's end. *)
PickQueue(p) ==
  /\ QueueFirst(p)
  /\ LET side == p.queue.side
         q == p.queue.queue
     IN  \E top \in Tops(sq[side][q]) :
           LET e == Shifted(top, q, aggregate_base_delay[side])
           IN  /\ sq' = [sq EXCEPT ![side] = Pop(@, q, top)]
               /\ next' = [e EXCEPT !.time = Later(@, current_time + p.queue.duration)]
               /\ due' = e.time
  /\ pc' = "network"
  /\ UNCHANGED <<trace, current_time, timers, blocks, net, answers, blocking_active,
                 received, freed>>

-----------------------------------------------------------------------------
(* The first machine, the client's first, that is due at the target. *)
DueSide(due_at) == IF due_at["client"] # {} THEN "client" ELSE "server"

(* do_internal_timer *)
PickTimer(p) ==
  /\ TimerFirst(p)
  /\ LET target == current_time + p.timer
         due_at == [s \in Side |->
                      {m \in TimerSet(s) : scheduled_internal_timer[s][m] = target}]
         side == DueSide(due_at)
         m == Least(due_at[side])
     IN  /\ scheduled_internal_timer' =
              [scheduled_internal_timer EXCEPT ![side][m] = None]
         /\ sq' = [sq EXCEPT ![side] =
              Push(@, [Plain("TimerEnd", side, target, 0) EXCEPT !.machine = m])]
  /\ UNCHANGED <<trace, current_time, scheduled_action, blocks, net, pc, next, answers,
                 history>>

(* do_scheduled_action, for padding: it is reported as sent at once. *)
SendPadding(side, m, a) ==
  /\ \E delay \in ActionDelay[side] :
       sq' = [sq EXCEPT ![side] =
         Push(@, [Plain("PaddingSent", side, a.time, delay) EXCEPT
                    !.machine = m, !.contains_padding = TRUE,
                    !.bypass = a.action.bypass, !.replace = a.action.replace])]
  /\ UNCHANGED <<blocks, freed>>

(* Bug: only a block that is active may be extended. *)
ExtendsBlock(side, a) ==
  \/ a.action.replace
  \/ /\ blocking_until[side] # None
     /\ a.time + a.action.duration > blocking_until[side]

(* Does the action a begin, extend or replace the block of its side? *)
ChangesBlock(side, a) ==
  \/ a.action.replace
  \/ a.time + a.action.duration >
       (IF blocking_until[side] = None THEN a.time ELSE blocking_until[side])

(* do_scheduled_action, for blocking: it takes effect now and is reported
   after the action and the reporting delay, whether or not it changed the
   block. *)
BlockOutgoing(side, m, a) ==
  LET changes == ChangesBlock(side, a)
      frees == /\ changes /\ a.action.bypass
               /\ blocking_until[side] # None /\ ~blocking_bypassable[side]
  IN  /\ blocking_until' =
           IF changes
           THEN [blocking_until EXCEPT ![side] = a.time + a.action.duration]
           ELSE blocking_until
      /\ blocking_bypassable' =
           IF changes THEN [blocking_bypassable EXCEPT ![side] = a.action.bypass]
           ELSE blocking_bypassable
      /\ freed' = IF frees THEN [freed EXCEPT ![side] = a.time] ELSE freed
      /\ \E action_delay \in ActionDelay[side], reporting_delay \in ReportingDelay[side] :
           LET delay == action_delay + reporting_delay
           IN  sq' = [sq EXCEPT ![side] =
                 Push(@, [Plain("BlockingBegin", side, a.time + delay, delay) EXCEPT
                            !.machine = m, !.bypass = blocking_bypassable'[side]])]

PickAction(p) ==
  /\ ActionFirst(p)
  /\ LET target == current_time + p.action
         due_at == [s \in Side |->
                      {m \in Scheduled(s) : scheduled_action[s][m].time = target}]
         side == DueSide(due_at)
         m == Least(due_at[side])
         a == scheduled_action[side][m]
     IN  /\ scheduled_action' = [scheduled_action EXCEPT ![side][m] = NoScheduled]
         /\ \/ a.action.kind = "SendPadding" /\ SendPadding(side, m, a)
            \/ a.action.kind = "BlockOutgoing" /\ BlockOutgoing(side, m, a)
  /\ UNCHANGED <<trace, current_time, scheduled_internal_timer, net, pc, next, answers,
                 blocking_active, received, due>>

-----------------------------------------------------------------------------
(***************************************************************************)
(* The loop moves the time forward to the event picked, and panics if that *)
(* is before the current time: there is no step then.                      *)
(***************************************************************************)
Advance(event) ==
  /\ pc = "network"
  /\ next.event = event
  /\ next.time >= current_time
  /\ current_time' = next.time
  /\ pc' = "trigger"
  /\ UNCHANGED <<trace, timers, blocks, next, answers, blocking_active, due>>

(* sim_network_stack: a normal packet is queued to enter the tunnel. *)
NormalSent ==
  /\ Advance("NormalSent")
  /\ sq' = [sq EXCEPT ![next.side] =
       Push(@, Plain("TunnelSent", next.side, next.time, next.integration_delay))]
  /\ UNCHANGED <<net, received, freed>>

(* The queue whose first packet padding may be replaced with. *)
ReplaceQueue == FirstBlocking(sq[next.side], blocking_bypassable[next.side])

(* The packets replaced padding may turn out to be; padding replaces none. *)
Replacements ==
  IF next.replace THEN {e \in Tops(sq[next.side][ReplaceQueue]) : ~e.contains_padding}
  ELSE {}

(* Padding that replaces nothing is queued to enter the tunnel itself: it has
   no replace flag, or no packet is queued, or one that is padding too. *)
QueuePadding ==
  /\ Advance("PaddingSent")
  /\ \/ ~next.replace
     \/ Empty(sq[next.side][ReplaceQueue])
     \/ \E e \in Tops(sq[next.side][ReplaceQueue]) : e.contains_padding
  /\ sq' = [sq EXCEPT ![next.side] =
       Push(@, [next EXCEPT !.event = "TunnelSent", !.machine = None])]
  /\ UNCHANGED <<net, received, freed>>

(* Bug: the queued packet is dropped along with the padding. *)
DropQueued ==
  /\ Advance("PaddingSent")
  /\ ~next.bypass
  /\ \E e \in Replacements :
       sq' = [sq EXCEPT ![next.side] = Pop(@, ReplaceQueue, e)]
  /\ UNCHANGED <<net, received, freed>>

(* Padding without the bypass flag is dropped in favour of a queued packet. *)
DropPadding ==
  /\ Advance("PaddingSent")
  /\ ~next.bypass /\ Replacements # {}
  /\ UNCHANGED <<sq, net, received, freed>>

(* Padding with the bypass flag passes the flag on to a queued packet. *)
ReplacePadding ==
  /\ Advance("PaddingSent")
  /\ next.bypass
  /\ \E e \in Replacements :
       LET popped == Pop(sq[next.side], ReplaceQueue, e)
       IN  /\ sq' = [sq EXCEPT ![next.side] =
                Push(popped, [e EXCEPT !.bypass = TRUE, !.replace = FALSE])]
           /\ aggregate_delay_queue' =
                PushIfAny(aggregate_delay_queue,
                          DelayOnReplace(popped, next.time, e.time,
                                         aggregate_base_delay[next.side]),
                          next.time, next.side)
  /\ freed' = [freed EXCEPT ![next.side] = next.time]
  /\ UNCHANGED <<aggregate_base_delay, window, received>>

(* When the recipient is told of a packet that enters the tunnel now.  The
   sender's delay lies between the action and a padding packet, but between
   a normal packet and its report. *)
ReportedAt(e, delay) ==
  IF e.contains_padding THEN e.time + e.integration_delay + delay
  ELSE Later(e.time - e.integration_delay + delay, e.time)

(* A packet enters the tunnel and is on its way to the other side. *)
TunnelSent ==
  /\ Advance("TunnelSent")
  /\ LET side == next.side
         added == AddedDelay(Len(window'[side]), PpsLimit)
     IN  /\ window' = [window EXCEPT ![side] = WindowAdd(@, next.time)]
         /\ aggregate_delay_queue' =
              IF added > 0 /\ DelayPropagates(sq[side], next.time,
                                              aggregate_base_delay["client"])
              THEN PushAggregateDelay(aggregate_delay_queue, added, next.time, side)
              ELSE aggregate_delay_queue
         /\ \E delay \in ReportingDelay[Other(side)] :
              sq' = [sq EXCEPT ![Other(side)] =
                Push(@, [Plain("TunnelRecv", Other(side),
                               ReportedAt(next, NetworkDelay + added + delay), delay)
                           EXCEPT !.contains_padding = next.contains_padding])]
  /\ UNCHANGED <<aggregate_base_delay, received, freed>>

(* A packet leaves the tunnel. *)
TunnelRecv ==
  /\ Advance("TunnelRecv")
  /\ sq' = [sq EXCEPT ![next.side] =
       Push(@, [next EXCEPT !.event = IF next.contains_padding THEN "PaddingRecv"
                                      ELSE "NormalRecv"])]
  /\ received' = IF next.contains_padding THEN received
                 ELSE [received EXCEPT ![next.side] = @ + 1]
  /\ UNCHANGED <<net, freed>>

(* Everything else is no business of the network. *)
NotNetwork ==
  /\ \E e \in {"NormalRecv", "PaddingRecv", "BlockingBegin", "BlockingEnd",
               "TimerBegin", "TimerEnd"} : Advance(e)
  /\ UNCHANGED <<sq, net, received, freed>>

-----------------------------------------------------------------------------
(* What a framework may answer to the event next: trigger_events. *)
Answers ==
  LET response(m) == {NoAction} \cup Response(next.side, m, next.event)
  IN  {f \in [MachineId -> UNION {response(m) : m \in MachineId}] :
         /\ \A m \in MachineId : f[m] \in response(m)
         /\ answers + Cardinality({m \in MachineId : f[m] # NoAction}) <= MaxActions}

(* The action timer of machine m after the answer a. *)
ActionTimer(m, a, delay) ==
  CASE a.kind \in {"SendPadding", "BlockOutgoing"} ->
         [action |-> a, time |-> current_time + a.timeout + delay]
    [] a.kind = "Cancel" /\ a.timer \in {"Action", "All"} -> NoScheduled
    [] OTHER -> scheduled_action[next.side][m]

(* Does the answer a set the internal timer of machine m? *)
SetsTimer(m, a) ==
  LET timer == scheduled_internal_timer[next.side][m]
  IN  /\ a.kind = "UpdateTimer"
      /\ \/ a.replace
         \/ (IF timer = None THEN current_time ELSE timer) < current_time + a.duration

InternalTimer(m, a) ==
  CASE SetsTimer(m, a) -> current_time + a.duration
    [] a.kind = "Cancel" /\ a.timer \in {"Internal", "All"} -> None
    [] OTHER -> scheduled_internal_timer[next.side][m]

TimerBegin(m) == [Plain("TimerBegin", next.side, current_time, 0) EXCEPT !.machine = m]

(***************************************************************************)
(* trigger_update: the framework is told of the event and answers.  Then   *)
(* the loop ends if all normal packets have been processed.                *)
(***************************************************************************)
TriggerUpdate ==
  /\ pc = "trigger"
  /\ \E f \in Answers, delay \in TriggerDelay[next.side] :
       /\ scheduled_action' = [scheduled_action EXCEPT ![next.side] =
            [m \in MachineId |-> ActionTimer(m, f[m], delay)]]
       /\ scheduled_internal_timer' = [scheduled_internal_timer EXCEPT ![next.side] =
            [m \in MachineId |-> InternalTimer(m, f[m])]]
       /\ sq' = [sq EXCEPT ![next.side].internal =
            @ (+) SetToBag({TimerBegin(m) : m \in {k \in MachineId : SetsTimer(k, f[k])}})]
       /\ answers' = answers + Cardinality({m \in MachineId : f[m] # NoAction})
  /\ blocking_active' = [blocking_active EXCEPT ![next.side] =
       CASE next.event = "BlockingBegin" -> TRUE
         [] next.event = "BlockingEnd" -> FALSE
         [] OTHER -> @]
  /\ pc' = IF ~Continue /\ \A side \in Side : NoNormalPackets(sq'[side])
           THEN "done" ELSE "pick"
  /\ next' = NoEvent /\ due' = 0
  /\ UNCHANGED <<trace, current_time, blocks, net, received, freed>>

(* One level of pick_next. *)
PickNext ==
  /\ pc = "pick"
  /\ \E p \in {Peeks} :
       \/ PickNothing(p) \/ PickAggregateDelay(p) \/ PickExpiry(p)
       \/ PickQueue(p) \/ PickTimer(p) \/ PickAction(p)

SimNetworkStack ==
  \/ NormalSent \/ QueuePadding \/ DropPadding \/ ReplacePadding
  \/ TunnelSent \/ TunnelRecv \/ NotNetwork

Run == PickNext \/ SimNetworkStack \/ TriggerUpdate

(* The simulation is over: sim_advanced has returned the trace. *)
Finished == pc = "done" /\ UNCHANGED vars

Next == Run \/ Finished

(* sim_advanced runs in a thread that executes it to its end. *)
Spec == Init /\ [][Next]_vars /\ WF_vars(Run)
=============================================================================
