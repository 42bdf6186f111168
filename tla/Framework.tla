------------------------------ MODULE Framework ------------------------------
(***************************************************************************)
(* crates/maybenot/src/framework.rs: one Framework instance, executed one  *)
(* section of code at a time.  A call of trigger_events() processes a      *)
(* batch of events; every event visits machines in index order; a visit is *)
(* a transition(), which updates the counters and may call transition()    *)
(* again with CounterZero before it schedules its own action.  The pending *)
(* outer transitions are the call stack, frames.                           *)
(***************************************************************************)
EXTENDS Machine, Sequences

CONSTANTS
  NumMachines,        (* machines.len()                                    *)
  machines,           (* the machines, indexed 0 .. NumMachines - 1        *)
  max_padding_frac,   (* framework-wide limits, as fractions               *)
  max_blocking_frac,
  Reports,            (* the events the integrator may report              *)
  MonotoneClock,      (* the integrator's clock never steps back           *)
  MaxBatch,           (* bound: events per call of trigger_events          *)
  MaxPackets,         (* bound: packets reported in a behaviour            *)
  MaxTime             (* bound: the clock                                  *)

Ids == 0 .. NumMachines - 1

(* TriggerEvent: machine is NumMachines where it names no running machine. *)
TriggerEvent ==
  [event   : {"NormalRecv", "PaddingRecv", "TunnelRecv", "NormalSent",
              "PaddingSent", "TunnelSent", "BlockingBegin", "BlockingEnd",
              "TimerBegin", "TimerEnd"},
   machine : 0 .. NumMachines]

ASSUME FrameworkAssumption ==
  /\ NumMachines \in Nat
  /\ \A mi \in Ids : IsMachine(machines[mi])
  /\ IsFraction(max_padding_frac) /\ IsFraction(max_blocking_frac)
  /\ Reports \subseteq TriggerEvent
  /\ MonotoneClock \in BOOLEAN
  /\ MaxBatch \in Nat /\ MaxPackets \in Nat /\ MaxTime \in Nat

VARIABLES
  current_time, actions, runtime,
  padding_sent_packets, normal_sent_packets,
  blocking_duration, blocking_started, blocking_active,
  signal_pending,       (* None, All or the machine of AllExcept           *)
  counter_zeroed_once,
  pc,       (* the section of code about to run                            *)
  batch,    (* events of this call processed so far                        *)
  visit,    (* the loop over the machines and why it runs                  *)
  call,     (* arguments of the transition() about to run                  *)
  frames,   (* transition()s that wait for a nested CounterZero            *)
  result,   (* StateChange of the transition() that returned last          *)
  raisers,  (* history: machines whose signal this call is to pass on      *)
  signalled,(* history: Signal events given to each machine in this call   *)
  zeroed,   (* history: counters each machine zeroed in this call          *)
  ended,    (* history: machines in STATE_END when this call began         *)
  resampled,(* history: this visit entered a state and sampled its limit   *)
  undercut  (* history: machines with no limit left that entered their state
               again after its action was decided                          *)

accounting == <<padding_sent_packets, normal_sent_packets, blocking_duration,
                blocking_started, blocking_active>>
history == <<raisers, signalled, zeroed, ended, resampled, undercut>>
control == <<pc, batch, visit, call, frames, result>>
vars == <<current_time, actions, runtime, accounting, signal_pending,
          counter_zeroed_once, control, history>>

All == -2

Counters == {"a", "b"}

StateOf(mi, s) == machines[mi].states[s]
ActionOf(mi, s) == StateOf(mi, s).action

-----------------------------------------------------------------------------
(***************************************************************************)
(* The limits: r is the machine's runtime after a change of state.         *)
(***************************************************************************)
Since(instant) == IF current_time > instant THEN current_time - instant ELSE 0

OngoingBlock == IF blocking_active THEN Since(blocking_started) ELSE 0

(* Bug: the block going on now is not counted. *)
BlockedBefore(duration) == duration

(* Blocked so far, the ongoing block included. *)
BlockedFor(duration) == duration + OngoingBlock

(* The clock starts at 0: framework_start = machine_start = 0. *)
BelowLimitBlocking(mi, r) ==
  LET machine  == machines[mi]
      blocked  == BlockedFor(r.blocking_duration)
      exempt   == \/ /\ ActionOf(mi, r.current_state).replace
                     /\ blocking_active
                  \/ blocked < machine.allowed_blocked_microsec
      exceeds(duration, f) ==
        f.n > 0 /\ ReachesFraction(duration, Since(0), f)
  IN /\ \/ exempt
        \/ /\ ~exceeds(blocked, machine.max_blocking_frac)
           /\ ~exceeds(BlockedFor(blocking_duration), max_blocking_frac)
     /\ r.state_limit > 0

BelowLimitPadding(mi, r) ==
  LET machine == machines[mi]
      own     == r.normal_sent + r.padding_sent
      total   == padding_sent_packets + normal_sent_packets
      local   == machine.max_padding_frac.n > 0
      global  == max_padding_frac.n > 0
  IN IF r.padding_sent < machine.allowed_padding_packets
     THEN r.state_limit > 0
     ELSE \/ local /\ own = 0
          \/ /\ local => ~ReachesFraction(r.padding_sent, own,
                                          machine.max_padding_frac)
             /\ \/ global /\ total = 0
                \/ /\ global => ~ReachesFraction(padding_sent_packets, total,
                                                 max_padding_frac)
                   /\ r.state_limit > 0

(* Bug: a timer is updated whatever the limit. *)
BelowActionLimitsTimer(mi, r) ==
  LET kind == ActionOf(mi, r.current_state).kind
  IN \/ kind = "BlockOutgoing" /\ BelowLimitBlocking(mi, r)
     \/ kind = "SendPadding" /\ BelowLimitPadding(mi, r)
     \/ kind \in {"Cancel", "UpdateTimer"}

BelowActionLimits(mi, r) ==
  LET kind == ActionOf(mi, r.current_state).kind
  IN \/ kind = "BlockOutgoing" /\ BelowLimitBlocking(mi, r)
     \/ kind = "SendPadding" /\ BelowLimitPadding(mi, r)
     \/ kind = "UpdateTimer" /\ r.state_limit > 0
     \/ kind = "Cancel"

-----------------------------------------------------------------------------
(* Framework::new at time 0. *)
Init ==
  /\ current_time = 0
  /\ actions = [mi \in Ids |-> None]
  /\ runtime \in
       [Ids -> {[current_state |-> 0, state_limit |-> l, padding_sent |-> 0,
                 normal_sent |-> 0, blocking_duration |-> 0,
                 counter_a |-> 0, counter_b |-> 0] : l \in U64}]
  /\ \A mi \in Ids :
       runtime[mi].state_limit \in
         IF ActionOf(mi, 0).kind = "None" THEN {0}
         ELSE SampleLimit(ActionOf(mi, 0))
  /\ padding_sent_packets = 0 /\ normal_sent_packets = 0
  /\ blocking_duration = 0 /\ blocking_started = 0 /\ blocking_active = FALSE
  /\ signal_pending = None
  /\ counter_zeroed_once = [c \in Counters |-> FALSE]
  /\ pc = "idle" /\ batch = 0 /\ frames = <<>> /\ result = "Unchanged"
  /\ visit = [stage |-> "event", event |-> "NormalRecv", machine |-> None,
              next |-> 0, last |-> -1, skip |-> None, blocked |-> 0]
  /\ call = [mi |-> 0, event |-> "NormalRecv"]
  /\ raisers = {} /\ signalled = [mi \in Ids |-> 0]
  /\ zeroed = [mi \in Ids |-> {}] /\ ended = {} /\ resampled = FALSE
  /\ undercut = {}

(* Bug: the actions of the last call are handed out again. *)
KeepActions == actions

ResetActions == [mi \in Ids |-> None]

(* trigger_events: reset the actions and the flags, take the time. *)
TriggerEvents(now) ==
  /\ pc = "idle"
  /\ MonotoneClock => now >= current_time
  /\ current_time' = now
  /\ actions' = ResetActions
  /\ counter_zeroed_once' = [c \in Counters |-> FALSE]
  /\ batch' = 0
  /\ pc' = "batch"
  /\ raisers' = {signal_pending} \cap Ids
  /\ signalled' = [mi \in Ids |-> 0]
  /\ zeroed' = [mi \in Ids |-> {}]
  /\ ended' = {mi \in Ids : runtime[mi].current_state = STATE_END}
  /\ undercut' = {}
  /\ UNCHANGED <<runtime, accounting, signal_pending, visit, call, frames,
                 result, resampled>>

-----------------------------------------------------------------------------
(***************************************************************************)
(* process_event: what every arm does before its transitions.              *)
(***************************************************************************)
(* Bug: blocked time is counted for the framework only. *)
VisitMachinesUnblocked(e, first, last, blocked) ==
  /\ pc' = "visit"
  /\ visit' = [stage |-> "event", event |-> e.event, machine |-> e.machine,
               next |-> first, last |-> last, skip |-> None, blocked |-> 0]

VisitMachines(e, first, last, blocked) ==
  /\ pc' = "visit"
  /\ visit' = [stage |-> "event", event |-> e.event, machine |-> e.machine,
               next |-> first, last |-> last, skip |-> None,
               blocked |-> blocked]

TakeEvent(e) ==
  /\ pc = "batch" /\ batch < MaxBatch
  /\ e \in Reports
  /\ batch' = batch + 1
  /\ UNCHANGED <<current_time, actions, runtime, signal_pending,
                 counter_zeroed_once, call, frames, result, history>>

(* Room for one more packet within the bound. *)
PacketBound == padding_sent_packets + normal_sent_packets < MaxPackets

(* NormalRecv, PaddingRecv, TunnelRecv, TunnelSent: nothing to account. *)
ProcessTraffic(e) ==
  /\ TakeEvent(e)
  /\ e.event \in {"NormalRecv", "PaddingRecv", "TunnelRecv", "TunnelSent"}
  /\ VisitMachines(e, 0, NumMachines - 1, 0)
  /\ UNCHANGED accounting

ProcessNormalSent(e) ==
  /\ TakeEvent(e)
  /\ e.event = "NormalSent" /\ PacketBound
  /\ normal_sent_packets' = normal_sent_packets + 1
  /\ VisitMachines(e, 0, NumMachines - 1, 0)
  /\ UNCHANGED <<padding_sent_packets, blocking_duration, blocking_started,
                 blocking_active>>

(* Counted for the framework even when the machine does not exist. *)
ProcessPaddingSent(e) ==
  /\ TakeEvent(e)
  /\ e.event = "PaddingSent" /\ PacketBound
  /\ padding_sent_packets' = padding_sent_packets + 1
  /\ IF e.machine \in Ids THEN VisitMachines(e, e.machine, e.machine, 0)
                          ELSE UNCHANGED <<pc, visit>>
  /\ UNCHANGED <<normal_sent_packets, blocking_duration, blocking_started,
                 blocking_active>>

ProcessBlockingBegin(e) ==
  /\ TakeEvent(e)
  /\ e.event = "BlockingBegin"
  /\ blocking_active' = TRUE
  /\ blocking_started' = IF blocking_active THEN blocking_started
                                            ELSE current_time
  /\ VisitMachines(e, 0, NumMachines - 1, 0)
  /\ UNCHANGED <<padding_sent_packets, normal_sent_packets, blocking_duration>>

(* Bug: the block is not over after BlockingEnd. *)
ProcessBlockingEndActive(e) ==
  /\ TakeEvent(e)
  /\ e.event = "BlockingEnd"
  /\ blocking_duration' = blocking_duration + OngoingBlock
  /\ VisitMachines(e, 0, NumMachines - 1, OngoingBlock)
  /\ UNCHANGED <<padding_sent_packets, normal_sent_packets, blocking_started,
                 blocking_active>>

ProcessBlockingEnd(e) ==
  /\ TakeEvent(e)
  /\ e.event = "BlockingEnd"
  /\ blocking_active' = FALSE
  /\ blocking_duration' = blocking_duration + OngoingBlock
  /\ VisitMachines(e, 0, NumMachines - 1, OngoingBlock)
  /\ UNCHANGED <<padding_sent_packets, normal_sent_packets, blocking_started>>

ProcessTimer(e) ==
  /\ TakeEvent(e)
  /\ e.event \in {"TimerBegin", "TimerEnd"}
  /\ IF e.machine \in Ids THEN VisitMachines(e, e.machine, e.machine, 0)
                          ELSE UNCHANGED <<pc, visit>>
  /\ UNCHANGED accounting

-----------------------------------------------------------------------------
(* Bug: the only raiser of a signal is signalled as well. *)
SkippedNever(mi) == FALSE

(* Only the round of signals leaves a machine out. *)
Skipped(mi) == mi = visit.skip

(* What the event adds to the accounting of a machine it visits. *)
Accounted(r) ==
  [r EXCEPT !.normal_sent = IF visit.event = "NormalSent" THEN @ + 1 ELSE @,
            !.padding_sent = IF visit.event = "PaddingSent" THEN @ + 1 ELSE @,
            !.blocking_duration = @ + visit.blocked]

(* One round of the loop over the machines, up to the call of transition. *)
VisitMachine ==
  LET mi == visit.next
  IN /\ pc = "visit" /\ mi <= visit.last
     /\ visit' = [visit EXCEPT !.next = mi + 1]
     /\ resampled' = FALSE
     /\ IF Skipped(mi)
        THEN UNCHANGED <<runtime, pc, call, signalled>>
        ELSE /\ runtime' = [runtime EXCEPT ![mi] = Accounted(@)]
             /\ call' = [mi |-> mi, event |-> visit.event]
             /\ pc' = "transition"
             /\ signalled' = IF visit.event = "Signal"
                             THEN [signalled EXCEPT ![mi] = @ + 1]
                             ELSE signalled
     /\ UNCHANGED <<current_time, actions, accounting, signal_pending,
                    counter_zeroed_once, batch, frames, result, raisers, zeroed,
                    ended, undercut>>

(* All machines have seen the event: on to the next event of the batch. *)
FinishEvent ==
  /\ pc = "visit" /\ visit.next > visit.last /\ visit.stage = "event"
  /\ pc' = "batch"
  /\ UNCHANGED <<current_time, actions, runtime, accounting, signal_pending,
                 counter_zeroed_once, batch, visit, call, frames, result,
                 history>>

-----------------------------------------------------------------------------
(***************************************************************************)
(* transition(call.mi, call.event)                                         *)
(***************************************************************************)
Current == runtime[call.mi].current_state

SampleState ==
  IF Current = STATE_END THEN {None}
  ELSE StateOf(call.mi, Current).transitions[call.event]

Return(change) == pc' = "return" /\ result' = change

(* In STATE_END, or no next state sampled. *)
TransitionNone ==
  /\ pc = "transition"
  /\ None \in SampleState
  /\ Return("Unchanged")
  /\ UNCHANGED <<current_time, actions, runtime, accounting, signal_pending,
                 counter_zeroed_once, batch, visit, call, frames, history>>

TransitionEnd ==
  /\ pc = "transition"
  /\ STATE_END \in SampleState
  /\ runtime' = [runtime EXCEPT ![call.mi].current_state = STATE_END]
  /\ Return("Changed")
  /\ UNCHANGED <<current_time, actions, accounting, signal_pending,
                 counter_zeroed_once, batch, visit, call, frames, history>>

(* A second signal, whoever raised the first, is for all machines. *)
SignalTarget(mi) == IF signal_pending = None THEN mi ELSE All

(* Not a change of state: signal the other machines. *)
TransitionSignal ==
  /\ pc = "transition"
  /\ STATE_SIGNAL \in SampleState
  /\ signal_pending' = SignalTarget(call.mi)
  /\ raisers' = raisers \cup {call.mi}
  /\ Return("Unchanged")
  /\ UNCHANGED <<current_time, actions, runtime, accounting,
                 counter_zeroed_once, batch, visit, call, frames, signalled,
                 zeroed, ended, resampled, undercut>>

(* Bug: no memory of the counters zeroed before in this call. *)
FirstZeroedEachTime(zeroes) == zeroes

(* The counters just zeroed that were not zeroed before in this call. *)
FirstZeroed(zeroes) == {c \in zeroes : ~counter_zeroed_once[c]}

(* The slot holds an action of state s, or will when CounterZero returned. *)
Decided(mi, s) ==
  \/ actions[mi] = s
  \/ \E i \in DOMAIN frames : /\ frames[i].mi = mi /\ frames[i].next_state = s
                               /\ frames[i].below

(***************************************************************************)
(* Enter a state: with its limit and the counters updated, either call     *)
(* transition() again with CounterZero or schedule the action.  Each       *)
(* counter may be zeroed once per call of trigger_events.                  *)
(***************************************************************************)
Enter(next_state, limit, a, b) ==
  LET mi     == call.mi
      old    == runtime[mi]
      new    == [old EXCEPT !.current_state = next_state,
                            !.state_limit = limit,
                            !.counter_a = a, !.counter_b = b]
      below  == BelowActionLimits(mi, new)
      zeroes == {c \in Counters :
                   IF c = "a" THEN old.counter_a # 0 /\ a = 0
                              ELSE old.counter_b # 0 /\ b = 0}
      fresh  == FirstZeroed(zeroes)
  IN /\ runtime' = [runtime EXCEPT ![mi] = new]
     /\ zeroed' = [zeroed EXCEPT ![mi] = @ \cup zeroes]
     /\ resampled' = (resampled \/ next_state # Current)
     /\ undercut' = IF next_state = Current THEN undercut
                    ELSE IF limit = 0 /\ Decided(mi, next_state)
                    THEN undercut \cup {mi} ELSE undercut \ {mi}
     /\ IF fresh # {}
        THEN /\ counter_zeroed_once' =
                  [c \in Counters |-> counter_zeroed_once[c] \/ c \in fresh]
             /\ frames' = Append(frames,
                  [mi |-> mi, next_state |-> next_state,
                   curr_state |-> Current, below |-> below])
             /\ call' = [mi |-> mi, event |-> "CounterZero"]
             /\ UNCHANGED <<actions, pc, result>>
        ELSE /\ actions' = IF below THEN [actions EXCEPT ![mi] = next_state]
                                    ELSE actions
             /\ Return(IF next_state = Current THEN "Unchanged" ELSE "Changed")
             /\ UNCHANGED <<counter_zeroed_once, call, frames>>

(* A next state: its limit is sampled only if the machine was not there. *)
TransitionState(next_state) ==
  LET state == StateOf(call.mi, next_state)
      old   == runtime[call.mi]
  IN /\ pc = "transition"
     /\ next_state \in SampleState \ {None, STATE_END, STATE_SIGNAL}
     /\ \E limit \in IF next_state = Current THEN {old.state_limit}
                                             ELSE EntryLimit(state),
           a \in CounterUpdates(state.counter_a, old.counter_a, old.counter_b),
           b \in CounterUpdates(state.counter_b, old.counter_b, old.counter_a) :
          Enter(next_state, limit, a, b)
     /\ UNCHANGED <<current_time, accounting, signal_pending, batch, visit,
                    raisers, signalled, ended>>

(* Bug: what CounterZero did in between is forgotten. *)
ChangeOfState(f) ==
  IF runtime[f.mi].current_state = f.curr_state THEN "Unchanged" ELSE "Changed"

(* What the interrupted transition f returns: going out and back counts. *)
ChangeOf(f) ==
  IF runtime[f.mi].current_state = f.curr_state /\ result = "Unchanged"
  THEN "Unchanged" ELSE "Changed"

(***************************************************************************)
(* The nested CounterZero returned to the transition that caused it, which *)
(* schedules its own action unless one is there already.                   *)
(***************************************************************************)
ResumeTransition ==
  LET f == frames[Len(frames)]
  IN /\ pc = "return" /\ frames # <<>>
     /\ frames' = SubSeq(frames, 1, Len(frames) - 1)
     /\ actions' = IF actions[f.mi] = None /\ f.below
                   THEN [actions EXCEPT ![f.mi] = f.next_state]
                   ELSE actions
     /\ Return(ChangeOf(f))
     /\ UNCHANGED <<current_time, runtime, accounting, signal_pending,
                    counter_zeroed_once, batch, visit, call, history>>

-----------------------------------------------------------------------------
(* The outermost transition returned. *)
Returned(stage) == pc = "return" /\ frames = <<>> /\ visit.stage = stage

(* The event counts against the limit of the state the machine stayed in. *)
CountsAgainstLimit ==
  /\ visit.event \in {"PaddingSent", "BlockingBegin", "TimerBegin"}
  /\ call.mi = visit.machine
  /\ result = "Unchanged"
  /\ Current # STATE_END

FinishVisit ==
  /\ \/ Returned("event") /\ ~CountsAgainstLimit
     \/ Returned("signal")
  /\ pc' = "visit"
  /\ UNCHANGED <<current_time, actions, runtime, accounting, signal_pending,
                 counter_zeroed_once, batch, visit, call, frames, result,
                 history>>

(* decrement_limit: at zero drop the action and trigger LimitReached. *)
DecrementLimit ==
  LET mi      == call.mi
      limit   == runtime[mi].state_limit
      left    == IF limit > 0 THEN limit - 1 ELSE 0
      reached == left = 0 /\ HasLimit(ActionOf(mi, Current))
  IN /\ Returned("event") /\ CountsAgainstLimit
     /\ runtime' = [runtime EXCEPT ![mi].state_limit = left]
     /\ IF reached
        THEN /\ actions' = [actions EXCEPT ![mi] = None]
             /\ call' = [mi |-> mi, event |-> "LimitReached"]
             /\ visit' = [visit EXCEPT !.stage = "limit"]
             /\ pc' = "transition"
             /\ undercut' = undercut \ {mi}
        ELSE /\ pc' = "visit"
             /\ UNCHANGED <<actions, call, visit, undercut>>
     /\ UNCHANGED <<current_time, accounting, signal_pending,
                    counter_zeroed_once, batch, frames, result, raisers,
                    signalled, zeroed, ended, resampled>>

(* The transition on LimitReached returned; its result is not used. *)
FinishLimit ==
  /\ Returned("limit")
  /\ visit' = [visit EXCEPT !.stage = "event"]
  /\ pc' = "visit"
  /\ UNCHANGED <<current_time, actions, runtime, accounting, signal_pending,
                 counter_zeroed_once, batch, call, frames, result, history>>

-----------------------------------------------------------------------------
(* The batch is done and no signal is pending: trigger_events returns. *)
FinishBatch ==
  /\ pc = "batch" /\ signal_pending = None
  /\ pc' = "idle"
  /\ UNCHANGED <<current_time, actions, runtime, accounting, signal_pending,
                 counter_zeroed_once, batch, visit, call, frames, result,
                 history>>

(* Take the pending signal and visit every machine but the excluded one. *)
BeginSignal ==
  /\ pc = "batch" /\ signal_pending # None
  /\ signal_pending' = None
  /\ pc' = "visit"
  /\ visit' = [stage |-> "signal", event |-> "Signal", machine |-> None,
               next |-> 0, last |-> NumMachines - 1,
               skip |-> IF signal_pending = All THEN None ELSE signal_pending,
               blocked |-> 0]
  /\ UNCHANGED <<current_time, actions, runtime, accounting,
                 counter_zeroed_once, batch, call, frames, result, history>>

(* Bug: an answer to a signal is dropped. *)
OwedNothing == FALSE

(* The machine left out is owed a signal, which must be another machine's. *)
OwedSignal == signal_pending # None /\ visit.skip # None

(* Bug: signals raised in the round stay pending when nobody is owed one. *)
FinishSignalPending ==
  /\ pc = "visit" /\ visit.next > visit.last /\ visit.stage = "signal"
  /\ ~OwedSignal
  /\ pc' = "idle"
  /\ UNCHANGED <<current_time, actions, runtime, accounting, signal_pending,
                 counter_zeroed_once, batch, visit, call, frames, result,
                 history>>

(***************************************************************************)
(* Every machine was signalled: take what they signalled in turn, which    *)
(* only the excluded machine is told about.                                *)
(***************************************************************************)
FinishSignal ==
  /\ pc = "visit" /\ visit.next > visit.last /\ visit.stage = "signal"
  /\ signal_pending' = None
  /\ IF OwedSignal
     THEN /\ call' = [mi |-> visit.skip, event |-> "Signal"]
          /\ visit' = [visit EXCEPT !.stage = "excluded"]
          /\ pc' = "transition"
          /\ signalled' = [signalled EXCEPT ![visit.skip] = @ + 1]
     ELSE /\ pc' = "idle"
          /\ UNCHANGED <<call, visit, signalled>>
  /\ UNCHANGED <<current_time, actions, runtime, accounting,
                 counter_zeroed_once, batch, frames, result, raisers, zeroed,
                 ended, resampled, undercut>>

(* Bug: the excluded machine is signalled as long as it answers. *)
FinishExcludedAgain ==
  /\ Returned("excluded")
  /\ signal_pending' = None
  /\ pc' = IF OwedSignal THEN "transition" ELSE "idle"
  /\ call' = [mi |-> visit.skip, event |-> "Signal"]
  /\ UNCHANGED <<current_time, actions, runtime, accounting,
                 counter_zeroed_once, batch, visit, frames, result, history>>

(* The excluded machine was signalled: trigger_events returns. *)
FinishExcluded ==
  /\ Returned("excluded")
  /\ pc' = "idle"
  /\ UNCHANGED <<current_time, actions, runtime, accounting, signal_pending,
                 counter_zeroed_once, batch, visit, call, frames, result,
                 history>>

-----------------------------------------------------------------------------
ProcessEvent(e) ==
  \/ ProcessTraffic(e) \/ ProcessNormalSent(e) \/ ProcessPaddingSent(e)
  \/ ProcessBlockingBegin(e) \/ ProcessBlockingEnd(e) \/ ProcessTimer(e)

Transition ==
  \/ TransitionNone \/ TransitionEnd \/ TransitionSignal
  \/ \E next_state \in 0 .. STATE_MAX - 1 : TransitionState(next_state)

(* Everything the code does between the call and the return. *)
Run ==
  \/ \E e \in Reports : ProcessEvent(e)
  \/ VisitMachine \/ FinishEvent
  \/ Transition \/ ResumeTransition
  \/ FinishVisit \/ DecrementLimit \/ FinishLimit
  \/ FinishBatch \/ BeginSignal \/ FinishSignal \/ FinishExcluded

Next ==
  \/ \E now \in 0 .. MaxTime : TriggerEvents(now)
  \/ Run

(* A call runs to completion: the caller's thread executes nothing else. *)
Spec == Init /\ [][Next]_vars /\ WF_vars(Run)
=============================================================================
