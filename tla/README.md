# Maybenot, specified in TLA+

Maybenot runs small probabilistic state machines next to an encrypted tunnel.
The *framework* (`crates/maybenot`) is told what happens to the traffic and
answers with actions: send padding after a timeout, block outgoing traffic,
set a timer, cancel. The *simulator* (`crates/maybenot-simulator`) plays the
tunnel, the network and the integrator for a client and a server, and the *C
interface* (`crates/maybenot-ffi`) exports the framework to other languages.

This directory holds the specifications of the framework and of the simulator,
their model-checking runs, and proofs about both.

## Inventory

| component | state | operations | called by / calls |
|---|---|---|---|
| framework runtime, `framework.rs` | clock, one action slot and one `MachineRuntime` per machine, packet and blocking accounts, pending signal, flags of zeroed counters | `new`, `trigger_events` -> `process_event` -> `transition` <-> `update_counter`, `schedule_action`, `decrement_limit`, the `below_*` limits | called by the integrator; returns at most one action per machine |
| machine definition, `machine.rs`, `state.rs`, `action.rs`, `counter.rs`, `event.rs`, `constants.rs` | immutable | validation, sampling of next states, limits, timeouts | read by the runtime |
| distributions, `dist.rs` | immutable | validation, sampling | actions, limits, counters |
| time, `time.rs` | none | saturating difference, division | runtime |
| v1 parsing, `parsing.rs` | none | bytes to a machine | integrator |
| simulator loop, `simulator/src/lib.rs` | two sides: framework, action and timer per machine, block; clock, trace | `sim_advanced`, `pick_next` (recursive), `do_internal_timer`, `do_scheduled_action`, `trigger_update` | queues, network, two frameworks |
| event queues, `queue.rs`, `queue_event.rs` | four heaps per side: base, blocking, bypassable, internal | `push`, `peek`, `pop`, `peek_blocking`, `peek_non_blocking`, `no_normal_packets` | loop, network, delay |
| queue selection, `queue_peek.rs` | none | which event, timer, action or expiry is next | `pick_next` |
| network, `network.rs`, `delay.rs` | packet windows, aggregate delays and the queue of pending ones | `sim_network_stack`, `sample`, `push/pop_aggregate_delay`, three predicates on the queues | loop |
| integration, `integration.rs` | delay distributions | three samples | loop, network |
| C interface, `ffi/src` | a framework and an event buffer | start, stop, on_events | one `trigger_events` per call |

What is hard, by component:

* **Framework.** It is single-threaded, but one call runs many transitions of
  many machines whose effects meet in shared state: the pending signal, the
  flags of zeroed counters, the accounts and the action slots. Transitions nest
  (a counter that reaches zero runs another transition in the middle of the
  first), machines answer signals while they are signalled, and limits checked
  for one event are consumed by the next event of the same batch. Correctness:
  calls return and nest boundedly, signals reach exactly whom they should,
  accounts agree, limits hold for what is returned.
* **Simulator.** Five sources of future events compete for the next step, and
  blocking, aggregate delay and integration delays move events in time.
  Correctness: time never runs backwards, nothing scheduled is passed over, a
  blocked side sends nothing that may not bypass the block, packets are neither
  lost nor duplicated, the run ends.
* **C interface.** No state of its own; it relies on "at most one action per
  machine", which is part of `FrameworkContract`.

`PROJECT.json` lists the hazards with their lines and the properties that cover
them.

## Modules

| module | what it is |
|---|---|
| `Machine` | what a valid machine is, limits, counter arithmetic, fractions |
| `Framework` | the runtime: state, `Init`, one action per section of code, `Spec` |
| `FrameworkContract` | what a caller may rely on, whatever the machines do |
| `FrameworkProperties` | type invariant, safety and action properties, the refinement of the contract |
| `FrameworkProofs` | proofs of the type invariant, of nesting, blocked time and accounts |
| `FrameworkSignals` | proofs on signals |
| `FrameworkLimits` | proofs on the limits of states and of blocking, and that the framework implements the contract |
| `MCFramework` | machines and reported events for TLC |
| `SimQueue` | events, the four heaps of a side, which of them is first |
| `QueuePeek` | the peek functions: what may happen next, and when |
| `Network` | bottleneck, aggregate delays and the decisions about them, parsing of a trace |
| `Integration` | what the distribution over bins of an integration delay returns |
| `Simulator` | main loop, `pick_next`, timers, blocks and network stack; composes the four above but `Integration`, which only supplies values |
| `Tunnel` | the abstract specification: packets, gates, and that all arrive |
| `SimulatorProperties` | type invariant, safety and action properties, the refinement of `Tunnel` |
| `MCSimulator` | traces, delays and answers of machines for TLC |
| `FiniteInduction` | induction over naturals and finite sets without an operator parameter; sums over finite sets |
| `QueueProofs` | lemmas on heaps and on the peek functions |
| `SimulatorProofs` | proofs of the simulator's type invariant, of blocking and of time |
| `SimulatorCounts` | proofs that count: aggregate delays, the packets of the trace, the end of the loop |
| `SimulatorTimes` | proofs on order in time: nothing is late, what has fired is reported first, frameworks know of their blocks |

Definitions introduced by a comment that starts with *Bug:* are not part of the
model. Each is a plausible mistake in one definition, kept to show that the
property named in `PROJECT.json` notices it.

### How the model corresponds to the code

`trigger_events` is not one atomic step but a run of small ones, so that the
order of effects inside a call is the code's. `pc` names the section about to
run; the loops, the arguments and the call stack are explicit:

* `TriggerEvents` resets slots and flags and takes the time (`framework.rs`
  206-221). The `Process...` actions are the arms of `process_event` up to their
  loop over the machines; `VisitMachine` is one round of such a loop, which
  accounts the event to the machine and calls `transition`.
* `TransitionNone`, `TransitionEnd`, `TransitionSignal` and `TransitionState` are
  the four ways through `transition`. `TransitionState` enters the state,
  samples its limit, decides about the limits *before* the counters are updated
  and updates both counters. If a counter newly reached zero the rest of the
  transition waits in `frames` while `transition` runs with CounterZero;
  `ResumeTransition` is what follows that inner call. Otherwise the action is
  scheduled at once.
* `FinishVisit`, `DecrementLimit` and `FinishLimit` are what the arms do with the
  returned `StateChange`, including the internal LimitReached.
* `BeginSignal`, `FinishSignal` and `FinishExcluded` are the round of signals at
  the end of the call, `FinishBatch` its absence.

A distribution is the set of values it may return and a transition vector the
set of next states it may return (`None` if its probabilities sum to less than
one): TLC explores what has a positive probability. A scheduled action is
represented by the state that scheduled it, which determines the action but for
sampled durations the framework never reads again. `u64::MAX` is the constant
`U64_MAX`, so saturation happens within a small model. Fractions are exact
rationals; `ReachesFraction` keeps what floating point does with a zero
denominator (x/0 is infinite, 0/0 reaches nothing). Instants are naturals from
0, the framework's start. Machine ids beyond the running machines are
represented by `NumMachines`.

The history variables `raisers`, `signalled`, `zeroed`, `ended`, `resampled` and
`undercut` record what happened in the current call and guard nothing.

### The simulator

`pc` again names the section of the loop about to run:

* `"pick"`: one level of `pick_next`. `Peeks` is what the peek functions return,
  `AggregateFirst` ... `ActionFirst` the order in which ties are decided.
  `PickNothing`, `PickAggregateDelay`, `PickExpiry`, `PickQueue`, `PickTimer`
  and `PickAction` are its ways out; those that end in a recursive call stay at
  `"pick"`, at the same `current_time`, as in the code.
* `"network"`: the loop moves the time (`Advance`; no step when the code would
  panic because time runs backwards) and runs `sim_network_stack`, whose arms
  are `NormalSent`, `QueuePadding`, `DropPadding`, `ReplacePadding`,
  `TunnelSent`, `TunnelRecv` and `NotNetwork`.
* `"trigger"`: `TriggerUpdate` lets the framework of the event's side answer,
  carries the answers out and decides whether the loop ends.

The two frameworks are represented by what their caller may rely on: at most
one action a machine (`FrameworkContract`), taken from the constant `Response`,
with `MaxActions` of them in a behaviour. Instants are ticks; the windows
(1 s, 100 ms, 1 ms) are constants. A heap is a bag of events; where a binary
heap leaves open which of two equal events it yields, so does the model. Delays
are sampled where the code samples them, from a set per side. Subtraction of
instants saturates at 0, as it does in the code, and at `DURATION_MAX`, the
constant for `Duration::MAX`, which is also what the peek functions return when
there is nothing to wait for.

The history variables `blocking_active` (what a framework was last told of its
side's block), `received`, `due` (when the event picked was due) and `freed`
(when a side's held packets were last let go) guard nothing.

`Tunnel` knows nothing of queues and clocks: packets wait at an end, plainly or
exempt from a gate set to "bypass", enter if the gate lets them, travel and
arrive. `KeepsTunnel` maps `plain` to the packets in the base and blocking
heaps, `exempt` to those in the bypassable heap, `travelling` to queued
`TunnelRecv` events, and the gate to `blocking_until` and `blocking_bypassable`;
a packet that has been picked still counts where it was picked from. A lost,
duplicated or wrongly released packet is a step `Tunnel` does not have and
breaks `KeepsTunnel`; a simulation that goes round for ever or ends too early
breaks `AllArrive`, the liveness part of `Tunnel`.

## Runs

The framework's runs use `MCFramework`. The bounds: `MaxBatch` events per call (the number of
calls is not bounded), `MaxPackets` reported packets, `MaxTime` on the clock.
Packet counts and clock are the only unbounded data of the program.

| run | machines | shows |
|---|---|---|
| `fw_signals` | three machines that raise, answer and ignore signals | `SignalledOnce`, `SignalsReachOthers`, `LeftOverSignal`; every call implements `FrameworkContract` (`KeepsPromise`) and returns (`CallsReturn`). Three machines distinguish raiser, answerer and bystander; a batch of three merges more signals than there are targets |
| `fw_counters` | two machines with both counters, copies, saturation at 4 and timers with limits from 0 to 2 | `TypeOK`, `NestingBounded`, `FreshLimitUntouched`, `ExhaustedIsSilent`; both counters can reach zero in one call, in either machine first; 1 600 000 states |
| `fw_limits` | a padding machine with an allowance of one packet and a blocking machine with one time unit, both with fractions of one half | `AccountingAgrees`, `BlockedTimeBounded`, `BlockingWithinLimits`; three packets and three time units pass both allowances and both sides of each fraction |

Deadlock is checked in all of them: a caller may always call again.

The simulator's runs use `MCSimulator`. Its traces have three or four packets
in both directions, near enough to fall into the windows of one and two ticks
and far enough apart to fall out of them. Every behaviour is finite: the trace
ends, and `MaxActions` bounds what the frameworks add. Deadlock is checked: the
only terminal states are those with `pc = "done"`, which stutter.

| run | instance | shows |
|---|---|---|
| `sim_blocking` | one machine a side, three actions: blocks that follow, extend and replace each other with different flags at both sides; padding with and without bypass at the server, without at the client; the server's integration reports after 0 or 2 ticks, more than the network delay; 200 000 states | `TypeOK`, `FailClosed`, `NothingPassedOver`, `ViewAgrees` (of the client), `KeepsTunnel`, `AllArrive`. Three actions suffice for a block, a second block that extends or replaces it with another flag, and padding that meets both |
| `sim_delays` | two machines a side, five actions; reporting, action and trigger delays, a limit of twice the trace's packets per window, which padding exceeds; timers that tie, cancellation; the loop ends after the last normal packet; 900 000 states | `NothingPassedOver` (of timers and pending delays too), `DelaysBalance`, `Reproduces`, `TakenOnTime`, `NoneInFlight`, `StopsAfterAll` |

`sim_blocking` has no timers and never exceeds the limit, `sim_delays` has no
bypass (`TakenOnTime` fails with it, see `sim_bypass_late`); together they take
every action. `Reproduces` is stated for reporting delays that do not vary: TLC
shows that delays that do can push more packets into a window than the trace
had, so that the trace exceeds the rate derived from it. The clamp of reports
(`network.rs` 408) never acts at such a client; `TakenOnTime` covers it. `ViewAgrees` is stated
for sides without reporting and action delay, for blocks of positive duration
and for padding that does not bypass them: with a delay a new block may be
reported before the end of the last, a block of zero duration is reported but
never ends, and for the third see `sim_view_stale`, which takes four actions.
The theorem `SimulatorViewAgrees` says the same of any number of actions, where
neither side's padding bypasses blocks.

Seven further runs end in a counterexample. They state what a comment of the code
says and show where the code does something else; `PROJECT.json` quotes the
comments.

| run | what TLC finds |
|---|---|
| `fw_self_signal` | one machine raises two signals in one batch and is signalled by itself |
| `fw_future_event` | a later event's action gives way to the stale action of an earlier one, because a counter was zeroed in between |
| `fw_counter_zero` | a machine is not told that its counter reached zero, because another machine's counter did so before |
| `fw_padding_limit` | a machine that has no packets of its own schedules padding with its state's limit and the framework's padding fraction both used up: the early return for 0/0 precedes both checks |
| `sim_early_release` | with a reporting delay, a packet held by a block until 10 leaves at 7, because the end of the block is carried out as soon as nothing else happens before it |
| `sim_bypass_late` | a packet that may bypass the block leaves a tick late, because a base event that the aggregate delay has moved behind it is preferred |
| `sim_view_stale` | a scheduled block is carried out ahead of its time and lets a bypassing packet go; the answer replaces it by a shorter block, and the framework is told of the end of that before the beginning of the first: it believes for ever that its side is blocked |

`ExhaustedIsSilent` makes two exceptions. It leaves padding out for the reason
`fw_padding_limit` shows. And a limit distribution may return 0. A machine that
enters a state with a limit of 1 and schedules its timer, goes on to a state
that schedules nothing (because it has no action or no limit left) and, in the
same call, comes back sampling 0 still has the timer in its slot:
`below_action_limits` says only that nothing is to be scheduled, and no one
empties the slot before an event counts against the limit. The call returns a
timer of a state whose limit is 0. No comment of the code says otherwise, so it
is not a finding; it is what `undercut` remembers, and `fw_counters` reaches it:
without the exception TLC violates the property. A machine that enters a state
with 0 and has no action of it decided before is not excepted.

Counter-zero flags, signals to the raiser and the two early returns keep the
code's behaviour in the model, and so do the three of the simulator: the rest of
the properties hold in spite of them, `TakenOnTime`, `NoneInFlight` and
`ViewAgrees` under the conditions given below. One cause is behind
`sim_early_release` and `sim_view_stale`: `pick_next` carries out the end of a
block, or a scheduled block, that lies in the future and then looks for the next
event at the current time. `sim_view_stale` was found in the attempt to prove
`ViewAgrees` without its third condition.

Smaller disagreements met on the way have no run of their own:
`no_normal_packets` also waits for padding, where its comment
(`queue_event.rs` 60-64) speaks of normal packets; the action delay is added to
the report of a block (`lib.rs` 894-898), not to its start; `network.rs` 386
passes the client's aggregate delay for either side.

### Fairness

`Spec` assumes weak fairness of `Run`, the steps inside a call, and nothing of
`TriggerEvents`: the thread that calls `trigger_events` executes it to its end,
but nobody has to call. The batch is finite because the code iterates over a
slice, which `MaxBatch` bounds. Under this assumption `CallsReturn` is a real
liveness property: it fails if the round of signals may go on for ever. The
machines of `fw_signals` have no counters; that the recursion through CounterZero
ends is what `NestingBounded` says, for every machine by `NestingIsBounded`.

`Simulator!Spec` assumes weak fairness of `Run`, every step of the loop:
`sim_advanced` is one sequential function, run to its end by the thread that
calls it. `AllArrive` does not follow from fairness alone; it needs
`pick_next` to reach an event, blocks to end and the queues to drain. It is
checked with `continue_after_all_normal_packets_processed`; without it
`StopsAfterAll` says the same of the states in which the loop ends. Neither can
show a simulation that machines keep going with padding for ever, since
`MaxActions` bounds what they answer.

## Proofs

Every theorem holds for every value of the constants that the assumptions
admit: any number of valid machines, any batch, any trace, any delays, whatever
the machines answer. The assumptions are on constants only and TLC evaluates
them on every run: `MachineAssumption` and `FrameworkAssumption` (positive sizes,
valid machines, fractions between 0 and 1), `SimQueueAssumption`,
`NetworkAssumption` (windows and delay are naturals, the bottleneck's window is
no shorter than that of the trace, as 1 s and 100 ms are, and the buffer window
is less than `Duration::MAX`) and `SimulatorAssumption` (the traces that
`parse_trace` accepts, sets of delays that are not empty, answers that are
`TriggerAction`s).

### The framework

* `TypeCorrect`. The inductive invariant is `Typed`, the type invariant with
  `ControlOK`, which ties the data to the control: during a transition `call.mi`
  is a running machine, and frames are pending only during a transition. Without
  it the machine and the frames a step reads could not be typed.
* `NestingIsBounded`: a frame is pushed only together with a flag that was not
  set, and the flags are cleared only while no frame is pending.
* `BlockedTimeIsBounded`, assuming `MonotoneClock`: accounted blocked time ends
  where the ongoing block starts.
* `AccountingIsShared`: strengthened to the middle of a round, where exactly the
  machines below `visit.next` have accounted the event.
* `NobodyIsSignalledTwice`, `SignalsReachAllOthers` and `OneSignalIsLeftOver`, from
  one invariant, `SignalInv`, with a part for each section of a call: before the
  round the pending signal determines the raisers; during it exactly the machines
  visited are signalled and a pending signal has a raiser other than the machine
  left out; while that machine answers, everyone has been signalled and only its
  own signal can be pending.
* `ExhaustedStaysSilent`. `SilentInv` says of each scheduled action, and of each
  transition that waits in `frames` and is going to schedule one, that its state
  has something left of its limit if that is the state the machine is in, the
  action blocks or sets a timer and the machine is not `undercut`.
  `decrement_limit` drops the action when it uses the limit up, and the exception
  with it; a state that is entered again samples a new limit first, and if that
  is 0 although an action of the state was decided (`Decided`: it is in the slot
  or waits in `frames`) the machine is undercut. Nothing is assumed of what limit
  distributions return.
* `FreshLimitIsUntouched`. `FreshInv` links the waiting transitions to a chain, each
  of which began in the state that the one before it entered, and remembers that
  a state was entered in this visit by a link that leads elsewhere or by the
  result. So a result that says nothing changed means that nothing was entered.
* `BlockingStaysWithinLimits`. `BlockInv` says of scheduled actions and waiting
  transitions that they respect the limits with the time blocked by now, which
  does not change during a call: a BlockingEnd moves time from the ongoing block
  to the account. `Counted` says that the machine that runs has already counted
  the event, so that its account and the framework's agree where the limits are
  decided.
* `FrameworkKeepsPromise`: `Spec => KeepsPromise`, the refinement of the safety part
  of `FrameworkContract`: every step is the call, its return or a stutter.
  `ContractInv` says that a machine that had ended before the call is still in
  `STATE_END`, has nothing scheduled and no transition waiting, and that only
  states with an action schedule one.

### The simulator

* `SimulatorTypeCorrect`. `Typed` holds the queues to bags of events, each in the
  heap of its side and kind, and times to naturals. Most of its proof is about
  `pick_next`: what each peek function returns exists and is due when it says
  (`QueueProofs`). That a first element exists comes from the naturals.
* `BlockingFailsClosed`. A held packet is offered no earlier than the end of its
  side's block (`Passes`), and at the same time the end of a block is preferred
  to the queues. So `QueueFirst` means that no block ends before the event is due
  or when it is, and a held packet is picked only if its side is not blocked or
  the block admits it.
* `SimulatorPassesNothingOver`. What counts as now is the time of the event picked
  as soon as there is one (`Horizon`); nothing scheduled, no block and no pending
  delay lies before it (`Ahead`). It needs the order in which `pick_next` decides
  ties, and that answers, blocks and delays are only ever set from now on.
* `DelaysStayBalanced`. `Shift` is a sum over a bag of pending delays. Both sides
  get the same duration in one push, a pop moves a delay from the sum into the
  base delay.
* `SimulatorKeepsTunnel`: `Spec => KeepsTunnel`, the refinement of the safety part
  of `Tunnel`, step by step: each step of the simulator is a step of `Tunnel` or
  none. It rests on `BlockingFailsClosed` (the guard of `Enter`), on `Marked`
  (what is queued as a normal packet is not padding), and on counting packets in
  the heaps: pushing one adds one, popping one takes one away, and reports and
  padding do not count.
* `NothingIsCutOff`: `Spec => [](WithinReach => StopsAfterAll)`. `Tunnel` conserves
  packets (`Conserved`: those a side has sent or is to send are as many as it has
  lines in the trace), so that all have arrived once none is queued, and either
  end of the loop leaves none (`Ending`). `no_normal_packets` says so directly.
  That `pick_next` finds nothing means that nothing is queued because the first
  event of all, if a block holds it, is waited for at least until the end of that
  block. `WithinReach` is the exception the code makes: an event or the end of a
  block that is `Duration::MAX` or more ahead looks like nothing at all. In the
  runs `DURATION_MAX` is beyond every instant, so `WithinReach` always holds.
* `SimulatorTakesOnTime`: `Spec => [](Exact => TakenOnTime)`. Its invariant,
  `OnTime`, looks at what is still queued: of all that may go (`Open`) nothing is
  due before the time the simulation has reached, unless a block held it and it
  was freed no earlier than that. It needs the converse of what the earlier proofs
  know of the peek functions: not only is what they return there and due, but of
  what may go nothing is due before it (`QueuedLeast`, `NothingDueBefore`, from
  the completeness lemmas at the end of `QueueProofs`).
* `SimulatorReportsFirst`: `Spec => [](Exact => NoneInFlight)`. The invariant,
  `Flight`, says that a report of what has fired is in its queue only while
  `pick_next` runs, once, within reach, and that everything else (the queues, as
  far as they may go, timers, actions, blocks and pending delays) lies behind it
  (`FirstInLine`). So the next level of the recursion takes it and nothing but it
  (`FlyingFirst`, `FlyingLands`), and nothing fires while one is under way.
* `SimulatorViewAgrees`: `Spec => [](NoBypass /\ PositiveBlocks => ViewAgrees)`. For
  a side that reports and acts without delay the beginning of a block is a report
  of the same kind: `Flight` covers it too (`Prompted`). `InView` adds that the end
  of a block is never queued there, that a beginning is queued only of a block
  that has not ended, and that otherwise the framework knows of the block, or will
  once it was told of the event picked (`Told`).

The last three hold under conditions on what machines answer (`NoBypass`,
`PositiveBlocks`) or on the delays so far (`Unshifted`). They are needed:

* `Exact` is `NoBypass`, no framework pads with the bypass flag, or `Unshifted`, no
  aggregate delay has taken effect so far. `peek_non_blocking` compares a base
  event with a bypassable packet by its time in the trace. Either the one is
  never queued (`Flagless`) or the other is not shifted, and that is all that is
  used: `sim_bypass_late` has both, and a packet is late.
* `NoBypass` in `SimulatorViewAgrees` cannot be replaced by `Exact`: in
  `sim_view_stale` nothing is ever shifted.
* `PositiveBlocks`: a block without duration is reported as begun and has ended
  already, or never began.

Sums over finite sets are defined recursively; `FiniteInduction` proves what the
two modules on counting need of them by a smallest counterexample, since the
library's induction theorems take an operator as a parameter.

### Only model-checked

* `CallsReturn` and `AllArrive` are liveness properties; the prover does no
  reasoning about `ENABLED`.
* `Reproduces` rests on the rate that `MaxPps` derives from the trace: no window of
  the simulated network may hold more packets than that. A proof would follow
  every line of the trace through parsing, four events and the output, and would
  count the packets of sliding windows of three lengths; that is a development of
  its own, and is left to TLC, which runs it with three traces and steady delays.

## Plan

1. `Machine`, `Framework`, `FrameworkContract` with runs and proofs: done.
2. `SimQueue`, `QueuePeek`, `Network`, `Integration`: done.
3. `Simulator`, composing them, with `Tunnel` as its abstract specification: done.
4. Proofs about the framework, the refinement of `FrameworkContract` included: done.
5. Proofs about the simulator, the refinement of `Tunnel` included: done but for
   the properties listed above as only model-checked.
6. Further runs when the existing ones are merged: longer traces, a given
   `Pps`, blocks of zero duration.

## Not modelled

Probabilities (only what is possible), the numerical code of the distributions,
serialization, names and v1 parsing (sequential conversions without state), the
text of traces and the JSON of integration delays, logging, the C interface's
pointer handling, benchmarks and fuzz targets. Of the simulator: the limits on
the length of the trace and the number of iterations (they end the loop at any
point, which every safety property already allows for), the filters and the
final sort of the output, seeds, and a packet rate of zero, which panics before
the first event.
