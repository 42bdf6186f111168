------------------------------- MODULE Machine -------------------------------
(***************************************************************************)
(* The immutable half of the Maybenot framework: what a machine is (its    *)
(* limits and its states with their action, counters and transitions) and  *)
(* what the framework may obtain by sampling one of its distributions.     *)
(*                                                                         *)
(* A distribution is the set of values it can return; a transition vector  *)
(* is the set of next states it can return.  Probabilities are left out:   *)
(* whatever has a positive probability may happen.                         *)
(***************************************************************************)
EXTENDS Integers

CONSTANTS
  U64_MAX,     (* u64::MAX, scaled down: the largest counter and limit  *)
  STATE_MAX    (* the largest number of states of a machine             *)

ASSUME MachineAssumption ==
  /\ U64_MAX \in Nat \ {0}
  /\ STATE_MAX \in Nat \ {0}

U64 == 0 .. U64_MAX

(***************************************************************************)
(* The pseudo-states lie outside every machine's state indices; None is    *)
(* Option::None, for a next state, a scheduled action and a signal target. *)
(***************************************************************************)
None         == -1
STATE_END    == -2
STATE_SIGNAL == -3

STATE_LIMIT_MAX == U64_MAX

Event == {"NormalRecv", "PaddingRecv", "TunnelRecv", "NormalSent",
          "PaddingSent", "TunnelSent", "BlockingBegin", "BlockingEnd",
          "LimitReached", "CounterZero", "TimerBegin", "TimerEnd", "Signal"}

(***************************************************************************)
(* An absent action or counter (Option::None) has kind or operation        *)
(* "None"; an absent limit distribution is the empty set.                  *)
(***************************************************************************)
Action == [kind    : {"None", "Cancel", "SendPadding", "BlockOutgoing",
                      "UpdateTimer"},
           replace : BOOLEAN,
           limit   : SUBSET U64]

Counter == [operation : {"None", "Increment", "Decrement", "Set"},
            copy      : BOOLEAN,
            dist      : (SUBSET U64) \ {{}}]

(* The next states a transition vector may name, in a machine of n states. *)
Target(n) == 0 .. n - 1 \cup {STATE_END, STATE_SIGNAL, None}

State(n) == [action      : Action,
             counter_a   : Counter,
             counter_b   : Counter,
             transitions : [Event -> (SUBSET Target(n)) \ {{}}]]

(* A fraction in [0.0, 1.0]. *)
IsFraction(f) == f.n \in Nat /\ f.d \in Nat \ {0} /\ f.n <= f.d

(* Machine::validate and State::validate. *)
IsMachine(m) ==
  /\ m.allowed_padding_packets \in Nat
  /\ m.allowed_blocked_microsec \in Nat
  /\ IsFraction(m.max_padding_frac)
  /\ IsFraction(m.max_blocking_frac)
  /\ \E n \in 1 .. STATE_MAX : m.states \in [0 .. n - 1 -> State(n)]

-----------------------------------------------------------------------------
(* Action::has_limit *)
HasLimit(action) ==
  /\ action.kind \in {"SendPadding", "BlockOutgoing", "UpdateTimer"}
  /\ action.limit # {}

(* Action::sample_limit: the values it may return. *)
SampleLimit(action) ==
  IF HasLimit(action) THEN action.limit ELSE {STATE_LIMIT_MAX}

(* The limit on entering a state: STATE_LIMIT_MAX in one without an action. *)
EntryLimit(state) == SampleLimit(state.action)

(* Bug: wrapping instead of saturating arithmetic, seen without the wrap. *)
ApplyUnsaturated(operation, value, change) ==
  CASE operation = "Increment" -> value + change
    [] operation = "Decrement" -> value - change
    [] operation = "Set" -> change
    [] OTHER -> value

(* One counter operation on a u64, saturating at both ends. *)
Apply(operation, value, change) ==
  CASE operation = "Increment" ->
         IF value + change > U64_MAX THEN U64_MAX ELSE value + change
    [] operation = "Decrement" ->
         IF change > value THEN 0 ELSE value - change
    [] operation = "Set" -> change
    [] OTHER -> value

(***************************************************************************)
(* The values a counter may have after its update: the change is the other *)
(* counter's old value (copy) or a sample of the distribution.             *)
(***************************************************************************)
CounterUpdates(counter, own, other) ==
  {Apply(counter.operation, own, change) :
     change \in IF counter.copy THEN {other} ELSE counter.dist}

(* part / whole >= f in f64: x/0 is infinite, 0/0 is NaN and reaches nothing. *)
ReachesFraction(part, whole, f) ==
  IF whole = 0 THEN part > 0 ELSE part * f.d >= f.n * whole
=============================================================================
