----------------------------- MODULE MCFramework -----------------------------
(***************************************************************************)
(* The machines TLC runs, small ones that reach every branch of the        *)
(* framework, and the events reported to them.                             *)
(***************************************************************************)
EXTENDS FrameworkProperties, TLC

Fraction(n, d) == [n |-> n, d |-> d]
NoFraction == Fraction(0, 1)
Half == Fraction(1, 2)

NoAction == [kind |-> "None", replace |-> FALSE, limit |-> {}]
Cancel == [NoAction EXCEPT !.kind = "Cancel"]
SendPadding(limit) == [NoAction EXCEPT !.kind = "SendPadding", !.limit = limit]
UpdateTimer(limit) == [NoAction EXCEPT !.kind = "UpdateTimer", !.limit = limit]
BlockOutgoing(replace, limit) ==
  [kind |-> "BlockOutgoing", replace |-> replace, limit |-> limit]

NoCounter == [operation |-> "None", copy |-> FALSE, dist |-> {1}]
Increment == [NoCounter EXCEPT !.operation = "Increment"]
Decrement == [NoCounter EXCEPT !.operation = "Decrement"]
SetTo(values) == [NoCounter EXCEPT !.operation = "Set", !.dist = values]
Copy(operation) == [NoCounter EXCEPT !.operation = operation, !.copy = TRUE]

(* Events without a transition stay where they are. *)
On(transitions) == transitions @@ [e \in Event |-> {None}]

MCState(action, a, b, transitions) ==
  [action |-> action, counter_a |-> a, counter_b |-> b,
   transitions |-> On(transitions)]

MCMachine(padding, blocked, padding_frac, blocking_frac, states) ==
  [allowed_padding_packets |-> padding, allowed_blocked_microsec |-> blocked,
   max_padding_frac |-> padding_frac, max_blocking_frac |-> blocking_frac,
   states |-> [s \in 0 .. Len(states) - 1 |-> states[s + 1]]]

Report(event, machine) == [event |-> event, machine |-> machine]
Global(events) == {Report(e, 0) : e \in events}
OfMachine(events, ids) == {Report(e, mi) : e \in events, mi \in ids}

-----------------------------------------------------------------------------
(***************************************************************************)
(* Three machines that raise and answer signals as they please.            *)
(***************************************************************************)
Signaller ==
  MCMachine(0, 0, NoFraction, NoFraction,
    << MCState(NoAction, NoCounter, NoCounter,
         "NormalRecv" :> {None, STATE_SIGNAL} @@
         "TimerEnd" :> {STATE_SIGNAL} @@
         "Signal" :> {None, STATE_SIGNAL, 1}),
       MCState(Cancel, NoCounter, NoCounter,
         "TimerEnd" :> {STATE_SIGNAL, 0} @@
         "Signal" :> {STATE_SIGNAL, 0, STATE_END}) >>)

SignalMachines == [mi \in 0 .. 2 |-> Signaller]
SignalReports == Global({"NormalRecv"}) \cup OfMachine({"TimerEnd"}, 0 .. 3)

-----------------------------------------------------------------------------
(***************************************************************************)
(* Two machines whose counters zero each other and whose timers are        *)
(* limited, also to 0: state 1 loads the counters, 2 and 3 run them down.  *)
(***************************************************************************)
CounterMachine(next_on_zero) ==
  MCMachine(0, 0, NoFraction, NoFraction,
    << MCState(NoAction, NoCounter, NoCounter,
         "NormalRecv" :> {1}),
       MCState(UpdateTimer({0, 1, 2}), SetTo({1, 2}), Copy("Increment"),
         "NormalRecv" :> {2} @@ "TimerBegin" :> {1} @@
         "LimitReached" :> {2, None}),
       MCState(UpdateTimer({0, 1}), Decrement, NoCounter,
         "CounterZero" :> next_on_zero @@ "NormalRecv" :> {2, 3} @@
         "TimerBegin" :> {None, 2} @@ "LimitReached" :> {1}),
       MCState(Cancel, Copy("Set"), SetTo({0}),
         "CounterZero" :> {2, STATE_END} @@ "NormalRecv" :> {1, 3}) >>)

CounterMachines ==
  [mi \in 0 .. 1 |-> CounterMachine(IF mi = 0 THEN {1, 3} ELSE {2, STATE_SIGNAL})]
CounterReports ==
  Global({"NormalRecv"}) \cup OfMachine({"TimerBegin"}, 0 .. 1)

-----------------------------------------------------------------------------
(***************************************************************************)
(* A padding and a blocking machine under all the limits.                  *)
(***************************************************************************)
PaddingMachine(allowed) ==
  MCMachine(allowed, 0, Half, NoFraction,
    << MCState(NoAction, NoCounter, NoCounter,
         "NormalSent" :> {1} @@ "PaddingRecv" :> {1}),
       MCState(SendPadding({0, 2}), NoCounter, NoCounter,
         "NormalSent" :> {1} @@ "PaddingSent" :> {None, 0} @@
         "LimitReached" :> {0, 1}) >>)

BlockingMachine ==
  MCMachine(0, 1, NoFraction, Half,
    << MCState(NoAction, NoCounter, NoCounter,
         "TunnelSent" :> {1, 2}),
       MCState(BlockOutgoing(FALSE, {2}), NoCounter, NoCounter,
         "TunnelSent" :> {1, 2} @@ "BlockingEnd" :> {1}),
       MCState(BlockOutgoing(TRUE, {}), NoCounter, NoCounter,
         "TunnelSent" :> {1} @@ "BlockingBegin" :> {2}) >>)

LimitMachines == 0 :> PaddingMachine(1) @@ 1 :> BlockingMachine
PaddingMachines == [mi \in 0 .. 1 |-> PaddingMachine(0)]
PaddingReports ==
  Global({"NormalSent", "PaddingRecv"}) \cup OfMachine({"PaddingSent"}, 0 .. 1)
LimitReports ==
  Global({"NormalSent", "TunnelSent", "BlockingEnd", "PaddingRecv"})
  \cup OfMachine({"PaddingSent"}, {0, 2}) \cup OfMachine({"BlockingBegin"}, {1})
=============================================================================
