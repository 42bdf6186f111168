----------------------------- MODULE MCSimulator -----------------------------
(***************************************************************************)
(* Traces, integrations and answers of machines for TLC.                   *)
(***************************************************************************)
EXTENDS SimulatorProperties, Integration

Line(time, direction) == [time |-> time, direction |-> direction]

Both(S) == [side \in Side |-> S]
NoDelay == Both({0})

(***************************************************************************)
(* However two bins share the probability, sampling reaches both, the      *)
(* whole range of the first but for its end.                               *)
(***************************************************************************)
ASSUME SampleReachesBins ==
  \A p, q \in 1 .. ProbUnit - 1 :
    p + q = ProbUnit =>
      Sample({Bin(0, 2, p), Bin(4, 4, q)}) = {0, 1, 4}

Pad(timeout, bypass, replace) ==
  [NoAction EXCEPT !.kind = "SendPadding", !.timeout = timeout,
                   !.bypass = bypass, !.replace = replace]
Block(timeout, duration, bypass, replace) ==
  [NoAction EXCEPT !.kind = "BlockOutgoing", !.timeout = timeout,
                   !.duration = duration, !.bypass = bypass, !.replace = replace]
Timer(duration, replace) ==
  [NoAction EXCEPT !.kind = "UpdateTimer", !.duration = duration, !.replace = replace]
Cancel(timer) == [NoAction EXCEPT !.kind = "Cancel", !.timer = timer]

-----------------------------------------------------------------------------
(***************************************************************************)
(* Blocks of every kind at either side, and padding.  The server's         *)
(* integration reports with a delay that varies, and its padding may       *)
(* bypass blocks; the client reports at once, and its padding may not.     *)
(***************************************************************************)
BlockingTraces == {<<Line(2, "r"), Line(3, "r"), Line(4, "s")>>}

Varying == [client |-> {0}, server |-> Sample({Bin(0, 1, 1), Bin(2, 2, 3)})]

BlockingResponse(side, m, event) ==
  CASE side = "server" /\ event \in {"NormalSent", "BlockingBegin"} ->
         {Block(0, 3, b, r) : b, r \in BOOLEAN} \cup {Pad(1, b, TRUE) : b \in BOOLEAN}
    [] side = "client" /\ event \in {"TunnelRecv", "BlockingBegin"} ->
         {Block(1, 2, FALSE, FALSE), Block(0, 1, TRUE, TRUE), Pad(1, FALSE, TRUE)}
    [] OTHER -> {}

-----------------------------------------------------------------------------
(***************************************************************************)
(* Integrations that take a while, differently at either side; padding     *)
(* that exceeds the trace's own bottleneck; two machines a side, with      *)
(* timers that tie and answers that cancel; no bypass.                     *)
(***************************************************************************)
DelayTraces == {<<Line(2, "s"), Line(4, "r"), Line(5, "s"), Line(8, "s")>>,
                <<Line(2, "s"), Line(3, "s"), Line(7, "r")>>,
                <<Line(2, "s"), Line(4, "s"), Line(4, "r"), Line(9, "s")>>}

Reporting  == [client |-> {3}, server |-> {1}]
Acting     == [client |-> {1}, server |-> {0}]
Triggering == [client |-> Sample({Bin(0, 2, 4)}), server |-> {0}]

DelayResponse(side, m, event) ==
  CASE side = "client" /\ m = 0 /\ event \in {"NormalSent", "PaddingSent"} ->
         {Pad(1, FALSE, FALSE), Block(1, 3, FALSE, TRUE)}
    [] side = "client" /\ m = 0 /\ event = "BlockingBegin" ->
         {Pad(0, FALSE, TRUE), Cancel("All")}
    [] side = "client" /\ m = 1 /\ event = "NormalSent" ->
         {Timer(2, FALSE), Timer(0, TRUE), Pad(1, FALSE, FALSE)}
    [] side = "client" /\ m = 1 /\ event = "TimerBegin" ->
         {Cancel("Internal"), Cancel("Action"), Timer(1, FALSE)}
    [] side = "client" /\ m = 1 /\ event = "TimerEnd" -> {Pad(0, FALSE, FALSE)}
    [] side = "server" /\ m = 0 /\ event \in {"NormalSent", "PaddingRecv"} ->
         {Block(0, 2, FALSE, FALSE)}
    [] OTHER -> {}

-----------------------------------------------------------------------------
(* One block of the client's, whose end is reported late. *)
ReleaseTraces == {<<Line(2, "s"), Line(4, "s"), Line(5, "r")>>}

Late == Both({2})

ReleaseResponse(side, m, event) ==
  IF side = "client" /\ event = "NormalSent" THEN {Block(0, 6, FALSE, FALSE)} ELSE {}

-----------------------------------------------------------------------------
(* A first block delays the trace; padding bypasses the second one. *)
BypassTraces == {<<Line(2, "s"), Line(5, "s"), Line(8, "s"), Line(10, "s")>>}

BypassResponse(side, m, event) ==
  IF side = "client" /\ event = "NormalSent"
  THEN {Block(0, 5, TRUE, FALSE), Block(2, 6, TRUE, FALSE), Pad(3, TRUE, FALSE)}
  ELSE {}

-----------------------------------------------------------------------------
(* A packet that bypasses a block before the time it takes effect. *)
StaleTraces == {<<Line(1, "s"), Line(30, "r")>>}

StaleResponse(side, m, event) ==
  CASE side = "client" /\ event = "NormalSent" -> {Block(0, 10, FALSE, FALSE)}
    [] side = "client" /\ event = "BlockingBegin" -> {Pad(2, TRUE, FALSE)}
    [] side = "client" /\ event = "PaddingSent" -> {Block(2, 10, TRUE, TRUE)}
    [] side = "client" /\ event = "TunnelSent" -> {Block(1, 1, TRUE, TRUE)}
    [] OTHER -> {}
=============================================================================
