-------------------------------- MODULE Network --------------------------------
(***************************************************************************)
(* The network between the two sides: a fixed delay, a bottleneck that     *)
(* delays what exceeds a number of packets per window, and the aggregate   *)
(* delays by which held-up packets shift the rest of the trace, each       *)
(* pending until it takes effect at its side.                              *)
(***************************************************************************)
EXTENDS SimQueue

CONSTANTS
  NetworkDelay,            (* Network::delay                               *)
  Window,                  (* the bottleneck's window, one second          *)
  TraceWindow,             (* the window of parse_trace, 100 ms            *)
  BaseWindow,              (* BASE_WINDOW, 1 ms                            *)
  BufferWindow,            (* BUFFER_WINDOW, 1 ms                          *)
  AdjacentWindow           (* ADJACENT_WINDOW, 100 ms                      *)

ASSUME NetworkAssumption ==
  /\ {NetworkDelay, BaseWindow, BufferWindow, AdjacentWindow} \subseteq Nat
  /\ TraceWindow \in Nat \ {0}
  /\ Window \in Nat /\ Window >= TraceWindow
  /\ BufferWindow < DURATION_MAX

-----------------------------------------------------------------------------
(* WindowCount::add: remember the time, forget what left the window before
   the first time that is still in it. *)
WindowAdd(timestamps, now) ==
  LET all == Append(timestamps, now)
  IN  SubSeq(all, Least({k \in DOMAIN all : Since(now, all[k]) <= Window}), Len(all))

(* NetworkBottleneck::sample: the delay added to the count-th packet of a
   window, pps_added_delay for each packet beyond the limit. *)
AddedDelay(count, limit) ==
  IF count > limit THEN (Window \div limit) * (count - limit) ELSE 0

-----------------------------------------------------------------------------
Pending(side, time, delay) == [side |-> side, time |-> time, delay |-> delay]

PendingAggregateDelay == [side : Side, time : Nat, delay : Nat]

(* Bug: only the side where packets were held up is shifted. *)
PushOneDelay(pending, duration, now, expired) ==
  BagAdd(pending, Pending(expired, now + Since(4 * NetworkDelay, duration), duration))

(* push_aggregate_delay: both sides are shifted, when the missing packet
   would have been noticed there. *)
PushAggregateDelay(pending, duration, now, expired) ==
  LET d == NetworkDelay
      client == Since(IF expired = "client" THEN 4 * d ELSE d, duration)
      server == Since(IF expired = "client" THEN 3 * d ELSE 4 * d, duration)
  IN  BagAdd(BagAdd(pending, Pending("client", now + client, duration)),
             Pending("server", now + server, duration))

(* The same, if there is a delay to add: Option<Duration>. *)
PushIfAny(pending, duration, now, side) ==
  IF duration = None THEN pending
  ELSE PushAggregateDelay(pending, duration, now, side)

(* The pending delays that may be popped next; they agree on the time. *)
FirstPending(pending) ==
  {d \in DOMAIN pending : \A e \in DOMAIN pending : d.time <= e.time}

(* peek_aggregate_delay; never is the duration of an empty queue. *)
PeekAggregateDelay(pending, now, never) ==
  IF Empty(pending) THEN never
  ELSE Since((CHOOSE d \in FirstPending(pending) : TRUE).time, now)

-----------------------------------------------------------------------------
(***************************************************************************)
(* The predicates of delay.rs.  queues are those of the side concerned;    *)
(* since is the time of the packet that was held up.                       *)
(***************************************************************************)
Buffered(queues) == DOMAIN queues.blocking \cup DOMAIN queues.bypassable

BufferSize(queues) ==
  SumFunction(queues.blocking) + SumFunction(queues.bypassable)

(* Does the side's next base event follow within the window? *)
BaseFollows(queues, since, delay) ==
  ~Empty(queues.base) /\ Since(Due(queues, "base", delay), since) <= BaseWindow

(* Is another packet queued that follows, or precedes, within the window? *)
AdjacentBuffered(queues, since) ==
  \E e \in Buffered(queues) : Since(e.time, since) <= AdjacentWindow

(* The last buffered packet of the burst that the held packet begins. *)
BurstTail(queues, since) ==
  LET burst == {e.time : e \in {f \in Buffered(queues) :
                  Since(f.time, since) <= BufferWindow /\ f.time > since}}
  IN  IF BufferSize(queues) > 2 /\ burst # {}
      THEN CHOOSE t \in burst : \A u \in burst : u <= t
      ELSE since

(* agg_delay_on_blocking_expire *)
DelayOnExpiry(queues, expiry, since, delay) ==
  LET tail == BurstTail(queues, since)
  IN  IF expiry = tail \/ BaseFollows(queues, since, delay) THEN None
      ELSE Since(expiry, tail)

(* agg_delay_on_padding_bypass_replace *)
DelayOnReplace(queues, now, since, delay) ==
  IF AdjacentBuffered(queues, since) \/ BaseFollows(queues, since, delay)
  THEN None ELSE Since(now, since)

(* should_delayed_packet_prop_agg_delay *)
DelayPropagates(queues, since, delay) ==
  ~AdjacentBuffered(queues, since) /\ ~BaseFollows(queues, since, delay)

-----------------------------------------------------------------------------
(***************************************************************************)
(* parse_trace_advanced.  A trace is a sequence of lines, in order of      *)
(* time, each sent ("s") or received ("r") by the client at an instant;    *)
(* delays holds the reporting delay sampled for each line.  The server     *)
(* sends what the client receives one network delay earlier.               *)
(***************************************************************************)
SenderOf(line) == IF line.direction = "s" THEN "client" ELSE "server"

SentAt(line) ==
  IF line.direction = "s" THEN line.time ELSE line.time - NetworkDelay

BaseEvent(line, delay) ==
  Plain("NormalSent", SenderOf(line), SentAt(line) + delay, delay)

ParseTrace(trace, delays) ==
  LET event(k) == BaseEvent(trace[k], delays[k])
      lines(side) == {k \in DOMAIN trace : SenderOf(trace[k]) = side}
      base(side) == [e \in {event(k) : k \in lines(side)} |->
                       Cardinality({k \in lines(side) : event(k) = e})]
  IN  [side \in Side |-> [EmptyQueues EXCEPT !.base = base(side)]]

(* The packets of a direction in the trace's window that ends with line k. *)
InWindow(trace, k) ==
  Cardinality({j \in 1 .. k : /\ trace[j].direction = trace[k].direction
                              /\ trace[k].time - trace[j].time <= TraceWindow})

(* Bug: the count of a trace window is not scaled to the window. *)
UnscaledPps(trace) ==
  LET counts == {InWindow(trace, k) : k \in DOMAIN trace}
  IN  CHOOSE m \in counts : \A c \in counts : c <= m

(* max_pps: the most packets of a direction in a window, scaled up. *)
MaxPps(trace) ==
  LET counts == {InWindow(trace, k) : k \in DOMAIN trace}
  IN  (CHOOSE m \in counts : \A c \in counts : c <= m) * (Window \div TraceWindow)
=============================================================================
