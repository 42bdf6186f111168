------------------------------- MODULE SimQueue -------------------------------
(***************************************************************************)
(* The simulator's event queues.  A side owns four heaps: "base" holds the *)
(* trace's NormalSent events, "blocking" and "bypassable" hold TunnelSent  *)
(* events, "internal" everything else.  A heap is a bag: equal events may  *)
(* be queued twice.  Which of several first events a binary heap yields is *)
(* not specified, so any of them may be popped.                            *)
(***************************************************************************)
EXTENDS Integers, Sequences, FiniteSets, Functions, BagsExt

CONSTANTS
  NumMachines,             (* machines on either side                      *)
  DURATION_MAX             (* Duration::MAX: nothing to wait for           *)

ASSUME SimQueueAssumption == NumMachines \in Nat /\ DURATION_MAX \in Nat

MachineId == 0 .. NumMachines - 1

Side == {"client", "server"}
Other(side) == IF side = "client" THEN "server" ELSE "client"

None == -1                 (* Option::None, of instants and of durations   *)

Least(S) == CHOOSE x \in S : \A y \in S : x <= y

(* Instants and durations are naturals, a difference at most DURATION_MAX;
   it saturates at 0. *)
Since(later, earlier) ==
  CASE later <= earlier -> 0
    [] later - earlier > DURATION_MAX -> DURATION_MAX
    [] OTHER -> later - earlier
Later(t, u) == IF t > u THEN t ELSE u

(* event_to_usize: which of two simultaneous events is first. *)
event_to_usize ==
  [TunnelSent |-> 0, NormalSent |-> 1, PaddingSent |-> 2, TunnelRecv |-> 3,
   NormalRecv |-> 4, PaddingRecv |-> 5, BlockingBegin |-> 6,
   BlockingEnd |-> 7, TimerBegin |-> 8, TimerEnd |-> 9]

SimEvent ==
  [event : DOMAIN event_to_usize, machine : MachineId \cup {None},
   side : Side, time : Nat, integration_delay : Nat,
   contains_padding : BOOLEAN, bypass : BOOLEAN, replace : BOOLEAN]

(* An event without flags, as queue.rs pushes most of them. *)
Plain(event, side, time, delay) ==
  [event |-> event, machine |-> None, side |-> side, time |-> time,
   integration_delay |-> delay, contains_padding |-> FALSE,
   bypass |-> FALSE, replace |-> FALSE]

Earlier(e, f) ==
  \/ e.time < f.time
  \/ e.time = f.time /\ event_to_usize[e.event] < event_to_usize[f.event]

-----------------------------------------------------------------------------
Queue == {"base", "blocking", "bypassable", "internal"}

EmptyQueues == [q \in Queue |-> <<>>]

Empty(heap) == DOMAIN heap = {}

(* The events a heap may yield next; they agree on time and kind. *)
Tops(heap) == {e \in DOMAIN heap : \A f \in DOMAIN heap : ~Earlier(f, e)}
Top(heap) == CHOOSE e \in Tops(heap) : TRUE

QueueOf(e) ==
  CASE e.event = "TunnelSent" -> IF e.bypass THEN "bypassable" ELSE "blocking"
    [] e.event = "NormalSent" -> "base"
    [] OTHER -> "internal"

(* Bug: a packet's bypass flag is ignored. *)
PushBlocking(queues, e) ==
  [queues EXCEPT ![IF e.event = "TunnelSent" THEN "blocking" ELSE QueueOf(e)] =
     BagAdd(@, e)]

Push(queues, e) == [queues EXCEPT ![QueueOf(e)] = BagAdd(@, e)]

Pop(queues, q, e) == [queues EXCEPT ![q] = BagRemove(@, e)]

(* Base events are shifted by the aggregate delay of their side. *)
Shifted(e, q, delay) == IF q = "base" THEN [e EXCEPT !.time = @ + delay] ELSE e

(* When the first event of queue q is due. *)
Due(queues, q, delay) == Shifted(Top(queues[q]), q, delay).time

-----------------------------------------------------------------------------
(* Option<&SimEvent> compared with >: the greater event is the earlier one. *)
Beats(heap, than) ==
  ~Empty(heap) /\ (Empty(than) \/ Earlier(Top(heap), Top(than)))

(* Queue r if its first event is strictly before that of q, otherwise q. *)
Sooner(queues, q, r) == IF Beats(queues[r], queues[q]) THEN r ELSE q

(* Of simultaneous events of a kind, the base queue's is preferred, then the
   bypassable queue's. *)
Preference == [base |-> 0, bypassable |-> 1, blocking |-> 2, internal |-> 3]

(* Bug: base events are compared by their time in the trace. *)
PrecedesInTrace(queues, q, r, delay) ==
  LET e == Top(queues[q])
      f == Top(queues[r])
  IN  Earlier(e, f) \/ (~Earlier(f, e) /\ Preference[q] < Preference[r])

Precedes(queues, q, r, delay) ==
  LET e == Shifted(Top(queues[q]), q, delay)
      f == Shifted(Top(queues[r]), r, delay)
  IN  Earlier(e, f) \/ (~Earlier(f, e) /\ Preference[q] < Preference[r])

(* before(): the base queue's first event, shifted, is not after that of q. *)
BaseFirst(queues, q, delay) ==
  /\ ~Empty(queues.base)
  /\ Empty(queues[q]) \/ Precedes(queues, "base", q, delay)

(* Bug: len() leaves the bypassable heap out. *)
FilledOtherwise(queues) == {q \in Queue \ {"bypassable"} : ~Empty(queues[q])}

Filled(queues) == {q \in Queue : ~Empty(queues[q])}

(* EventQueue::peek: the queue of a side's first event. *)
FirstQueue(queues, delay) ==
  CHOOSE q \in Filled(queues) :
    \A r \in Filled(queues) \ {q} : Precedes(queues, q, r, delay)

(* peek_blocking: the first TunnelSent event that blocking would hold. *)
FirstBlocking(queues, bypassable) ==
  IF bypassable THEN "blocking" ELSE Sooner(queues, "bypassable", "blocking")

(* peek_non_blocking of an EventQueue: of base and internal events. *)
IsFirstUnblockable(queues, q, delay) ==
  q = IF BaseFirst(queues, "internal", delay) THEN "base" ELSE "internal"

(* peek_non_blocking: a bypassable event too, if it is strictly before that;
   a base event is here compared by its time in the trace. *)
FirstNonBlocking(queues, bypassable, delay) ==
  CHOOSE q \in Queue :
    \E r \in {"base", "internal"} :
      /\ IsFirstUnblockable(queues, r, delay)
      /\ q = IF bypassable THEN Sooner(queues, r, "bypassable") ELSE r

-----------------------------------------------------------------------------
(***************************************************************************)
(* EventQueue::no_normal_packets: no trace packet is left, and apart from  *)
(* reports about blocking, timers and normal packets nothing is queued     *)
(* that concerns a packet, padding included.                               *)
(***************************************************************************)
(* Bug: packets that wait to be sent are forgotten. *)
NoneTravelling(queues) ==
  /\ Empty(queues.base)
  /\ \A e \in DOMAIN queues.internal :
       e.event # "TunnelRecv" /\ ~e.contains_padding

NoNormalPackets(queues) ==
  /\ Empty(queues.base)
  /\ \A q \in {"blocking", "bypassable"} : \A e \in DOMAIN queues[q] :
       e.event # "TunnelSent" /\ ~e.contains_padding
  /\ \A e \in DOMAIN queues.internal :
       e.event # "TunnelRecv" /\ ~e.contains_padding

(* get_first_time: where the simulation starts. *)
FirstBaseTime(sq) ==
  Least({e.time : e \in UNION {DOMAIN sq[side].base : side \in Side}})
=============================================================================
