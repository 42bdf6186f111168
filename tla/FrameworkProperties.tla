------------------------- MODULE FrameworkProperties -------------------------
(***************************************************************************)
(* What makes crates/maybenot/src/framework.rs correct: how far a call may *)
(* nest, who is signalled, what is accounted, when a limit binds.          *)
(***************************************************************************)
EXTENDS Framework

Change == {"Changed", "Unchanged"}

StatesOf(mi) == DOMAIN machines[mi].states

Frame == UNION {[mi : {mi}, next_state : StatesOf(mi),
                 curr_state : StatesOf(mi), below : BOOLEAN] : mi \in Ids}

Visit == [stage : {"event", "limit", "signal", "excluded"}, event : Event,
          machine : Ids \cup {NumMachines, None}, next : 0 .. NumMachines,
          last : Ids \cup {-1}, skip : Ids \cup {None}, blocked : Nat]

MachineRuntime(mi) ==
  [current_state : StatesOf(mi) \cup {STATE_END},
   state_limit : U64, padding_sent : Nat, normal_sent : Nat,
   blocking_duration : Nat, counter_a : U64, counter_b : U64]

(* Every variable keeps the type the code declares; a state, where one is
   stored, is a state of that machine.                                     *)
TypeOK ==
  /\ current_time \in Nat
  /\ DOMAIN actions = Ids
  /\ \A mi \in Ids : actions[mi] \in StatesOf(mi) \cup {None}
  /\ DOMAIN runtime = Ids
  /\ \A mi \in Ids : runtime[mi] \in MachineRuntime(mi)
  /\ padding_sent_packets \in Nat /\ normal_sent_packets \in Nat
  /\ blocking_duration \in Nat /\ blocking_started \in Nat
  /\ blocking_active \in BOOLEAN
  /\ signal_pending \in Ids \cup {None, All}
  /\ counter_zeroed_once \in [Counters -> BOOLEAN]
  /\ pc \in {"idle", "batch", "visit", "transition", "return"}
  /\ batch \in Nat
  /\ visit \in Visit
  /\ call \in [mi : Ids \cup {0}, event : Event]
  /\ frames \in Seq(Frame)
  /\ result \in Change
  /\ raisers \subseteq Ids
  /\ signalled \in [Ids -> Nat]
  /\ zeroed \in [Ids -> SUBSET Counters]
  /\ ended \subseteq Ids
  /\ resampled \in BOOLEAN
  /\ undercut \subseteq Ids

-----------------------------------------------------------------------------
(* transition() and update_counter() call each other, but every nested call
   has used up one of the two counters for the rest of trigger_events: at
   most two transitions ever wait for an inner one.                        *)
NestingBounded ==
  Len(frames) <= (IF counter_zeroed_once["a"] THEN 1 ELSE 0)
               + (IF counter_zeroed_once["b"] THEN 1 ELSE 0)

(* "At most one signal per call": however many machines raise a signal, in
   the batch or while they are signalled, no machine gets Event::Signal twice
   in a call of trigger_events.                                            *)
SignalledOnce == \A mi \in Ids : signalled[mi] <= 1

(* When a call returns, every machine other than a signal's only raiser was
   signalled in it, also when the raiser answered a signal itself, and no
   machine was signalled unless one raised a signal.                       *)
SignalsReachOthers ==
  pc = "idle" =>
    \A mi \in Ids : /\ raisers \ {mi} # {} => signalled[mi] = 1
                    /\ raisers = {} => signalled[mi] = 0

(* The signal a call leaves pending for the next one was raised by a machine
   this call had signalled: it never is a signal for all machines.         *)
LeftOverSignal ==
  pc = "idle" /\ signal_pending # None =>
    signal_pending \in Ids /\ signalled[signal_pending] = 1

(* Normal traffic and blocking are global: between two events every machine
   has counted the packets and the blocked time the framework has.  Padding
   is a machine's own, and the framework counts at least each machine's.   *)
AccountingAgrees ==
  pc \in {"idle", "batch"} =>
    \A mi \in Ids : /\ runtime[mi].normal_sent = normal_sent_packets
                    /\ runtime[mi].blocking_duration = blocking_duration
                    /\ runtime[mi].padding_sent <= padding_sent_packets

(* The time counted as blocked, with the block going on now, is never more
   than the time that has passed: BlockingBegin during a block, BlockingEnd
   without one and both at the same instant count no time twice.           *)
BlockedTimeBounded ==
  /\ blocking_started <= current_time
  /\ blocking_duration + OngoingBlock <= current_time

(* A fraction f that is set has been used up by part of whole. *)
UsedUp(part, whole, f) ==
  /\ f.n > 0
  /\ IF whole = 0 THEN part > 0 ELSE part * f.d >= f.n * whole

(* A pending BlockOutgoing action that does not replace a block respects the
   machine's and the framework's blocking fraction, or the machine has not
   yet used its allowance: also after later events of the same batch, when
   blocking began or ended since the action was scheduled.                 *)
BlockingWithinLimits ==
  \A mi \in Ids :
    LET action  == ActionOf(mi, actions[mi])
        blocked == runtime[mi].blocking_duration + OngoingBlock
    IN actions[mi] # None /\ action.kind = "BlockOutgoing" /\ ~action.replace
       => \/ blocked < machines[mi].allowed_blocked_microsec
          \/ /\ ~UsedUp(blocked, current_time, machines[mi].max_blocking_frac)
             /\ ~UsedUp(blocking_duration + OngoingBlock, current_time,
                        max_blocking_frac)

(* A machine with nothing left of the limit of its current state, be it used
   up or sampled as 0, has no action of that state pending, whichever event of
   the batch took it there.  Two exceptions: padding (PaddingIsLimited shows
   why), and an action that was decided during an earlier stay in the state:
   if the machine leaves it and samples 0 when it comes back in the same call,
   the code keeps that action until an event counts against the limit.     *)
ExhaustedIsSilent ==
  \A mi \in Ids :
    LET action == ActionOf(mi, actions[mi])
    IN /\ actions[mi] # None /\ actions[mi] = runtime[mi].current_state
       /\ action.kind \in {"BlockOutgoing", "UpdateTimer"}
       /\ action.limit # {} /\ mi \notin undercut
       => runtime[mi].state_limit > 0

(* An event that made its machine enter a state, even if CounterZero took it
   back at once, never counts against the limit it has just sampled.       *)
FreshLimitUntouched ==
  Returned("event") /\ resampled => ~CountsAgainstLimit

Repertoire(mi) == {s \in StatesOf(mi) : ActionOf(mi, s).kind # "None"}

Contract ==
  INSTANCE FrameworkContract WITH
    Machine    <- Ids,
    Repertoire <- Repertoire,
    NoAction   <- None,
    working    <- pc # "idle",
    retired    <- IF pc = "idle"
                  THEN {mi \in Ids : runtime[mi].current_state = STATE_END}
                  ELSE ended,
    returned   <- IF pc = "idle" THEN actions ELSE [mi \in Ids |-> None]

(* Every call keeps the caller's contract: one action a machine at most, an
   action of one of its states, and none of a machine that had ended.      *)
KeepsPromise == Contract!Safe

(* Every call returns, whatever the machines signal, count and limit. *)
CallsReturn == Contract!Returns

-----------------------------------------------------------------------------
(***************************************************************************)
(* What the documentation says and the code does not do.                   *)
(***************************************************************************)

(* "A machine will not signal itself": a machine is signalled only if some
   other machine raised a signal.                                          *)
NoSelfSignal ==
  \A mi \in Ids : signalled[mi] > 0 => raisers \ {mi} # {}

(* "Future events may replace those actions": a transition that CounterZero
   interrupted without taking the machine anywhere schedules its action.   *)
FutureEventReplaces ==
  [][\A f \in {frames[i] : i \in {Len(frames)} \cap DOMAIN frames} :
       Len(frames') < Len(frames) /\ f.below /\ result = "Unchanged"
       => actions'[f.mi] = f.next_state]_vars

(* "The limit is the maximum number of times the action can be taken upon
   repeated transitions to the same state", and "the only way" to violate the
   total padding fraction is "through allowed_padding_packets": a machine past
   its allowance does not schedule padding with both its state's limit and the
   framework's fraction used up.                                           *)
PaddingIsLimited ==
  [][\A mi \in Ids :
       LET s == actions'[mi]
       IN /\ s # None /\ actions[mi] = None
          /\ ActionOf(mi, s).kind = "SendPadding"
          /\ runtime[mi].padding_sent >= machines[mi].allowed_padding_packets
          /\ ActionOf(mi, s).limit # {} /\ runtime'[mi].current_state = s
          /\ UsedUp(padding_sent_packets, padding_sent_packets + normal_sent_packets,
                    max_padding_frac)
          => runtime'[mi].state_limit > 0]_vars

(* "CounterZero is when a machine's counter was decremented to zero", once
   per call: the first time a machine zeroes a counter in a call, it gets
   the event, whatever other machines did.                                 *)
CounterZeroDelivered ==
  [][\A mi \in Ids :
       zeroed[mi] = {} /\ zeroed'[mi] # {} /\ pc = "transition"
       => call' = [mi |-> mi, event |-> "CounterZero"]]_vars
=============================================================================
