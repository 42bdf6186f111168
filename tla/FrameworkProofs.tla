--------------------------- MODULE FrameworkProofs ---------------------------
(***************************************************************************)
(* Proofs about Framework for every set of machines, every batch of events *)
(* and every clock: types, how far transitions nest, what is accounted.    *)
(***************************************************************************)
EXTENDS FrameworkProperties, SequenceTheorems, TLAPS

-----------------------------------------------------------------------------
(***************************************************************************)
(* What the machines' validation gives.                                    *)
(***************************************************************************)

(* The states of a machine are numbered from 0; each has a well-typed action
   and counters, and leads to a state of the machine or a pseudo-state.     *)
LEMMA MachineTyped ==
  ASSUME NEW mi \in Ids
  PROVE  /\ 0 \in StatesOf(mi)
         /\ StatesOf(mi) \subseteq Nat
         /\ StatesOf(mi) \cap {None, STATE_END, STATE_SIGNAL} = {}
         /\ \A s \in StatesOf(mi) :
              /\ ActionOf(mi, s) \in Action
              /\ StateOf(mi, s).counter_a \in Counter
              /\ StateOf(mi, s).counter_b \in Counter
              /\ \A e \in Event :
                   StateOf(mi, s).transitions[e]
                     \subseteq StatesOf(mi) \cup {None, STATE_END, STATE_SIGNAL}
<1>1. IsMachine(machines[mi])
  BY FrameworkAssumption
<1>2. PICK n \in 1 .. STATE_MAX : machines[mi].states \in [0 .. n - 1 -> State(n)]
  BY <1>1 DEF IsMachine
<1>3. n \in Nat /\ n >= 1 /\ StatesOf(mi) = 0 .. n - 1
  BY <1>2, MachineAssumption DEF StatesOf
<1>4. 0 \in StatesOf(mi) /\ StatesOf(mi) \subseteq Nat
  BY <1>3
<1>5. StatesOf(mi) \cap {None, STATE_END, STATE_SIGNAL} = {}
  BY <1>3 DEF None, STATE_END, STATE_SIGNAL
<1>6. ASSUME NEW s \in StatesOf(mi)
      PROVE  /\ ActionOf(mi, s) \in Action
             /\ StateOf(mi, s).counter_a \in Counter
             /\ StateOf(mi, s).counter_b \in Counter
             /\ \A e \in Event :
                  StateOf(mi, s).transitions[e]
                    \subseteq StatesOf(mi) \cup {None, STATE_END, STATE_SIGNAL}
  <2>1. StateOf(mi, s) \in State(n)
    BY <1>2, <1>3 DEF StateOf
  <2>2. StateOf(mi, s).transitions \in [Event -> (SUBSET Target(n)) \ {{}}]
    BY <2>1 DEF State
  <2>3. Target(n) = StatesOf(mi) \cup {STATE_END, STATE_SIGNAL, None}
    BY <1>3 DEF Target
  <2> QED
    BY <2>1, <2>2, <2>3 DEF State, ActionOf
<1> QED
  BY <1>4, <1>5, <1>6

(* A state's limit, and a counter after an update, is a u64. *)
LEMMA LimitTyped ==
  ASSUME NEW action \in Action
  PROVE  SampleLimit(action) \subseteq U64
BY MachineAssumption DEF Action, SampleLimit, STATE_LIMIT_MAX, U64

LEMMA CounterTyped ==
  ASSUME NEW counter \in Counter, NEW own \in U64, NEW other \in U64
  PROVE  CounterUpdates(counter, own, other) \subseteq U64
<1> SUFFICES ASSUME NEW change \in U64
             PROVE  Apply(counter.operation, own, change) \in U64
  BY DEF Counter, CounterUpdates
<1> QED
  BY MachineAssumption DEF Apply, U64

(* The limit checks are formulas: what a frame keeps of them is a Boolean. *)
LEMMA BelowTyped ==
  ASSUME NEW mi, NEW r
  PROVE  BelowActionLimits(mi, r) \in BOOLEAN
BY DEF BelowActionLimits

-----------------------------------------------------------------------------
(***************************************************************************)
(* Type correctness.  A transition runs for an existing machine, and       *)
(* transitions wait for another one only while a transition runs.          *)
(***************************************************************************)
ControlOK ==
  /\ pc \in {"transition", "return"} => call.mi \in Ids
  /\ frames # <<>> => pc \in {"transition", "return"}

Typed == TypeOK /\ ControlOK

LEMMA TypedInit == Init => Typed
<1> SUFFICES ASSUME Init PROVE Typed
  OBVIOUS
<1> USE DEF Init
<1>1. \A mi \in Ids : 0 \in StatesOf(mi)
  BY MachineTyped
<1>2. ASSUME NEW mi \in Ids
      PROVE  runtime[mi] \in MachineRuntime(mi)
  <2>1. PICK l \in U64 :
          runtime[mi] = [current_state |-> 0, state_limit |-> l,
                         padding_sent |-> 0, normal_sent |-> 0,
                         blocking_duration |-> 0,
                         counter_a |-> 0, counter_b |-> 0]
    OBVIOUS
  <2>2. 0 \in U64
    BY MachineAssumption DEF U64
  <2> QED
    BY <1>1, <2>1, <2>2 DEF MachineRuntime
<1>3. visit \in Visit /\ call \in [mi : Ids \cup {0}, event : Event]
  BY FrameworkAssumption DEF Visit, Event, Ids, None
<1>4. frames \in Seq(Frame)
  OBVIOUS
<1>5. counter_zeroed_once \in [Counters -> BOOLEAN]
  BY DEF Counters
<1> QED
  BY <1>1, <1>2, <1>3, <1>4, <1>5
     DEF Typed, TypeOK, ControlOK, Change, None, Counters

(* Every action of a call keeps the types; the actions by what they touch. *)
LEMMA TypedEvents ==
  ASSUME Typed, NEW e \in Reports, ProcessEvent(e)
  PROVE  Typed'
<1> USE DEF Typed, TypeOK, ControlOK
<1>1. e \in TriggerEvent /\ e.event \in Event /\ e.machine \in Ids \cup {NumMachines}
  BY FrameworkAssumption DEF TriggerEvent, Event, Ids
<1>2. NumMachines \in Nat /\ OngoingBlock \in Nat
  BY FrameworkAssumption DEF OngoingBlock, Since
<1>3. ASSUME NEW first \in 0 .. NumMachines, NEW last \in Ids \cup {-1},
             NEW blocked \in Nat, VisitMachines(e, first, last, blocked)
      PROVE  visit' \in Visit /\ pc' = "visit"
  BY <1>1, <1>3 DEF VisitMachines, Visit
<1>4. 0 \in 0 .. NumMachines /\ NumMachines - 1 \in Ids \cup {-1}
      /\ Ids \subseteq 0 .. NumMachines
  BY <1>2 DEF Ids
<1>5. CASE ProcessTraffic(e)
  <2>1. visit' \in Visit /\ pc' = "visit"
    BY <1>2, <1>3, <1>4, <1>5 DEF ProcessTraffic
  <2> QED
    BY <1>2, <2>1, <1>5 DEF ProcessTraffic, TakeEvent, accounting, history
<1>6. CASE ProcessNormalSent(e)
  <2>1. visit' \in Visit /\ pc' = "visit"
    BY <1>2, <1>3, <1>4, <1>6 DEF ProcessNormalSent
  <2> QED
    BY <1>2, <2>1, <1>6 DEF ProcessNormalSent, TakeEvent, history
<1>7. CASE ProcessPaddingSent(e)
  <2>1. visit' \in Visit /\ pc' \in {"visit", "batch"}
    BY <1>1, <1>2, <1>3, <1>4, <1>7 DEF ProcessPaddingSent, TakeEvent
  <2> QED
    BY <1>2, <2>1, <1>7 DEF ProcessPaddingSent, TakeEvent, history
<1>8. CASE ProcessBlockingBegin(e)
  <2>1. visit' \in Visit /\ pc' = "visit"
    BY <1>2, <1>3, <1>4, <1>8 DEF ProcessBlockingBegin
  <2> QED
    BY <1>2, <2>1, <1>8 DEF ProcessBlockingBegin, TakeEvent, history
<1>9. CASE ProcessBlockingEnd(e)
  <2>1. visit' \in Visit /\ pc' = "visit"
    BY <1>2, <1>3, <1>4, <1>9 DEF ProcessBlockingEnd
  <2> QED
    <3>1. blocking_duration' \in Nat
      BY <1>2, <1>9 DEF ProcessBlockingEnd
    <3>2. blocking_active' \in BOOLEAN
      BY <1>9, Zenon DEF ProcessBlockingEnd
    <3>3. /\ pc = "batch" /\ batch' \in Nat
          /\ UNCHANGED <<padding_sent_packets, normal_sent_packets,
                         blocking_started, current_time, actions, runtime,
                         signal_pending, counter_zeroed_once, call, frames,
                         result, history>>
      BY <1>9 DEF ProcessBlockingEnd, TakeEvent
    <3> QED
      BY <2>1, <3>1, <3>2, <3>3 DEF history
<1>10. CASE ProcessTimer(e)
  <2>1. visit' \in Visit /\ pc' \in {"visit", "batch"}
    BY <1>1, <1>2, <1>3, <1>4, <1>10 DEF ProcessTimer, TakeEvent
  <2> QED
    BY <1>2, <2>1, <1>10 DEF ProcessTimer, TakeEvent, accounting, history
<1> QED
  BY <1>5, <1>6, <1>7, <1>8, <1>9, <1>10 DEF ProcessEvent

(* Which machine a round of the loop visits. *)
LEMMA VisitTyped ==
  ASSUME Typed, visit.next <= visit.last
  PROVE  visit.next \in Ids /\ visit.next + 1 \in 0 .. NumMachines
BY FrameworkAssumption DEF Typed, TypeOK, Visit, Ids

LEMMA AccountedTyped ==
  ASSUME NEW m \in Ids, NEW r \in MachineRuntime(m), visit \in Visit
  PROVE  Accounted(r) \in MachineRuntime(m)
<1> DEFINE sent == IF visit.event = "NormalSent" THEN r.normal_sent + 1
                                                 ELSE r.normal_sent
           padding == IF visit.event = "PaddingSent" THEN r.padding_sent + 1
                                                     ELSE r.padding_sent
           blocked == r.blocking_duration + visit.blocked
<1>1. sent \in Nat /\ padding \in Nat /\ blocked \in Nat
  BY DEF MachineRuntime, Visit
<1>2. Accounted(r) = [r EXCEPT !.normal_sent = sent, !.padding_sent = padding,
                               !.blocking_duration = blocked]
  BY DEF Accounted
<1> HIDE DEF sent, padding, blocked
<1> QED
  BY <1>1, <1>2 DEF MachineRuntime

LEMMA TypedLoop ==
  ASSUME Typed, VisitMachine \/ FinishEvent
  PROVE  Typed'
<1>1. CASE VisitMachine
  <2> DEFINE mi == visit.next
  <2>1. mi \in Ids /\ mi + 1 \in 0 .. NumMachines
    BY <1>1, VisitTyped DEF VisitMachine
  <2>2. visit \in Visit /\ visit' \in Visit
    BY <1>1, <2>1 DEF VisitMachine, Visit, Typed, TypeOK
  <2>3. ASSUME NEW m \in Ids
        PROVE  runtime'[m] \in MachineRuntime(m)
    <3>1. runtime[m] \in MachineRuntime(m) /\ DOMAIN runtime = Ids
      BY DEF Typed, TypeOK
    <3>2. Accounted(runtime[m]) \in MachineRuntime(m)
      BY <2>2, <3>1, AccountedTyped
    <3> QED
      BY <1>1, <2>1, <3>1, <3>2 DEF VisitMachine
  <2>4. DOMAIN runtime' = Ids
    BY <1>1 DEF VisitMachine, Typed, TypeOK
  <2>5. call' \in [mi : Ids \cup {0}, event : Event]
    <3>1. visit.event \in Event /\ call \in [mi : Ids \cup {0}, event : Event]
      BY <2>2 DEF Visit, Typed, TypeOK
    <3> QED
      BY <1>1, <2>1, <3>1 DEF VisitMachine
  <2>6. signalled' \in [Ids -> Nat]
    <3>1. signalled \in [Ids -> Nat]
      BY DEF Typed, TypeOK
    <3> QED
      BY <1>1, <2>1, <3>1 DEF VisitMachine
  <2>7. pc' \in {"visit", "transition"} /\ resampled' = FALSE
        /\ (pc' = "transition" => call'.mi \in Ids) /\ frames = <<>>
    BY <1>1, <2>1 DEF VisitMachine, Typed, ControlOK
  <2> QED
    BY <1>1, <2>2, <2>3, <2>4, <2>5, <2>6, <2>7
       DEF VisitMachine, accounting, Typed, TypeOK, ControlOK
<1>2. CASE FinishEvent
  BY <1>2 DEF FinishEvent, accounting, history, Typed, TypeOK, ControlOK
<1> QED
  BY <1>1, <1>2

(* The transition that runs: its machine, and the states it may lead to. *)
LEMMA TransitionTyped ==
  ASSUME Typed, pc = "transition"
  PROVE  /\ call.mi \in Ids /\ call.event \in Event
         /\ runtime[call.mi] \in MachineRuntime(call.mi)
         /\ \A s \in SampleState \ {None, STATE_END, STATE_SIGNAL} :
              /\ Current \in StatesOf(call.mi)
              /\ s \in StatesOf(call.mi)
         /\ \A s \in SampleState \ {None} : Current # STATE_END
<1>1. /\ call.mi \in Ids /\ call.event \in Event
      /\ runtime[call.mi] \in MachineRuntime(call.mi)
  BY DEF Typed, TypeOK, ControlOK
<1>2. Current \in StatesOf(call.mi) \cup {STATE_END}
  BY <1>1 DEF MachineRuntime, Current
<1>3. Current = STATE_END => SampleState = {None}
  BY DEF SampleState
<1>4. Current # STATE_END =>
        SampleState \subseteq StatesOf(call.mi) \cup {None, STATE_END, STATE_SIGNAL}
  BY <1>1, <1>2, MachineTyped DEF SampleState
<1> QED
  BY <1>1, <1>2, <1>3, <1>4

LEMMA TypedTransitionEnd ==
  ASSUME Typed, TransitionNone \/ TransitionEnd \/ TransitionSignal
  PROVE  Typed'
<1>1. CASE TransitionNone
  BY <1>1 DEF TransitionNone, Return, Change, accounting, history,
              Typed, TypeOK, ControlOK
<1>2. CASE TransitionEnd
  <2>1. DOMAIN runtime' = Ids /\ \A m \in Ids : runtime'[m] \in MachineRuntime(m)
    BY <1>2, TransitionTyped
       DEF TransitionEnd, MachineRuntime, Typed, TypeOK
  <2> QED
    BY <1>2, <2>1 DEF TransitionEnd, Return, Change, accounting, history,
                      Typed, TypeOK, ControlOK
<1>3. CASE TransitionSignal
  <2>1. signal_pending' \in Ids \cup {None, All} /\ raisers' \subseteq Ids
    BY <1>3, TransitionTyped DEF TransitionSignal, SignalTarget, Typed, TypeOK
  <2> QED
    BY <1>3, <2>1 DEF TransitionSignal, Return, Change, accounting,
                      Typed, TypeOK, ControlOK
<1> QED
  BY <1>1, <1>2, <1>3

LEMMA TypedTransitionState ==
  ASSUME Typed, NEW next_state \in 0 .. STATE_MAX - 1,
         TransitionState(next_state)
  PROVE  Typed'
<1> DEFINE mi    == call.mi
           state == StateOf(mi, next_state)
           old   == runtime[mi]
<1>1. /\ mi \in Ids /\ old \in MachineRuntime(mi) /\ DOMAIN runtime = Ids
      /\ next_state \in StatesOf(mi) /\ Current \in StatesOf(mi)
  BY TransitionTyped DEF TransitionState, Typed, TypeOK
<1>2. PICK limit \in IF next_state = Current THEN {old.state_limit}
                                             ELSE EntryLimit(state),
           a \in CounterUpdates(state.counter_a, old.counter_a, old.counter_b),
           b \in CounterUpdates(state.counter_b, old.counter_b, old.counter_a) :
        Enter(next_state, limit, a, b)
  BY DEF TransitionState
<1> DEFINE new    == [old EXCEPT !.current_state = next_state,
                                 !.state_limit = limit,
                                 !.counter_a = a, !.counter_b = b]
           below  == BelowActionLimits(mi, new)
           zeroes == {c \in Counters :
                        IF c = "a" THEN old.counter_a # 0 /\ a = 0
                                   ELSE old.counter_b # 0 /\ b = 0}
           frame  == [mi |-> mi, next_state |-> next_state,
                      curr_state |-> Current, below |-> below]
<1>3. pc = "transition" /\ pc' \in {"transition", "return"}
  BY <1>2 DEF TransitionState, Enter, Return
<1>4. limit \in U64 /\ a \in U64 /\ b \in U64
  BY <1>1, MachineTyped, LimitTyped, CounterTyped DEF EntryLimit, ActionOf, MachineRuntime
<1>5. new \in MachineRuntime(mi)
  BY <1>1, <1>4 DEF MachineRuntime
<1>6. DOMAIN runtime' = Ids /\ \A m \in Ids : runtime'[m] \in MachineRuntime(m)
  BY <1>1, <1>2, <1>5 DEF Enter, Typed, TypeOK
<1>7. zeroed' \in [Ids -> SUBSET Counters]
  <2>1. zeroed \in [Ids -> SUBSET Counters]
    BY DEF Typed, TypeOK
  <2>2. zeroes \subseteq Counters
    OBVIOUS
  <2>3. zeroed' = [zeroed EXCEPT ![mi] = @ \cup zeroes]
    BY <1>2 DEF Enter
  <2> HIDE DEF zeroes
  <2> QED
    BY <1>1, <2>1, <2>2, <2>3
<1>8. resampled' \in BOOLEAN
  BY <1>2 DEF Enter
<1>9. frame \in Frame
  BY <1>1, BelowTyped DEF Frame
<1>10. frames' \in Seq(Frame)
  <2>1. frames \in Seq(Frame)
    BY DEF Typed, TypeOK
  <2>2. frames' = Append(frames, frame) \/ frames' = frames
    BY <1>2 DEF Enter
  <2> QED
    BY <1>9, <2>1, <2>2
<1>11. counter_zeroed_once' \in [Counters -> BOOLEAN]
  BY <1>2 DEF Enter, Typed, TypeOK
<1>12. call' \in [mi : Ids \cup {0}, event : Event] /\ call'.mi \in Ids
  <2>1. call' = call \/ call' = [mi |-> mi, event |-> "CounterZero"]
    BY <1>2 DEF Enter
  <2>2. call \in [mi : Ids \cup {0}, event : Event]
    BY DEF Typed, TypeOK
  <2> QED
    BY <1>1, <2>1, <2>2 DEF Event
<1>13. DOMAIN actions' = Ids
       /\ \A m \in Ids : actions'[m] \in StatesOf(m) \cup {None}
  BY <1>1, <1>2 DEF Enter, Typed, TypeOK
<1>14. result' \in Change
  BY <1>2 DEF Enter, Typed, TypeOK, Return, Change
<1>15. UNCHANGED <<current_time, accounting, signal_pending, batch, visit,
                   raisers, signalled, ended>>
  BY DEF TransitionState
<1>16. undercut' \subseteq Ids
  <2>1. undercut' \subseteq undercut \cup {mi}
    BY <1>2 DEF Enter
  <2> QED
    BY <1>1, <2>1 DEF Typed, TypeOK
<1> QED
  BY <1>3, <1>6, <1>7, <1>8, <1>10, <1>11, <1>12, <1>13, <1>14, <1>15, <1>16
     DEF accounting, Typed, TypeOK, ControlOK

LEMMA TypedResume ==
  ASSUME Typed, ResumeTransition
  PROVE  Typed'
<1> DEFINE f == frames[Len(frames)]
<1>1. f \in Frame /\ frames' \in Seq(Frame)
  <2>1. frames \in Seq(Frame) /\ frames # <<>>
    BY DEF Typed, TypeOK, ResumeTransition
  <2>2. Len(frames) \in Nat \ {0}
    BY <2>1, EmptySeq
  <2>3. f \in Frame
    BY <2>1, <2>2, ElementOfSeq
  <2>4. \A i \in 1 .. Len(frames) - 1 : frames[i] \in Frame
    BY <2>1, <2>2, ElementOfSeq
  <2>5. SubSeq(frames, 1, Len(frames) - 1) \in Seq(Frame)
    BY <2>2, <2>4, SubSeqProperties
  <2> QED
    BY <2>3, <2>5 DEF ResumeTransition
<1>2. f.mi \in Ids /\ f.next_state \in StatesOf(f.mi)
  BY <1>1 DEF Frame
<1>3. DOMAIN actions' = Ids
      /\ \A m \in Ids : actions'[m] \in StatesOf(m) \cup {None}
  BY <1>2 DEF ResumeTransition, Typed, TypeOK
<1>4. result' \in Change /\ pc = "return" /\ pc' = "return"
  BY DEF ResumeTransition, Return, ChangeOf, Change
<1> QED
  BY <1>1, <1>3, <1>4
     DEF ResumeTransition, accounting, history, Typed, TypeOK, ControlOK

LEMMA TypedVisitEnd ==
  ASSUME Typed, FinishVisit \/ DecrementLimit \/ FinishLimit
  PROVE  Typed'
<1>1. CASE FinishVisit
  BY <1>1 DEF FinishVisit, Returned, accounting, history,
              Typed, TypeOK, ControlOK
<1>2. CASE DecrementLimit
  <2> DEFINE mi   == call.mi
             left == IF runtime[mi].state_limit > 0
                     THEN runtime[mi].state_limit - 1 ELSE 0
  <2>1. mi \in Ids /\ runtime[mi] \in MachineRuntime(mi) /\ DOMAIN runtime = Ids
        /\ DOMAIN actions = Ids /\ visit \in Visit /\ frames = <<>>
    BY <1>2 DEF DecrementLimit, Returned, Typed, TypeOK, ControlOK
  <2>2. left \in U64
    BY <2>1, MachineAssumption DEF MachineRuntime, U64
  <2>3. runtime' = [runtime EXCEPT ![mi].state_limit = left]
    BY <1>2 DEF DecrementLimit
  <2>4. DOMAIN runtime' = Ids /\ \A m \in Ids : runtime'[m] \in MachineRuntime(m)
    <3> HIDE DEF left
    <3> QED
      BY <2>1, <2>2, <2>3 DEF MachineRuntime, Typed, TypeOK
  <2>5. DOMAIN actions' = Ids
        /\ \A m \in Ids : actions'[m] \in StatesOf(m) \cup {None}
    BY <1>2, <2>1 DEF DecrementLimit, Typed, TypeOK
  <2>6. call' = call \/ call' = [mi |-> mi, event |-> "LimitReached"]
    BY <1>2 DEF DecrementLimit
  <2>7. call' \in [mi : Ids \cup {0}, event : Event] /\ call'.mi \in Ids
    BY <2>1, <2>6 DEF Event, Typed, TypeOK
  <2>8. visit' \in Visit
    BY <1>2, <2>1 DEF DecrementLimit, Visit
  <2>9. pc' \in {"visit", "transition"}
    BY <1>2 DEF DecrementLimit
  <2> QED
    BY <1>2, <2>1, <2>4, <2>5, <2>7, <2>8, <2>9
       DEF DecrementLimit, accounting, history, Typed, TypeOK, ControlOK
<1>3. CASE FinishLimit
  <2>1. visit' \in Visit
    BY <1>3 DEF FinishLimit, Visit, Typed, TypeOK
  <2> QED
    BY <1>3, <2>1 DEF FinishLimit, Returned, accounting, history,
                      Typed, TypeOK, ControlOK
<1> QED
  BY <1>1, <1>2, <1>3

LEMMA TypedSignals ==
  ASSUME Typed, FinishBatch \/ BeginSignal \/ FinishSignal \/ FinishExcluded
  PROVE  Typed'
<1>1. CASE FinishBatch
  BY <1>1 DEF FinishBatch, accounting, history, Typed, TypeOK, ControlOK
<1>2. CASE BeginSignal
  <2>1. 0 \in 0 .. NumMachines /\ NumMachines - 1 \in Ids \cup {-1}
    BY FrameworkAssumption DEF Ids
  <2>2. signal_pending \in Ids \cup {All}
    BY <1>2 DEF BeginSignal, Typed, TypeOK
  <2>3. visit' \in Visit
    BY <1>2, <2>1, <2>2 DEF BeginSignal, Visit, Event
  <2>4. pc' = "visit" /\ signal_pending' = None
        /\ UNCHANGED <<current_time, actions, runtime, accounting,
                       counter_zeroed_once, batch, call, frames, result, history>>
    BY <1>2 DEF BeginSignal
  <2>5. TypeOK'
    <3>1. TypeOK
      BY DEF Typed
    <3>2. signal_pending' \in Ids \cup {None, All} /\ pc' \in {"visit"}
      BY <2>4
    <3> QED
      BY <2>3, <2>4, <3>1, <3>2, Zenon DEF accounting, history, TypeOK
  <2>6. ControlOK'
    BY <1>2, <2>4 DEF BeginSignal, accounting, history, Typed, TypeOK, ControlOK
  <2> QED
    BY <2>5, <2>6 DEF Typed
<1>3. CASE FinishSignal
  <2>1. visit \in Visit /\ visit' \in Visit
    <3>1. visit \in Visit
      BY DEF Typed, TypeOK
    <3> QED
      BY <1>3, <3>1 DEF FinishSignal, Visit
  <2>2. OwedSignal => visit.skip \in Ids
    BY <2>1 DEF OwedSignal, Visit
  <2>3. \/ call' = call
        \/ OwedSignal /\ call' = [mi |-> visit.skip, event |-> "Signal"]
    BY <1>3 DEF FinishSignal
  <2>4. call' \in [mi : Ids \cup {0}, event : Event]
    BY <2>2, <2>3 DEF Event, Typed, TypeOK
  <2>5. pc' = "transition" => call'.mi \in Ids
    BY <1>3, <2>2 DEF FinishSignal
  <2>6. signalled' \in [Ids -> Nat]
    <3>1. signalled \in [Ids -> Nat]
      BY DEF Typed, TypeOK
    <3> QED
      BY <1>3, <2>2, <3>1 DEF FinishSignal
  <2>7. frames = <<>> /\ pc' \in {"transition", "idle"} /\ signal_pending' = None
    BY <1>3 DEF FinishSignal, Typed, ControlOK
  <2> QED
    BY <1>3, <2>1, <2>4, <2>5, <2>6, <2>7
       DEF FinishSignal, accounting, Typed, TypeOK, ControlOK
<1>4. CASE FinishExcluded
  BY <1>4 DEF FinishExcluded, Returned, accounting, history,
              Typed, TypeOK, ControlOK
<1> QED
  BY <1>1, <1>2, <1>3, <1>4

LEMMA TypedTrigger ==
  ASSUME Typed, NEW now \in 0 .. MaxTime, TriggerEvents(now)
  PROVE  Typed'
<1>1. now \in Nat
  BY FrameworkAssumption
<1>2. DOMAIN actions' = Ids
      /\ \A m \in Ids : actions'[m] \in StatesOf(m) \cup {None}
  BY DEF TriggerEvents, ResetActions
<1>3. counter_zeroed_once' \in [Counters -> BOOLEAN]
      /\ signalled' \in [Ids -> Nat] /\ zeroed' \in [Ids -> SUBSET Counters]
      /\ raisers' \subseteq Ids /\ ended' \subseteq Ids
  BY DEF TriggerEvents
<1> QED
  BY <1>1, <1>2, <1>3 DEF TriggerEvents, accounting, Typed, TypeOK, ControlOK

LEMMA TypedNext == Typed /\ [Next]_vars => Typed'
<1> SUFFICES ASSUME Typed, [Next]_vars PROVE Typed'
  OBVIOUS
<1>1. CASE \E now \in 0 .. MaxTime : TriggerEvents(now)
  BY <1>1, TypedTrigger
<1>2. CASE \E e \in Reports : ProcessEvent(e)
  BY <1>2, TypedEvents
<1>3. CASE VisitMachine \/ FinishEvent
  BY <1>3, TypedLoop
<1>4. CASE Transition
  BY <1>4, TypedTransitionEnd, TypedTransitionState DEF Transition
<1>5. CASE ResumeTransition
  BY <1>5, TypedResume
<1>6. CASE FinishVisit \/ DecrementLimit \/ FinishLimit
  BY <1>6, TypedVisitEnd
<1>7. CASE FinishBatch \/ BeginSignal \/ FinishSignal \/ FinishExcluded
  BY <1>7, TypedSignals
<1>8. CASE UNCHANGED vars
  BY <1>8 DEF vars, accounting, control, history, Typed, TypeOK, ControlOK
<1> QED
  BY <1>1, <1>2, <1>3, <1>4, <1>5, <1>6, <1>7, <1>8 DEF Next, Run

(* The framework stores in every variable what the code declares for it; the
   states it stores are states of the machine they belong to.              *)
THEOREM TypeCorrect == Spec => []TypeOK
<1>1. Typed => TypeOK
  BY DEF Typed
<1> QED
  BY <1>1, TypedInit, TypedNext, PTL DEF Spec

-----------------------------------------------------------------------------
(***************************************************************************)
(* Nesting.  A transition that waits for CounterZero has set a flag that   *)
(* was not set, and the flags are reset while no transition waits.         *)
(***************************************************************************)
Flag(c) == IF counter_zeroed_once[c] THEN 1 ELSE 0

LEMMA NestingTransition ==
  ASSUME Typed, NestingBounded, NEW next_state \in 0 .. STATE_MAX - 1,
         TransitionState(next_state)
  PROVE  NestingBounded'
<1>1. \/ UNCHANGED <<frames, counter_zeroed_once>>
      \/ \E fresh \in SUBSET Counters, frame \in Frame :
           /\ fresh # {} /\ \A c \in fresh : ~counter_zeroed_once[c]
           /\ counter_zeroed_once' =
                [c \in Counters |-> counter_zeroed_once[c] \/ c \in fresh]
           /\ frames' = Append(frames, frame)
  <2>1. Current \in StatesOf(call.mi) /\ next_state \in StatesOf(call.mi)
        /\ call.mi \in Ids
    BY TransitionTyped DEF TransitionState
  <2>2. ASSUME NEW below \in BOOLEAN
        PROVE  [mi |-> call.mi, next_state |-> next_state,
                curr_state |-> Current, below |-> below] \in Frame
    BY <2>1 DEF Frame
  <2>3. PICK limit, a, b : Enter(next_state, limit, a, b)
    BY DEF TransitionState
  <2> DEFINE old    == runtime[call.mi]
             new    == [old EXCEPT !.current_state = next_state,
                                   !.state_limit = limit,
                                   !.counter_a = a, !.counter_b = b]
             below  == BelowActionLimits(call.mi, new)
             zeroes == {c \in Counters :
                          IF c = "a" THEN old.counter_a # 0 /\ a = 0
                                     ELSE old.counter_b # 0 /\ b = 0}
             fresh  == {c \in zeroes : ~counter_zeroed_once[c]}
             frame  == [mi |-> call.mi, next_state |-> next_state,
                        curr_state |-> Current, below |-> below]
  <2>4. frame \in Frame
    BY <2>2, BelowTyped
  <2>5. fresh \in SUBSET Counters /\ \A c \in fresh : ~counter_zeroed_once[c]
    OBVIOUS
  <2>6. IF fresh # {}
        THEN /\ counter_zeroed_once' =
                  [c \in Counters |-> counter_zeroed_once[c] \/ c \in fresh]
             /\ frames' = Append(frames, frame)
        ELSE UNCHANGED <<frames, counter_zeroed_once>>
    BY <2>3 DEF Enter, FirstZeroed
  <2> HIDE DEF fresh, frame
  <2> QED
    BY <2>4, <2>5, <2>6
<1>2. frames \in Seq(Frame) /\ counter_zeroed_once \in [Counters -> BOOLEAN]
  BY DEF Typed, TypeOK
<1>3. CASE UNCHANGED <<frames, counter_zeroed_once>>
  BY <1>3 DEF NestingBounded
<1>4. ASSUME NEW fresh \in SUBSET Counters, NEW frame \in Frame,
             fresh # {}, \A c \in fresh : ~counter_zeroed_once[c],
             counter_zeroed_once' =
               [c \in Counters |-> counter_zeroed_once[c] \/ c \in fresh],
             frames' = Append(frames, frame)
      PROVE  NestingBounded'
  <2>1. Len(frames') = Len(frames) + 1 /\ Len(frames) \in Nat
    BY <1>2, <1>4, AppendProperties, LenProperties
  <2>2. \E c \in Counters : ~counter_zeroed_once[c] /\ counter_zeroed_once'[c]
    BY <1>4
  <2>3. \A c \in Counters : counter_zeroed_once[c] => counter_zeroed_once'[c]
    BY <1>4
  <2> QED
    BY <1>2, <2>1, <2>2, <2>3 DEF NestingBounded, Counters
<1> QED
  BY <1>1, <1>3, <1>4

LEMMA NestingNext ==
  Typed /\ NestingBounded /\ [Next]_vars => NestingBounded'
<1> SUFFICES ASSUME Typed, NestingBounded, [Next]_vars PROVE NestingBounded'
  OBVIOUS
<1>1. frames \in Seq(Frame) /\ counter_zeroed_once \in [Counters -> BOOLEAN]
  BY DEF Typed, TypeOK
<1>2. ASSUME NEW now, TriggerEvents(now)
      PROVE  NestingBounded'
  <2>1. frames' = <<>>
    BY <1>2 DEF TriggerEvents, Typed, ControlOK
  <2> QED
    BY <1>2, <2>1 DEF NestingBounded, TriggerEvents, Counters
<1>3. CASE ResumeTransition
  <2>1. Len(frames) \in Nat \ {0}
    BY <1>1, <1>3, EmptySeq DEF ResumeTransition
  <2>2. Len(frames') = Len(frames) - 1
    <3> DEFINE n == Len(frames)
               popped == SubSeq(frames, 1, n - 1)
    <3>1. \A i \in 1 .. n - 1 : frames[i] \in Frame
      BY <1>1, <2>1, ElementOfSeq
    <3>2. n \in Nat \ {0} /\ n - 1 \in Int
      BY <2>1
    <3>3. Len(popped) = IF 1 <= n - 1 THEN (n - 1) - 1 + 1 ELSE 0
      BY <3>1, <3>2, SubSeqProperties
    <3>4. frames' = popped
      BY <1>3 DEF ResumeTransition
    <3> HIDE DEF popped, n
    <3>5. Len(popped) = n - 1
      BY <3>2, <3>3
    <3> QED
      BY <3>4, <3>5 DEF n
  <2> QED
    BY <1>3, <2>1, <2>2 DEF ResumeTransition, NestingBounded
<1>4. ASSUME UNCHANGED <<frames, counter_zeroed_once>>
      PROVE  NestingBounded'
  BY <1>4 DEF NestingBounded
<1> QED
  BY <1>2, <1>3, <1>4, NestingTransition
     DEF Next, Run, ProcessEvent, ProcessTraffic, ProcessNormalSent,
         ProcessPaddingSent, ProcessBlockingBegin, ProcessBlockingEnd,
         ProcessTimer, TakeEvent, VisitMachine, FinishEvent, Transition,
         TransitionNone, TransitionEnd, TransitionSignal, FinishVisit,
         DecrementLimit, FinishLimit, FinishBatch, BeginSignal, FinishSignal,
         FinishExcluded, vars, control

(* Whatever the machines are, at most as many transitions wait for an inner
   one as counters were zeroed in the call: the recursion between
   transition() and update_counter() is at most three transitions deep.     *)
THEOREM NestingIsBounded == Spec => []NestingBounded
<1>1. Init => NestingBounded
  BY DEF Init, NestingBounded, Counters
<1> QED
  BY <1>1, TypedInit, TypedNext, NestingNext, PTL DEF Spec

-----------------------------------------------------------------------------
(***************************************************************************)
(* Blocked time, on a clock that does not step back: the block going on    *)
(* now began after everything counted so far.                              *)
(***************************************************************************)
LEMMA BlockedNext ==
  ASSUME MonotoneClock
  PROVE  Typed /\ BlockedTimeBounded /\ [Next]_vars => BlockedTimeBounded'
<1> SUFFICES ASSUME Typed, BlockedTimeBounded, [Next]_vars
             PROVE  BlockedTimeBounded'
  OBVIOUS
<1>1. /\ current_time \in Nat /\ blocking_duration \in Nat
      /\ blocking_started \in Nat
  BY DEF Typed, TypeOK
<1>2. ASSUME NEW now \in 0 .. MaxTime, TriggerEvents(now)
      PROVE  BlockedTimeBounded'
  <2>1. now \in Nat /\ now >= current_time /\ current_time' = now
    BY <1>2, FrameworkAssumption DEF TriggerEvents
  <2>2. UNCHANGED <<blocking_duration, blocking_started, blocking_active>>
    BY <1>2 DEF TriggerEvents, accounting
  <2> QED
    BY <1>1, <2>1, <2>2 DEF BlockedTimeBounded, OngoingBlock, Since
<1>3. ASSUME NEW e, ProcessBlockingBegin(e)
      PROVE  BlockedTimeBounded'
  <2>1. /\ UNCHANGED <<current_time, blocking_duration>> /\ blocking_active'
        /\ blocking_started' = IF blocking_active THEN blocking_started
                                                  ELSE current_time
    BY <1>3 DEF ProcessBlockingBegin, TakeEvent
  <2> QED
    BY <1>1, <2>1 DEF BlockedTimeBounded, OngoingBlock, Since
<1>4. ASSUME NEW e, ProcessBlockingEnd(e)
      PROVE  BlockedTimeBounded'
  <2>1. /\ UNCHANGED <<current_time, blocking_started>> /\ ~blocking_active'
        /\ blocking_duration' = blocking_duration + OngoingBlock
    BY <1>4 DEF ProcessBlockingEnd, TakeEvent
  <2> QED
    BY <1>1, <2>1 DEF BlockedTimeBounded, OngoingBlock, Since
<1>5. ASSUME UNCHANGED <<current_time, blocking_duration, blocking_started,
                         blocking_active>>
      PROVE  BlockedTimeBounded'
  BY <1>5 DEF BlockedTimeBounded, OngoingBlock, Since
<1> QED
  BY <1>2, <1>3, <1>4, <1>5
     DEF Next, Run, ProcessEvent, ProcessTraffic, ProcessNormalSent,
         ProcessPaddingSent, ProcessTimer, TakeEvent, VisitMachine,
         FinishEvent, Transition, TransitionNone, TransitionEnd,
         TransitionSignal, TransitionState, ResumeTransition, FinishVisit,
         DecrementLimit, FinishLimit, FinishBatch, BeginSignal, FinishSignal,
         FinishExcluded, vars, accounting

(* As long as the integrator's clock does not step back, no time is counted
   as blocked twice: a blocking fraction is never more than one.            *)
THEOREM BlockedTimeIsBounded ==
  ASSUME MonotoneClock
  PROVE  Spec => []BlockedTimeBounded
<1>1. Init => BlockedTimeBounded
  BY DEF Init, BlockedTimeBounded, OngoingBlock
<1> QED
  BY <1>1, TypedInit, TypedNext, BlockedNext, PTL DEF Spec

-----------------------------------------------------------------------------
(***************************************************************************)
(* Accounting.  While an event visits the machines, those still to be      *)
(* visited lag behind the framework by what the event is about to add.     *)
(***************************************************************************)
Visiting == pc \in {"visit", "transition", "return"}

Lagging(mi) ==
  /\ Visiting /\ visit.stage \in {"event", "limit"}
  /\ visit.next <= mi /\ mi <= visit.last

AccountingLags ==
  \A mi \in Ids :
    /\ normal_sent_packets = runtime[mi].normal_sent
         + (IF Lagging(mi) /\ visit.event = "NormalSent" THEN 1 ELSE 0)
    /\ blocking_duration = runtime[mi].blocking_duration
         + (IF Lagging(mi) THEN visit.blocked ELSE 0)
    /\ runtime[mi].padding_sent
         + (IF Lagging(mi) /\ visit.event = "PaddingSent" THEN 1 ELSE 0)
       <= padding_sent_packets

StageOK ==
  Visiting =>
    /\ visit.stage \in {"event", "limit"} => visit.skip = None
    /\ visit.stage \in {"signal", "excluded"} =>
         visit.event = "Signal" /\ visit.blocked = 0

(* The machines' accounting: all that these proofs read of the runtime. *)
SameAccounts ==
  /\ \A mi \in Ids :
       /\ runtime'[mi].normal_sent = runtime[mi].normal_sent
       /\ runtime'[mi].padding_sent = runtime[mi].padding_sent
       /\ runtime'[mi].blocking_duration = runtime[mi].blocking_duration
  /\ UNCHANGED accounting

(* No transition touches the accounting, nor does the use of a limit. *)
LEMMA TransitionAccounts ==
  ASSUME Typed, Transition \/ ResumeTransition \/ DecrementLimit
  PROVE  SameAccounts
<1> USE DEF SameAccounts
<1>1. \A mi \in Ids : runtime[mi] \in MachineRuntime(mi)
  BY DEF Typed, TypeOK
<1>2. CASE TransitionNone \/ TransitionSignal \/ ResumeTransition
  BY <1>2 DEF TransitionNone, TransitionSignal, ResumeTransition
<1>3. CASE TransitionEnd
  BY <1>1, <1>3, TransitionTyped DEF TransitionEnd, Typed, TypeOK
<1>4. ASSUME NEW next_state \in 0 .. STATE_MAX - 1, TransitionState(next_state)
      PROVE  SameAccounts
  <2>1. PICK limit, a, b : Enter(next_state, limit, a, b)
    BY <1>4 DEF TransitionState
  <2> DEFINE new == [runtime[call.mi] EXCEPT
                       !.current_state = next_state, !.state_limit = limit,
                       !.counter_a = a, !.counter_b = b]
  <2>2. runtime' = [runtime EXCEPT ![call.mi] = new]
    BY <2>1 DEF Enter
  <2>3. call.mi \in Ids /\ DOMAIN runtime = Ids
    BY <1>4, TransitionTyped DEF TransitionState, Typed, TypeOK
  <2>4. /\ new.normal_sent = runtime[call.mi].normal_sent
        /\ new.padding_sent = runtime[call.mi].padding_sent
        /\ new.blocking_duration = runtime[call.mi].blocking_duration
    BY <1>1, <2>3 DEF MachineRuntime
  <2>5. UNCHANGED accounting
    BY <1>4 DEF TransitionState
  <2> HIDE DEF new
  <2> QED
    BY <2>2, <2>3, <2>4, <2>5
<1>5. CASE DecrementLimit
  <2>1. call.mi \in Ids /\ DOMAIN runtime = Ids
    BY <1>5 DEF DecrementLimit, Returned, Typed, TypeOK, ControlOK
  <2> QED
    BY <1>1, <1>5, <2>1 DEF DecrementLimit, MachineRuntime
<1> QED
  BY <1>2, <1>3, <1>4, <1>5 DEF Transition

Accounts == AccountingLags /\ StageOK

LEMMA AccountsEvent ==
  ASSUME Typed, Accounts, NEW e \in Reports, ProcessEvent(e)
  PROVE  Accounts'
<1>1. /\ e.event \in Event \ {"Signal"} /\ e.machine \in Ids \cup {NumMachines}
      /\ NumMachines \in Nat /\ OngoingBlock \in Nat
  BY FrameworkAssumption
     DEF TriggerEvent, Event, Ids, OngoingBlock, Since, Typed, TypeOK
<1>2. ASSUME NEW mi \in Ids
      PROVE  /\ runtime[mi].normal_sent \in Nat /\ runtime[mi].padding_sent \in Nat
             /\ runtime[mi].blocking_duration \in Nat
             /\ mi \in Nat /\ mi <= NumMachines - 1
             /\ normal_sent_packets = runtime[mi].normal_sent
             /\ blocking_duration = runtime[mi].blocking_duration
             /\ runtime[mi].padding_sent <= padding_sent_packets
             /\ padding_sent_packets \in Nat
  <2>1. pc = "batch"
    BY DEF ProcessEvent, ProcessTraffic, ProcessNormalSent, ProcessPaddingSent,
           ProcessBlockingBegin, ProcessBlockingEnd, ProcessTimer, TakeEvent
  <2>2. runtime[mi] \in MachineRuntime(mi)
    BY DEF Typed, TypeOK
  <2>3. blocking_duration \in Nat /\ normal_sent_packets \in Nat
        /\ padding_sent_packets \in Nat
    BY DEF Typed, TypeOK
  <2> QED
    BY <1>1, <2>1, <2>2, <2>3
       DEF Accounts, AccountingLags, Lagging, Visiting, MachineRuntime, Ids
<1>3. UNCHANGED runtime
  BY DEF ProcessEvent, ProcessTraffic, ProcessNormalSent, ProcessPaddingSent,
         ProcessBlockingBegin, ProcessBlockingEnd, ProcessTimer, TakeEvent
<1> USE DEF Accounts, AccountingLags, StageOK, Lagging, Visiting
<1>4. CASE ProcessTraffic(e)
  BY <1>1, <1>2, <1>3, <1>4
     DEF ProcessTraffic, TakeEvent, VisitMachines, accounting
<1>5. CASE ProcessNormalSent(e)
  BY <1>1, <1>2, <1>3, <1>5 DEF ProcessNormalSent, TakeEvent, VisitMachines
<1>6. CASE ProcessPaddingSent(e)
  BY <1>1, <1>2, <1>3, <1>6 DEF ProcessPaddingSent, TakeEvent, VisitMachines
<1>7. CASE ProcessBlockingBegin(e)
  BY <1>1, <1>2, <1>3, <1>7 DEF ProcessBlockingBegin, TakeEvent, VisitMachines
<1>8. CASE ProcessBlockingEnd(e)
  BY <1>1, <1>2, <1>3, <1>8 DEF ProcessBlockingEnd, TakeEvent, VisitMachines
<1>9. CASE ProcessTimer(e)
  BY <1>1, <1>2, <1>3, <1>9 DEF ProcessTimer, TakeEvent, VisitMachines, accounting
<1> QED
  BY <1>4, <1>5, <1>6, <1>7, <1>8, <1>9 DEF ProcessEvent

LEMMA AccountsVisit ==
  ASSUME Typed, Accounts, VisitMachine
  PROVE  Accounts'
<1> DEFINE mi == visit.next
<1>1. mi \in Ids /\ visit \in Visit /\ pc = "visit" /\ mi <= visit.last
  BY VisitTyped DEF VisitMachine, Typed, TypeOK
<1>2. /\ \A m \in Ids : runtime[m] \in MachineRuntime(m)
      /\ DOMAIN runtime = Ids
      /\ normal_sent_packets \in Nat /\ padding_sent_packets \in Nat
      /\ blocking_duration \in Nat
  BY DEF Typed, TypeOK
<1>3. visit' = [visit EXCEPT !.next = mi + 1] /\ UNCHANGED accounting
      /\ pc' \in {"visit", "transition"}
  BY <1>1 DEF VisitMachine
<1>4. /\ visit'.next = mi + 1 /\ visit'.last = visit.last
      /\ visit'.event = visit.event /\ visit'.blocked = visit.blocked
      /\ visit'.stage = visit.stage /\ visit'.skip = visit.skip
      /\ visit.next \in Nat /\ visit.last \in Int /\ visit.blocked \in Nat
  BY <1>1, <1>3, FrameworkAssumption DEF Visit, Ids
<1>5. StageOK'
  BY <1>1, <1>3, <1>4 DEF Accounts, StageOK, Visiting
<1>6. ASSUME NEW m \in Ids
      PROVE  /\ normal_sent_packets' = runtime'[m].normal_sent
                  + (IF Lagging(m)' /\ visit'.event = "NormalSent" THEN 1 ELSE 0)
             /\ blocking_duration' = runtime'[m].blocking_duration
                  + (IF Lagging(m)' THEN visit'.blocked ELSE 0)
             /\ runtime'[m].padding_sent
                  + (IF Lagging(m)' /\ visit'.event = "PaddingSent" THEN 1 ELSE 0)
                <= padding_sent_packets'
  <2>1. m \in Int /\ mi \in Int
    BY <1>1 DEF Ids
  <2>2. /\ runtime[m].normal_sent \in Nat /\ runtime[m].padding_sent \in Nat
        /\ runtime[m].blocking_duration \in Nat
    BY <1>2 DEF MachineRuntime
  <2>3. CASE m # mi
    <3>1. runtime'[m] = runtime[m] /\ (Lagging(m)' <=> Lagging(m))
      BY <1>1, <1>2, <1>3, <1>4, <2>1, <2>3
         DEF VisitMachine, Lagging, Visiting
    <3> QED
      BY <1>3, <1>4, <3>1 DEF Accounts, AccountingLags, accounting
  <2>4. CASE m = mi
    <3>1. /\ ~Lagging(m)'
          /\ \/ Lagging(m)
             \/ visit.event = "Signal" /\ visit.blocked = 0
      BY <1>1, <1>3, <1>4, <2>1, <2>4
         DEF Lagging, Visiting, Visit, Accounts, StageOK
    <3>2. CASE Skipped(mi)
      <4>1. visit.blocked = 0 /\ visit.event = "Signal" /\ UNCHANGED runtime
        BY <1>1, <2>1, <3>2
           DEF VisitMachine, Skipped, Accounts, StageOK, Visiting, None, Ids, Visit
      <4> QED
        BY <1>3, <2>2, <3>1, <4>1 DEF Accounts, AccountingLags, accounting
    <3>3. CASE ~Skipped(mi)
      <4>1. runtime'[m] = Accounted(runtime[m])
        BY <1>1, <1>2, <2>4, <3>3 DEF VisitMachine
      <4>2. /\ runtime'[m].normal_sent = runtime[m].normal_sent
                 + (IF visit.event = "NormalSent" THEN 1 ELSE 0)
            /\ runtime'[m].padding_sent = runtime[m].padding_sent
                 + (IF visit.event = "PaddingSent" THEN 1 ELSE 0)
            /\ runtime'[m].blocking_duration =
                 runtime[m].blocking_duration + visit.blocked
        BY <1>2, <2>2, <4>1 DEF Accounted, MachineRuntime
      <4> QED
        BY <1>3, <1>4, <2>2, <3>1, <4>2 DEF Accounts, AccountingLags, accounting
    <3> QED
      BY <3>2, <3>3
  <2> QED
    BY <2>3, <2>4
<1> QED
  BY <1>5, <1>6 DEF Accounts, AccountingLags

(* A step that touches neither the accounting nor the range of machines
   still to be visited.                                                     *)
LEMMA AccountsSame ==
  ASSUME Typed, Accounts, SameAccounts,
         \A mi \in Ids : Lagging(mi)' <=> Lagging(mi),
         visit'.event = visit.event, visit'.blocked = visit.blocked
  PROVE  AccountingLags'
BY DEF Accounts, AccountingLags, SameAccounts, accounting

LEMMA AccountsNext == Typed /\ Accounts /\ [Next]_vars => Accounts'
<1> SUFFICES ASSUME Typed, Accounts, [Next]_vars PROVE Accounts'
  OBVIOUS
<1>1. CASE \E e \in Reports : ProcessEvent(e)
  BY <1>1, AccountsEvent
<1>2. CASE VisitMachine
  BY <1>2, AccountsVisit
<1>3. CASE Transition \/ ResumeTransition
  <2>1. SameAccounts
    BY <1>3, TransitionAccounts
  <2>2. Visiting /\ Visiting' /\ UNCHANGED visit
    <3>1. ASSUME NEW next_state, TransitionState(next_state)
          PROVE  Visiting /\ Visiting' /\ UNCHANGED visit
      <4>1. PICK limit, a, b : Enter(next_state, limit, a, b)
        BY <3>1 DEF TransitionState
      <4> QED
        BY <3>1, <4>1 DEF TransitionState, Enter, Return, Visiting
    <3> QED
      BY <1>3, <3>1 DEF Transition, TransitionNone, TransitionEnd,
                        TransitionSignal, ResumeTransition, Return, Visiting
  <2> QED
    BY <2>1, <2>2, AccountsSame DEF Accounts, StageOK, Lagging
<1>4. CASE DecrementLimit
  <2>1. SameAccounts
    BY <1>4, TransitionAccounts
  <2>2. Visiting /\ Visiting' /\ visit.stage = "event"
        /\ (visit' = visit \/ visit' = [visit EXCEPT !.stage = "limit"])
    BY <1>4 DEF DecrementLimit, Returned, Visiting
  <2>3. /\ visit'.event = visit.event /\ visit'.blocked = visit.blocked
        /\ visit'.next = visit.next /\ visit'.last = visit.last
        /\ visit'.skip = visit.skip /\ visit'.stage \in {"event", "limit"}
    BY <2>2 DEF Visit, Typed, TypeOK
  <2> QED
    BY <2>1, <2>2, <2>3, AccountsSame DEF Accounts, StageOK, Lagging
<1>5. CASE FinishVisit \/ FinishLimit
  <2>1. SameAccounts
    BY <1>5 DEF FinishVisit, FinishLimit, SameAccounts
  <2>2. Visiting /\ Visiting'
        /\ \/ visit' = visit
           \/ visit.stage = "limit" /\ visit' = [visit EXCEPT !.stage = "event"]
    BY <1>5 DEF FinishVisit, FinishLimit, Returned, Visiting
  <2>3. /\ visit'.event = visit.event /\ visit'.blocked = visit.blocked
        /\ visit'.next = visit.next /\ visit'.last = visit.last
        /\ visit'.skip = visit.skip
        /\ \/ visit'.stage = visit.stage
           \/ visit.stage = "limit" /\ visit'.stage = "event"
    BY <2>2 DEF Visit, Typed, TypeOK
  <2> QED
    BY <2>1, <2>2, <2>3, AccountsSame DEF Accounts, StageOK, Lagging
<1>6. ASSUME FinishEvent \/ FinishBatch \/ FinishExcluded
             \/ \E now \in 0 .. MaxTime : TriggerEvents(now)
      PROVE  Accounts'
  <2>1. SameAccounts /\ UNCHANGED visit /\ ~Visiting'
    BY <1>6 DEF FinishEvent, FinishBatch, FinishExcluded, TriggerEvents,
                SameAccounts, Visiting
  <2>2. \A mi \in Ids : ~Lagging(mi)
    <3>1. /\ visit.next \in Nat /\ visit.last \in Int
          /\ \A mi \in Ids : mi \in Int
      BY FrameworkAssumption DEF Visit, Ids, Typed, TypeOK
    <3> QED
      BY <1>6, <3>1
         DEF FinishEvent, FinishBatch, FinishExcluded, Returned, TriggerEvents,
             Lagging, Visiting
  <2> QED
    BY <2>1, <2>2, AccountsSame DEF Accounts, StageOK, Lagging
<1>7. CASE BeginSignal
  <2>1. UNCHANGED <<runtime, accounting>> /\ ~Visiting
        /\ visit'.stage = "signal" /\ visit'.event = "Signal" /\ visit'.blocked = 0
    BY <1>7 DEF BeginSignal, Visiting
  <2> QED
    BY <2>1 DEF Accounts, AccountingLags, StageOK, Lagging, accounting
<1>8. CASE FinishSignal
  <2>1. /\ UNCHANGED <<runtime, accounting>> /\ Visiting /\ visit.stage = "signal"
        /\ (visit' = visit \/ visit' = [visit EXCEPT !.stage = "excluded"])
    BY <1>8 DEF FinishSignal, Visiting
  <2>2. /\ visit'.stage \in {"signal", "excluded"}
        /\ visit'.event = visit.event /\ visit'.blocked = visit.blocked
    BY <2>1 DEF Visit, Typed, TypeOK
  <2> QED
    BY <2>1, <2>2 DEF Accounts, AccountingLags, StageOK, Lagging, accounting
<1>9. CASE UNCHANGED vars
  BY <1>9 DEF vars, accounting, control, Accounts, AccountingLags, StageOK,
              Lagging, Visiting
<1> QED
  BY <1>1, <1>2, <1>3, <1>4, <1>5, <1>6, <1>7, <1>8, <1>9 DEF Next, Run

(* Between two events every machine has counted exactly the normal packets and
   the blocked time the framework counted, and no more padding: no event is
   counted for one machine and lost for another.                            *)
THEOREM AccountingIsShared == Spec => []AccountingAgrees
<1>1. Init => Accounts
  <2> SUFFICES ASSUME Init PROVE Accounts
    OBVIOUS
  <2>1. \A mi \in Ids : /\ runtime[mi].normal_sent = 0
                        /\ runtime[mi].padding_sent = 0
                        /\ runtime[mi].blocking_duration = 0
    BY DEF Init
  <2> QED
    BY <2>1 DEF Init, Accounts, AccountingLags, StageOK, Lagging, Visiting
<1>2. Typed /\ Accounts => AccountingAgrees
  <2> SUFFICES ASSUME Typed, Accounts, pc \in {"idle", "batch"}, NEW mi \in Ids
               PROVE  /\ runtime[mi].normal_sent = normal_sent_packets
                      /\ runtime[mi].blocking_duration = blocking_duration
                      /\ runtime[mi].padding_sent <= padding_sent_packets
    BY DEF AccountingAgrees
  <2>1. runtime[mi] \in MachineRuntime(mi) /\ ~Lagging(mi)
    BY DEF Lagging, Visiting, Typed, TypeOK
  <2> QED
    BY <2>1 DEF Accounts, AccountingLags, MachineRuntime
<1> QED
  BY <1>1, <1>2, TypedInit, TypedNext, AccountsNext, PTL DEF Spec
=============================================================================
