-------------------------- MODULE FrameworkLimits ---------------------------
(***************************************************************************)
(* The limits of Framework, proved: what a limit that is used up silences, *)
(* which events may use it up, and how much blocking may be pending; and   *)
(* that Framework implements FrameworkContract: every step is the call,    *)
(* its return or a stutter of the contract.                                *)
(***************************************************************************)
EXTENDS FrameworkProofs

-----------------------------------------------------------------------------
(***************************************************************************)
(* A used-up limit.  An action that is scheduled, or that a transition     *)
(* waiting for CounterZero is going to schedule, belongs to a state whose  *)
(* limit is not used up, if it is the state the machine is in; except for  *)
(* the machines in excepted, which are those that are undercut.            *)
(***************************************************************************)
Live(mi, s, r, excepted) ==
  LET action == ActionOf(mi, s)
  IN  /\ s = r.current_state
      /\ action.kind \in {"BlockOutgoing", "UpdateTimer"}
      /\ action.limit # {} /\ mi \notin excepted
      => r.state_limit > 0

ScheduledLive ==
  \A mi \in Ids :
    actions[mi] # None => Live(mi, actions[mi], runtime[mi], undercut)

WaitingLive ==
  \A i \in DOMAIN frames :
    LET f == frames[i]
    IN  f.below => Live(f.mi, f.next_state, runtime[f.mi], undercut)

SilentInv == ScheduledLive /\ WaitingLive

(* The transitions that wait, as the type invariant describes them. *)
LEMMA FramesTyped ==
  ASSUME Typed
  PROVE  /\ Len(frames) \in Nat /\ DOMAIN frames = 1 .. Len(frames)
         /\ \A i \in DOMAIN frames :
              /\ frames[i].mi \in Ids
              /\ frames[i].next_state \in StatesOf(frames[i].mi)
              /\ frames[i].curr_state \in StatesOf(frames[i].mi)
              /\ frames[i].below \in BOOLEAN
<1>1. frames \in Seq(Frame)
  BY DEF Typed, TypeOK
<1>2. \A i \in 1 .. Len(frames) : frames[i] \in Frame
  BY <1>1, ElementOfSeq
<1> QED
  BY <1>1, <1>2 DEF Frame

(* What a transition into next_state does to the machine. *)
LEMMA Entered ==
  ASSUME Typed, NEW next_state \in 0 .. STATE_MAX - 1,
         TransitionState(next_state)
  PROVE  LET mi == call.mi IN
         /\ mi \in Ids /\ next_state \in StatesOf(mi) /\ Current \in StatesOf(mi)
         /\ runtime'[mi].current_state = next_state
         /\ runtime'[mi].state_limit \in U64
         /\ IF next_state = Current
            THEN runtime'[mi].state_limit = runtime[mi].state_limit
            ELSE runtime'[mi].state_limit \in SampleLimit(ActionOf(mi, next_state))
         /\ runtime'[mi].blocking_duration = runtime[mi].blocking_duration
         /\ \A m \in Ids \ {mi} : runtime'[m] = runtime[m]
         /\ resampled' = (resampled \/ next_state # Current)
         /\ undercut' = IF next_state = Current THEN undercut
                        ELSE IF /\ runtime'[mi].state_limit = 0
                                /\ Decided(mi, next_state)
                        THEN undercut \cup {mi} ELSE undercut \ {mi}
         /\ \/ /\ frames' = Append(frames,
                    [mi |-> mi, next_state |-> next_state, curr_state |-> Current,
                     below |-> BelowActionLimits(mi, runtime'[mi])])
               /\ pc' = "transition" /\ call'.mi = mi
               /\ UNCHANGED <<actions, result>>
            \/ /\ frames' = frames /\ call' = call
               /\ pc' = "return"
               /\ result' = IF next_state = Current THEN "Unchanged" ELSE "Changed"
               /\ actions' = IF BelowActionLimits(mi, runtime'[mi])
                             THEN [actions EXCEPT ![mi] = next_state]
                             ELSE actions
<1> DEFINE mi    == call.mi
           state == StateOf(mi, next_state)
           old   == runtime[mi]
<1>1. /\ mi \in Ids /\ old \in MachineRuntime(mi) /\ DOMAIN runtime = Ids
      /\ next_state \in StatesOf(mi) /\ Current \in StatesOf(mi)
  BY TransitionTyped DEF TransitionState, Typed, TypeOK
<1>2. PICK limit \in IF next_state = Current THEN {old.state_limit}
                                             ELSE EntryLimit(state),
           a \in CounterUpdates(state.counter_a, old.counter_a, old.counter_b),
           b \in CounterUpdates(state.counter_b, old.counter_b, old.counter_a) :
        Enter(next_state, limit, a, b)
  BY DEF TransitionState
<1> DEFINE new    == [old EXCEPT !.current_state = next_state,
                                 !.state_limit = limit,
                                 !.counter_a = a, !.counter_b = b]
           below  == BelowActionLimits(mi, new)
           frame  == [mi |-> mi, next_state |-> next_state,
                      curr_state |-> Current, below |-> below]
<1>3. limit \in U64
  BY <1>1, MachineTyped, LimitTyped DEF EntryLimit, ActionOf, MachineRuntime
<1>4. runtime' = [runtime EXCEPT ![mi] = new]
  BY <1>2 DEF Enter
<1>5. runtime'[mi] = new /\ \A m \in Ids \ {mi} : runtime'[m] = runtime[m]
  BY <1>1, <1>4
<1>6. /\ new.current_state = next_state /\ new.state_limit = limit
      /\ new.blocking_duration = old.blocking_duration
  BY <1>1 DEF MachineRuntime
<1>7. IF next_state = Current THEN limit = old.state_limit
      ELSE limit \in SampleLimit(ActionOf(mi, next_state))
  BY DEF EntryLimit, ActionOf
<1>8. /\ resampled' = (resampled \/ next_state # Current)
      /\ undercut' = IF next_state = Current THEN undercut
                     ELSE IF limit = 0 /\ Decided(mi, next_state)
                     THEN undercut \cup {mi} ELSE undercut \ {mi}
      /\ \/ /\ frames' = Append(frames, frame)
            /\ call' = [mi |-> mi, event |-> "CounterZero"]
            /\ UNCHANGED <<actions, pc, result>>
         \/ /\ actions' = IF below THEN [actions EXCEPT ![mi] = next_state]
                                   ELSE actions
            /\ Return(IF next_state = Current THEN "Unchanged" ELSE "Changed")
            /\ UNCHANGED <<counter_zeroed_once, call, frames>>
  BY <1>2 DEF Enter
<1>9. pc = "transition"
  BY DEF TransitionState
<1>10. /\ runtime'[mi].current_state = next_state
       /\ runtime'[mi].state_limit = limit
       /\ runtime'[mi].blocking_duration = runtime[mi].blocking_duration
       /\ below = BelowActionLimits(mi, runtime'[mi])
  BY <1>5, <1>6
<1> HIDE DEF new
<1> QED
  BY <1>1, <1>3, <1>5, <1>7, <1>8, <1>9, <1>10 DEF Return

(* No limited action is scheduled without a limit left, and one that was
   decided before is undercut if the limit sampled is 0.                    *)
LEMMA LiveEntered ==
  ASSUME Typed, NEW next_state \in 0 .. STATE_MAX - 1,
         TransitionState(next_state), NEW m \in Ids, NEW s \in StatesOf(m),
         \/ Live(m, s, runtime[m], undercut) /\ Decided(m, s)
         \/ /\ m = call.mi /\ s = next_state
            /\ BelowActionLimits(m, runtime'[m])
  PROVE  Live(m, s, runtime'[m], undercut')
<1> DEFINE action == ActionOf(m, s)
<1>1. CASE m # call.mi
  <2>1. runtime'[m] = runtime[m] /\ (m \in undercut <=> m \in undercut')
    BY <1>1, Entered
  <2> QED
    BY <1>1, <2>1 DEF Live
<1>2. ASSUME m = call.mi, s = next_state, action.limit # {},
             action.kind \in {"BlockOutgoing", "UpdateTimer"}, m \notin undercut'
      PROVE  runtime'[m].state_limit > 0
  <2>1. /\ runtime'[m].current_state = s
        /\ runtime'[m].state_limit \in U64
        /\ s = Current => /\ runtime'[m].state_limit = runtime[m].state_limit
                          /\ undercut' = undercut
        /\ s # Current /\ Decided(m, s) => runtime'[m].state_limit # 0
    BY <1>2, Entered
  <2>2. CASE BelowActionLimits(m, runtime'[m])
    BY <1>2, <2>1, <2>2 DEF BelowActionLimits, BelowLimitBlocking
  <2>3. CASE Live(m, s, runtime[m], undercut) /\ s = Current
    BY <1>2, <2>1, <2>3 DEF Live, Current
  <2>4. CASE Decided(m, s) /\ s # Current
    BY <2>1, <2>4 DEF U64
  <2> QED
    BY <2>2, <2>3, <2>4
<1>3. CASE m = call.mi
  <2>1. runtime'[m].current_state = next_state
    BY <1>3, Entered
  <2> QED
    BY <1>2, <1>3, <2>1 DEF Live
<1> QED
  BY <1>1, <1>3

LEMMA SilentState ==
  ASSUME Typed, SilentInv, NEW next_state \in 0 .. STATE_MAX - 1,
         TransitionState(next_state)
  PROVE  SilentInv'
<1> DEFINE mi    == call.mi
           frame == [mi |-> mi, next_state |-> next_state, curr_state |-> Current,
                     below |-> BelowActionLimits(mi, runtime'[mi])]
<1>1. /\ DOMAIN actions = Ids
      /\ \A m \in Ids : actions[m] \in StatesOf(m) \cup {None}
  BY DEF Typed, TypeOK
<1>2. mi \in Ids /\ next_state \in StatesOf(mi)
  BY Entered
<1>3. ScheduledLive'
  <2> SUFFICES ASSUME NEW m \in Ids, actions'[m] # None
               PROVE  Live(m, actions'[m], runtime'[m], undercut')
    BY DEF ScheduledLive
  <2>1. \/ actions'[m] = actions[m]
        \/ m = mi /\ actions'[m] = next_state /\ BelowActionLimits(m, runtime'[m])
    BY <1>1, Entered
  <2>2. actions'[m] \in StatesOf(m)
    BY <1>1, <1>2, <2>1
  <2>3. ASSUME NEW s \in StatesOf(m), s = actions'[m]
        PROVE  Live(m, s, runtime'[m], undercut')
    BY <2>1, <2>3, LiveEntered DEF SilentInv, ScheduledLive, Decided
  <2> QED
    BY <2>2, <2>3
<1>4. WaitingLive'
  <2>1. ASSUME NEW i \in DOMAIN frames, frames[i].below
        PROVE  Live(frames[i].mi, frames[i].next_state, runtime'[frames[i].mi], undercut')
    <3>1. Decided(frames[i].mi, frames[i].next_state)
      BY <2>1 DEF Decided
    <3> QED
      BY <2>1, <3>1, FramesTyped, LiveEntered DEF SilentInv, WaitingLive
  <2>2. frame.below => Live(frame.mi, frame.next_state, runtime'[frame.mi], undercut')
    BY <1>2, LiveEntered
  <2>3. frames' = frames \/ frames' = Append(frames, frame)
    BY Entered
  <2>4. frames \in Seq(Frame)
    BY DEF Typed, TypeOK
  <2>5. ASSUME NEW i \in DOMAIN frames'
        PROVE  (i \in DOMAIN frames /\ frames'[i] = frames[i]) \/ frames'[i] = frame
    BY <2>3, <2>4, <2>5
  <2> HIDE DEF frame
  <2> QED
    BY <2>1, <2>2, <2>5 DEF WaitingLive
<1> QED
  BY <1>3, <1>4 DEF SilentInv

(* What a nested CounterZero did in between, the state may have changed; if
   it is the same the limit is either the same or was sampled again.        *)
LEMMA SilentResume ==
  ASSUME Typed, SilentInv, ResumeTransition
  PROVE  SilentInv'
<1> DEFINE f == frames[Len(frames)]
<1>1. Len(frames) \in DOMAIN frames /\ frames \in Seq(Frame)
  BY FramesTyped, EmptySeq DEF ResumeTransition, Typed, TypeOK
<1>2. /\ frames' = SubSeq(frames, 1, Len(frames) - 1)
      /\ actions' = IF actions[f.mi] = None /\ f.below
                    THEN [actions EXCEPT ![f.mi] = f.next_state] ELSE actions
      /\ UNCHANGED <<runtime, undercut>>
  BY DEF ResumeTransition, history
<1>3. ScheduledLive'
  <2> SUFFICES ASSUME NEW m \in Ids, actions'[m] # None
               PROVE  Live(m, actions'[m], runtime[m], undercut)
    BY <1>2 DEF ScheduledLive
  <2>1. \/ actions'[m] = actions[m]
        \/ m = f.mi /\ actions'[m] = f.next_state /\ f.below
    BY <1>2 DEF Typed, TypeOK
  <2> QED
    BY <1>1, <2>1 DEF SilentInv, ScheduledLive, WaitingLive
<1>4. \A i \in DOMAIN frames' : i \in DOMAIN frames /\ frames'[i] = frames[i]
  BY <1>1, <1>2, FramesTyped
<1>5. WaitingLive'
  BY <1>2, <1>4 DEF SilentInv, WaitingLive
<1> QED
  BY <1>3, <1>5 DEF SilentInv

(* A limit that reaches zero drops the action; no transition waits then. *)
LEMMA SilentDecrement ==
  ASSUME Typed, SilentInv, DecrementLimit
  PROVE  SilentInv'
<1> DEFINE mi   == call.mi
           left == IF runtime[mi].state_limit > 0
                   THEN runtime[mi].state_limit - 1 ELSE 0
<1>1. /\ mi \in Ids /\ runtime[mi] \in MachineRuntime(mi) /\ DOMAIN runtime = Ids
      /\ DOMAIN actions = Ids
      /\ \A m \in Ids : actions[m] \in StatesOf(m) \cup {None}
  BY DEF DecrementLimit, Returned, Typed, TypeOK, ControlOK
<1>2. /\ frames = <<>> /\ frames' = <<>> /\ Current # STATE_END
      /\ runtime' = [runtime EXCEPT ![mi].state_limit = left]
      /\ actions' = IF left = 0 /\ HasLimit(ActionOf(mi, Current))
                    THEN [actions EXCEPT ![mi] = None] ELSE actions
      /\ undercut' = IF left = 0 /\ HasLimit(ActionOf(mi, Current))
                     THEN undercut \ {mi} ELSE undercut
  BY DEF DecrementLimit, Returned, CountsAgainstLimit
<1>3. left \in Nat /\ runtime'[mi].state_limit = left
      /\ runtime'[mi].current_state = Current
  BY <1>1, <1>2 DEF MachineRuntime, U64, Current
<1> HIDE DEF left
<1>4. ScheduledLive'
  <2> SUFFICES ASSUME NEW m \in Ids, actions'[m] # None
               PROVE  Live(m, actions'[m], runtime'[m], undercut')
    BY DEF ScheduledLive
  <2>1. CASE m # mi
    <3>1. /\ actions'[m] = actions[m] /\ runtime'[m] = runtime[m]
          /\ m \in undercut <=> m \in undercut'
      BY <1>1, <1>2, <2>1
    <3> QED
      BY <3>1 DEF SilentInv, ScheduledLive, Live
  <2>2. CASE m = mi
    <3>1. actions'[m] = actions[m] /\ (left > 0 \/ ~HasLimit(ActionOf(mi, Current)))
      BY <1>1, <1>2, <1>3, <2>2
    <3> QED
      BY <1>3, <2>2, <3>1 DEF Live, HasLimit
  <2> QED
    BY <2>1, <2>2
<1>5. WaitingLive'
  BY <1>2 DEF WaitingLive
<1> QED
  BY <1>4, <1>5 DEF SilentInv

(* Steps that touch neither actions nor transitions that wait, and of the
   machines only what they count.                                           *)
LEMMA SilentSame ==
  ASSUME Typed, SilentInv, UNCHANGED <<frames, undercut>>,
         \A m \in Ids : actions'[m] = actions[m] \/ actions'[m] = None,
         \A m \in Ids : /\ runtime'[m].current_state \in
                             {runtime[m].current_state, STATE_END}
                        /\ runtime'[m].state_limit = runtime[m].state_limit
  PROVE  SilentInv'
<1>1. ASSUME NEW m \in Ids, NEW s \in StatesOf(m), Live(m, s, runtime[m], undercut)
      PROVE  Live(m, s, runtime'[m], undercut)
  BY <1>1, MachineTyped DEF Live
<1>2. \A m \in Ids : actions[m] \in StatesOf(m) \cup {None}
  BY DEF Typed, TypeOK
<1>3. ScheduledLive'
  BY <1>1, <1>2 DEF SilentInv, ScheduledLive
<1>4. WaitingLive'
  BY <1>1, FramesTyped DEF SilentInv, WaitingLive
<1> QED
  BY <1>3, <1>4 DEF SilentInv

(* A call begins with nothing scheduled and nothing waiting. *)
LEMMA SilentTrigger ==
  ASSUME Typed, NEW now, TriggerEvents(now)
  PROVE  SilentInv'
<1>1. frames' = <<>>
  BY DEF Typed, ControlOK, TriggerEvents
<1>2. \A mi \in Ids : actions'[mi] = None
  BY DEF TriggerEvents, ResetActions
<1> QED
  BY <1>1, <1>2 DEF SilentInv, ScheduledLive, WaitingLive

LEMMA SilentNext == Typed /\ SilentInv /\ [Next]_vars => SilentInv'
<1> SUFFICES ASSUME Typed, SilentInv, [Next]_vars PROVE SilentInv'
  OBVIOUS
<1>1. CASE \E e \in Reports : ProcessEvent(e)
  BY <1>1, SilentSame
     DEF ProcessEvent, ProcessTraffic, ProcessNormalSent, ProcessPaddingSent,
         ProcessBlockingBegin, ProcessBlockingEnd, ProcessTimer, TakeEvent, history
<1>2. CASE VisitMachine
  <2>1. \A m \in Ids : runtime[m] \in MachineRuntime(m)
    BY DEF Typed, TypeOK
  <2>2. \A m \in Ids : runtime'[m] = runtime[m] \/ runtime'[m] = Accounted(runtime[m])
    <3>1. DOMAIN runtime = Ids
      BY DEF Typed, TypeOK
    <3> QED
      BY <1>2, <3>1 DEF VisitMachine
  <2>3. \A m \in Ids : /\ runtime'[m].current_state = runtime[m].current_state
                       /\ runtime'[m].state_limit = runtime[m].state_limit
    BY <2>1, <2>2 DEF Accounted, MachineRuntime
  <2> QED
    BY <1>2, <2>3, SilentSame DEF VisitMachine
<1>3. CASE TransitionEnd
  <2>1. /\ call.mi \in Ids /\ DOMAIN runtime = Ids
        /\ \A m \in Ids : runtime[m] \in MachineRuntime(m)
    BY <1>3, TransitionTyped DEF TransitionEnd, Typed, TypeOK
  <2>2. \A m \in Ids : /\ runtime'[m].current_state \in
                            {runtime[m].current_state, STATE_END}
                       /\ runtime'[m].state_limit = runtime[m].state_limit
    BY <1>3, <2>1 DEF TransitionEnd, MachineRuntime
  <2> QED
    BY <1>3, <2>2, SilentSame DEF TransitionEnd, history
<1>4. CASE \E next_state \in 0 .. STATE_MAX - 1 : TransitionState(next_state)
  BY <1>4, SilentState
<1>5. CASE ResumeTransition
  BY <1>5, SilentResume
<1>6. CASE DecrementLimit
  BY <1>6, SilentDecrement
<1>7. CASE \E now \in 0 .. MaxTime : TriggerEvents(now)
  BY <1>7, SilentTrigger
<1>8. CASE \/ FinishEvent \/ TransitionNone \/ TransitionSignal \/ FinishVisit
           \/ FinishLimit \/ FinishBatch \/ BeginSignal \/ FinishSignal
           \/ FinishExcluded \/ UNCHANGED vars
  BY <1>8, SilentSame
     DEF FinishEvent, TransitionNone, TransitionSignal, FinishVisit, FinishLimit,
         FinishBatch, BeginSignal, FinishSignal, FinishExcluded, vars, control, history
<1> QED
  BY <1>1, <1>2, <1>3, <1>4, <1>5, <1>6, <1>7, <1>8 DEF Next, Run, Transition

(* A machine with nothing left of its state's limit, used up or sampled as 0,
   has no blocking and no timer of that state pending, in whatever order the
   batch, CounterZero and LimitReached took it there; unless they were decided
   in the same call before the machine left the state, came back and sampled 0,
   and nothing was counted against the limit since (undercut).               *)
THEOREM ExhaustedStaysSilent == Spec => []ExhaustedIsSilent
<1>1. Init => SilentInv
  BY DEF Init, SilentInv, ScheduledLive, WaitingLive
<1>2. SilentInv => ExhaustedIsSilent
  BY DEF SilentInv, ScheduledLive, Live, ExhaustedIsSilent
<1> QED
  BY <1>1, <1>2, TypedInit, TypedNext, SilentNext, PTL DEF Spec

-----------------------------------------------------------------------------
(***************************************************************************)
(* A fresh limit.  The transitions that wait form a chain: each began in   *)
(* the state the one before it entered.  A visit that entered a state is   *)
(* remembered by a link of the chain that leads elsewhere, or by the       *)
(* result; and a result that says nothing changed means that the machine   *)
(* is where the last link led.                                             *)
(***************************************************************************)
Last == frames[Len(frames)]

Linked ==
  /\ \A i \in DOMAIN frames : frames[i].mi = call.mi
  /\ \A i \in DOMAIN frames : i + 1 \in DOMAIN frames =>
       frames[i].next_state = frames[i + 1].curr_state
  /\ frames # <<>> /\ (pc = "transition" \/ result = "Unchanged") =>
       Current = Last.next_state

Moved == \E i \in DOMAIN frames : frames[i].next_state # frames[i].curr_state

Remembered ==
  pc \in {"transition", "return"} /\ visit.stage # "excluded" /\ resampled =>
    Moved \/ (pc = "return" /\ result = "Changed")

FreshInv == Linked /\ Remembered

LEMMA FreshState ==
  ASSUME Typed, FreshInv, NEW next_state \in 0 .. STATE_MAX - 1,
         TransitionState(next_state)
  PROVE  FreshInv'
<1> DEFINE mi    == call.mi
           frame == [mi |-> mi, next_state |-> next_state, curr_state |-> Current,
                     below |-> BelowActionLimits(mi, runtime'[mi])]
<1>1. frames \in Seq(Frame) /\ pc = "transition" /\ UNCHANGED visit
  BY DEF Typed, TypeOK, TransitionState
<1>2. /\ resampled' = (resampled \/ next_state # Current)
      /\ runtime'[mi].current_state = next_state
  BY Entered
<1>3. CASE /\ frames' = Append(frames, frame)
           /\ pc' = "transition" /\ call'.mi = mi
  <2>1. /\ Len(frames) \in Nat /\ DOMAIN frames = 1 .. Len(frames)
        /\ Len(frames') = Len(frames) + 1 /\ DOMAIN frames' = 1 .. Len(frames) + 1
        /\ frames'[Len(frames) + 1] = frame
        /\ \A i \in DOMAIN frames : frames'[i] = frames[i]
    BY <1>1, <1>3
  <2>2. \A i \in DOMAIN frames' : frames'[i].mi = call'.mi
    BY <1>3, <2>1 DEF FreshInv, Linked
  <2>3. \A i \in DOMAIN frames' : i + 1 \in DOMAIN frames' =>
          frames'[i].next_state = frames'[i + 1].curr_state
    <3> SUFFICES ASSUME NEW i \in DOMAIN frames', i + 1 \in DOMAIN frames'
                 PROVE  frames'[i].next_state = frames'[i + 1].curr_state
      OBVIOUS
    <3>1. CASE i + 1 \in DOMAIN frames
      BY <2>1, <3>1 DEF FreshInv, Linked
    <3>2. CASE i = Len(frames)
      <4>1. frames # <<>> /\ frames[i] = Last /\ i \in DOMAIN frames
        BY <2>1, <3>2 DEF Last
      <4>2. Last.next_state = Current
        BY <1>1, <4>1 DEF FreshInv, Linked
      <4> QED
        BY <2>1, <3>2, <4>1, <4>2
    <3> QED
      BY <2>1, <3>1, <3>2
  <2>4. Current' = Last'.next_state
    BY <1>2, <1>3, <2>1 DEF Current, Last
  <2>5. Remembered'
    <3>1. Moved \/ next_state # Current => Moved'
      BY <2>1 DEF Moved
    <3> QED
      BY <1>1, <1>2, <3>1 DEF FreshInv, Remembered
  <2> QED
    BY <2>2, <2>3, <2>4, <2>5 DEF FreshInv, Linked
<1>4. CASE /\ frames' = frames /\ call' = call /\ pc' = "return"
           /\ result' = IF next_state = Current THEN "Unchanged" ELSE "Changed"
  <2>1. Linked'
    BY <1>1, <1>2, <1>4 DEF FreshInv, Linked, Current, Last
  <2>2. Remembered'
    BY <1>1, <1>2, <1>4 DEF FreshInv, Remembered, Moved
  <2> QED
    BY <2>1, <2>2 DEF FreshInv
<1> QED
  BY <1>3, <1>4, Entered

(* The link that is resolved is remembered by the result. *)
LEMMA FreshResume ==
  ASSUME Typed, FreshInv, ResumeTransition
  PROVE  FreshInv'
<1> DEFINE n == Len(frames)
<1>1. /\ n \in DOMAIN frames /\ DOMAIN frames = 1 .. n /\ n \in Nat
      /\ frames \in Seq(Frame)
  BY FramesTyped, EmptySeq DEF ResumeTransition, Typed, TypeOK
<1>2. /\ frames' = SubSeq(frames, 1, n - 1)
      /\ result' = ChangeOf(Last)
      /\ pc = "return" /\ pc' = "return"
      /\ UNCHANGED <<runtime, call, visit, resampled>>
  BY DEF ResumeTransition, Last, Return, history
<1>3. /\ Len(frames') = n - 1 /\ DOMAIN frames' = 1 .. n - 1
      /\ \A i \in DOMAIN frames' : i \in DOMAIN frames /\ frames'[i] = frames[i]
  BY <1>1, <1>2
<1>4. Last.mi = call.mi /\ result \in Change
      /\ (result = "Unchanged" => Current = Last.next_state)
  BY <1>1, <1>2 DEF Last, FreshInv, Linked, Typed, TypeOK
<1>5. result' = IF Current = Last.curr_state /\ result = "Unchanged"
                THEN "Unchanged" ELSE "Changed"
  BY <1>2, <1>4 DEF ChangeOf, Current
<1>6. ASSUME frames' # <<>>, result' = "Unchanged"
      PROVE  Current' = Last'.next_state
  <2>1. n - 1 \in DOMAIN frames' /\ Last' = frames[n - 1]
    <3>1. Len(frames') # 0
      BY <1>2, <1>3, <1>6, <1>1
    <3> QED
      BY <1>1, <1>3, <3>1 DEF Last
  <2>2. frames[n - 1].next_state = Last.curr_state
    BY <1>1, <1>3, <2>1 DEF Last, FreshInv, Linked
  <2> QED
    BY <1>2, <1>5, <1>6, <2>1, <2>2 DEF Current
<1>7. Linked'
  BY <1>2, <1>3, <1>6 DEF FreshInv, Linked
<1>8. Remembered'
  <2> SUFFICES ASSUME resampled, visit.stage # "excluded", result' = "Unchanged"
               PROVE  Moved'
    BY <1>2, <1>5 DEF Remembered
  <2>1. Moved /\ Last.next_state = Last.curr_state
    BY <1>2, <1>4, <1>5 DEF FreshInv, Remembered
  <2>2. PICK i \in DOMAIN frames : frames[i].next_state # frames[i].curr_state
    BY <2>1 DEF Moved
  <2>3. i # n
    BY <2>1, <2>2 DEF Last
  <2> QED
    BY <1>1, <1>3, <2>2, <2>3 DEF Moved
<1> QED
  BY <1>7, <1>8 DEF FreshInv

(* What neither waits nor enters a state. *)
LEMMA FreshNext == Typed /\ FreshInv /\ [Next]_vars => FreshInv'
<1> SUFFICES ASSUME Typed, FreshInv, [Next]_vars PROVE FreshInv'
  OBVIOUS
<1>1. CASE \E next_state \in 0 .. STATE_MAX - 1 : TransitionState(next_state)
  BY <1>1, FreshState
<1>2. CASE ResumeTransition
  BY <1>2, FreshResume
<1>3. CASE TransitionNone \/ TransitionSignal
  <2>1. /\ pc = "transition" /\ pc' = "return"
        /\ UNCHANGED <<frames, call, runtime, visit, resampled>>
    BY <1>3 DEF TransitionNone, TransitionSignal, Return, history
  <2> QED
    BY <2>1 DEF FreshInv, Linked, Remembered, Moved, Current, Last
<1>4. CASE TransitionEnd
  <2>1. /\ pc = "transition" /\ pc' = "return" /\ result' = "Changed"
        /\ UNCHANGED <<frames, call, visit, resampled>>
    BY <1>4 DEF TransitionEnd, Return, history
  <2> QED
    BY <2>1 DEF FreshInv, Linked, Remembered
<1>5. CASE VisitMachine
  <2>1. frames = <<>> /\ frames' = <<>> /\ resampled' = FALSE
    BY <1>5 DEF VisitMachine, Typed, ControlOK
  <2> QED
    BY <2>1 DEF FreshInv, Linked, Remembered
<1>6. CASE DecrementLimit
  <2>1. /\ frames = <<>> /\ frames' = <<>> /\ UNCHANGED resampled
        /\ pc = "return" /\ visit.stage = "event" /\ result = "Unchanged"
    BY <1>6 DEF DecrementLimit, Returned, CountsAgainstLimit, history
  <2>2. ~resampled'
    BY <2>1 DEF FreshInv, Remembered, Moved
  <2> QED
    BY <2>1, <2>2 DEF FreshInv, Linked, Remembered
<1>7. CASE FinishSignal
  <2>1. frames = <<>> /\ frames' = <<>>
        /\ (pc' = "idle" \/ visit'.stage = "excluded")
    BY <1>7 DEF FinishSignal, Typed, TypeOK, ControlOK, Visit
  <2> QED
    BY <2>1 DEF FreshInv, Linked, Remembered
<1>8. CASE \/ FinishEvent \/ FinishVisit \/ FinishLimit \/ FinishBatch
           \/ BeginSignal \/ FinishExcluded
           \/ \E e \in Reports : ProcessEvent(e)
           \/ \E now \in 0 .. MaxTime : TriggerEvents(now)
  <2>1. frames = <<>> /\ frames' = <<>> /\ pc' \notin {"transition", "return"}
    BY <1>8 DEF FinishEvent, FinishVisit, FinishLimit, FinishBatch, BeginSignal,
         FinishExcluded, Returned, TriggerEvents, Typed, ControlOK,
         ProcessEvent, ProcessTraffic, ProcessNormalSent, ProcessPaddingSent,
         ProcessBlockingBegin, ProcessBlockingEnd, ProcessTimer, TakeEvent,
         VisitMachines
  <2> QED
    BY <2>1 DEF FreshInv, Linked, Remembered
<1>9. CASE UNCHANGED vars
  BY <1>9 DEF vars, control, history, FreshInv, Linked, Remembered, Moved,
              Current, Last
<1> QED
  BY <1>1, <1>2, <1>3, <1>4, <1>5, <1>6, <1>7, <1>8, <1>9 DEF Next, Run, Transition

(* However often CounterZero interrupts a visit, an event that made its
   machine sample a limit is never counted against that limit.              *)
THEOREM FreshLimitIsUntouched == Spec => []FreshLimitUntouched
<1>1. Init => FreshInv
  BY DEF Init, FreshInv, Linked, Remembered
<1>2. FreshInv => FreshLimitUntouched
  BY DEF FreshInv, Remembered, Moved, FreshLimitUntouched, Returned,
         CountsAgainstLimit
<1> QED
  BY <1>1, <1>2, TypedInit, TypedNext, FreshNext, PTL DEF Spec

-----------------------------------------------------------------------------
(***************************************************************************)
(* Blocking.  The time blocked by now does not change during a call, and   *)
(* is what a machine that has been visited counts: what was within the     *)
(* limits when it was decided on still is when the call returns.           *)
(***************************************************************************)
Blocked == blocking_duration + OngoingBlock

Within(mi, s, blocked, now) ==
  LET action == ActionOf(mi, s)
  IN  action.kind = "BlockOutgoing" /\ ~action.replace =>
        \/ blocked < machines[mi].allowed_blocked_microsec
        \/ /\ ~UsedUp(blocked, now, machines[mi].max_blocking_frac)
           /\ ~UsedUp(blocked, now, max_blocking_frac)

BlockInv ==
  /\ \A mi \in Ids : actions[mi] # None =>
       Within(mi, actions[mi], Blocked, current_time)
  /\ \A i \in DOMAIN frames :
       LET f == frames[i]
       IN  f.below => Within(f.mi, f.next_state, Blocked, current_time)

(* The machine that runs has counted the event. *)
Counted ==
  /\ pc \in {"transition", "return"} /\ visit.stage \in {"event", "limit"}
  => call.mi < visit.next

LEMMA CountedNext == Typed /\ Counted /\ [Next]_vars => Counted'
<1> SUFFICES ASSUME Typed, Counted, [Next]_vars PROVE Counted'
  OBVIOUS
<1>1. visit \in Visit
  BY DEF Typed, TypeOK
<1>2. CASE VisitMachine
  <2>1. visit.next \in Ids /\ visit'.next = visit.next + 1
    BY <1>1, <1>2, VisitTyped DEF VisitMachine, Visit
  <2> QED
    BY <1>2, <2>1 DEF VisitMachine, Counted, Ids
<1>3. CASE \E next_state \in 0 .. STATE_MAX - 1 : TransitionState(next_state)
  <2>1. PICK n \in 0 .. STATE_MAX - 1 : TransitionState(n)
    BY <1>3
  <2>2. pc = "transition" /\ UNCHANGED visit /\ call'.mi = call.mi
    BY <2>1, Entered DEF TransitionState
  <2> QED
    BY <2>2 DEF Counted
<1>4. CASE TransitionNone \/ TransitionEnd \/ TransitionSignal \/ ResumeTransition
  <2>1. pc \in {"transition", "return"} /\ UNCHANGED <<visit, call>>
    BY <1>4 DEF TransitionNone, TransitionEnd, TransitionSignal, ResumeTransition
  <2> QED
    BY <2>1 DEF Counted
<1>5. CASE DecrementLimit
  <2>1. /\ pc = "return" /\ visit.stage = "event" /\ call'.mi = call.mi
        /\ visit'.next = visit.next
    BY <1>1, <1>5 DEF DecrementLimit, Returned, Visit
  <2> QED
    BY <2>1 DEF Counted
<1>6. CASE FinishSignal
  BY <1>1, <1>6 DEF FinishSignal, Counted, Visit
<1>7. CASE \/ FinishEvent \/ FinishVisit \/ FinishLimit \/ FinishBatch
           \/ BeginSignal \/ FinishExcluded
           \/ \E e \in Reports : ProcessEvent(e)
           \/ \E now \in 0 .. MaxTime : TriggerEvents(now)
  <2>1. pc' \notin {"transition", "return"}
    BY <1>7 DEF FinishEvent, FinishVisit, FinishLimit, FinishBatch, BeginSignal,
         FinishExcluded, TriggerEvents,
         ProcessEvent, ProcessTraffic, ProcessNormalSent, ProcessPaddingSent,
         ProcessBlockingBegin, ProcessBlockingEnd, ProcessTimer, TakeEvent,
         VisitMachines
  <2> QED
    BY <2>1 DEF Counted
<1>8. CASE UNCHANGED vars
  BY <1>8 DEF vars, control, Counted
<1> QED
  BY <1>2, <1>3, <1>4, <1>5, <1>6, <1>7, <1>8 DEF Next, Run, Transition

(* What a machine in a call has counted as blocked is all there is. *)
LEMMA CountsAll ==
  ASSUME Typed, Accounts, Counted, pc \in {"transition", "return"}
  PROVE  runtime[call.mi].blocking_duration = blocking_duration
<1>1. /\ call.mi \in Ids /\ visit.next \in Nat /\ call.mi \in Int
      /\ runtime[call.mi].blocking_duration \in Nat
  BY DEF Typed, TypeOK, ControlOK, Visit, Ids, MachineRuntime
<1>2. ~Lagging(call.mi)
  BY <1>1 DEF Counted, Lagging
<1> QED
  BY <1>1, <1>2 DEF Accounts, AccountingLags

LEMMA BlockState ==
  ASSUME Typed, Accounts, Counted, BlockInv,
         NEW next_state \in 0 .. STATE_MAX - 1, TransitionState(next_state)
  PROVE  BlockInv'
<1> DEFINE mi    == call.mi
           frame == [mi |-> mi, next_state |-> next_state, curr_state |-> Current,
                     below |-> BelowActionLimits(mi, runtime'[mi])]
<1>1. UNCHANGED <<current_time, accounting>> /\ pc = "transition"
      /\ frames \in Seq(Frame) /\ DOMAIN actions = Ids /\ current_time \in Nat
  BY DEF TransitionState, Typed, TypeOK
<1>2. Blocked' = Blocked
  BY <1>1 DEF Blocked, OngoingBlock, Since, accounting
<1>3. BelowActionLimits(mi, runtime'[mi]) =>
        Within(mi, next_state, Blocked, current_time)
  <2>1. /\ runtime'[mi].current_state = next_state
        /\ runtime'[mi].blocking_duration = blocking_duration
    BY <1>1, Entered, CountsAll
  <2>2. Since(0) = current_time
    BY <1>1 DEF Since
  <2> QED
    BY <2>1, <2>2 DEF BelowActionLimits, BelowLimitBlocking, BlockedFor,
                      ReachesFraction, Within, UsedUp, Blocked
<1>4. ASSUME NEW m \in Ids, actions'[m] # None
      PROVE  Within(m, actions'[m], Blocked, current_time)
  <2>1. \/ actions'[m] = actions[m]
        \/ m = mi /\ actions'[m] = next_state /\ BelowActionLimits(mi, runtime'[mi])
    BY <1>1, Entered
  <2> QED
    BY <1>3, <1>4, <2>1 DEF BlockInv
<1>5. ASSUME NEW i \in DOMAIN frames', frames'[i].below
      PROVE  Within(frames'[i].mi, frames'[i].next_state, Blocked, current_time)
  <2>1. frames' = frames \/ frames' = Append(frames, frame)
    BY Entered
  <2>2. (i \in DOMAIN frames /\ frames'[i] = frames[i]) \/ frames'[i] = frame
    BY <1>1, <2>1
  <2> QED
    BY <1>3, <1>5, <2>2 DEF BlockInv
<1> QED
  BY <1>1, <1>2, <1>4, <1>5 DEF BlockInv

LEMMA BlockResume ==
  ASSUME Typed, BlockInv, ResumeTransition
  PROVE  BlockInv'
<1> DEFINE f == frames[Len(frames)]
<1>1. Len(frames) \in DOMAIN frames /\ frames \in Seq(Frame)
  BY FramesTyped, EmptySeq DEF ResumeTransition, Typed, TypeOK
<1>2. /\ frames' = SubSeq(frames, 1, Len(frames) - 1)
      /\ actions' = IF actions[f.mi] = None /\ f.below
                    THEN [actions EXCEPT ![f.mi] = f.next_state] ELSE actions
      /\ UNCHANGED <<current_time, accounting>>
  BY DEF ResumeTransition
<1>3. Blocked' = Blocked
  BY <1>2 DEF Blocked, OngoingBlock, Since, accounting
<1>4. ASSUME NEW m \in Ids, actions'[m] # None
      PROVE  Within(m, actions'[m], Blocked, current_time)
  <2>1. \/ actions'[m] = actions[m]
        \/ m = f.mi /\ actions'[m] = f.next_state /\ f.below
    BY <1>2 DEF Typed, TypeOK
  <2> QED
    BY <1>1, <1>4, <2>1 DEF BlockInv
<1>5. \A i \in DOMAIN frames' : i \in DOMAIN frames /\ frames'[i] = frames[i]
  BY <1>1, <1>2, FramesTyped
<1> QED
  BY <1>2, <1>3, <1>4, <1>5 DEF BlockInv

(* Blocking that begins or ends leaves the time blocked by now as it is. *)
LEMMA BlockedSame ==
  ASSUME Typed, NEW e \in Reports, ProcessEvent(e)
  PROVE  Blocked' = Blocked /\ UNCHANGED <<current_time, actions, frames>>
<1>1. /\ blocking_duration \in Nat /\ current_time \in Nat
      /\ blocking_started \in Nat /\ OngoingBlock \in Nat
  BY DEF Typed, TypeOK, OngoingBlock, Since
<1>2. UNCHANGED <<current_time, actions, frames>>
  BY DEF ProcessEvent, ProcessTraffic, ProcessNormalSent, ProcessPaddingSent,
         ProcessBlockingBegin, ProcessBlockingEnd, ProcessTimer, TakeEvent
<1>3. CASE ProcessBlockingBegin(e)
  BY <1>1, <1>2, <1>3 DEF ProcessBlockingBegin, Blocked, OngoingBlock, Since
<1>4. CASE ProcessBlockingEnd(e)
  <2>1. blocking_duration' = blocking_duration + OngoingBlock /\ ~blocking_active'
    BY <1>4 DEF ProcessBlockingEnd
  <2>2. OngoingBlock' = 0
    BY <2>1 DEF OngoingBlock
  <2> QED
    BY <1>1, <1>2, <2>1, <2>2 DEF Blocked
<1>5. CASE ~ProcessBlockingBegin(e) /\ ~ProcessBlockingEnd(e)
  BY <1>2, <1>5
     DEF ProcessEvent, ProcessTraffic, ProcessNormalSent, ProcessPaddingSent,
         ProcessTimer, accounting, Blocked, OngoingBlock, Since
<1> QED
  BY <1>2, <1>3, <1>4, <1>5

LEMMA BlockNext ==
  Typed /\ Accounts /\ Counted /\ BlockInv /\ [Next]_vars => BlockInv'
<1> SUFFICES ASSUME Typed, Accounts, Counted, BlockInv, [Next]_vars PROVE BlockInv'
  OBVIOUS
<1>1. CASE \E next_state \in 0 .. STATE_MAX - 1 : TransitionState(next_state)
  BY <1>1, BlockState
<1>2. CASE ResumeTransition
  BY <1>2, BlockResume
<1>3. CASE \E e \in Reports : ProcessEvent(e)
  BY <1>3, BlockedSame DEF BlockInv
<1>4. CASE \E now \in 0 .. MaxTime : TriggerEvents(now)
  <2>1. frames' = <<>> /\ \A mi \in Ids : actions'[mi] = None
    BY <1>4 DEF TriggerEvents, ResetActions, Typed, ControlOK
  <2> QED
    BY <2>1 DEF BlockInv
<1>5. CASE \/ VisitMachine \/ FinishEvent \/ TransitionNone \/ TransitionSignal
           \/ TransitionEnd \/ DecrementLimit \/ FinishVisit \/ FinishLimit
           \/ FinishBatch \/ BeginSignal \/ FinishSignal \/ FinishExcluded
           \/ UNCHANGED vars
  <2>1. UNCHANGED <<current_time, accounting, frames>>
    BY <1>5 DEF VisitMachine, FinishEvent, TransitionNone, TransitionSignal,
         TransitionEnd, DecrementLimit, FinishVisit, FinishLimit, FinishBatch,
         BeginSignal, FinishSignal, FinishExcluded, vars, control
  <2>2. \A mi \in Ids : actions'[mi] = actions[mi] \/ actions'[mi] = None
    <3>1. DOMAIN actions = Ids
      BY DEF Typed, TypeOK
    <3> QED
      BY <1>5, <3>1 DEF VisitMachine, FinishEvent, TransitionNone, TransitionSignal,
         TransitionEnd, DecrementLimit, FinishVisit, FinishLimit, FinishBatch,
         BeginSignal, FinishSignal, FinishExcluded, vars
  <2>3. Blocked' = Blocked
    BY <2>1 DEF Blocked, OngoingBlock, Since, accounting
  <2> QED
    BY <2>1, <2>2, <2>3 DEF BlockInv
<1> QED
  BY <1>1, <1>2, <1>3, <1>4, <1>5 DEF Next, Run, Transition

(* A smaller part of a whole uses up no more of a fraction. *)
LEMMA UsedUpMonotone ==
  ASSUME NEW part \in Nat, NEW more \in Nat, part <= more,
         NEW whole \in Nat, NEW f, IsFraction(f), UsedUp(part, whole, f)
  PROVE  UsedUp(more, whole, f)
<1>1. f.n \in Nat /\ f.d \in Nat
  BY DEF IsFraction
<1>2. part * f.d <= more * f.d
  BY <1>1
<1>3. /\ part * f.d \in Int /\ more * f.d \in Int /\ f.n * whole \in Int
  BY <1>1
<1> QED
  BY <1>2, <1>3 DEF UsedUp

(* Blocking that does not replace a block is pending only within the limits
   of machine and framework, also when a block began or ended, or machines
   were visited, after it was scheduled.                                    *)
THEOREM BlockingStaysWithinLimits == Spec => []BlockingWithinLimits
<1>1. Init => Accounts /\ Counted /\ BlockInv
  <2> SUFFICES ASSUME Init PROVE Accounts /\ Counted /\ BlockInv
    OBVIOUS
  <2>1. \A mi \in Ids : /\ runtime[mi].normal_sent = 0
                        /\ runtime[mi].padding_sent = 0
                        /\ runtime[mi].blocking_duration = 0
    BY DEF Init
  <2> QED
    BY <2>1 DEF Init, Accounts, AccountingLags, StageOK, Lagging, Visiting,
                Counted, BlockInv
<1>2. Typed /\ Accounts /\ BlockInv => BlockingWithinLimits
  <2> SUFFICES ASSUME Typed, Accounts, BlockInv, NEW mi \in Ids, actions[mi] # None,
                      ActionOf(mi, actions[mi]).kind = "BlockOutgoing",
                      ~ActionOf(mi, actions[mi]).replace
               PROVE  LET blocked == runtime[mi].blocking_duration + OngoingBlock
                      IN  \/ blocked < machines[mi].allowed_blocked_microsec
                          \/ /\ ~UsedUp(blocked, current_time,
                                        machines[mi].max_blocking_frac)
                             /\ ~UsedUp(Blocked, current_time, max_blocking_frac)
    BY DEF BlockingWithinLimits, Blocked
  <2> DEFINE blocked == runtime[mi].blocking_duration + OngoingBlock
  <2>1. /\ runtime[mi].blocking_duration \in Nat /\ blocking_duration \in Nat
        /\ OngoingBlock \in Nat /\ visit.blocked \in Nat /\ current_time \in Nat
    <3>1. runtime[mi] \in MachineRuntime(mi) /\ visit \in Visit
      BY DEF Typed, TypeOK
    <3>2. OngoingBlock \in Nat
      BY DEF Typed, TypeOK, OngoingBlock, Since
    <3> QED
      BY <3>1, <3>2 DEF Typed, TypeOK, MachineRuntime, Visit
  <2>2. runtime[mi].blocking_duration <= blocking_duration
    BY <2>1 DEF Accounts, AccountingLags
  <2>3. blocked \in Nat /\ Blocked \in Nat /\ blocked <= Blocked
    BY <2>1, <2>2 DEF Blocked
  <2>4. /\ IsFraction(machines[mi].max_blocking_frac)
        /\ machines[mi].allowed_blocked_microsec \in Nat
    BY FrameworkAssumption DEF IsMachine
  <2>5. Within(mi, actions[mi], Blocked, current_time)
    BY DEF BlockInv
  <2> HIDE DEF blocked
  <2>6. UsedUp(blocked, current_time, machines[mi].max_blocking_frac) =>
          UsedUp(Blocked, current_time, machines[mi].max_blocking_frac)
    BY <2>1, <2>3, <2>4, UsedUpMonotone
  <2>7. \/ blocked < machines[mi].allowed_blocked_microsec
        \/ /\ ~UsedUp(blocked, current_time, machines[mi].max_blocking_frac)
           /\ ~UsedUp(Blocked, current_time, max_blocking_frac)
    BY <2>3, <2>4, <2>5, <2>6 DEF Within
  <2> QED
    BY <2>7 DEF blocked
<1> QED
  BY <1>1, <1>2, TypedInit, TypedNext, AccountsNext, CountedNext, BlockNext,
     PTL DEF Spec

-----------------------------------------------------------------------------
(***************************************************************************)
(* What holds while a call runs.  A machine that had ended before the call *)
(* is still in STATE_END, has nothing scheduled and no transition waiting; *)
(* and only states that have an action schedule one.                       *)
(***************************************************************************)
StaysEnded ==
  pc # "idle" =>
    \A mi \in ended : /\ runtime[mi].current_state = STATE_END
                      /\ actions[mi] = None
                      /\ \A i \in DOMAIN frames : frames[i].mi # mi

HasAction(mi, s) == ActionOf(mi, s).kind # "None"

ActsByState ==
  /\ \A mi \in Ids : actions[mi] # None => HasAction(mi, actions[mi])
  /\ \A i \in DOMAIN frames :
       frames[i].below => HasAction(frames[i].mi, frames[i].next_state)

(* One action at most for each machine, and nothing else. *)
OnePerMachine == actions \in [Ids -> Int]

ContractInv == StaysEnded /\ ActsByState /\ OnePerMachine

(* A machine in STATE_END does not enter a state. *)
LEMMA EnteredNotEnded ==
  ASSUME Typed, NEW next_state, TransitionState(next_state)
  PROVE  runtime[call.mi].current_state # STATE_END
BY DEF TransitionState, SampleState, Current

LEMMA ContractState ==
  ASSUME Typed, ContractInv, NEW next_state \in 0 .. STATE_MAX - 1,
         TransitionState(next_state)
  PROVE  ContractInv'
<1> DEFINE mi    == call.mi
           below == BelowActionLimits(mi, runtime'[mi])
           frame == [mi |-> mi, next_state |-> next_state,
                     curr_state |-> Current, below |-> below]
<1>1. /\ mi \in Ids /\ next_state \in StatesOf(mi)
      /\ runtime'[mi].current_state = next_state
      /\ \A m \in Ids \ {mi} : runtime'[m] = runtime[m]
      /\ \/ frames' = Append(frames, frame) /\ UNCHANGED actions
         \/ /\ frames' = frames
            /\ actions' = IF below THEN [actions EXCEPT ![mi] = next_state]
                                   ELSE actions
  BY Entered
<1>2. pc = "transition" /\ ended' = ended
  BY DEF TransitionState
<1>3. mi \notin ended
  BY <1>2, EnteredNotEnded DEF ContractInv, StaysEnded
<1>4. below => HasAction(mi, next_state)
  BY <1>1 DEF BelowActionLimits, HasAction
<1>5. /\ DOMAIN actions = Ids /\ ended \subseteq Ids
      /\ frames \in Seq(Frame)
  BY DEF Typed, TypeOK
<1> HIDE DEF mi, below
<1>6. CASE frames' = Append(frames, frame) /\ UNCHANGED actions
  <2>0. OnePerMachine'
    BY <1>6 DEF ContractInv, OnePerMachine
  <2>1. \A i \in DOMAIN frames' :
          frames'[i] = frame \/ (i \in DOMAIN frames /\ frames'[i] = frames[i])
    BY <1>5, <1>6, AppendProperties
  <2> QED
    BY <1>1, <1>2, <1>3, <1>4, <1>5, <1>6, <2>0, <2>1
       DEF ContractInv, StaysEnded, ActsByState
<1>7. CASE /\ frames' = frames
           /\ actions' = IF below THEN [actions EXCEPT ![mi] = next_state]
                                  ELSE actions
  <2>0. OnePerMachine'
    BY <1>1, <1>7 DEF ContractInv, OnePerMachine
  <2>1. \A m \in Ids :
          \/ actions'[m] = actions[m]
          \/ m = mi /\ below /\ actions'[m] = next_state
    BY <1>1, <1>5, <1>7
  <2> QED
    BY <1>1, <1>2, <1>3, <1>4, <1>5, <1>7, <2>0, <2>1
       DEF ContractInv, StaysEnded, ActsByState
<1> QED
  BY <1>1, <1>6, <1>7

LEMMA ContractResume ==
  ASSUME Typed, ContractInv, ResumeTransition
  PROVE  ContractInv'
<1> DEFINE f == frames[Len(frames)]
<1>1. /\ Len(frames) \in DOMAIN frames
      /\ frames' = SubSeq(frames, 1, Len(frames) - 1)
      /\ actions' = IF actions[f.mi] = None /\ f.below
                    THEN [actions EXCEPT ![f.mi] = f.next_state]
                    ELSE actions
      /\ pc = "return" /\ pc' = "return"
      /\ UNCHANGED <<runtime, ended>>
  BY FramesTyped DEF ResumeTransition, Return, history, Typed, TypeOK
<1>2. /\ DOMAIN actions = Ids /\ ended \subseteq Ids /\ f.mi \in Ids
      /\ frames \in Seq(Frame)
  BY <1>1, FramesTyped DEF Typed, TypeOK
<1>3. \A i \in DOMAIN frames' : i \in DOMAIN frames /\ frames'[i] = frames[i]
  BY <1>1, <1>2
<1>4. f.mi \notin ended /\ (f.below => HasAction(f.mi, f.next_state))
  BY <1>1 DEF ContractInv, StaysEnded, ActsByState
<1>5. \A m \in Ids :
        \/ actions'[m] = actions[m]
        \/ m = f.mi /\ f.below /\ actions'[m] = f.next_state
  BY <1>1, <1>2
<1>6. f.next_state \in Int
  BY <1>1, <1>2, FramesTyped, MachineTyped
<1> HIDE DEF f
<1>7. OnePerMachine'
  BY <1>1, <1>2, <1>6 DEF ContractInv, OnePerMachine
<1> QED
  BY <1>1, <1>2, <1>3, <1>4, <1>5, <1>7 DEF ContractInv, StaysEnded, ActsByState

(* What no other step does: schedule an action, leave STATE_END or wait. *)
LEMMA ContractSame ==
  ASSUME Typed, ContractInv,
         UNCHANGED <<frames, ended>>, pc # "idle", OnePerMachine',
         \A m \in Ids : /\ actions'[m] \in {actions[m], None}
                        /\ runtime[m].current_state = STATE_END
                           => runtime'[m].current_state = STATE_END
  PROVE  ContractInv'
BY DEF ContractInv, StaysEnded, ActsByState, Typed, TypeOK

LEMMA ContractTrigger ==
  ASSUME Typed, ContractInv, NEW now, TriggerEvents(now)
  PROVE  ContractInv'
<1>1. frames' = <<>>
  BY DEF Typed, ControlOK, TriggerEvents
<1> QED
  BY <1>1 DEF ContractInv, StaysEnded, ActsByState, OnePerMachine,
       TriggerEvents, ResetActions, None

LEMMA ContractNext == Typed /\ ContractInv /\ [Next]_vars => ContractInv'
<1> SUFFICES ASSUME Typed, ContractInv, [Next]_vars
             PROVE  ContractInv'
  OBVIOUS
<1>0. UNCHANGED actions => OnePerMachine'
  BY DEF ContractInv, OnePerMachine
<1> DEFINE Same == /\ UNCHANGED <<frames, ended>> /\ pc # "idle"
                   /\ OnePerMachine'
                   /\ \A m \in Ids :
                        /\ actions'[m] \in {actions[m], None}
                        /\ runtime[m].current_state = STATE_END
                           => runtime'[m].current_state = STATE_END
<1>1. ASSUME NEW e \in Reports, ProcessEvent(e)
      PROVE  Same
  BY <1>0, <1>1 DEF ProcessEvent, ProcessTraffic, ProcessNormalSent,
       ProcessPaddingSent, ProcessBlockingBegin, ProcessBlockingEnd,
       ProcessTimer, TakeEvent, history
<1>2. CASE VisitMachine
  <2>1. DOMAIN runtime = Ids /\ \A m \in Ids : runtime[m] \in MachineRuntime(m)
    BY DEF Typed, TypeOK
  <2>2. \A m \in Ids :
          Accounted(runtime[m]).current_state = runtime[m].current_state
    BY <2>1 DEF Accounted, MachineRuntime
  <2>3. /\ UNCHANGED <<frames, ended, actions>> /\ pc # "idle"
        /\ \/ UNCHANGED runtime
           \/ runtime' = [runtime EXCEPT ![visit.next] = Accounted(@)]
    BY <1>2 DEF VisitMachine
  <2>4. Same
    BY <1>0, <2>1, <2>2, <2>3
  <2> QED
    BY <2>4, ContractSame
<1>3. CASE TransitionEnd
  <2>1. Same
    BY <1>0, <1>3 DEF TransitionEnd, history, Typed, TypeOK, MachineRuntime
  <2> QED
    BY <2>1, ContractSame
<1>4. CASE TransitionNone \/ TransitionSignal
  <2>1. Same
    BY <1>0, <1>4 DEF TransitionNone, TransitionSignal, history
  <2> QED
    BY <2>1, ContractSame
<1>5. CASE \E s \in 0 .. STATE_MAX - 1 : TransitionState(s)
  BY <1>5, ContractState
<1>6. CASE ResumeTransition
  BY <1>6, ContractResume
<1>7. CASE DecrementLimit
  <2>1. call.mi \in Ids /\ DOMAIN actions = Ids /\ DOMAIN runtime = Ids
        /\ \A m \in Ids : runtime[m] \in MachineRuntime(m)
    BY <1>7 DEF Typed, TypeOK, ControlOK, DecrementLimit, Returned
  <2>2. /\ UNCHANGED <<frames, ended>> /\ pc # "idle"
        /\ \E left : runtime' = [runtime EXCEPT ![call.mi].state_limit = left]
        /\ actions' \in {actions, [actions EXCEPT ![call.mi] = None]}
    BY <1>7 DEF DecrementLimit, Returned, history
  <2>3. OnePerMachine'
    BY <2>1, <2>2 DEF ContractInv, OnePerMachine, None
  <2>4. Same
    BY <2>1, <2>2, <2>3 DEF MachineRuntime
  <2> QED
    BY <2>4, ContractSame
<1>8. CASE \/ FinishEvent \/ FinishVisit \/ FinishLimit \/ FinishBatch
           \/ BeginSignal \/ FinishSignal \/ FinishExcluded
  <2>1. Same
    BY <1>0, <1>8 DEF FinishEvent, FinishVisit, FinishLimit, FinishBatch,
         BeginSignal, FinishSignal, FinishExcluded, Returned, history
  <2> QED
    BY <2>1, ContractSame
<1>9. CASE UNCHANGED vars
  BY <1>0, <1>9 DEF vars, history, control, ContractInv, StaysEnded,
       ActsByState
<1>10. CASE \E now \in 0 .. MaxTime : TriggerEvents(now)
  BY <1>10, ContractTrigger
<1>11. CASE \E e \in Reports : ProcessEvent(e)
  BY <1>1, <1>11, ContractSame
<1> QED
  BY <1>2, <1>3, <1>4, <1>5, <1>6, <1>7, <1>8, <1>9, <1>10, <1>11
     DEF Next, Run, Transition

LEMMA ContractInit == Init => ContractInv
BY DEF Init, ContractInv, StaysEnded, ActsByState, OnePerMachine, None

-----------------------------------------------------------------------------
(***************************************************************************)
(* The refinement.  trigger_events() is Call when it begins and Return     *)
(* when it returns; nothing in between is seen.                            *)
(***************************************************************************)
EndedNow == {mi \in Ids : runtime[mi].current_state = STATE_END}

LEMMA ContractBegins == Init => Contract!Begin
<1> SUFFICES ASSUME Init PROVE Contract!Begin
  OBVIOUS
<1>1. {mi \in Ids : runtime[mi].current_state = STATE_END} = {}
  BY MachineTyped, TypedInit DEF Init, STATE_END
<1> QED
  BY <1>1 DEF Init, Contract!Begin, Contract!Nothing

LEMMA StepCalls ==
  ASSUME Typed, NEW now, TriggerEvents(now)
  PROVE  Contract!Call
BY DEF TriggerEvents, Contract!Call, Contract!Nothing

LEMMA StepReturns ==
  ASSUME Typed, ContractInv, pc # "idle", pc' = "idle",
         UNCHANGED <<actions, runtime, ended>>
  PROVE  Contract!Return
<1>1. /\ ended \subseteq EndedNow
      /\ \A mi \in ended : actions[mi] = None
  BY DEF ContractInv, StaysEnded, EndedNow, Typed, TypeOK
<1>2. \A mi \in Ids : actions[mi] \in {None} \cup Repertoire(mi)
  BY DEF ContractInv, ActsByState, HasAction, Repertoire, Typed, TypeOK
<1>3. \A mi \in Ids :
        actions[mi] \in {None} \cup IF mi \in ended THEN {} ELSE Repertoire(mi)
  BY <1>1, <1>2
<1>4. \A mi \in Ids : actions[mi] \in Contract!MayReturn(mi)
  BY <1>3 DEF Contract!MayReturn
<1>5. DOMAIN actions = Ids /\ actions = [mi \in Ids |-> actions[mi]]
  BY DEF ContractInv, OnePerMachine
<1>6. actions \in [Ids -> UNION {Contract!MayReturn(mi) : mi \in Ids}]
  BY <1>4, <1>5
<1> QED
  BY <1>1, <1>4, <1>6 DEF Contract!Return, EndedNow

LEMMA StepStutters ==
  ASSUME UNCHANGED ended,
         \/ pc # "idle" /\ pc' # "idle"
         \/ UNCHANGED <<pc, actions, runtime>>
  PROVE  UNCHANGED (Contract!contract)
BY DEF Contract!contract

(* Every step of a call is a step of the contract or none. *)
LEMMA ContractStep ==
  Typed /\ ContractInv /\ [Next]_vars =>
    [Contract!Call \/ Contract!Return]_(Contract!contract)
<1> SUFFICES ASSUME Typed, ContractInv, [Next]_vars
             PROVE  \/ Contract!Call \/ Contract!Return
                    \/ UNCHANGED (Contract!contract)
  OBVIOUS
<1>1. CASE \E now \in 0 .. MaxTime : TriggerEvents(now)
  BY <1>1, StepCalls
<1>2. CASE UNCHANGED vars
  BY <1>2, StepStutters DEF vars, history, control
<1>3. CASE Run
  <2>1. pc # "idle"
    BY <1>3 DEF Run, ProcessEvent, ProcessTraffic, ProcessNormalSent,
         ProcessPaddingSent, ProcessBlockingBegin, ProcessBlockingEnd,
         ProcessTimer, TakeEvent, VisitMachine, FinishEvent, Transition,
         TransitionNone, TransitionEnd, TransitionSignal, TransitionState,
         ResumeTransition, FinishVisit, DecrementLimit, FinishLimit,
         FinishBatch, BeginSignal, FinishSignal, FinishExcluded, Returned
  <2>2. ended' = ended
    BY <1>3 DEF Run, ProcessEvent, ProcessTraffic, ProcessNormalSent,
         ProcessPaddingSent, ProcessBlockingBegin, ProcessBlockingEnd,
         ProcessTimer, TakeEvent, VisitMachine, FinishEvent, Transition,
         TransitionNone, TransitionEnd, TransitionSignal, TransitionState,
         ResumeTransition, FinishVisit, DecrementLimit, FinishLimit,
         FinishBatch, BeginSignal, FinishSignal, FinishExcluded, history
  <2>3. pc' = "idle" => UNCHANGED <<actions, runtime>>
    <3>1. CASE FinishBatch \/ FinishSignal \/ FinishExcluded
      BY <3>1 DEF FinishBatch, FinishSignal, FinishExcluded
    <3>2. CASE \E s \in 0 .. STATE_MAX - 1 : TransitionState(s)
      BY <3>2, Entered
    <3> QED
      BY <1>3, <3>1, <3>2
         DEF Run, ProcessEvent, ProcessTraffic, ProcessNormalSent,
           ProcessPaddingSent, ProcessBlockingBegin, ProcessBlockingEnd,
           ProcessTimer, TakeEvent, VisitMachines, VisitMachine, FinishEvent,
           Transition, TransitionNone, TransitionEnd, TransitionSignal, Return,
           ResumeTransition, FinishVisit, DecrementLimit, FinishLimit,
           BeginSignal
  <2> QED
    BY <2>1, <2>2, <2>3, StepReturns, StepStutters
<1> QED
  BY <1>1, <1>2, <1>3 DEF Next

(* For all machines and batches: every call returns at most one action a
   machine, an action of one of its states, and none of a machine that had
   reached STATE_END before; what trigger_events() does implements the safety
   part of FrameworkContract.                                               *)
THEOREM FrameworkKeepsPromise == Spec => KeepsPromise
<1>1. Init => Typed /\ ContractInv
  BY TypedInit, ContractInit
<1>2. Typed /\ ContractInv /\ [Next]_vars => Typed' /\ ContractInv'
  BY TypedNext, ContractNext
<1> QED
  BY <1>1, <1>2, ContractBegins, ContractStep, PTL
     DEF Spec, KeepsPromise, Contract!Safe
=============================================================================
