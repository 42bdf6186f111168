-------------------------- MODULE FrameworkSignals ---------------------------
(***************************************************************************)
(* Who is signalled: at most once per call, whenever another machine       *)
(* raised a signal, and what is left for the next call.                    *)
(***************************************************************************)
EXTENDS FrameworkProofs

-----------------------------------------------------------------------------
(***************************************************************************)
(* A call has a part before the round of signals, the round, the answer    *)
(* given to the machine the round left out, and an end.                    *)
(***************************************************************************)
Before == pc = "batch" \/ (Visiting /\ visit.stage \in {"event", "limit"})
Round == Visiting /\ visit.stage = "signal"
Answer == pc \in {"transition", "return"} /\ visit.stage = "excluded"

(* Nobody is signalled yet; the pending signal tells who raised one. *)
BeforeOK ==
  /\ Visiting => visit.event # "Signal"
  /\ \A mi \in Ids : signalled[mi] = 0
  /\ signal_pending = None => raisers = {}
  /\ signal_pending \in Ids => raisers = {signal_pending}
  /\ signal_pending = All => raisers # {}

(* The machines visited are signalled; a signal raised in the round comes
   from another machine than the one left out.                             *)
RoundOK ==
  /\ visit.last = NumMachines - 1 /\ visit.event = "Signal"
  /\ \A mi \in Ids :
       signalled[mi] = IF mi < visit.next /\ mi # visit.skip THEN 1 ELSE 0
  /\ visit.skip = None => raisers # {}
  /\ visit.skip \in Ids =>
       /\ visit.skip \in raisers
       /\ signal_pending = None => raisers = {visit.skip}
       /\ signal_pending # None => \E mi \in raisers : mi # visit.skip
  /\ pc \in {"transition", "return"} => call.mi # visit.skip

AnswerOK ==
  /\ visit.event = "Signal" /\ visit.skip \in Ids /\ call.mi = visit.skip
  /\ \A mi \in Ids : signalled[mi] = 1
  /\ raisers # {}
  /\ pc = "transition" => signal_pending = None
  /\ pc = "return" => signal_pending \in {None, visit.skip}

IdleOK == SignalledOnce /\ SignalsReachOthers /\ LeftOverSignal

SignalInv ==
  /\ Before => BeforeOK
  /\ Round => RoundOK
  /\ Answer => AnswerOK
  /\ pc = "idle" => IdleOK
  /\ Visiting /\ visit.stage = "excluded" => Answer

(* The invariant says more than the properties, in every part of a call. *)
LEMMA SignalProperties ==
  Typed /\ SignalInv => SignalledOnce /\ SignalsReachOthers /\ LeftOverSignal
<1> SUFFICES ASSUME Typed, SignalInv
             PROVE  SignalledOnce /\ SignalsReachOthers /\ LeftOverSignal
  OBVIOUS
<1>1. pc \in {"idle", "batch", "visit", "transition", "return"}
      /\ visit.stage \in {"event", "limit", "signal", "excluded"}
  BY DEF Typed, TypeOK, Visit
<1>2. CASE pc = "idle"
  BY <1>2 DEF SignalInv, IdleOK
<1>3. CASE pc # "idle"
  <2>1. Before \/ Round \/ Answer
    BY <1>1, <1>3 DEF Before, Round, Answer, Visiting, SignalInv
  <2>2. SignalledOnce
    BY <2>1 DEF SignalInv, BeforeOK, RoundOK, AnswerOK, SignalledOnce
  <2> QED
    BY <1>3, <2>2 DEF SignalsReachOthers, LeftOverSignal
<1> QED
  BY <1>2, <1>3

-----------------------------------------------------------------------------
(* A step within a part of the call that raises no signal changes nothing
   the invariant speaks of, but the section that runs.                     *)
LEMMA SignalsQuiet ==
  ASSUME Typed, SignalInv, Visiting, Visiting',
         visit'.skip = visit.skip, visit'.event = visit.event,
         visit'.next = visit.next, visit'.last = visit.last,
         \/ visit'.stage = visit.stage
         \/ visit.stage \in {"event", "limit"} /\ visit'.stage \in {"event", "limit"},
         pc \in {"transition", "return"},
         pc' = "return" \/ pc' = pc \/ visit.stage # "excluded",
         call'.mi = call.mi,
         UNCHANGED <<signal_pending, raisers, signalled>>
  PROVE  SignalInv'
<1>1. Before' <=> Before
  BY DEF Before, Visiting
<1>2. Round' <=> Round
  BY DEF Round, Visiting
<1>3. Answer' <=> Answer
  BY DEF Answer, Visiting
<1>4. BeforeOK' <=> BeforeOK
  BY DEF BeforeOK
<1>5. RoundOK => RoundOK'
  BY DEF RoundOK
<1>6. Answer /\ AnswerOK => AnswerOK'
  BY DEF Answer, AnswerOK
<1>7. pc' # "idle" /\ (Visiting' /\ visit'.stage = "excluded" => Answer')
  BY DEF Visiting, SignalInv, Answer
<1> QED
  BY <1>1, <1>2, <1>3, <1>4, <1>5, <1>6, <1>7 DEF SignalInv

LEMMA SignalsVisiting ==
  ASSUME Typed, SignalInv,
         TransitionNone \/ TransitionEnd \/ ResumeTransition
           \/ FinishVisit \/ DecrementLimit \/ FinishLimit
  PROVE  SignalInv'
<1> USE DEF Typed, TypeOK, Visit, Visiting
<1>1. CASE TransitionNone
  BY <1>1, SignalsQuiet DEF TransitionNone, Return, history
<1>2. CASE TransitionEnd
  BY <1>2, SignalsQuiet DEF TransitionEnd, Return, history
<1>3. CASE ResumeTransition
  BY <1>3, SignalsQuiet DEF ResumeTransition, Return, history
<1>4. CASE FinishVisit
  BY <1>4, SignalsQuiet DEF FinishVisit, Returned, history
<1>5. CASE DecrementLimit
  BY <1>5, SignalsQuiet DEF DecrementLimit, Returned, history
<1>6. CASE FinishLimit
  BY <1>6, SignalsQuiet DEF FinishLimit, Returned, history
<1> QED
  BY <1>1, <1>2, <1>3, <1>4, <1>5, <1>6

LEMMA SignalsState ==
  ASSUME Typed, SignalInv, NEW next_state \in 0 .. STATE_MAX - 1,
         TransitionState(next_state)
  PROVE  SignalInv'
<1>1. PICK limit, a, b : Enter(next_state, limit, a, b)
  BY DEF TransitionState
<1>2. /\ pc = "transition"
      /\ UNCHANGED <<visit, signal_pending, raisers, signalled>>
  BY DEF TransitionState
<1>3. pc' = pc \/ pc' = "return"
  BY <1>1 DEF Enter, Return
<1>4. call' = call \/ call' = [mi |-> call.mi, event |-> "CounterZero"]
  BY <1>1 DEF Enter, Return
<1>5. call'.mi = call.mi
  BY <1>4
<1> QED
  BY <1>2, <1>3, <1>5, SignalsQuiet DEF Visiting

(* Whoever raises a signal while one is pending makes it one for all. *)
LEMMA SignalsRaised ==
  ASSUME Typed, SignalInv, TransitionSignal
  PROVE  SignalInv'
<1>1. /\ pc = "transition" /\ pc' = "return" /\ Visiting /\ Visiting'
      /\ UNCHANGED <<visit, call, signalled>>
      /\ signal_pending' = SignalTarget(call.mi)
      /\ raisers' = raisers \cup {call.mi}
  BY DEF TransitionSignal, Return, Visiting
<1>2. call.mi \in Ids /\ raisers \subseteq Ids
      /\ signal_pending \in Ids \cup {None, All}
  BY <1>1 DEF Typed, TypeOK, ControlOK
<1>3. None \notin Ids /\ All \notin Ids /\ All # None
  BY DEF Ids, None, All
<1>4. Before' <=> Before
  BY <1>1 DEF Before
<1>5. Round' <=> Round
  BY <1>1 DEF Round
<1>6. Answer' <=> Answer
  BY <1>1 DEF Answer
<1>7. BeforeOK => BeforeOK'
  BY <1>1, <1>2, <1>3 DEF BeforeOK, SignalTarget
<1>8. RoundOK => RoundOK'
  <2> SUFFICES ASSUME RoundOK PROVE RoundOK'
    OBVIOUS
  <2>1. signal_pending' # None
    BY <1>1, <1>2, <1>3 DEF SignalTarget
  <2>2. call.mi # visit.skip
    BY <1>1 DEF RoundOK
  <2> QED
    BY <1>1, <2>1, <2>2 DEF RoundOK
<1>9. Answer /\ AnswerOK => AnswerOK'
  BY <1>1, <1>2, <1>3 DEF AnswerOK, SignalTarget
<1> QED
  BY <1>1, <1>4, <1>5, <1>6, <1>7, <1>8, <1>9 DEF SignalInv, Visiting, Answer

(* The next machine of a round is signalled, the one left out is not. *)
LEMMA SignalsVisited ==
  ASSUME Typed, SignalInv, VisitMachine
  PROVE  SignalInv'
<1> DEFINE mi == visit.next
<1>1. /\ pc = "visit" /\ mi \in Ids
      /\ visit' = [visit EXCEPT !.next = mi + 1]
      /\ UNCHANGED <<signal_pending, raisers>>
      /\ \/ mi = visit.skip /\ UNCHANGED <<pc, call, signalled>>
         \/ /\ mi # visit.skip /\ pc' = "transition"
            /\ call' = [mi |-> mi, event |-> visit.event]
            /\ signalled' = IF visit.event = "Signal"
                            THEN [signalled EXCEPT ![mi] = @ + 1]
                            ELSE signalled
  BY VisitTyped DEF VisitMachine, Skipped
<1>2. visit \in Visit /\ signalled \in [Ids -> Nat]
  BY DEF Typed, TypeOK
<1>3. /\ visit'.stage = visit.stage /\ visit'.event = visit.event
      /\ visit'.skip = visit.skip /\ visit'.last = visit.last
      /\ visit'.next = mi + 1
  BY <1>1, <1>2 DEF Visit
<1>4. Visiting /\ Visiting'
  BY <1>1 DEF Visiting
<1>5. visit.stage # "excluded"
  BY <1>1, <1>4 DEF SignalInv, Answer
<1>6. (Before' <=> Before) /\ (Round' <=> Round) /\ ~Answer'
  BY <1>1, <1>3, <1>4, <1>5 DEF Before, Round, Answer
<1>7. BeforeOK => BeforeOK'
  BY <1>1, <1>3, <1>4 DEF BeforeOK
<1>8. RoundOK => RoundOK'
  <2> SUFFICES ASSUME RoundOK PROVE RoundOK'
    OBVIOUS
  <2>1. visit.event = "Signal"
    BY DEF RoundOK
  <2>2. \A m \in Ids :
          signalled'[m] = IF m < mi + 1 /\ m # visit.skip THEN 1 ELSE 0
    <3> SUFFICES ASSUME NEW m \in Ids
                 PROVE  signalled'[m] = IF m < mi + 1 /\ m # visit.skip
                                        THEN 1 ELSE 0
      OBVIOUS
    <3>1. m \in Int /\ mi \in Int
      BY <1>1 DEF Ids
    <3>2. signalled[m] = IF m < mi /\ m # visit.skip THEN 1 ELSE 0
      BY DEF RoundOK
    <3> QED
      BY <1>1, <1>2, <2>1, <3>1, <3>2
  <2>3. pc' = "transition" => call'.mi # visit.skip
    BY <1>1
  <2>4. pc' # "return"
    BY <1>1
  <2> QED
    BY <1>1, <1>3, <2>2, <2>3, <2>4 DEF RoundOK
<1> QED
  BY <1>1, <1>3, <1>4, <1>5, <1>6, <1>7, <1>8 DEF SignalInv, Visiting

-----------------------------------------------------------------------------
(* A call takes over what the last one left pending. *)
LEMMA SignalsTrigger ==
  ASSUME Typed, SignalInv, NEW now, TriggerEvents(now)
  PROVE  SignalInv'
<1>1. pc' = "batch" /\ signal_pending' = signal_pending
      /\ raisers' = {signal_pending} \cap Ids
      /\ signalled' = [m \in Ids |-> 0]
  BY DEF TriggerEvents
<1>2. signal_pending = None \/ signal_pending \in Ids
  BY DEF TriggerEvents, SignalInv, IdleOK, LeftOverSignal
<1>3. None \notin Ids /\ All \notin Ids /\ All # None
  BY DEF Ids, None, All
<1>4. BeforeOK'
  BY <1>1, <1>2, <1>3 DEF BeforeOK, Visiting
<1> QED
  BY <1>1, <1>4 DEF SignalInv, Visiting, Before, Round, Answer

(* No event a caller may report is Event::Signal. *)
LEMMA SignalsEvent ==
  ASSUME Typed, SignalInv, NEW e \in Reports, ProcessEvent(e)
  PROVE  SignalInv'
<1>1. e.event # "Signal"
  BY FrameworkAssumption DEF TriggerEvent
<1>2. /\ pc = "batch"
      /\ UNCHANGED <<signal_pending, raisers, signalled>>
      /\ \/ UNCHANGED <<pc, visit>>
         \/ \E first, last, blocked : VisitMachines(e, first, last, blocked)
  BY DEF ProcessEvent, ProcessTraffic, ProcessNormalSent, ProcessPaddingSent,
         ProcessBlockingBegin, ProcessBlockingEnd, ProcessTimer, TakeEvent,
         history
<1>3. BeforeOK
  BY <1>2 DEF SignalInv, Before
<1>4. CASE UNCHANGED <<pc, visit>>
  BY <1>2, <1>3, <1>4
     DEF SignalInv, Visiting, Before, Round, Answer, BeforeOK
<1>5. ASSUME NEW first, NEW last, NEW blocked,
             VisitMachines(e, first, last, blocked)
      PROVE  SignalInv'
  <2>1. pc' = "visit" /\ visit'.stage = "event" /\ visit'.event = e.event
    BY <1>5 DEF VisitMachines
  <2>2. BeforeOK'
    BY <1>1, <1>2, <1>3, <2>1 DEF BeforeOK
  <2> QED
    BY <2>1, <2>2 DEF SignalInv, Visiting, Before, Round, Answer
<1> QED
  BY <1>2, <1>4, <1>5

LEMMA SignalsBatch ==
  ASSUME Typed, SignalInv, FinishEvent \/ FinishBatch
  PROVE  SignalInv'
<1>1. /\ pc' \in {"batch", "idle"}
      /\ UNCHANGED <<signal_pending, raisers, signalled>>
  BY DEF FinishEvent, FinishBatch, history
<1>2. BeforeOK
  BY DEF FinishEvent, FinishBatch, SignalInv, Before, Visiting
<1>3. BeforeOK'
  BY <1>1, <1>2 DEF BeforeOK, Visiting
<1>4. CASE FinishEvent
  BY <1>3, <1>4 DEF FinishEvent, SignalInv, Visiting, Before, Round, Answer
<1>5. CASE FinishBatch
  <2>1. pc' = "idle" /\ signal_pending' = None
    BY <1>5 DEF FinishBatch
  <2>2. IdleOK'
    BY <1>3, <2>1 DEF BeforeOK, IdleOK, SignalledOnce, SignalsReachOthers,
                      LeftOverSignal
  <2> QED
    BY <2>1, <2>2 DEF SignalInv, Visiting, Before, Round, Answer
<1> QED
  BY <1>4, <1>5

(* The round leaves a machine out only if nobody else raised a signal. *)
LEMMA SignalsBegin ==
  ASSUME Typed, SignalInv, BeginSignal
  PROVE  SignalInv'
<1> DEFINE skip == IF signal_pending = All THEN None ELSE signal_pending
<1>1. /\ pc' = "visit" /\ signal_pending' = None
      /\ UNCHANGED <<raisers, signalled>>
      /\ visit' = [stage |-> "signal", event |-> "Signal", machine |-> None,
                   next |-> 0, last |-> NumMachines - 1, skip |-> skip,
                   blocked |-> 0]
  BY DEF BeginSignal, history
<1>2. BeforeOK /\ signal_pending # None
      /\ signal_pending \in Ids \cup {None, All}
  BY DEF BeginSignal, SignalInv, Before, Typed, TypeOK
<1>3. None \notin Ids /\ All \notin Ids
  BY DEF Ids, None, All
<1>4. \A m \in Ids : ~(m < 0)
  BY DEF Ids
<1>5. RoundOK'
  BY <1>1, <1>2, <1>3, <1>4 DEF RoundOK, BeforeOK
<1> QED
  BY <1>1, <1>5 DEF SignalInv, Visiting, Before, Round, Answer

(* At the end of the round all others were signalled; the one left out is
   owed a signal exactly if one of them raised a signal.                   *)
LEMMA SignalsFinish ==
  ASSUME Typed, SignalInv, FinishSignal
  PROVE  SignalInv'
<1>1. /\ RoundOK /\ pc = "visit" /\ visit.next > visit.last
      /\ raisers' = raisers /\ signal_pending' = None
  BY DEF FinishSignal, SignalInv, Round, Visiting
<1>2. /\ visit \in Visit /\ signalled \in [Ids -> Nat]
      /\ signal_pending \in Ids \cup {None, All}
      /\ NumMachines \in Nat
  BY FrameworkAssumption DEF Typed, TypeOK
<1>3. None \notin Ids
  BY DEF Ids, None
<1>4. visit.skip \in Ids \cup {None}
  BY <1>2 DEF Visit
<1>5. \A m \in Ids : m < visit.next
  BY <1>1, <1>2 DEF RoundOK, Ids, Visit
<1>6. \A m \in Ids : signalled[m] = IF m # visit.skip THEN 1 ELSE 0
  BY <1>1, <1>5 DEF RoundOK
<1>7. CASE OwedSignal
  <2>1. /\ call' = [mi |-> visit.skip, event |-> "Signal"]
        /\ visit' = [visit EXCEPT !.stage = "excluded"]
        /\ pc' = "transition"
        /\ signalled' = [signalled EXCEPT ![visit.skip] = @ + 1]
    BY <1>7 DEF FinishSignal
  <2>2. visit.skip \in Ids
    BY <1>4, <1>7 DEF OwedSignal
  <2>3. visit'.stage = "excluded" /\ visit'.skip = visit.skip
        /\ visit'.event = visit.event
    BY <1>2, <2>1 DEF Visit
  <2>4. \A m \in Ids : signalled'[m] = 1
    BY <1>2, <1>6, <2>1, <2>2
  <2>5. AnswerOK'
    BY <1>1, <2>1, <2>2, <2>3, <2>4 DEF AnswerOK, RoundOK
  <2> QED
    BY <2>1, <2>3, <2>5 DEF SignalInv, Visiting, Before, Round, Answer
<1>8. CASE ~OwedSignal
  <2>1. pc' = "idle" /\ signalled' = signalled
    BY <1>8 DEF FinishSignal
  <2>2. visit.skip = None \/ raisers = {visit.skip}
    BY <1>1, <1>4, <1>8 DEF OwedSignal, RoundOK
  <2>3. raisers # {}
    BY <1>1, <1>3, <1>4, <2>2 DEF RoundOK
  <2>4. IdleOK'
    BY <1>1, <1>3, <1>6, <2>1, <2>2, <2>3
       DEF IdleOK, SignalledOnce, SignalsReachOthers, LeftOverSignal
  <2> QED
    BY <2>1, <2>4 DEF SignalInv, Visiting, Before, Round, Answer
<1> QED
  BY <1>7, <1>8

LEMMA SignalsExcluded ==
  ASSUME Typed, SignalInv, FinishExcluded
  PROVE  SignalInv'
<1>1. AnswerOK /\ pc = "return" /\ pc' = "idle"
      /\ UNCHANGED <<signal_pending, raisers, signalled>>
  BY DEF FinishExcluded, Returned, SignalInv, Answer, Visiting, history
<1>2. IdleOK'
  BY <1>1 DEF AnswerOK, IdleOK, SignalledOnce, SignalsReachOthers,
              LeftOverSignal
<1> QED
  BY <1>1, <1>2 DEF SignalInv, Visiting, Before, Round, Answer

-----------------------------------------------------------------------------
LEMMA SignalsNext == Typed /\ SignalInv /\ [Next]_vars => SignalInv'
<1> SUFFICES ASSUME Typed, SignalInv, [Next]_vars PROVE SignalInv'
  OBVIOUS
<1>1. ASSUME UNCHANGED vars PROVE SignalInv'
  BY <1>1 DEF vars, control, history, SignalInv, Visiting, Before, Round,
              Answer, BeforeOK, RoundOK, AnswerOK, IdleOK, SignalledOnce,
              SignalsReachOthers, LeftOverSignal
<1>2. CASE \E now \in 0 .. MaxTime : TriggerEvents(now)
  BY <1>2, SignalsTrigger
<1>3. CASE Run
  BY <1>3, SignalsEvent, SignalsVisited, SignalsBatch, SignalsRaised,
     SignalsState, SignalsVisiting, SignalsBegin, SignalsFinish,
     SignalsExcluded DEF Run, Transition
<1> QED
  BY <1>1, <1>2, <1>3 DEF Next

LEMMA SignalsAreSound ==
  Spec => [](SignalledOnce /\ SignalsReachOthers /\ LeftOverSignal)
<1>1. Init => SignalInv
  BY DEF Init, history, SignalInv, Visiting, Before, Round, Answer, IdleOK,
         SignalledOnce, SignalsReachOthers, LeftOverSignal
<1> QED
  BY <1>1, TypedInit, TypedNext, SignalsNext, SignalProperties, PTL DEF Spec

(* Whatever the machines do with signals, no machine is signalled twice in a
   call, be it in the round of signals or for an answer given in it.        *)
THEOREM NobodyIsSignalledTwice == Spec => []SignalledOnce
<1> QED
  BY SignalsAreSound, PTL

(* When a call returns every machine has been signalled if another machine
   raised a signal, and none if nobody did.                                 *)
THEOREM SignalsReachAllOthers == Spec => []SignalsReachOthers
<1> QED
  BY SignalsAreSound, PTL

(* What a call leaves pending for the next one was raised by a machine that
   this call had signalled: it never is a signal for all machines.          *)
THEOREM OneSignalIsLeftOver == Spec => []LeftOverSignal
<1> QED
  BY SignalsAreSound, PTL
=============================================================================
