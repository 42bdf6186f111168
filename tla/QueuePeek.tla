------------------------------ MODULE QueuePeek ------------------------------
(***************************************************************************)
(* Looking for what happens next: the time until the first scheduled       *)
(* action or timer, the first expiry of a block, and the first queued      *)
(* event that blocking lets through.                                       *)
(***************************************************************************)
EXTENDS SimQueue

(* Bug: what is due now is skipped like what lies in the past. *)
PeekTimesAfter(times, now) ==
  LET ahead == {t \in times : t > now}
  IN  IF ahead = {} THEN DURATION_MAX
      ELSE Since(Least(ahead), now)

(* peek_scheduled_action and peek_scheduled_internal_timer: what lies in the
   past is skipped. *)
PeekTimes(times, now) ==
  LET ahead == {t \in times : t >= now}
  IN  IF ahead = {} THEN DURATION_MAX
      ELSE Since(Least(ahead), now)

(* Bug: the later expiry is chosen. *)
PeekLastExp(until, now) ==
  LET side == IF until.client > until.server THEN "client" ELSE "server"
  IN  [duration |-> IF until[side] = None THEN DURATION_MAX
                    ELSE Since(until[side], now),
       side |-> side]

(* peek_blocked_exp: the server's block expires first if both do together. *)
PeekBlockedExp(until, now) ==
  LET side == CASE until.server = None -> "client"
                [] until.client = None -> "server"
                [] OTHER -> IF until.client < until.server THEN "client"
                            ELSE "server"
  IN  [duration |-> IF until[side] = None THEN DURATION_MAX
                    ELSE Since(until[side], now),
       side |-> side]

Pick(duration, q, side) == [duration |-> duration, queue |-> q, side |-> side]

NoPick == Pick(DURATION_MAX, "blocking", "server")

(* The first event of a side, as if nothing were blocked. *)
SidePeek(queues, delay, now, side) ==
  LET q == FirstQueue(queues, delay)
  IN  Pick(Since(Due(queues, q, delay), now), q, side)

NoEvents(queues) == Filled(queues) = {}

(* SimQueue::peek: the client's event on a tie of time and kind. *)
PeekAll(sq, delay, now) ==
  LET peek(side) == SidePeek(sq[side], delay[side], now, side)
      c == peek("client")
      s == peek("server")
      rank(p) == event_to_usize[Top(sq[p.side][p.queue]).event]
      ClientFirst ==
        \/ NoEvents(sq.server)
        \/ /\ ~NoEvents(sq.client)
           /\ \/ c.duration < s.duration
              \/ c.duration = s.duration /\ rank(c) <= rank(s)
  IN  IF ClientFirst THEN c ELSE s

(* peek_queue_earliest_side: a held event waits for its block to end; on a
   tie the base queue is first and the internal queue last. *)
EarliestOfSide(queues, until, bypassable, delay, now, side) ==
  LET held == FirstBlocking(queues, bypassable)
      free == FirstNonBlocking(queues, bypassable, delay)
      held_time == Later(Top(queues[held]).time, IF until = None THEN now ELSE until)
      free_time == Due(queues, free, delay)
      HeldFirst ==
        /\ ~Empty(queues[held])
        /\ \/ Empty(queues[free])
           \/ held_time < free_time
           \/ held_time = free_time /\ free # "base"
  IN  IF Empty(queues[held]) /\ Empty(queues[free])
      THEN Pick(DURATION_MAX, "blocking", side)
      ELSE IF HeldFirst THEN Pick(Since(held_time, now), held, side)
      ELSE Pick(Since(free_time, now), free, side)

(* Bug: a packet's flag suffices, whatever the block admits. *)
FlagSuffices(sq, until, bypassable, p) ==
  LET e == Top(sq[p.side][p.queue])
  IN  e.event # "TunnelSent" \/ until[p.side] = None \/ e.bypass

(* May the event p picked leave its queue, the blocks being what they are? *)
Unblocked(sq, until, bypassable, p) ==
  LET e == Top(sq[p.side][p.queue])
  IN  \/ e.event # "TunnelSent"
      \/ until[p.side] = None
      \/ bypassable[p.side] /\ e.bypass

(* peek_queue *)
PeekQueue(sq, until, bypassable, delay, earliest, now) ==
  LET first == PeekAll(sq, delay, now)
      of(side) == EarliestOfSide(sq[side], until[side], bypassable[side],
                                 delay[side], now, side)
      c == of("client")
      s == of("server")
  IN  IF \A side \in Side : NoEvents(sq[side]) THEN NoPick
      ELSE IF first.duration > earliest THEN NoPick
      ELSE IF Unblocked(sq, until, bypassable, first) THEN first
      ELSE IF c.duration <= s.duration THEN c
      ELSE s
=============================================================================
