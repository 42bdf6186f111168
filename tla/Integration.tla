------------------------------ MODULE Integration ------------------------------
(***************************************************************************)
(* The delays of an integration: distributions over bins, each a range of  *)
(* values with a probability, sampled by a binary search in the cumulative *)
(* probabilities.  Probabilities are multiples of 1 / ProbUnit and the     *)
(* number rolled is a multiple of 1 / (2 * ProbUnit), so that it may hit a *)
(* cumulative probability or fall between two.                             *)
(***************************************************************************)
EXTENDS Integers, Sequences

LOCAL INSTANCE SequencesExt

CONSTANT ProbUnit

ASSUME IntegrationAssumption == ProbUnit \in Nat \ {0}

Bin(min, max, prob) == [min |-> min, max |-> max, prob |-> prob]

(* BinDist::new: the bins in the order of their ranges ... *)
Sorted(bins) == SetToSortSeq(bins, LAMBDA a, b : a.min < b.min)

(* ... and their cumulative probabilities. *)
Cumulative(sorted) ==
  LET sum[k \in 0 .. Len(sorted)] ==
        IF k = 0 THEN 0 ELSE sum[k - 1] + sorted[k].prob
  IN  [k \in DOMAIN sorted |-> sum[k]]

Rolls == 0 .. 2 * ProbUnit - 1

(* binary_search_by: a bin whose cumulative probability is the roll, or else
   the first one beyond it.  There is none, and the sample panics, if the
   probabilities add up to less than the roll. *)
BinIndices(cumulative, roll) ==
  LET hits   == {k \in DOMAIN cumulative : 2 * cumulative[k] = roll}
      beyond == {k \in DOMAIN cumulative : 2 * cumulative[k] > roll}
  IN  IF hits # {} THEN hits
      ELSE {k \in beyond : \A j \in beyond : k <= j}

(* gen_range leaves out the end of the range. *)
Values(bin) == IF bin.min = bin.max THEN {bin.min} ELSE bin.min .. bin.max - 1

(* BinDist::sample: what it may return. *)
Sample(bins) ==
  LET sorted == Sorted(bins)
      chosen == UNION {BinIndices(Cumulative(sorted), roll) : roll \in Rolls}
  IN  UNION {Values(sorted[k]) : k \in chosen}
=============================================================================
