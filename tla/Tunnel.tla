-------------------------------- MODULE Tunnel --------------------------------
(***************************************************************************)
(* What the simulator promises of the packets of a trace, whatever the     *)
(* machines do: each enters the tunnel once and leaves it once on the      *)
(* other side; none enters through a gate that is shut, and through one    *)
(* that lets only exempt packets pass, none that is not; and all of them   *)
(* arrive.                                                                 *)
(***************************************************************************)
EXTENDS Integers

CONSTANT End               (* the two ends of the tunnel                   *)

VARIABLES
  gate,                    (* of each end: "open", "bypass" or "shut"      *)
  plain,                   (* packets waiting at each end                  *)
  exempt,                  (* those that pass a gate set to "bypass"       *)
  travelling,              (* packets in the tunnel, by the end they left  *)
  arrived                  (* packets out of the tunnel, by the same end   *)

tunnel == <<gate, plain, exempt, travelling, arrived>>

Untouched ==
  /\ gate = [e \in End |-> "open"]
  /\ plain \in [End -> Nat]
  /\ exempt = [e \in End |-> 0]
  /\ travelling = [e \in End |-> 0]
  /\ arrived = [e \in End |-> 0]

SetGate(e) ==
  /\ \E g \in {"open", "bypass", "shut"} : gate' = [gate EXCEPT ![e] = g]
  /\ UNCHANGED <<plain, exempt, travelling, arrived>>

Exempt(e) ==
  /\ plain[e] > 0
  /\ plain' = [plain EXCEPT ![e] = @ - 1]
  /\ exempt' = [exempt EXCEPT ![e] = @ + 1]
  /\ UNCHANGED <<gate, travelling, arrived>>

Enter(e) ==
  /\ \/ /\ gate[e] = "open"
        /\ plain[e] > 0
        /\ plain' = [plain EXCEPT ![e] = @ - 1]
        /\ UNCHANGED exempt
     \/ /\ gate[e] # "shut"
        /\ exempt[e] > 0
        /\ exempt' = [exempt EXCEPT ![e] = @ - 1]
        /\ UNCHANGED plain
  /\ travelling' = [travelling EXCEPT ![e] = @ + 1]
  /\ UNCHANGED <<gate, arrived>>

Leave(e) ==
  /\ travelling[e] > 0
  /\ travelling' = [travelling EXCEPT ![e] = @ - 1]
  /\ arrived' = [arrived EXCEPT ![e] = @ + 1]
  /\ UNCHANGED <<gate, plain, exempt>>

Move == \E e \in End : SetGate(e) \/ Exempt(e) \/ Enter(e) \/ Leave(e)

AllArrived == \A e \in End : plain[e] = 0 /\ exempt[e] = 0 /\ travelling[e] = 0

Safe == Untouched /\ [][Move]_tunnel

Arrival == <>[]AllArrived

Promise == Safe /\ Arrival
=============================================================================
