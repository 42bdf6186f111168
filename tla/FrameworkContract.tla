-------------------------- MODULE FrameworkContract --------------------------
(***************************************************************************)
(* What trigger_events() promises its caller, whatever the machines are:   *)
(* every call returns; it returns at most one action per machine, one of   *)
(* the actions of that machine's states; and a machine that had reached    *)
(* STATE_END before the call is never heard of again.                      *)
(***************************************************************************)
CONSTANTS
  Machine,          (* the machines' identifiers                           *)
  Repertoire(_),    (* the actions of a machine's states                   *)
  NoAction

VARIABLES
  working,          (* a call is running                                   *)
  retired,          (* machines in STATE_END when the last call began, or,
                       between two calls, when it returned                 *)
  returned          (* the actions returned, while no call is running      *)

contract == <<working, retired, returned>>

Nothing == [m \in Machine |-> NoAction]

Begin ==
  /\ working = FALSE
  /\ retired = {}
  /\ returned = Nothing

Call ==
  /\ ~working
  /\ working' = TRUE
  /\ returned' = Nothing
  /\ retired' = retired

MayReturn(m) == {NoAction} \cup IF m \in retired THEN {} ELSE Repertoire(m)

Return ==
  /\ working
  /\ working' = FALSE
  /\ retired' \in {r \in SUBSET Machine : retired \subseteq r}
  /\ returned' \in {f \in [Machine -> UNION {MayReturn(m) : m \in Machine}] :
                     \A m \in Machine : f[m] \in MayReturn(m)}

Safe == Begin /\ [][Call \/ Return]_contract

Returns == working ~> ~working

Promise == Safe /\ Returns
=============================================================================
