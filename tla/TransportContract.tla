-------------------------- MODULE TransportContract --------------------------
(***************************************************************************)
(* What a transport promises about its producers or consumers, its media:  *)
(* one is created only while the transport is open, closing the transport  *)
(* closes each of them that is still open, and only a transport all of     *)
(* whose media are closed is ever destroyed.                               *)
(***************************************************************************)
CONSTANT Media

VARIABLES
  phase,    (* "open", "closing", "closed" or "destroyed"                  *)
  state     (* state[p]: "none", "open", "closed" or "gone"                *)

vars == <<phase, state>>

Init == phase = "open" /\ state = [p \in Media |-> "none"]

Move(p, from, to) ==
  /\ state[p] = from
  /\ state' = [state EXCEPT ![p] = to]
  /\ UNCHANGED phase

Create(p) == phase = "open" /\ Move(p, "none", "open")

(* By the application at any time, by the transport while it closes.       *)
Close(p) == phase # "destroyed" /\ Move(p, "open", "closed")

Drop(p) == Move(p, "closed", "gone")

BeginClose ==
  /\ phase = "open"
  /\ phase' = "closing"
  /\ UNCHANGED state

EndClose ==
  /\ phase = "closing"
  /\ \A p \in Media : state[p] # "open"
  /\ phase' = "closed"
  /\ UNCHANGED state

Destroy ==
  /\ phase = "closed"
  /\ phase' = "destroyed"
  /\ UNCHANGED state

Next ==
  \/ BeginClose \/ EndClose \/ Destroy
  \/ \E p \in Media : Create(p) \/ Close(p) \/ Drop(p)

Spec == Init /\ [][Next]_vars
=============================================================================
