------------------------- MODULE MCSenderParameters -------------------------
(***************************************************************************)
(* Instances of SenderParameters for TLC: two overlapping updates of a     *)
(* sender with two encodings and bit rates of four bits.                   *)
(***************************************************************************)
EXTENDS SenderParameters

Keep == [op |-> "keep"]
Forget == [op |-> "forget"]
Lengthen == [op |-> "append"]
Cap(n) == [op |-> "cap", max |-> n]
Prefer(p) == [op |-> "prefer", preference |-> p]
Limit(n) == [op |-> "limit", layer |-> n]

(* Rates that WebRTC accepts, refuses (0 is below the lower bit rate) and  *)
(* gets cut to the width (9), limits to a layer it knows and to one it     *)
(* does not, and a closure that returns one encoding too many.             *)
MCEdits ==
  {Keep, Forget, Lengthen, Cap(0), Cap(3), Cap(7), Cap(9), Cap(Nil), Prefer("balanced"),
   Prefer(Nil), Limit(0), Limit(1), Limit(2)}

MCPreference == {Keep, Prefer("maintainFramerate")}
=============================================================================
