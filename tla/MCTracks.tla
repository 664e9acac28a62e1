------------------------------- MODULE MCTracks -------------------------------
(* A video producer and an audio consumer with a track each, a spare video *)
(* track, and two threads.  Once the consumer is closed its track may be   *)
(* given to the producer, and is of the wrong kind for it.                 *)
EXTENDS Tracks, TLC

CONSTANTS p1, c1, k1, k2, k3

MCKind == [x \in {p1, k1, k2} |-> "video"] @@ [x \in {c1, k3} |-> "audio"]

MCFirst == p1 :> k1 @@ c1 :> k3
=============================================================================
