------------------------- MODULE MCProduceHandshake -------------------------
(***************************************************************************)
(* Instances of ProduceHandshake for TLC.  Two calls, the second one for a *)
(* data producer, are made from two queues; their answers arrive on a      *)
(* third queue, the signalling layer's.                                    *)
(***************************************************************************)
EXTENDS ProduceHandshake, TLC

CONSTANTS c1, c2, main, worker, network

MCCallQueue == (c1 :> main) @@ (c2 :> worker)
MCSignaling == (c1 :> network) @@ (c2 :> network)
=============================================================================
