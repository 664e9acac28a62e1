----------------------------- MODULE MCTransport -----------------------------
(* Instances of Transport for TLC: two application threads and the         *)
(* signaling thread, two or three media, calls re-entered from a callback  *)
(* and, with MaxLevel 3, from a callback inside such a call.               *)
EXTENDS Transport
=============================================================================
