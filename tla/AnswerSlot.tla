----------------------------- MODULE AnswerSlot -----------------------------
(***************************************************************************)
(* What a blocking createProducer / produceData call promises its caller,  *)
(* whatever threads, blocks and futures are used to keep the promise: the  *)
(* application is asked once, at most one of its answers counts, and the   *)
(* call returns the producer the counted answer names, or an error.  A     *)
(* call that the library refuses before asking returns an error at once.   *)
(***************************************************************************)
CONSTANTS
  Call,    (* the createProducer / produceData calls                       *)
  Id,      (* producer identifiers the signalling server may allot         *)
  Nil,     (* the answer callback(nil)                                     *)
  None     (* no answer, no result yet                                     *)

VARIABLES
  slot,    (* slot[c]: None, an answer, or "abandoned"                     *)
  asked,   (* the calls whose question reached the answering stage         *)
  outcome  (* outcome[c]: None, an element of Id, or "error"               *)

vars == <<slot, asked, outcome>>

Answer == Id \cup {Nil}

Init ==
  /\ slot = [c \in Call |-> None]
  /\ asked = {}
  /\ outcome = [c \in Call |-> None]

(* The library rejects the call before it asks the application.            *)
Refuse(c) ==
  /\ c \notin asked
  /\ outcome[c] = None
  /\ outcome' = [outcome EXCEPT ![c] = "error"]
  /\ UNCHANGED <<slot, asked>>

Ask(c) ==
  /\ c \notin asked
  /\ outcome[c] = None
  /\ asked' = asked \cup {c}
  /\ UNCHANGED <<slot, outcome>>

(* The slot is filled at most once, and never before the question.         *)
Fill(c, a) ==
  /\ c \in asked
  /\ slot[c] = None
  /\ slot' = [slot EXCEPT ![c] = a]
  /\ UNCHANGED <<asked, outcome>>

(* The call ends only once its slot is filled, with what the slot holds.   *)
Deliver(c) ==
  /\ c \in asked
  /\ slot[c] # None
  /\ outcome[c] = None
  /\ outcome' = [outcome EXCEPT ![c] = IF slot[c] \in Id THEN slot[c] ELSE "error"]
  /\ UNCHANGED <<slot, asked>>

Next ==
  \E c \in Call :
    \/ Refuse(c)
    \/ Ask(c)
    \/ \E a \in Answer \cup {"abandoned"} : Fill(c, a)
    \/ Deliver(c)

Spec == Init /\ [][Next]_vars
=============================================================================
