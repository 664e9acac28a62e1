---------------------------- MODULE LoggerHandler ----------------------------
(***************************************************************************)
(* Logger.setHandler and setDefaultHandler, against the threads that log.  *)
(*                                                                         *)
(* Swift's Logger wraps the application's handler in a HandlerHolder, kept *)
(* in a static variable.  LoggerWrapper keeps one LogHandlerAdapter in a   *)
(* static pointer; the adapter refers weakly to the holder, and the native *)
(* Logger to the adapter by a raw pointer.  A thread of libmediasoupclient *)
(* that logs reads that pointer and calls it.  Nothing here is locked.     *)
(***************************************************************************)
EXTENDS Naturals

CONSTANTS
  Caller,      (* threads of the application that set the handler          *)
  Logging,     (* threads that log                                         *)
  Holder,      (* the HandlerHolders, one made by each setHandler          *)
  NoHolder,    (* nil                                                      *)
  Duties,      (* duties of the application, a subset of AllDuties         *)
  MaxAdapters  (* bound on the adapters made                               *)

AllDuties ==
  {"OneCaller",    (* the two calls do not overlap                         *)
   "QuietDefault"} (* nothing is logged during setDefaultHandler           *)

ASSUME LoggerAssumption ==
  /\ NoHolder \notin Holder
  /\ Duties \subseteq AllDuties
  /\ MaxAdapters \in Nat

Adapter == 1..MaxAdapters

VARIABLES
  holder,    (* Logger.handlerHolder: a holder or NoHolder                 *)
  used,      (* the holders made so far                                    *)
  adapter,   (* _adapter of LoggerWrapper: an adapter, or 0 for nil        *)
  made,      (* how many adapters were made                                *)
  live,      (* the adapters not deleted                                   *)
  delegate,  (* delegate[a]: the holder the adapter refers to, weakly      *)
  handler,   (* Logger::handler: an adapter, or 0 for the default handler  *)
  call,      (* call[t]: the next step of a caller, with its holder        *)
  log,       (* log[t]: the message of a logging thread                    *)
  installed, (* history: the holder the last call to return left behind    *)
  span,      (* history: what was installed since the message was logged   *)
  ub         (* whether a deleted adapter was called                       *)

vars == <<holder, used, adapter, made, live, delegate, handler, call, log,
          installed, span, ub>>

Call ==
  [at : {"idle", "forgotten", "deleted"}, holder : {NoHolder}] \cup
  [at : {"held", "attached"}, holder : Holder]

Message ==
  [at : {"none"}, on : {0}] \cup [at : {"loaded"}, on : Adapter] \cup
  [at : {"handling"}, on : Holder]

(* A caller holds a new holder exactly in the middle of setHandler, and a  *)
(* message refers to an adapter until a holder handles it.                 *)
TypeOK ==
  /\ holder \in Holder \cup {NoHolder}
  /\ used \subseteq Holder
  /\ adapter \in Adapter \cup {0}
  /\ made \in 0..MaxAdapters
  /\ live \subseteq Adapter
  /\ delegate \in [Adapter -> Holder \cup {NoHolder}]
  /\ handler \in Adapter \cup {0}
  /\ call \in [Caller -> Call]
  /\ log \in [Logging -> Message]
  /\ installed \in Holder \cup {NoHolder}
  /\ span \in [Logging -> SUBSET (Holder \cup {NoHolder})]
  /\ ub \in BOOLEAN

Idle == [at |-> "idle", holder |-> NoHolder]
Silent == [at |-> "none", on |-> 0]

Init ==
  /\ holder = NoHolder /\ used = {}
  /\ adapter = 0 /\ made = 0 /\ live = {}
  /\ delegate = [a \in Adapter |-> NoHolder]
  /\ handler = 0
  /\ call = [t \in Caller |-> Idle]
  /\ log = [t \in Logging |-> Silent]
  /\ installed = NoHolder
  /\ span = [t \in Logging |-> {}]
  /\ ub = FALSE

(* A message is followed through what is installed from its start to its   *)
(* end; NoHolder stands for the default handler and for a change going on. *)
Follow(h) ==
  span' = [t \in Logging |-> IF log[t].at = "loaded" THEN span[t] \cup {h, NoHolder} ELSE span[t]]

Quiet == \A t \in Logging : log[t] = Silent
Switching == \E t \in Caller : call[t] # Idle
SettingDefault == \E t \in Caller : call[t].at \in {"forgotten", "deleted"}

MayCall(t) ==
  /\ ~ub
  /\ call[t] = Idle
  /\ "OneCaller" \in Duties => ~Switching

Become(t, at, h) == call' = [call EXCEPT ![t] = [at |-> at, holder |-> h]]
-----------------------------------------------------------------------------
(* setHandler: a new holder replaces the old one in the static variable,   *)
SetHandler(t, h) ==
  /\ MayCall(t)
  /\ h \notin used
  /\ holder' = h
  /\ used' = used \cup {h}
  /\ Become(t, "held", h)
  /\ Follow(h)
  /\ UNCHANGED <<adapter, made, live, delegate, handler, log, installed, ub>>

\* Mutant of Attach: an adapter that is there keeps its delegate.
AttachOnce(t) ==
  /\ ~ub
  /\ call[t].at = "held"
  /\ IF adapter = 0
     THEN /\ made < MaxAdapters
          /\ made' = made + 1
          /\ adapter' = made + 1
          /\ live' = live \cup {made + 1}
          /\ delegate' = [delegate EXCEPT ![adapter'] = call[t].holder]
     ELSE UNCHANGED <<made, adapter, live, delegate>>
  /\ Become(t, "attached", call[t].holder)
  /\ Follow(holder)
  /\ UNCHANGED <<holder, used, handler, log, installed, ub>>

(* the adapter, made by the first call, gets the holder as its delegate    *)
Attach(t) ==
  /\ ~ub
  /\ call[t].at = "held"
  /\ IF adapter = 0
     THEN /\ made < MaxAdapters
          /\ made' = made + 1
          /\ adapter' = made + 1
          /\ live' = live \cup {made + 1}
     ELSE UNCHANGED <<made, adapter, live>>
  /\ delegate' = [delegate EXCEPT ![adapter'] = call[t].holder]
  /\ Become(t, "attached", call[t].holder)
  /\ Follow(holder)
  /\ UNCHANGED <<holder, used, handler, log, installed, ub>>

(* and is registered with the native logger.                               *)
Register(t) ==
  /\ ~ub
  /\ call[t].at = "attached"
  /\ handler' = adapter
  /\ installed' = holder
  /\ Become(t, "idle", NoHolder)
  /\ Follow(holder)
  /\ UNCHANGED <<holder, used, adapter, made, live, delegate, log, ub>>

(* setDefaultHandler: the holder is let go,                                *)
SetDefaultHandler(t) ==
  /\ MayCall(t)
  /\ "QuietDefault" \in Duties => Quiet
  /\ holder' = NoHolder
  /\ Become(t, "forgotten", NoHolder)
  /\ Follow(NoHolder)
  /\ UNCHANGED <<used, adapter, made, live, delegate, handler, log, installed, ub>>

\* Mutant of DeleteAdapter: the static pointer is not reset.
DeleteAdapterKeepPointer(t) ==
  /\ ~ub
  /\ call[t].at = "forgotten"
  /\ live' = live \ {adapter}
  /\ Become(t, "deleted", NoHolder)
  /\ Follow(NoHolder)
  /\ UNCHANGED <<holder, used, adapter, made, delegate, handler, log, installed, ub>>

(* the adapter is deleted,                                                 *)
DeleteAdapter(t) ==
  /\ ~ub
  /\ call[t].at = "forgotten"
  /\ live' = live \ {adapter}
  /\ adapter' = 0
  /\ Become(t, "deleted", NoHolder)
  /\ Follow(NoHolder)
  /\ UNCHANGED <<holder, used, made, delegate, handler, log, installed, ub>>

(* and only then does the native logger forget it.                         *)
Unregister(t) ==
  /\ ~ub
  /\ call[t].at = "deleted"
  /\ handler' = 0
  /\ installed' = NoHolder
  /\ Become(t, "idle", NoHolder)
  /\ Follow(NoHolder)
  /\ UNCHANGED <<holder, used, adapter, made, live, delegate, log, ub>>
-----------------------------------------------------------------------------
(* A thread logs: it reads the pointer to the handler (the default handler *)
(* writes to the console, which is not followed further) ...               *)
Log(t) ==
  /\ ~ub
  /\ log[t] = Silent
  /\ "QuietDefault" \in Duties => ~SettingDefault
  /\ handler # 0
  /\ log' = [log EXCEPT ![t] = [at |-> "loaded", on |-> handler]]
  /\ span' = [span EXCEPT ![t] = {installed} \cup IF Switching THEN {holder, NoHolder} ELSE {}]
  /\ UNCHANGED <<holder, used, adapter, made, live, delegate, handler, call, installed, ub>>

(* A holder lives while the static variable, a setHandler in progress or a *)
(* message being handled refers to it; a weak reference then finds it.     *)
Alive(h) ==
  \/ h = holder
  \/ \E t \in Caller : call[t].holder = h
  \/ \E t \in Logging : log[t] = [at |-> "handling", on |-> h]

(* ... and calls it: OnLog loads the weak delegate; the message is dropped *)
(* if there is none.                                                       *)
OnLog(t) ==
  /\ ~ub
  /\ log[t].at = "loaded"
  /\ IF log[t].on \notin live
     THEN ub' = TRUE /\ UNCHANGED log
     ELSE LET h == delegate[log[t].on]
          IN /\ log' = [log EXCEPT ![t] = IF h # NoHolder /\ Alive(h)
                                          THEN [at |-> "handling", on |-> h] ELSE Silent]
             /\ UNCHANGED ub
  /\ UNCHANGED <<holder, used, adapter, made, live, delegate, handler, call, installed, span>>

(* The application's handler returns.                                      *)
OnLogReturns(t) ==
  /\ ~ub
  /\ log[t].at = "handling"
  /\ log' = [log EXCEPT ![t] = Silent]
  /\ UNCHANGED <<holder, used, adapter, made, live, delegate, handler, call, span, installed, ub>>

Next ==
  \/ \E t \in Caller :
       \/ \E h \in Holder : SetHandler(t, h)
       \/ Attach(t) \/ Register(t)
       \/ SetDefaultHandler(t) \/ DeleteAdapter(t) \/ Unregister(t)
  \/ \E t \in Logging : Log(t) \/ OnLog(t) \/ OnLogReturns(t)

Spec == Init /\ [][Next]_vars
-----------------------------------------------------------------------------
(* No thread calls a deleted adapter.                                      *)
MemorySafe == ~ub

(* Between calls, the native logger, the adapter and its delegate lead to  *)
(* the handler that was set last, and no other adapter is left behind.     *)
LeadsToHandler ==
  ~Switching =>
    /\ handler = adapter
    /\ live = {adapter} \ {0}
    /\ adapter = 0 => holder = NoHolder
    /\ adapter # 0 => delegate[adapter] = holder

(* A message never reaches a handler that had been replaced before the     *)
(* message was logged.                                                     *)
NoStaleDelivery ==
  \A t \in Logging : log[t].at = "handling" => log[t].on \in span[t]

(* A message logged while a handler was set, and handled without any call  *)
(* to the Logger in between, is not dropped.                               *)
NothingLost ==
  [][\A t \in Logging :
       log[t].at = "loaded" /\ log'[t] = Silent => NoHolder \in span[t]]_vars
=============================================================================
