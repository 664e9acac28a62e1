------------------------------ MODULE Transport ------------------------------
(***************************************************************************)
(* The life of a transport and of the producers or consumers made on it.   *)
(*                                                                         *)
(* A SendTransport (Swift) owns a SendTransportWrapper, a ReceiveTransport *)
(* a ReceiveTransportWrapper; the wrapper owns the native transport and    *)
(* its listener adapter.  A Producer, Consumer, DataProducer or            *)
(* DataConsumer, here a medium, owns its wrapper, the native object and an *)
(* adapter; the native transport keeps a raw pointer to every native       *)
(* medium, and every medium one to its transport.  Calls run on several    *)
(* threads and re-enter the transport from the application's callbacks, so *)
(* calls in progress are kept as stack frames.  Native code between two    *)
(* callbacks or waits runs as one step: the library has no locks and       *)
(* expects no overlap there.                                               *)
(*                                                                         *)
(* Freed memory is tracked by hand: a step that reaches it sets ub, as one *)
(* does whose C++ exception nothing catches, and nothing is specified      *)
(* after that.  Rule names the duties a run puts on the application; each  *)
(* is a guard of the action it restrains.                                  *)
(***************************************************************************)
EXTENDS Naturals

CONSTANTS
  Thread,      (* threads of the application and the signaling thread      *)
  Signal,      (* the WebRTC signaling thread                              *)
  Media,       (* producers or consumers: one attempt to make each         *)
  DataMedia,   (* the data producers or data consumers among them          *)
  NoMedia,     (* a frame that deals with no medium                        *)
  Rule,        (* duties of the application, a subset of AllRules          *)
  MaxLevel,    (* bound on the depth of re-entrant calls of a thread       *)
  MaxRestarts  (* bound on the calls of restartICE                         *)

AllRules ==
  {"CloseBeforeDrop",       (* a medium is closed before it is let go       *)
   "NoCloseWhileCreating",  (* no close() while a medium is being made      *)
   "NoCloseWhileClosing",   (* nor while one is being closed                *)
   "NoDisposeInCallback",   (* dispose() is not called from a callback      *)
   "NoDisposeWhileCalling", (* nor while another call is in progress        *)
   "NoWaitOnSignal",        (* no call that waits for a session description *)
                            (* on the signaling thread                      *)
   "ConnectAlone",          (* no second creation until the first has       *)
                            (* connected the transport                      *)
   "ReleaseSafely"}         (* the transport is let go after dispose(), or  *)
                            (* when no call or callback is in progress      *)

ASSUME ConstantsAssumption ==
  /\ Signal \in Thread
  /\ DataMedia \subseteq Media
  /\ NoMedia \notin Media
  /\ Rule \subseteq AllRules
  /\ MaxLevel \in Nat
  /\ MaxRestarts \in Nat

VARIABLES
  direction,   (* "send" or "receive": what kind of transport it is        *)
  handle,      (* _transport of the wrapper: "live" or "null"              *)
  native,      (* the native transport: "live" or "freed"                  *)
  adapter,     (* the transport's listener adapter: "live" or "freed"      *)
  heard,       (* whether the adapter's delegate is set                    *)
  closed,      (* closed of the native transport                           *)
  pcOpen,      (* whether the peer connection may still call back          *)
  connected,   (* transportReady of the native handler                     *)
  section,     (* hasDataChannelMediaSection of the native handler         *)
  owned,       (* whether the application refers to the transport          *)
  calls,       (* frames of the calls and callbacks in progress            *)
  memory,      (* memory[p]: the native medium: "none", "failed" (nothing  *)
               (* was made), "live" or "freed"                             *)
  registered,  (* media in the transport's map                             *)
  late,        (* media put in the map after the loop of Close had begun   *)
  seen,        (* media visited by the loop of Close                       *)
  shut,        (* media whose closed is set                                *)
  held,        (* media the application refers to                          *)
  notices,     (* notices[p]: onTransportClose calls to the medium         *)
  connects,    (* history: how often onConnect was called                  *)
  restarts,    (* history: how often restartICE was called                 *)
  ub           (* what went wrong, or "none"                               *)

wrapperVars == <<handle, native, adapter, heard, closed, pcOpen, owned>>
connectVars == <<direction, connected, section, connects, restarts>>
transportVars == <<wrapperVars, connectVars>>
mediaVars == <<memory, registered, late, seen, shut, held, notices>>
vars == <<transportVars, calls, mediaVars, ub>>

Frame ==
  [thread : Thread, level : 1..(MaxLevel + 1),
   op : {"create", "restart", "shut", "close", "dispose", "state"},
   at : {"negotiating", "connecting", "describing", "asking", "waiting",
         "closing", "notify", "callback", "delete", "adapter", "loaded",
         "unwinding"},
   on : Media \cup {NoMedia}]

(* A thread has one frame at each level, and a medium is told of the       *)
(* closing of the transport at most once; the rest is as declared above.   *)
TypeOK ==
  /\ direction \in {"send", "receive"}
  /\ handle \in {"live", "null"}
  /\ native \in {"live", "freed"}
  /\ adapter \in {"live", "freed"}
  /\ heard \in BOOLEAN /\ closed \in BOOLEAN
  /\ pcOpen \in BOOLEAN /\ owned \in BOOLEAN
  /\ connected \in BOOLEAN /\ section \in BOOLEAN
  /\ calls \subseteq Frame
  /\ \A f, g \in calls : f.thread = g.thread /\ f.level = g.level => f = g
  /\ memory \in [Media -> {"none", "failed", "live", "freed"}]
  /\ registered \subseteq Media /\ late \subseteq Media
  /\ seen \subseteq Media /\ shut \subseteq Media /\ held \subseteq Media
  /\ notices \in [Media -> 0..1]
  /\ connects \in Nat /\ restarts \in 0..MaxRestarts
  /\ ub \in {"none", "freedMedium", "freedTransport", "freedAdapter", "transportInUse",
             "escaped"}

Init ==
  /\ direction \in {"send", "receive"}
  /\ connected = FALSE /\ section = FALSE /\ connects = 0 /\ restarts = 0
  /\ handle = "live" /\ native = "live" /\ adapter = "live"
  /\ heard = TRUE /\ closed = FALSE /\ pcOpen = TRUE /\ owned = TRUE
  /\ calls = {}
  /\ memory = [p \in Media |-> "none"]
  /\ registered = {} /\ late = {} /\ seen = {} /\ shut = {} /\ held = {}
  /\ notices = [p \in Media |-> 0]
  /\ ub = "none"
-----------------------------------------------------------------------------
Frames(t) == {f \in calls : f.thread = t}

Top(f) ==
  /\ ub = "none"
  /\ f \in calls
  /\ \A g \in Frames(f.thread) : g.level <= f.level

Level(t) ==
  IF Frames(t) = {} THEN 0
  ELSE (CHOOSE f \in Frames(t) : Top(f)).level

InCallback(f) == f.at \in {"connecting", "asking", "callback"}

(* The application's code runs on a thread of its own, or in a callback.   *)
CanCall(t) ==
  /\ ub = "none"
  /\ Level(t) < MaxLevel
  /\ IF Frames(t) = {} THEN t # Signal ELSE \E f \in Frames(t) : Top(f) /\ InCallback(f)

Disposing == \E f \in calls : f.op = "dispose"
Creating == \E f \in calls : f.op = "create"
Shutting == \E f \in calls : f.op = "shut"
Closing == \E f \in calls : f.at \in {"closing", "notify"} \/ (f.op # "state" /\ f.at = "callback")
SignalIdle == Frames(Signal) = {}

(* An answer of the signaling thread reaches the call that waits for it:   *)
(* never, if that call blocks this very thread.                            *)
Answered(f) == f.thread # Signal /\ SignalIdle

(* A method of the transport may be called: the caller has a reference,    *)
(* and dispose() has not been called (it "must be terminate call").        *)
Usable(t) ==
  /\ CanCall(t)
  /\ owned \/ Frames(t) # {}
  /\ handle = "live"
  /\ ~Disposing

NewFrame(t, op, at, p) ==
  [thread |-> t, level |-> Level(t) + 1, op |-> op, at |-> at, on |-> p]

Step(f, at, p) == calls' = (calls \ {f}) \cup {[f EXCEPT !.at = at, !.on = p]}

\* Mutant of BeginDispose: the adapter keeps its delegate.
BeginDisposeHeard(rest, frame) ==
  /\ closed' = TRUE
  /\ calls' = rest \cup {[frame EXCEPT !.at = IF closed THEN "delete" ELSE "closing"]}
  /\ UNCHANGED <<handle, native, adapter, heard, pcOpen>>

\* Mutant of BeginDispose: the transport is deleted without Close.
BeginDisposeUnclosed(rest, frame) ==
  /\ heard' = FALSE
  /\ closed' = TRUE
  /\ calls' = rest \cup {[frame EXCEPT !.at = "delete"]}
  /\ UNCHANGED <<handle, native, adapter, pcOpen>>

(* dispose and the dealloc that runs it: forget the delegate, then Close.  *)
BeginDispose(rest, frame) ==
  /\ heard' = FALSE
  /\ closed' = TRUE
  /\ calls' = rest \cup {[frame EXCEPT !.at = IF closed THEN "delete" ELSE "closing"]}
  /\ UNCHANGED <<handle, native, adapter, pcOpen>>

(* Calls of the transport and its callbacks retain its wrapper; the close  *)
(* of a medium does not.                                                   *)
Retained(frames) == owned \/ \E f \in frames : f.op # "shut"

(* The call of frame f returns.  If nobody refers to the wrapper any more, *)
(* its dealloc disposes of the transport.                                  *)
Leave(f) ==
  IF handle = "live" /\ f.op # "shut" /\ ~Retained(calls \ {f})
  THEN /\ BeginDispose(calls \ {f}, [f EXCEPT !.op = "dispose", !.on = NoMedia])
       /\ UNCHANGED owned
  ELSE /\ calls' = calls \ {f}
       /\ UNCHANGED wrapperVars

(* A frame that calls a medium, or is called by it, retains its wrapper.   *)
Pinned(p, frames) == \E f \in frames : (f.at = "callback" \/ f.op = "shut") /\ f.on = p

(* The memory of the media once frame f no longer retains the one it is on.*)
Unpin(f) ==
  IF f.on \in held \/ Pinned(f.on, calls \ {f}) THEN memory
  ELSE [memory EXCEPT ![f.on] = "freed"]
-----------------------------------------------------------------------------
(* A call that makes a medium, or renegotiates, waits for the signaling    *)
(* thread to answer it.                                                    *)
BeginWaiting(t, op, p) ==
  /\ Usable(t)
  /\ "NoWaitOnSignal" \in Rule => t # Signal
  /\ calls' = calls \cup {NewFrame(t, op, "negotiating", p)}
  /\ UNCHANGED <<wrapperVars, mediaVars, ub>>

\* Mutant of Creatable: Produce and Consume do not look at closed.
CreatableClosed(p) ==
  /\ "ConnectAlone" \in Rule => connected \/ ~Creating
  /\ memory[p] = "none"
  /\ \A f \in calls : f.on # p

(* Produce, Consume and ConsumeData throw on a closed transport, and so    *)
(* does ProduceData, whose channel the closed peer connection refuses.     *)
Creatable(p) ==
  /\ ~closed
  /\ "ConnectAlone" \in Rule => connected \/ ~Creating
  /\ memory[p] = "none"
  /\ \A f \in calls : f.on # p

CreateProducer(t, p) ==
  /\ direction = "send" /\ Creatable(p)
  /\ BeginWaiting(t, "create", p)
  /\ UNCHANGED connectVars

CreateConsumer(t, p) ==
  /\ direction = "receive" /\ Creatable(p)
  /\ BeginWaiting(t, "create", p)
  /\ UNCHANGED connectVars

(* restartICE renegotiates only a transport that is connected.             *)
RestartICE(t) ==
  /\ ~closed /\ connected
  /\ restarts < MaxRestarts
  /\ restarts' = restarts + 1
  /\ BeginWaiting(t, "restart", NoMedia)
  /\ UNCHANGED <<direction, connected, section, connects>>

RestartReturns(f) ==
  /\ Top(f) /\ f.op = "restart"
  /\ Answered(f)
  /\ Leave(f)
  /\ UNCHANGED <<connectVars, mediaVars, ub>>

(* The first medium connects the transport: with the first description in  *)
(* hand, the handler calls OnConnect of the transport, which throws if the *)
(* transport is closed, and else the application's onConnect ...           *)
Negotiated(f) ==
  /\ Top(f) /\ f.op = "create" /\ f.at = "negotiating"
  /\ Answered(f) /\ pcOpen
  /\ IF connected THEN Step(f, "describing", f.on) /\ UNCHANGED connects
     ELSE ~closed /\ Step(f, "connecting", f.on) /\ connects' = connects + 1
  /\ UNCHANGED <<wrapperVars, direction, connected, section, restarts, mediaVars, ub>>

\* Mutant of OnConnectReturns: the handler does not note that it is ready.
OnConnectReturnsUnready(f) ==
  /\ Top(f) /\ f.at = "connecting"
  /\ Step(f, "describing", f.on)
  /\ UNCHANGED <<wrapperVars, connectVars, mediaVars, ub>>

(* ... whose promise is kept when the application returns, without waiting *)
(* for anything it may have started.                                       *)
OnConnectReturns(f) ==
  /\ Top(f) /\ f.at = "connecting"
  /\ connected' = TRUE
  /\ Step(f, "describing", f.on)
  /\ UNCHANGED <<wrapperVars, direction, section, connects, restarts, mediaVars, ub>>

(* The descriptions are set, for the first data channel as for any         *)
(* producer or consumer; a later channel needs none.  A send transport     *)
(* then asks the application for the producer's id (module                 *)
(* ProduceHandshake has the details).                                      *)
Described(f) ==
  /\ Top(f) /\ f.at = "describing"
  /\ \/ Answered(f) /\ pcOpen
     \/ section /\ f.on \in DataMedia
  /\ section' = (section \/ f.on \in DataMedia)
  /\ Step(f, IF direction = "send" THEN "asking" ELSE "waiting", f.on)
  /\ UNCHANGED <<wrapperVars, direction, connected, connects, restarts, mediaVars, ub>>

OnProduceReturns(f) ==
  /\ Top(f) /\ f.at = "asking"
  /\ Step(f, "waiting", f.on)
  /\ UNCHANGED <<transportVars, mediaVars, ub>>

(* The native medium is made and entered in the map, without a second look *)
(* at closed, and the wrapper is handed to the application.                *)
Created(f) ==
  /\ Top(f) /\ f.at = "waiting"
  /\ memory' = [memory EXCEPT ![f.on] = "live"]
  /\ registered' = registered \cup {f.on}
  /\ late' = IF pcOpen THEN late ELSE late \cup {f.on}
  /\ held' = held \cup {f.on}
  /\ Leave(f)
  /\ UNCHANGED <<connectVars, seen, shut, notices, ub>>

(* The call throws: WebRTC refuses a channel or a description, as it does  *)
(* for every one once the peer connection is closed, OnConnect finds the   *)
(* transport closed, or the application refuses and the sender, if it is   *)
(* no data producer, is stopped, which renegotiates once more.             *)
NotCreated(f) ==
  /\ Top(f)
  /\ f.op = "create" /\ f.at \in {"negotiating", "describing", "waiting"}
  /\ f.at = "waiting" => direction = "send"
  /\ Answered(f) \/ (f.at = "waiting" /\ f.on \in DataMedia)
  /\ memory' = [memory EXCEPT ![f.on] = "failed"]
  /\ Leave(f)
  /\ UNCHANGED <<connectVars, registered, late, seen, shut, held, notices, ub>>
-----------------------------------------------------------------------------
(* close: sets closed first; a second Close returns at once.               *)
Close(t) ==
  /\ Usable(t)
  /\ "NoCloseWhileCreating" \in Rule => ~Creating
  /\ "NoCloseWhileClosing" \in Rule => ~Shutting
  /\ ~closed
  /\ closed' = TRUE
  /\ calls' = calls \cup {NewFrame(t, "close", "closing", NoMedia)}
  /\ UNCHANGED <<handle, native, adapter, heard, pcOpen, owned, connectVars, mediaVars, ub>>

Dispose(t) ==
  /\ Usable(t)
  /\ "NoDisposeInCallback" \in Rule => Frames(t) = {}
  /\ "NoDisposeWhileCalling" \in Rule => \A f \in calls : f.op = "state"
  /\ BeginDispose(calls, NewFrame(t, "dispose", "closing", NoMedia))
  /\ UNCHANGED <<owned, connectVars, mediaVars, ub>>

(* Handler::Close closes the peer connection, which runs on the signaling  *)
(* thread: the caller waits for a callback in progress there.              *)
PcClosed(f) ==
  /\ Top(f) /\ f.at = "closing"
  /\ f.thread = Signal \/ SignalIdle
  /\ pcOpen' = FALSE
  /\ Step(f, "notify", NoMedia)
  /\ UNCHANGED <<handle, native, adapter, heard, closed, owned, connectVars, mediaVars, ub>>

\* Mutant of TransportClosed: every callback restarts the loop, unguarded.
TransportClosedAgain(f, p) ==
  /\ Top(f) /\ f.at = "notify"
  /\ p \in registered
  /\ memory[p] # "freed"
  /\ seen' = seen \cup {p}
  /\ shut' = shut \cup {p}
  /\ notices' = [notices EXCEPT ![p] = @ + 1]
  /\ Step(f, "callback", p)
  /\ UNCHANGED <<transportVars, memory, registered, late, held, ub>>

(* The loop of Close over the maps: TransportClosed on the next medium,    *)
(* which returns if it is closed already, and else calls its listener; a   *)
(* data channel is closed on the signaling thread before that.             *)
TransportClosed(f, p) ==
  /\ Top(f) /\ f.at = "notify"
  /\ p \in registered \ seen
  /\ p \in DataMedia \ shut => f.thread = Signal \/ SignalIdle
  /\ IF memory[p] = "freed"
     THEN /\ ub' = "freedMedium"
          /\ UNCHANGED <<transportVars, calls, mediaVars>>
     ELSE /\ seen' = seen \cup {p}
          /\ IF p \in shut
             THEN UNCHANGED <<calls, shut, notices>>
             ELSE /\ shut' = shut \cup {p}
                  /\ notices' = [notices EXCEPT ![p] = @ + 1]
                  /\ Step(f, "callback", p)
          /\ UNCHANGED <<transportVars, memory, registered, late, held, ub>>

\* Mutant of OnTransportCloseReturns: the callback is passed to the signaling
\* thread, and the closing thread waits for it there.
OnTransportCloseReturnsSignal(f) ==
  /\ SignalIdle
  /\ Top(f) /\ f.op # "state" /\ f.at = "callback"
  /\ Step(f, "notify", NoMedia)
  /\ memory' = Unpin(f)
  /\ UNCHANGED <<transportVars, registered, late, seen, shut, held, notices, ub>>

(* onTransportClose returns; the medium is deallocated if the callback     *)
(* was the last to refer to it.                                            *)
OnTransportCloseReturns(f) ==
  /\ Top(f) /\ f.op # "state" /\ f.at = "callback"
  /\ Step(f, "notify", NoMedia)
  /\ memory' = Unpin(f)
  /\ UNCHANGED <<transportVars, registered, late, seen, shut, held, notices, ub>>

(* The loop is over: it has visited every entry that was in the map when   *)
(* it began (an entry inserted meanwhile may be visited or not).           *)
CloseEnds(f) ==
  /\ Top(f) /\ f.at = "notify"
  /\ registered \ late \subseteq seen
  /\ \/ /\ f.op = "close"
        /\ Leave(f)
     \/ /\ f.op = "dispose"
        /\ Step(f, "delete", NoMedia)
        /\ UNCHANGED wrapperVars
  /\ UNCHANGED <<connectVars, mediaVars, ub>>

\* Mutant of DeleteTransport: nobody waits for the signaling thread.
DeleteTransportAtOnce(f) ==
  /\ Top(f) /\ f.at = "delete"
  /\ native' = "freed" /\ handle' = "null"
  /\ Step(f, "adapter", NoMedia)
  /\ ub' = IF calls = {f} THEN ub ELSE "transportInUse"
  /\ UNCHANGED <<adapter, heard, closed, pcOpen, owned, connectVars, mediaVars>>

(* delete _transport: the peer connection is destroyed on the signaling    *)
(* thread, so the caller waits for it again; a call still inside the       *)
(* native transport returns into freed memory.                             *)
DeleteTransport(f) ==
  /\ Top(f) /\ f.at = "delete"
  /\ f.thread = Signal \/ SignalIdle
  /\ native' = "freed" /\ handle' = "null"
  /\ Step(f, "adapter", NoMedia)
  /\ ub' = IF calls = {f} THEN ub ELSE "transportInUse"
  /\ UNCHANGED <<adapter, heard, closed, pcOpen, owned, connectVars, mediaVars>>

DeleteAdapter(f) ==
  /\ Top(f) /\ f.at = "adapter"
  /\ adapter' = "freed"
  /\ calls' = calls \ {f}
  /\ UNCHANGED <<handle, native, heard, closed, pcOpen, owned, connectVars, mediaVars, ub>>
-----------------------------------------------------------------------------
(* The peer connection reports a state on the signaling thread: the        *)
(* adapter loads (and so retains) its delegate, if it still has one ...    *)
StateChange ==
  /\ ub = "none"
  /\ SignalIdle
  /\ pcOpen
  /\ IF adapter = "freed"
     THEN ub' = "freedAdapter" /\ UNCHANGED calls
     ELSE /\ heard
          /\ calls' = calls \cup {NewFrame(Signal, "state", "loaded", NoMedia)}
          /\ UNCHANGED ub
  /\ UNCHANGED <<transportVars, mediaVars>>

(* ... and the wrapper passes it on if its adapter is still this one.      *)
OnConnectionStateChange(f) ==
  /\ Top(f) /\ f.at = "loaded"
  /\ adapter = "live"
  /\ Step(f, "callback", NoMedia)
  /\ UNCHANGED <<transportVars, mediaVars, ub>>

(* The callback returns.  If it held the last reference to the wrapper,    *)
(* dealloc disposes of the transport here, inside the callback.            *)
StateReturns(f) ==
  /\ Top(f) /\ f.op = "state" /\ f.at = "callback"
  /\ IF handle = "live" /\ ~Retained(calls \ {f})
     THEN BeginDispose((calls \ {f}) \cup {[f EXCEPT !.at = "unwinding"]},
                       NewFrame(f.thread, "dispose", "closing", NoMedia))
     ELSE /\ calls' = calls \ {f}
          /\ UNCHANGED <<handle, native, adapter, heard, closed, pcOpen>>
  /\ UNCHANGED <<owned, connectVars, mediaVars, ub>>

\* Mutant of Release: dealloc does not dispose of the native transport.
ReleaseLeaks(t) ==
  /\ CanCall(t)
  /\ owned
  /\ "ReleaseSafely" \in Rule => handle = "null" \/ calls = {}
  /\ owned' = FALSE
  /\ UNCHANGED <<handle, native, adapter, heard, closed, pcOpen, calls>>
  /\ UNCHANGED <<connectVars, mediaVars, ub>>

(* The application's last reference to the transport goes: dealloc         *)
(* runs dispose at once, unless a call or a callback retains the wrapper.  *)
Release(t) ==
  /\ CanCall(t)
  /\ owned
  /\ "ReleaseSafely" \in Rule => handle = "null" \/ calls = {}
  /\ owned' = FALSE
  /\ IF handle = "live" /\ \A f \in calls : f.op = "shut"
     THEN BeginDispose(calls, NewFrame(t, "dispose", "closing", NoMedia))
     ELSE UNCHANGED <<handle, native, adapter, heard, closed, pcOpen, calls>>
  /\ UNCHANGED <<connectVars, mediaVars, ub>>
-----------------------------------------------------------------------------
(* close of a medium: it leaves the transport's map through its raw        *)
(* pointer, and while the transport is open its handler stops the sender   *)
(* or receiver, which waits for the signaling thread.  A data channel is   *)
(* closed on that thread, whether the transport is open or not, and no     *)
(* handler is called.                                                      *)
CloseMedium(t, p) ==
  /\ CanCall(t)
  /\ p \in held \ shut
  /\ "NoWaitOnSignal" \in Rule => t # Signal \/ closed \/ p \in DataMedia
  /\ closed /\ p \in DataMedia => t = Signal \/ SignalIdle
  /\ IF native = "freed"
     THEN /\ ub' = "freedTransport"
          /\ UNCHANGED <<registered, shut, calls>>
     ELSE /\ shut' = shut \cup {p}
          /\ registered' = registered \ {p}
          /\ calls' = IF closed THEN calls
                      ELSE calls \cup {NewFrame(t, "shut", "negotiating", p)}
          /\ UNCHANGED ub
  /\ UNCHANGED <<transportVars, memory, late, seen, held, notices>>

(* close has no try block: the exception of a renegotiation on a closed    *)
(* peer connection leaves it.                                              *)
CloseMediumReturns(f) ==
  /\ Top(f) /\ f.op = "shut"
  /\ Answered(f) \/ (f.thread = Signal /\ f.on \in DataMedia)
  /\ IF pcOpen \/ f.on \in DataMedia
     THEN calls' = calls \ {f} /\ memory' = Unpin(f) /\ UNCHANGED ub
     ELSE ub' = "escaped" /\ UNCHANGED <<calls, memory>>
  /\ UNCHANGED <<transportVars, registered, late, seen, shut, held, notices>>

(* The last reference to a medium goes: dealloc deletes the native object, *)
(* closed or not, and does not take it out of the map.                     *)
DropMedium(t, p) ==
  /\ CanCall(t)
  /\ p \in held
  /\ "CloseBeforeDrop" \in Rule => p \in shut
  /\ held' = held \ {p}
  /\ memory' = IF Pinned(p, calls) THEN memory ELSE [memory EXCEPT ![p] = "freed"]
  /\ UNCHANGED <<transportVars, calls, registered, late, seen, shut, notices, ub>>

(* Steps of a call or callback in progress.                                *)
FrameStep(f) ==
  \/ Negotiated(f) \/ OnConnectReturns(f) \/ Described(f)
  \/ OnProduceReturns(f) \/ Created(f) \/ NotCreated(f) \/ RestartReturns(f)
  \/ PcClosed(f) \/ OnTransportCloseReturns(f) \/ CloseEnds(f)
  \/ \E p \in Media : TransportClosed(f, p)
  \/ DeleteTransport(f) \/ DeleteAdapter(f) \/ CloseMediumReturns(f)
  \/ OnConnectionStateChange(f) \/ StateReturns(f)

Next ==
  \/ \E t \in Thread :
       \/ Close(t) \/ Dispose(t) \/ Release(t) \/ RestartICE(t)
       \/ \E p \in Media : CreateProducer(t, p) \/ CreateConsumer(t, p)
       \/ \E p \in Media : CloseMedium(t, p) \/ DropMedium(t, p)
  \/ \E f \in calls : FrameStep(f)
  \/ StateChange

Spec == Init /\ [][Next]_vars

(* Threads run, handlers return and questions are answered in the end      *)
(* (ProduceHandshake!CallReturns).  A call that waits for the signaling    *)
(* thread is a task in its FIFO queue: new reports cannot overtake it for  *)
(* ever, hence the strong fairness.  No call has to be made.               *)
ThreadStep(t) == \E f \in Frames(t) : FrameStep(f)

WaitsForSignal(f) ==
  \/ Negotiated(f) \/ Described(f) \/ NotCreated(f) \/ RestartReturns(f)
  \/ PcClosed(f) \/ DeleteTransport(f) \/ CloseMediumReturns(f)
  \/ \E p \in DataMedia : TransportClosed(f, p)

Fairness ==
  \A t \in Thread :
    /\ WF_vars(ThreadStep(t))
    /\ SF_vars(\E f \in Frames(t) : WaitsForSignal(f))

FairSpec == Spec /\ Fairness
-----------------------------------------------------------------------------
(* No step reads or deletes a native object that is freed, and the native  *)
(* transport is never deleted under a call or callback that is inside it.  *)
(* ("All unsafe operations are hidden inside wrapper.")  Nor does a C++    *)
(* exception escape.                                                       *)
MemorySafe == ub = "none"

(* No C++ exception leaves the wrappers.  ("Each throwing C++ function is  *)
(* properly wrapped and throws a catchable Swift.Error.")                  *)
NothingEscapes == ub # "escaped"

(* Once Close has finished, no medium of the transport is left open.       *)
ClosedWithTransport ==
  closed /\ ~Closing =>
    \A p \in Media : memory[p] = "live" => p \in shut

(* A data producer is closed with its transport.  ("Executed when the      *)
(* transport this producer belongs to is closed for whatever reason. ...   *)
(* The producer itself is also closed.")                                   *)
DataProducersClosed ==
  direction = "send" /\ closed /\ ~Closing =>
    \A p \in DataMedia : memory[p] = "live" => p \in shut

(* Once Close has finished, the media that were told of it by              *)
(* onTransportClose, once each, are exactly those still in the map: the    *)
(* ones the application had not closed itself, before or meanwhile.        *)
ToldExactlyOnce ==
  closed /\ ~Closing =>
    \A p \in Media : notices[p] = 1 <=> p \in registered

(* dispose cuts the application off: no state callback starts once it has  *)
(* begun, on any thread (one that has loaded its delegate may finish).     *)
SilentOnceDisposing ==
  [][\A f \in calls' \ calls :
       f.at = "loaded" => ~Disposing /\ handle = "live"]_vars

(* onConnect is called once in the life of a transport, however many media *)
(* are made or refused on it.                                              *)
ConnectsOnce == connects <= 1

(* Every call returns, shutting down and the calls that callbacks make     *)
(* included: no thread waits for itself or in a circle.                    *)
CallsReturn ==
  \A t \in Thread : Frames(t) # {} ~> Frames(t) = {}

(* A transport that is let go is freed with its adapter: nothing leaks.    *)
ReleaseFrees == ~owned ~> adapter = "freed"

Contract == INSTANCE TransportContract WITH
  phase <- IF native = "freed" THEN "destroyed"
           ELSE IF ~closed THEN "open"
           ELSE IF Closing THEN "closing" ELSE "closed",
  state <- [p \in Media |->
              IF memory[p] \in {"none", "failed"} THEN "none"
              ELSE IF memory[p] = "freed" THEN "gone"
              ELSE IF p \in shut THEN "closed" ELSE "open"]

(* The transport keeps the contract: media are made while it is open,      *)
(* they are all closed when Close is done, and destruction comes after.    *)
ImplementsContract == Contract!Spec
=============================================================================
