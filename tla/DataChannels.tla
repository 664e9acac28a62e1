---------------------------- MODULE DataChannels ----------------------------
(***************************************************************************)
(* The data producers and data consumers of one transport.                 *)
(*                                                                         *)
(* A DataProducer or DataConsumer (Swift) owns a wrapper, which owns the   *)
(* native object and its listener adapter.  The native object observes a   *)
(* WebRTC data channel: what happens to the channel on the network is      *)
(* posted to the signaling thread, a FIFO queue, and passed from there to  *)
(* the native object, the adapter, the wrapper and the application, each   *)
(* delegate on the way a weak reference.  The application closes an object *)
(* or lets it go on a thread of its own or inside a callback; its          *)
(* transport closes it in the loop of Close, on the thread that called it. *)
(*                                                                         *)
(* Creation is atomic here: module ProduceHandshake has the question that  *)
(* a data producer asks first.                                             *)
(***************************************************************************)
EXTENDS Naturals, Sequences, FiniteSets

CONSTANTS
  Producer,    (* the data producers that may be made                      *)
  Consumer,    (* the data consumers that may be made                      *)
  None,        (* no object                                                *)
  Duties,      (* duties of the application, a subset of {"AwaitClose"}:   *)
               (* an object is let go only when it is closed and onClose   *)
               (* has been called                                          *)
  MaxMessages  (* bound on the messages of an object, either way           *)

Object == Producer \cup Consumer

ASSUME ChannelsAssumption ==
  /\ Producer \cap Consumer = {}
  /\ None \notin Object
  /\ Duties \subseteq {"AwaitClose"}
  /\ MaxMessages \in Nat

VARIABLES
  transport,  (* the transport: "open", "closing" or "closed"              *)
  closer,     (* the thread in its Close: "none", "app" or "signal"        *)
  telling,    (* the object whose onTransportClose runs, or None           *)
  seen,       (* objects visited by the loop of Close                      *)
  memory,     (* memory[d]: the native object: "none", "live" or "freed"   *)
  held,       (* objects the application refers to                         *)
  listening,  (* objects on which it has set its delegate                  *)
  shut,       (* objects whose closed is set                               *)
  registered, (* objects in the transport's maps                           *)
  channel,    (* channel[d]: the state of the data channel on the network  *)
  posted,     (* the queue of the signaling thread                         *)
  running,    (* the object whose event callback runs there, or None       *)
  given,      (* given[d]: messages passed to DataProducer.send            *)
  sent,       (* sent[d]: messages passed on to the data channel           *)
  due,        (* history: events posted since the delegate was set, and    *)
              (* those it then found in the queue                          *)
  heard,      (* history: events the application was called for            *)
  ub          (* whether a freed object was reached                        *)

networkVars == <<channel, posted, due>>
nativeVars == <<memory, held, shut, registered>>
closeVars == <<transport, closer, telling, seen>>
sendVars == <<given, sent>>
vars == <<networkVars, nativeVars, closeVars, sendVars, listening, running, heard, ub>>

\* Mutant of Reported: the listeners of both kinds hear of everything.
ReportedAlike(d) == {"open", "message", "closing", "closed"}

\* Mutant of Reported: the adapters do not pass OnClose on.
ReportedNoClose(d) ==
  IF d \in Producer THEN {"open"} ELSE {"open", "message", "closing"}

(* The listener of a data producer has no onConnecting and no onClosing,   *)
(* and no channel reports its first state.  onBufferedAmountChange is left *)
(* out: nothing is ever buffered (see Send).                               *)
Reported(d) ==
  IF d \in Producer THEN {"open", "closed"} ELSE {"open", "message", "closing", "closed"}

(* The listener of a data producer has no method for messages and closing, *)
(* so no such event is posted for one; all else is as declared above.      *)
TypeOK ==
  /\ transport \in {"open", "closing", "closed"}
  /\ closer \in {"none", "app", "signal"}
  /\ telling \in Object \cup {None} /\ running \in Object \cup {None}
  /\ memory \in [Object -> {"none", "live", "freed"}]
  /\ seen \subseteq Object /\ held \subseteq Object /\ listening \subseteq Object
  /\ shut \subseteq Object /\ registered \subseteq Object
  /\ channel \in [Object -> {"none", "connecting", "open", "closing", "closed"}]
  /\ posted \in Seq([on : Producer, event : {"open", "closed"}]
                    \cup [on : Consumer, event : {"open", "message", "closing", "closed"}])
  /\ given \in [Object -> 0..MaxMessages] /\ sent \in [Object -> 0..MaxMessages]
  /\ ub \in BOOLEAN

Init ==
  /\ transport = "open" /\ closer = "none" /\ telling = None /\ seen = {}
  /\ memory = [d \in Object |-> "none"]
  /\ held = {} /\ listening = {} /\ shut = {} /\ registered = {}
  /\ channel = [d \in Object |-> "none"]
  /\ posted = <<>> /\ running = None
  /\ given = [d \in Object |-> 0] /\ sent = [d \in Object |-> 0]
  /\ due = [d \in Object |-> <<>>] /\ heard = [d \in Object |-> <<>>]
  /\ ub = FALSE
-----------------------------------------------------------------------------
(* Application code runs on its thread, unless that is inside Close and    *)
(* not in a callback, and on the signaling thread in a callback.           *)
CanCall(t) ==
  /\ ~ub
  /\ t = "signal" => running # None
  /\ closer = t => telling # None

(* The application's reference, or a callback in progress, keeps the Swift  *)
(* object and its wrapper.                                                 *)
Retained(d) == d \in held \cup {running, telling}

(* The elements of a queue at the given positions, in order.               *)
Picked(queue, positions) ==
  [k \in 1..Cardinality(positions) |->
     queue[CHOOSE i \in positions : Cardinality({j \in positions : j <= i}) = k]]

TasksOn(d, queue) == {i \in DOMAIN queue : queue[i].on = d}

EventsOf(d, queue) ==
  Picked([i \in DOMAIN queue |-> queue[i].event], TasksOn(d, queue))

(* The channel goes to a state, and its observer will hear of an event.    *)
Report(d, state, event) ==
  /\ channel' = [channel EXCEPT ![d] = state]
  /\ IF event \in Reported(d)
     THEN /\ posted' = Append(posted, [on |-> d, event |-> event])
          /\ due' = IF d \in listening THEN [due EXCEPT ![d] = Append(@, event)] ELSE due
     ELSE UNCHANGED <<posted, due>>

(* DataChannelInterface::Close.                                            *)
CloseChannel(d) ==
  IF channel[d] \in {"connecting", "open"}
  THEN Report(d, "closing", "closing")
  ELSE UNCHANGED networkVars

(* The wrapper's dealloc deletes the native object.  Deleting it lets its  *)
(* channel go, which waits for the signaling thread: what is queued there  *)
(* finds the delegate gone.  On that thread itself nothing is waited for,  *)
(* and the queue only forgets a channel that is closed.                    *)
Dealloc(t, d) ==
  /\ t = "app" => running = None
  /\ memory' = [memory EXCEPT ![d] = "freed"]
  /\ posted' = IF t = "app" \/ channel[d] = "closed"
               THEN Picked(posted, DOMAIN posted \ TasksOn(d, posted)) ELSE posted
  /\ UNCHANGED <<channel, due>>

(* The channel opens at once or later; an event before the native object   *)
(* observes it is lost.                                                    *)
Create(d, state) ==
  /\ CanCall("app")
  /\ transport = "open"
  /\ memory[d] = "none"
  /\ memory' = [memory EXCEPT ![d] = "live"]
  /\ held' = held \cup {d}
  /\ registered' = registered \cup {d}
  /\ channel' = [channel EXCEPT ![d] = state]
  /\ UNCHANGED <<shut, posted, due, closeVars, sendVars, listening, running, heard, ub>>

(* The application sets its delegate on the object it was given.           *)
Listen(d) ==
  /\ CanCall("app")
  /\ d \in held \ listening
  /\ listening' = listening \cup {d}
  /\ due' = [due EXCEPT ![d] = EventsOf(d, posted)]
  /\ UNCHANGED <<channel, posted, nativeVars, closeVars, sendVars, running, heard, ub>>
-----------------------------------------------------------------------------
(* The network: the channel opens, carries a message, is closed by the     *)
(* other side or with the transport, and is closed for good.               *)
Network(d) ==
  /\ ~ub
  /\ \/ channel[d] = "connecting" /\ Report(d, "open", "open")
     \/ /\ d \in Consumer /\ channel[d] = "open"
        /\ Cardinality({i \in DOMAIN due[d] : due[d][i] = "message"}) < MaxMessages
        /\ Len(posted) < MaxMessages + 2
        /\ Report(d, "open", "message")
     \/ channel[d] \in {"connecting", "open"} /\ Report(d, "closing", "closing")
     \/ channel[d] = "closing" /\ Report(d, "closed", "closed")
  /\ UNCHANGED <<nativeVars, closeVars, sendVars, listening, running, heard, ub>>

\* Mutant of RunEvent: events go through a concurrent queue, and a later one may
\* overtake.
RunEventOvertaking ==
  /\ ~ub
  /\ running = None
  /\ \E i \in DOMAIN posted :
       LET d == posted[i].on
       IN /\ posted' = Picked(posted, DOMAIN posted \ {i})
          /\ IF memory[d] = "freed"
             THEN ub' = TRUE /\ UNCHANGED <<running, heard>>
             ELSE /\ IF d \in listening /\ Retained(d)
                     THEN /\ running' = d
                          /\ heard' = [heard EXCEPT ![d] = Append(@, posted[i].event)]
                     ELSE UNCHANGED <<running, heard>>
                  /\ UNCHANGED ub
  /\ UNCHANGED <<channel, due, nativeVars, closeVars, sendVars, listening>>

(* The signaling thread runs the next event: the native object calls its   *)
(* adapter, and that the wrapper, which calls the application.             *)
RunEvent ==
  /\ ~ub
  /\ running = None /\ posted # <<>>
  /\ posted' = Tail(posted)
  /\ LET d == Head(posted).on
     IN IF memory[d] = "freed"
        THEN ub' = TRUE /\ UNCHANGED <<running, heard>>
        ELSE /\ IF d \in listening /\ Retained(d)
                THEN /\ running' = d
                     /\ heard' = [heard EXCEPT ![d] = Append(@, Head(posted).event)]
                ELSE UNCHANGED <<running, heard>>
             /\ UNCHANGED ub
  /\ UNCHANGED <<channel, due, nativeVars, closeVars, sendVars, listening>>

(* The callback returns into the native object; the wrapper it retained    *)
(* is deallocated if nothing else refers to it.                            *)
EventReturns ==
  /\ ~ub
  /\ running # None
  /\ closer # "signal"
  /\ IF memory[running] = "freed"
     THEN ub' = TRUE /\ UNCHANGED <<memory, networkVars>>
     ELSE /\ IF running \notin held /\ telling # running
             THEN Dealloc("signal", running)
             ELSE UNCHANGED <<memory, networkVars>>
          /\ UNCHANGED ub
  /\ running' = None
  /\ UNCHANGED <<held, shut, registered, closeVars, sendVars, listening, heard>>
-----------------------------------------------------------------------------
(* close: the native object closes its channel and leaves the map.         *)
CloseData(t, d) ==
  /\ CanCall(t)
  /\ d \in held \ shut
  /\ shut' = shut \cup {d}
  /\ registered' = registered \ {d}
  /\ CloseChannel(d)
  /\ UNCHANGED <<memory, held, closeVars, sendVars, listening, running, heard, ub>>

(* DataProducer.send: the wrapper's method is empty.                       *)
Send(t, d) ==
  /\ CanCall(t)
  /\ d \in held \cap Producer /\ channel[d] = "open"
  /\ given[d] < MaxMessages
  /\ given' = [given EXCEPT ![d] = @ + 1]
  /\ UNCHANGED <<sent, networkVars, nativeVars, closeVars, listening, running, heard, ub>>

AwaitsClose(d) ==
  "AwaitClose" \in Duties => d \in shut /\ \E i \in DOMAIN heard[d] : heard[d][i] = "closed"

\* Mutant of Drop: the native object is deleted with the Swift object, though a
\* callback retains the wrapper.
DropAtOnce(t, d) ==
  /\ CanCall(t)
  /\ d \in held
  /\ AwaitsClose(d)
  /\ held' = held \ {d}
  /\ Dealloc(t, d)
  /\ UNCHANGED <<shut, registered, closeVars, sendVars, listening, running, heard, ub>>

(* The application's last reference goes; a callback in progress retains   *)
(* the wrapper until it returns.                                           *)
Drop(t, d) ==
  /\ CanCall(t)
  /\ d \in held
  /\ AwaitsClose(d)
  /\ held' = held \ {d}
  /\ IF d \in {running, telling}
     THEN UNCHANGED <<memory, networkVars>>
     ELSE Dealloc(t, d)
  /\ UNCHANGED <<shut, registered, closeVars, sendVars, listening, running, heard, ub>>
-----------------------------------------------------------------------------
(* close of the transport: it waits for the signaling thread, and the      *)
(* network then closes the channels.                                       *)
CloseTransport(t) ==
  /\ CanCall(t)
  /\ transport = "open"
  /\ t = "app" => running = None
  /\ transport' = "closing"
  /\ closer' = t
  /\ UNCHANGED <<telling, seen, networkVars, nativeVars, sendVars, listening,
                 running, heard, ub>>

(* The loop of Close: the next object is closed and told, unless it is     *)
(* closed already.                                                         *)
TransportClosed(d) ==
  /\ ~ub
  /\ closer # "none" /\ telling = None
  /\ d \in registered \ seen
  /\ seen' = seen \cup {d}
  /\ IF memory[d] = "freed"
     THEN /\ ub' = TRUE
          /\ UNCHANGED <<shut, telling, networkVars>>
     ELSE /\ IF d \in shut
             THEN UNCHANGED <<shut, telling, networkVars>>
             ELSE /\ shut' = shut \cup {d}
                  /\ telling' = IF d \in listening /\ Retained(d) THEN d ELSE None
                  /\ CloseChannel(d)
          /\ UNCHANGED ub
  /\ UNCHANGED <<transport, closer, memory, held, registered, sendVars, listening, running, heard>>

OnTransportCloseReturns ==
  /\ ~ub
  /\ telling # None
  /\ telling' = None
  /\ IF telling \notin held /\ running # telling
     THEN Dealloc(closer, telling)
     ELSE UNCHANGED <<memory, networkVars>>
  /\ UNCHANGED <<transport, closer, seen, held, shut, registered, sendVars,
                 listening, running, heard, ub>>

CloseEnds ==
  /\ ~ub
  /\ closer # "none" /\ telling = None
  /\ registered \subseteq seen
  /\ transport' = "closed"
  /\ closer' = "none"
  /\ UNCHANGED <<telling, seen, networkVars, nativeVars, sendVars, listening,
                 running, heard, ub>>

Close == CloseEnds \/ OnTransportCloseReturns \/ \E d \in Object : TransportClosed(d)

Next ==
  \/ \E d \in Object :
       \/ \E state \in {"connecting", "open"} : Create(d, state)
       \/ Listen(d)
       \/ Network(d)
       \/ \E t \in {"app", "signal"} : CloseData(t, d) \/ Send(t, d) \/ Drop(t, d)
  \/ \E t \in {"app", "signal"} : CloseTransport(t)
  \/ RunEvent \/ EventReturns \/ Close

Spec == Init /\ [][Next]_vars

(* The signaling thread runs, callbacks return, Close goes on, and a       *)
(* channel that is being closed is closed in the end.                      *)
Fairness ==
  /\ WF_vars(RunEvent) /\ WF_vars(EventReturns) /\ WF_vars(Close)
  /\ \A d \in Object : WF_vars(channel[d] = "closing" /\ Network(d))

FairSpec == Spec /\ Fairness
-----------------------------------------------------------------------------
(* No event, callback or Close reaches a native object that is freed.      *)
MemorySafe == ~ub

(* From the moment the application sets its delegate, every event of the   *)
(* channel is either still in the queue or was passed to the application,  *)
(* once and in order, whether the object is closed meanwhile or not.       *)
NothingLost ==
  \A d \in held \cap listening : due[d] = heard[d] \o EventsOf(d, posted)

(* When the other side or the network closes the channel of an object that *)
(* is open, the application hears of it, unless it closes the object (or   *)
(* the transport) itself before.  ("Executed when the underlying           *)
(* DataChannel is closed for unknown reasons.")                            *)
ClosureHeard ==
  \A d \in Object :
    d \in (held \cap listening) \ shut /\ channel[d] = "closing"
      ~> d \in shut \/ \E i \in DOMAIN heard[d] : heard[d][i] = "closed"

(* What is passed to send reaches the data channel.  ("Sends the given     *)
(* data over the corresponding DataChannel.")                              *)
SendReaches == sent = given
=============================================================================
