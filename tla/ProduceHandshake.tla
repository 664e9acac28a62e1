-------------------------- MODULE ProduceHandshake --------------------------
(***************************************************************************)
(* The handshake inside SendTransport.createProducer and produceData.      *)
(*                                                                         *)
(* The calling thread enters libmediasoupclient, which starts the RTP      *)
(* sender (opens the data channel) and calls OnProduce (OnProduceData) of  *)
(* SendTransportListenerAdapter.  The adapter                              *)
(* hands the application a block that fulfils a std::promise and returns   *)
(* its future; the library blocks on that future.  The application may run *)
(* the block at once, later on another queue, several times, or never, and *)
(* it may drop it.  The promise is destroyed with its last reference: a    *)
(* promise destroyed unfulfilled gives the future a broken_promise error.  *)
(***************************************************************************)
EXTENDS Naturals

CONSTANTS
  Call,        (* the createProducer / produceData calls                   *)
  DataCall,    (* the ones among them that produce data                    *)
  Id,          (* producer identifiers the signalling server may allot     *)
  Nil,         (* the answer callback(nil)                                 *)
  None,        (* no answer, no result yet                                 *)
  Queue,       (* the serial queues (threads) of the application           *)
  CallQueue,   (* CallQueue[c]: the queue that makes call c                *)
  AnswerQueue, (* AnswerQueue[c]: the queue on which the signalling layer  *)
               (* of the application answers call c after onProduce        *)
  MaxAnswers   (* bound on the times one block is run                      *)

Answer == Id \cup {Nil}

ASSUME ValuesApart ==
  /\ Nil \notin Id
  /\ None \notin Answer
  /\ {"broken", "abandoned", "error"} \cap (Answer \cup {None}) = {}

ASSUME DataCallAssumption == DataCall \subseteq Call

ASSUME QueuesAssumption ==
  /\ CallQueue \in [Call -> Queue]
  /\ AnswerQueue \in [Call -> Queue]
  /\ MaxAnswers \in Nat

(***************************************************************************)
(* What a refused call threw, the NSError mediasoupTryWithResult makes of  *)
(* it and the case of MediasoupError that convertMediasoupErrors rethrows. *)
(* mediasoupError puts nothing but a description into the userInfo, so the *)
(* underlying error the conversion looks for is never there.               *)
(***************************************************************************)
Exception ==
  {"MediaSoupClientUnsupportedError", "MediaSoupClientInvalidStateError",
   "MediaSoupClientTypeError", "MediaSoupClientError", "std::exception", "id"}

ErrorCode(e) ==
  CASE e = "MediaSoupClientUnsupportedError"  -> "Unsupported"
    [] e = "MediaSoupClientInvalidStateError" -> "InvalidState"
    [] e = "MediaSoupClientTypeError"         -> "InvalidParameters"
    [] OTHER                                  -> "Unknown"

NativeError(e) == [code |-> ErrorCode(e), underlying |-> FALSE]

MediasoupError ==
  {"unsupported", "invalidState", "invalidParameters", "mediasoup", "unknown"}

ConvertMediasoupErrors(error) ==
  CASE error.code = "Unsupported"                      -> "unsupported"
    [] error.code = "InvalidState"                     -> "invalidState"
    [] error.code = "InvalidParameters"                -> "invalidParameters"
    [] error.code = "Unknown" /\ error.underlying      -> "mediasoup"
    [] OTHER                                           -> "unknown"

\* Mutant of Thrown: the NSError code reaches the caller unconverted.
ThrownRaw(e) == NativeError(e).code

Thrown(e) == ConvertMediasoupErrors(NativeError(e))

ASSUME ErrorsApart == MediasoupError \cap (Answer \cup {None}) = {}

VARIABLES
  stage,     (* stage[c]: where the calling thread is                      *)
  promise,   (* promise[c]: None, an answer, or "broken"                   *)
  refs,      (* refs[c]: what keeps the promise alive: the frame of        *)
             (* OnProduce, the running handler, the application            *)
  adapter,   (* adapter[c]: who owns the ProducerListenerAdapter           *)
  sender,    (* sender[c]: the native RTP sender, or data channel, of c    *)
  result,    (* result[c]: None, the id of the producer, or a thrown error *)
  delegate,  (* whether the weak chain of delegates reaches the app        *)
  first,     (* history: first[c], the first answer the app gave           *)
  answers    (* answers[c]: how many times the block was run               *)

vars == <<stage, promise, refs, adapter, sender, result, delegate, first, answers>>

Stage == {"idle", "sent", "handling", "waiting", "returned"}

(* Stages in which the calling thread is inside createProducer.            *)
InCall == {"sent", "handling", "waiting"}

(* What a caller of createProducer is returned or thrown is an identifier  *)
(* or a MediasoupError, never a raw exception; the rest of a call's state  *)
(* is as declared above.                                                   *)
TypeOK ==
  /\ stage \in [Call -> Stage]
  /\ promise \in [Call -> Answer \cup {None, "broken"}]
  /\ refs \in [Call -> SUBSET {"frame", "handler", "app"}]
  /\ adapter \in [Call -> {"none", "call", "wrapper", "freed"}]
  /\ sender \in [Call -> {"none", "sending", "stopped"}]
  /\ result \in [Call -> Id \cup MediasoupError \cup {None}]
  /\ delegate \in BOOLEAN
  /\ first \in [Call -> Answer \cup {None}]
  /\ answers \in [Call -> 0..MaxAnswers]

Init ==
  /\ stage = [c \in Call |-> "idle"]
  /\ promise = [c \in Call |-> None]
  /\ refs = [c \in Call |-> {}]
  /\ adapter = [c \in Call |-> "none"]
  /\ sender = [c \in Call |-> "none"]
  /\ result = [c \in Call |-> None]
  /\ delegate \in BOOLEAN
  /\ first = [c \in Call |-> None]
  /\ answers = [c \in Call |-> 0]

(* A queue is busy while one of its calls has not returned.                *)
Busy(q) == \E c \in Call : CallQueue[c] = q /\ stage[c] \in InCall

(* The application sets or clears the transport's delegate, or the object  *)
(* behind the weak reference goes away.                                    *)
ChangeDelegate ==
  /\ delegate' = ~delegate
  /\ UNCHANGED <<stage, promise, refs, adapter, sender, result, first, answers>>

(* The media kind of the track is unknown: no native object is made.       *)
RejectKind(c) ==
  /\ c \notin DataCall
  /\ stage[c] = "idle"
  /\ ~Busy(CallQueue[c])
  /\ stage' = [stage EXCEPT ![c] = "returned"]
  /\ result' = [result EXCEPT ![c] = "invalidParameters"]
  /\ UNCHANGED <<promise, refs, adapter, sender, delegate, first, answers>>

(* JSON arguments do not parse, or Produce (ProduceData) throws before it  *)
(* asks: the adapter made for the call is deleted by the catch block.      *)
Reject(c, e) ==
  /\ stage[c] = "idle"
  /\ ~Busy(CallQueue[c])
  /\ stage' = [stage EXCEPT ![c] = "returned"]
  /\ adapter' = [adapter EXCEPT ![c] = "freed"]
  /\ result' = [result EXCEPT ![c] = Thrown(e)]
  /\ UNCHANGED <<promise, refs, sender, delegate, first, answers>>

(* The arguments are accepted and the native sender is started (the data   *)
(* channel opened).                                                        *)
Send(c) ==
  /\ stage[c] = "idle"
  /\ ~Busy(CallQueue[c])
  /\ stage' = [stage EXCEPT ![c] = "sent"]
  /\ adapter' = [adapter EXCEPT ![c] = "call"]
  /\ sender' = [sender EXCEPT ![c] = "sending"]
  /\ UNCHANGED <<promise, refs, result, delegate, first, answers>>
-----------------------------------------------------------------------------
\* Mutant of Unref: the last reference goes and the future never learns of it.
UnrefSilently(c, gone) ==
  /\ refs' = [refs EXCEPT ![c] = @ \ gone]
  /\ UNCHANGED promise

(* One reference to the promise goes away, perhaps the last.               *)
Unref(c, gone) ==
  /\ refs' = [refs EXCEPT ![c] = @ \ gone]
  /\ promise' = IF refs[c] \subseteq gone /\ promise[c] = None
                THEN [promise EXCEPT ![c] = "broken"] ELSE promise

(* OnProduce (OnProduceData, which does the same with a promise and block  *)
(* of its own) reaches the application's handler with the block ...        *)
OnProduce(c) ==
  /\ stage[c] = "sent"
  /\ delegate
  /\ stage' = [stage EXCEPT ![c] = "handling"]
  /\ refs' = [refs EXCEPT ![c] = {"frame", "handler"}]
  /\ UNCHANGED <<promise, adapter, sender, result, delegate, first, answers>>

(* ... or some delegate of the chain is nil: nobody takes the block, and   *)
(* the promise goes with the frame of OnProduce.                           *)
OnProduceUnheard(c) ==
  /\ stage[c] = "sent"
  /\ ~delegate
  /\ stage' = [stage EXCEPT ![c] = "waiting"]
  /\ promise' = [promise EXCEPT ![c] = "broken"]
  /\ UNCHANGED <<refs, adapter, sender, result, delegate, first, answers>>

(* The handler stores the escaping block.                                  *)
Keep(c) ==
  /\ "handler" \in refs[c]
  /\ "app" \notin refs[c]
  /\ refs' = [refs EXCEPT ![c] = @ \cup {"app"}]
  /\ UNCHANGED <<stage, promise, adapter, sender, result, delegate, first, answers>>

\* Mutant of Callback: the promise takes every answer, so the last one counts.
CallbackLastWins(c, a) ==
  /\ answers[c] < MaxAnswers
  /\ answers' = [answers EXCEPT ![c] = @ + 1]
  /\ first' = IF first[c] = None THEN [first EXCEPT ![c] = a] ELSE first
  /\ promise' = [promise EXCEPT ![c] = a]
  /\ UNCHANGED <<stage, refs, adapter, sender, result, delegate>>

(* The block is run: set_exception for nil, set_value for an id; a second  *)
(* set throws promise_already_satisfied, which the block swallows.         *)
Callback(c, a) ==
  /\ answers[c] < MaxAnswers
  /\ answers' = [answers EXCEPT ![c] = @ + 1]
  /\ first' = IF first[c] = None THEN [first EXCEPT ![c] = a] ELSE first
  /\ promise' = IF promise[c] = None THEN [promise EXCEPT ![c] = a] ELSE promise
  /\ UNCHANGED <<stage, refs, adapter, sender, result, delegate>>

AnswerInHandler(c, a) ==
  /\ "handler" \in refs[c]
  /\ Callback(c, a)

AnswerLater(c, a) ==
  /\ "app" \in refs[c]
  /\ ~Busy(AnswerQueue[c])
  /\ Callback(c, a)

HandlerReturns(c) ==
  /\ stage[c] = "handling"
  /\ stage' = [stage EXCEPT ![c] = "waiting"]
  /\ Unref(c, {"frame", "handler"})
  /\ UNCHANGED <<adapter, sender, result, delegate, first, answers>>

(* The application lets its stored block go.                               *)
Discard(c) ==
  /\ "app" \in refs[c]
  /\ ~Busy(AnswerQueue[c])
  /\ Unref(c, {"app"})
  /\ UNCHANGED <<stage, adapter, sender, result, delegate, first, answers>>
-----------------------------------------------------------------------------
Returned(c) ==
  /\ stage[c] = "waiting"
  /\ stage' = [stage EXCEPT ![c] = "returned"]
  /\ UNCHANGED <<promise, refs, delegate, first, answers>>

(* future.get() yields an id: the wrapper takes the adapter over.          *)
GetId(c) ==
  /\ Returned(c)
  /\ promise[c] \in Id
  /\ adapter' = [adapter EXCEPT ![c] = "wrapper"]
  /\ result' = [result EXCEPT ![c] = promise[c]]
  /\ UNCHANGED sender

\* Mutant of GetNil: the catch block does not delete the adapter.
GetNilLeaks(c) ==
  /\ Returned(c)
  /\ promise[c] = Nil
  /\ result' = [result EXCEPT ![c] = Thrown("MediaSoupClientError")]
  /\ sender' = [sender EXCEPT ![c] = IF c \in DataCall THEN @ ELSE "stopped"]
  /\ UNCHANGED adapter

\* Mutant of GetNil: a refused producer keeps its native sender running.
GetNilKeepsSending(c) ==
  /\ Returned(c)
  /\ promise[c] = Nil
  /\ adapter' = [adapter EXCEPT ![c] = "freed"]
  /\ result' = [result EXCEPT ![c] = Thrown("MediaSoupClientError")]
  /\ UNCHANGED sender

(* future.get() throws MediaSoupClientError("ProducerIdIsNil").  Produce   *)
(* stops the sender before it rethrows; ProduceData undoes nothing, and    *)
(* the channel it opened stays open.                                       *)
GetNil(c) ==
  /\ Returned(c)
  /\ promise[c] = Nil
  /\ adapter' = [adapter EXCEPT ![c] = "freed"]
  /\ result' = [result EXCEPT ![c] = Thrown("MediaSoupClientError")]
  /\ sender' = [sender EXCEPT ![c] = IF c \in DataCall THEN @ ELSE "stopped"]

(* future.get() throws std::future_error, which Produce does not catch:    *)
(* the native sender is left running (the data channel open).              *)
GetBroken(c) ==
  /\ Returned(c)
  /\ promise[c] = "broken"
  /\ adapter' = [adapter EXCEPT ![c] = "freed"]
  /\ result' = [result EXCEPT ![c] = Thrown("std::exception")]
  /\ UNCHANGED sender

Get(c) == GetId(c) \/ GetNil(c) \/ GetBroken(c)

Next ==
  \/ ChangeDelegate
  \/ \E c \in Call :
       \/ RejectKind(c)
       \/ \E e \in Exception : Reject(c, e)
       \/ Send(c)
       \/ OnProduce(c)
       \/ OnProduceUnheard(c)
       \/ Keep(c)
       \/ \E a \in Answer : AnswerInHandler(c, a) \/ AnswerLater(c, a)
       \/ HandlerReturns(c)
       \/ Discard(c)
       \/ Get(c)

(* The application's duty: a stored block is run or dropped in the end.    *)
Settle(c) == Discard(c) \/ \E a \in Answer : AnswerLater(c, a)

(* The library's and the handler's own steps are taken because a running   *)
(* thread runs; nothing obliges the application to start a call.           *)
Fairness ==
  \A c \in Call :
    /\ WF_vars(OnProduce(c) \/ OnProduceUnheard(c))
    /\ WF_vars(HandlerReturns(c))
    /\ WF_vars(Get(c))
    /\ WF_vars(Settle(c))

Spec == Init /\ [][Next]_vars

FairSpec == Spec /\ Fairness
-----------------------------------------------------------------------------
(* A thread blocked in future.get() can always still be woken: while its   *)
(* promise is unset the application holds the block that sets it.  (The    *)
(* promise is set, or broken, in the very step that takes the last hold.)  *)
WaitsOnlyForApp ==
  \A c \in Call :
    stage[c] = "waiting" /\ promise[c] = None => "app" \in refs[c]

(* createProducer returns the id of the first answer and no other: an id   *)
(* that comes after callback(nil), or after another id, is ignored, as is  *)
(* a nil that comes late.                                                  *)
FirstAnswerDecides ==
  \A c \in Call :
    /\ result[c] \in Id => first[c] = result[c]
    /\ stage[c] = "returned" /\ first[c] # None /\ result[c] \notin Id =>
         first[c] = Nil

(* The ProducerListenerAdapter of a call has one owner at any time, and is *)
(* freed by the failing call and only by it: neither leaked nor deleted    *)
(* while a ProducerWrapper points to it.                                   *)
AdapterHasOneOwner ==
  \A c \in Call :
    /\ adapter[c] = "call" <=> stage[c] \in InCall
    /\ adapter[c] = "wrapper" <=> result[c] \in Id
    /\ sender[c] # "none" /\ stage[c] = "returned" /\ result[c] \notin Id =>
         adapter[c] = "freed"

(* A producer of media the application refused with nil leaves no RTP      *)
(* sender behind, whatever else it answers and whenever: the one failure   *)
(* that does leave a sender running is a block dropped without an answer   *)
(* (the broken promise).  A data producer has no such undoing.             *)
RefusalStopsSender ==
  \A c \in Call \ DataCall :
    stage[c] = "returned" /\ result[c] \notin Id /\ sender[c] = "sending" =>
      promise[c] = "broken" /\ first[c] = None

(* Every call that got as far as asking returns, provided that answers do  *)
(* not have to be given on a queue that itself makes such calls and that   *)
(* the application runs or drops each block it stores.                     *)
CallReturns ==
  \A c \in Call : stage[c] \in InCall ~> stage[c] = "returned"

(* The handshake implements the one-shot answer slot.                      *)
Slot == INSTANCE AnswerSlot WITH
  slot    <- [c \in Call |-> IF promise[c] = "broken" THEN "abandoned" ELSE promise[c]],
  asked   <- {c \in Call : sender[c] # "none"},
  outcome <- [c \in Call |-> IF result[c] \in MediasoupError THEN "error" ELSE result[c]]

(* A call is asked once, one answer counts, and the outcome is what the    *)
(* slot held: the promise, its block and its future add nothing to that.   *)
ImplementsAnswerSlot == Slot!Spec
=============================================================================
