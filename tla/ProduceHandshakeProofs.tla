----------------------- MODULE ProduceHandshakeProofs -----------------------
(***************************************************************************)
(* Proofs about ProduceHandshake, for any number of calls, queues, answers *)
(* and identifiers.                                                        *)
(***************************************************************************)
EXTENDS ProduceHandshake, TLAPS

(* The cases of the error conversion are the ones of MediasoupError.       *)
LEMMA ThrownType == \A e : Thrown(e) \in MediasoupError
BY DEF Thrown, NativeError, ConvertMediasoupErrors, MediasoupError

(* The initial state has the types declared for it.                        *)
LEMMA TypeInit == Init => TypeOK
<1> SUFFICES ASSUME Init PROVE TypeOK
    OBVIOUS
<1> QED BY QueuesAssumption DEF Init, TypeOK, Stage

(* Every step of the handshake keeps the types.                            *)
LEMMA TypeStep == TypeOK /\ [Next]_vars => TypeOK'
<1> SUFFICES ASSUME TypeOK, [Next]_vars PROVE TypeOK'
    OBVIOUS
<1> USE DEF TypeOK, Stage
<1>1. CASE ChangeDelegate
      BY <1>1 DEF ChangeDelegate
<1>2. CASE UNCHANGED vars
      BY <1>2 DEF vars
<1>3. ASSUME NEW c \in Call, RejectKind(c) PROVE TypeOK'
      BY <1>3 DEF RejectKind, MediasoupError
<1>4. ASSUME NEW c \in Call, NEW e \in Exception, Reject(c, e) PROVE TypeOK'
      BY <1>4, ThrownType DEF Reject
<1>5. ASSUME NEW c \in Call, Send(c) PROVE TypeOK'
      BY <1>5 DEF Send
<1>6. ASSUME NEW c \in Call, OnProduce(c) PROVE TypeOK'
      BY <1>6 DEF OnProduce
<1>7. ASSUME NEW c \in Call, OnProduceUnheard(c) PROVE TypeOK'
      BY <1>7 DEF OnProduceUnheard
<1>8. ASSUME NEW c \in Call, Keep(c) PROVE TypeOK'
      BY <1>8 DEF Keep
<1>9. ASSUME NEW c \in Call, NEW a \in Answer, Callback(c, a) PROVE TypeOK'
      BY <1>9, QueuesAssumption DEF Callback
<1>10. ASSUME NEW c \in Call, HandlerReturns(c) PROVE TypeOK'
       BY <1>10 DEF HandlerReturns, Unref
<1>11. ASSUME NEW c \in Call, Discard(c) PROVE TypeOK'
       BY <1>11 DEF Discard, Unref
<1>12. ASSUME NEW c \in Call, Get(c) PROVE TypeOK'
       BY <1>12, ThrownType DEF Get, GetId, GetNil, GetBroken, Returned
<1>13. QED
       BY <1>1, <1>2, <1>3, <1>4, <1>5, <1>6, <1>7, <1>8, <1>9, <1>10, <1>11, <1>12
       DEF Next, AnswerInHandler, AnswerLater

(* Type correctness: each variable stays within the values the code can    *)
(* give it; in particular a failed call throws a case of MediasoupError    *)
(* and nothing else.                                                       *)
THEOREM Typing == Spec => []TypeOK
BY TypeInit, TypeStep, PTL DEF Spec
-----------------------------------------------------------------------------
(***************************************************************************)
(* The inductive invariant, in three named parts about one call.           *)
(***************************************************************************)

(* Who holds the promise at each stage.  The application can only get at   *)
(* the block through the handler, so before the handler runs nobody does.  *)
Holds(c) ==
  /\ stage[c] \in {"idle", "sent"} => refs[c] = {}
  /\ stage[c] = "handling" <=> "handler" \in refs[c]
  /\ "frame" \in refs[c] <=> "handler" \in refs[c]
  /\ stage[c] = "waiting" /\ promise[c] = None => "app" \in refs[c]

(* What the promise holds: the first answer, or the mark that the last     *)
(* holder went without one, after which nobody can answer.                 *)
Holding(c) ==
  /\ promise[c] = None => first[c] = None
  /\ promise[c] \in Answer => first[c] = promise[c]
  /\ promise[c] = "broken" => first[c] = None /\ refs[c] = {}
  /\ stage[c] \in {"idle", "sent"} => promise[c] = None

(* What the call owns while it runs, and what it leaves when it returns:   *)
(* refused before it asked, or ended by what the promise held.             *)
Owns(c) ==
  /\ stage[c] = "idle" => adapter[c] = "none" /\ sender[c] = "none" /\ result[c] = None
  /\ stage[c] \in InCall =>
       adapter[c] = "call" /\ sender[c] = "sending" /\ result[c] = None
  /\ stage[c] = "returned" =>
       \/ /\ sender[c] = "none" /\ adapter[c] \in {"none", "freed"}
          /\ result[c] \in MediasoupError
          /\ promise[c] = None /\ refs[c] = {}
       \/ /\ sender[c] = "sending" /\ adapter[c] = "wrapper"
          /\ promise[c] \in Id /\ result[c] = promise[c]
       \/ /\ sender[c] = IF c \in DataCall THEN "sending" ELSE "stopped"
          /\ adapter[c] = "freed" /\ promise[c] = Nil /\ result[c] \in MediasoupError
       \/ /\ sender[c] = "sending" /\ adapter[c] = "freed"
          /\ promise[c] = "broken" /\ result[c] \in MediasoupError

CallInv(c) == Holds(c) /\ Holding(c) /\ Owns(c)

Inv == TypeOK /\ \A c \in Call : CallInv(c)

(* The invariant holds before the first call.                              *)
LEMMA InvInit == Init => Inv
<1> SUFFICES ASSUME Init PROVE Inv
    OBVIOUS
<1>1. TypeOK
      BY TypeInit
<1>2. ASSUME NEW c \in Call PROVE CallInv(c)
      BY ValuesApart DEF Init, CallInv, Holds, Holding, Owns, InCall
<1>3. QED
      BY <1>1, <1>2 DEF Inv

(* Every step of the handshake keeps the invariant.                        *)
LEMMA InvStep == Inv /\ [Next]_vars => Inv'
<1> SUFFICES ASSUME Inv, [Next]_vars PROVE Inv'
    OBVIOUS
<1>0. TypeOK /\ TypeOK'
      BY TypeStep DEF Inv
<1> SUFFICES ASSUME NEW d \in Call PROVE CallInv(d)'
    BY <1>0 DEF Inv
<1>d. CallInv(d)
      BY DEF Inv
<1> USE DEF TypeOK, CallInv, Holds, Holding, Owns, InCall
<1>1. CASE ChangeDelegate
      BY <1>0, <1>d, <1>1 DEF ChangeDelegate
<1>2. CASE UNCHANGED vars
      BY <1>0, <1>d, <1>2 DEF vars
<1>3. ASSUME NEW c \in Call, RejectKind(c) PROVE CallInv(d)'
      BY <1>0, <1>d, <1>3, ValuesApart, ErrorsApart DEF RejectKind, MediasoupError
<1>4. ASSUME NEW c \in Call, NEW e \in Exception, Reject(c, e) PROVE CallInv(d)'
      BY <1>0, <1>d, <1>4, ThrownType, ValuesApart DEF Reject
<1>5. ASSUME NEW c \in Call, Send(c) PROVE CallInv(d)'
      BY <1>0, <1>d, <1>5 DEF Send
<1>6. ASSUME NEW c \in Call, OnProduce(c) PROVE CallInv(d)'
      BY <1>0, <1>d, <1>6, ValuesApart DEF OnProduce
<1>7. ASSUME NEW c \in Call, OnProduceUnheard(c) PROVE CallInv(d)'
      BY <1>0, <1>d, <1>7, ValuesApart DEF OnProduceUnheard
<1>8. ASSUME NEW c \in Call, Keep(c) PROVE CallInv(d)'
      BY <1>0, <1>d, <1>8, ValuesApart DEF Keep
<1>9. ASSUME NEW c \in Call, NEW a \in Answer, Callback(c, a),
             refs[c] # {} PROVE CallInv(d)'
      BY <1>0, <1>d, <1>9, ValuesApart DEF Callback, Answer
<1>10. ASSUME NEW c \in Call, HandlerReturns(c) PROVE CallInv(d)'
       BY <1>0, <1>d, <1>10, ValuesApart DEF HandlerReturns, Unref
<1>11. ASSUME NEW c \in Call, Discard(c) PROVE CallInv(d)'
  <2>1. CASE refs[c] = {"app"} /\ promise[c] = None
    <3>1. promise' = [promise EXCEPT ![c] = "broken"] /\ refs' = [refs EXCEPT ![c] = {}]
          BY <1>0, <1>11, <2>1 DEF Discard, Unref
    <3>2. UNCHANGED <<stage, adapter, sender, result, first>>
          BY <1>11 DEF Discard
    <3>3. CASE d # c
          BY <1>0, <1>d, <3>1, <3>2, <3>3
    <3>4. CASE d = c
      <4>1. promise'[c] = "broken" /\ refs'[c] = {}
            BY <1>0, <3>1
      <4>2. stage[c] = "waiting"
        <5>1. "app" \in refs[c] /\ "handler" \notin refs[c] /\ promise[c] = None
              BY <2>1
        <5>2. stage[c] \notin {"idle", "sent", "handling"}
              BY <1>d, <3>4, <5>1
        <5>3. stage[c] # "returned"
              BY <1>d, <3>4, <5>1, ValuesApart DEF Answer
        <5>4. QED
              BY <1>0, <5>2, <5>3 DEF Stage
      <4>3. QED
            BY <1>d, <2>1, <3>2, <3>4, <4>1, <4>2, ValuesApart
    <3>5. QED
          BY <3>3, <3>4
  <2>2. CASE refs[c] # {"app"} \/ promise[c] # None
    <3>1. promise' = promise /\ refs' = [refs EXCEPT ![c] = @ \ {"app"}]
          BY <1>0, <1>11, <2>2 DEF Discard, Unref
    <3>2. d # c => refs'[d] = refs[d]
          BY <1>0, <3>1
    <3>3. refs'[c] = refs[c] \ {"app"}
          BY <1>0, <3>1
    <3>4. d = c => (stage[c] = "waiting" => promise[c] # None)
          BY <1>0, <1>d, <1>11, <2>2 DEF Discard
    <3>5. QED
          BY <1>0, <1>d, <1>11, <3>1, <3>2, <3>3, <3>4, ValuesApart DEF Discard
  <2>3. QED
        BY <2>1, <2>2
<1>12. ASSUME NEW c \in Call, Get(c) PROVE CallInv(d)'
       BY <1>0, <1>d, <1>12, ThrownType, ValuesApart
       DEF Get, GetId, GetNil, GetBroken, Returned, Answer
<1>13. QED
       BY <1>1, <1>2, <1>3, <1>4, <1>5, <1>6, <1>7, <1>8, <1>9, <1>10, <1>11, <1>12
       DEF Next, AnswerInHandler, AnswerLater

(* The invariant holds in every reachable state.                           *)
THEOREM Invariance == Spec => []Inv
BY InvInit, InvStep, PTL DEF Spec

(* A call blocked in future.get() is never beyond rescue: while its        *)
(* promise is unset, the application holds the block that sets it.         *)
THEOREM NeverStranded == Spec => []WaitsOnlyForApp
<1>1. Inv => WaitsOnlyForApp
      BY DEF Inv, CallInv, Holds, WaitsOnlyForApp
<1>2. QED
      BY <1>1, Invariance, PTL

(* createProducer returns the id of the first answer, or fails if the      *)
(* first answer was nil; later answers change nothing.                     *)
THEOREM FirstAnswer == Spec => []FirstAnswerDecides
<1>1. ASSUME Inv PROVE FirstAnswerDecides
  <2>1. SUFFICES ASSUME NEW c \in Call
                 PROVE  /\ result[c] \in Id => first[c] = result[c]
                        /\ stage[c] = "returned" /\ first[c] # None
                           /\ result[c] \notin Id => first[c] = Nil
        BY DEF FirstAnswerDecides
  <2>2. TypeOK /\ CallInv(c)
        BY <1>1 DEF Inv
  <2>3. QED
        BY <2>2, ValuesApart, ErrorsApart
        DEF TypeOK, CallInv, Holding, Owns, InCall, Stage, Answer
<1>2. QED
      BY <1>1, Invariance, PTL

(* The listener adapter made for a call is owned by the call, then by the  *)
(* ProducerWrapper or by nobody: it is not leaked and not deleted twice.   *)
THEOREM OneOwner == Spec => []AdapterHasOneOwner
<1>1. ASSUME Inv PROVE AdapterHasOneOwner
  <2>1. SUFFICES ASSUME NEW c \in Call
                 PROVE  /\ adapter[c] = "call" <=> stage[c] \in InCall
                        /\ adapter[c] = "wrapper" <=> result[c] \in Id
                        /\ sender[c] # "none" /\ stage[c] = "returned"
                           /\ result[c] \notin Id => adapter[c] = "freed"
        BY DEF AdapterHasOneOwner
  <2>2. TypeOK /\ CallInv(c)
        BY <1>1 DEF Inv
  <2>3. QED
        BY <2>2, ValuesApart, ErrorsApart
        DEF TypeOK, CallInv, Owns, InCall, Stage, Answer
<1>2. QED
      BY <1>1, Invariance, PTL

(* A refused producer of media leaves an RTP sender running only if the    *)
(* block was dropped without any answer.                                   *)
THEOREM RefusalStops == Spec => []RefusalStopsSender
<1>1. ASSUME Inv PROVE RefusalStopsSender
  <2>1. SUFFICES ASSUME NEW c \in Call \ DataCall, stage[c] = "returned",
                        result[c] \notin Id, sender[c] = "sending"
                 PROVE  promise[c] = "broken" /\ first[c] = None
        BY DEF RefusalStopsSender
  <2>2. TypeOK /\ CallInv(c)
        BY <1>1 DEF Inv
  <2>3. QED
        BY <2>1, <2>2, ValuesApart, ErrorsApart
        DEF TypeOK, CallInv, Holding, Owns, Answer
<1>2. QED
      BY <1>1, Invariance, PTL
-----------------------------------------------------------------------------
(* An initial state of the handshake is one of the answer slot.            *)
LEMMA SlotInit == Init => Slot!Init
BY ValuesApart, ErrorsApart DEF Init, Slot!Init, MediasoupError

(* Every step of the handshake is a step of the answer slot, or none.      *)
LEMMA SlotStep == Inv /\ Inv' /\ [Next]_vars => [Slot!Next]_Slot!vars
<1> SUFFICES ASSUME Inv, Inv', [Next]_vars PROVE [Slot!Next]_Slot!vars
    OBVIOUS
<1>0. TypeOK /\ TypeOK' /\ \A d \in Call : CallInv(d)
      BY DEF Inv
<1> DEFINE Out(r) == IF r \in MediasoupError THEN "error" ELSE r
           Mark(v) == IF v = "broken" THEN "abandoned" ELSE v
<1>1. CASE ChangeDelegate
      BY <1>1 DEF ChangeDelegate, Slot!vars
<1>2. CASE UNCHANGED vars
      BY <1>2 DEF vars, Slot!vars
<1>3. ASSUME NEW c \in Call, RejectKind(c) PROVE Slot!Refuse(c)
  <2>1. sender[c] = "none" /\ result[c] = None
        BY <1>0, <1>3 DEF RejectKind, CallInv, Owns
  <2>2. "invalidParameters" \in MediasoupError
        BY DEF MediasoupError
  <2>3. QED
        BY <1>0, <1>3, <2>1, <2>2, ErrorsApart DEF RejectKind, Slot!Refuse, TypeOK
<1>4. ASSUME NEW c \in Call, NEW e \in Exception, Reject(c, e) PROVE Slot!Refuse(c)
  <2>1. sender[c] = "none" /\ result[c] = None
        BY <1>0, <1>4 DEF Reject, CallInv, Owns
  <2>2. QED
        BY <1>0, <1>4, <2>1, ErrorsApart, ThrownType DEF Reject, Slot!Refuse, TypeOK
<1>5. ASSUME NEW c \in Call, Send(c) PROVE Slot!Ask(c)
  <2>1. sender[c] = "none" /\ result[c] = None
        BY <1>0, <1>5 DEF Send, CallInv, Owns
  <2>2. QED
        BY <1>0, <1>5, <2>1, ErrorsApart DEF Send, Slot!Ask, TypeOK
<1>6. ASSUME NEW c \in Call, OnProduce(c) \/ Keep(c) PROVE UNCHANGED Slot!vars
      BY <1>6 DEF OnProduce, Keep, Slot!vars
<1>7. ASSUME NEW c \in Call, promise[c] = None, sender[c] # "none",
             NEW v \in Answer \cup {"broken"}, promise' = [promise EXCEPT ![c] = v],
             UNCHANGED <<sender, result>>
      PROVE  Slot!Next
  <2>1. Slot!Fill(c, Mark(v))
        BY <1>0, <1>7, ValuesApart DEF Slot!Fill, TypeOK
  <2>2. Mark(v) \in Slot!Answer \cup {"abandoned"}
        BY ValuesApart DEF Slot!Answer, Answer
  <2>3. QED
        BY <2>1, <2>2 DEF Slot!Next
<1>8. ASSUME NEW c \in Call, OnProduceUnheard(c) PROVE Slot!Next
  <2>1. promise[c] = None /\ sender[c] # "none"
        BY <1>0, <1>8 DEF OnProduceUnheard, CallInv, Holding, Owns, InCall
  <2>2. QED
        BY <1>7, <1>8, <2>1 DEF OnProduceUnheard
<1>9. ASSUME NEW c \in Call, refs[c] # {}, promise' # promise,
             promise' \in {[promise EXCEPT ![c] = v] : v \in Answer \cup {"broken"}},
             promise[c] = None, UNCHANGED <<sender, result>>
      PROVE  Slot!Next
  <2>1. sender[c] # "none"
        BY <1>0, <1>9 DEF TypeOK, Stage, CallInv, Holds, Owns, InCall
  <2>2. QED
        BY <1>7, <1>9, <2>1
<1>10. ASSUME NEW c \in Call, NEW a \in Answer, Callback(c, a), refs[c] # {}
       PROVE  [Slot!Next]_Slot!vars
  <2>1. CASE promise' = promise
        BY <1>10, <2>1 DEF Callback, Slot!vars
  <2>2. CASE promise' # promise
        BY <1>9, <1>10, <2>2 DEF Callback
  <2>3. QED
        BY <2>1, <2>2
<1>11. ASSUME NEW c \in Call, HandlerReturns(c) \/ Discard(c)
       PROVE  [Slot!Next]_Slot!vars
  <2>1. CASE promise' = promise
        BY <1>11, <2>1 DEF HandlerReturns, Discard, Slot!vars
  <2>2. CASE promise' # promise
    <3>1. refs[c] # {}
          BY <1>0, <1>11 DEF HandlerReturns, Discard, CallInv, Holds
    <3>2. QED
          BY <1>9, <1>11, <2>2, <3>1 DEF HandlerReturns, Discard, Unref
  <2>3. QED
        BY <2>1, <2>2
<1>12. ASSUME NEW c \in Call, Get(c) PROVE Slot!Deliver(c)
  <2>1. sender[c] # "none" /\ result[c] = None /\ promise[c] # None
        BY <1>0, <1>12, ValuesApart
        DEF Get, GetId, GetNil, GetBroken, Returned, Answer, CallInv, Owns, InCall
  <2>2. {d \in Call : sender'[d] # "none"} = {d \in Call : sender[d] # "none"}
        BY <1>0, <1>12, <2>1 DEF Get, GetId, GetNil, GetBroken, TypeOK
  <2>3. Out(result'[c]) = IF promise[c] \in Id THEN promise[c] ELSE "error"
        BY <1>0, <1>12, ThrownType, ValuesApart, ErrorsApart
        DEF Get, GetId, GetNil, GetBroken, Answer, TypeOK
  <2>4. /\ UNCHANGED promise
        /\ \A d \in Call \ {c} : result'[d] = result[d]
        BY <1>0, <1>12 DEF Get, GetId, GetNil, GetBroken, Returned, TypeOK
  <2>5. [d \in Call |-> Out(result'[d])] =
          [[d \in Call |-> Out(result[d])] EXCEPT
             ![c] = IF promise[c] \in Id THEN promise[c] ELSE "error"]
        BY <2>3, <2>4
  <2>6. /\ Mark(promise[c]) # None
        /\ Mark(promise[c]) \in Id <=> promise[c] \in Id
        /\ promise[c] \in Id => Mark(promise[c]) = promise[c]
        /\ Out(result[c]) = None
        BY <2>1, ValuesApart, ErrorsApart DEF Answer
  <2>7. QED
        BY <2>1, <2>2, <2>4, <2>5, <2>6 DEF Slot!Deliver
<1>13. QED
       BY <1>1, <1>2, <1>3, <1>4, <1>5, <1>6, <1>8, <1>10, <1>11, <1>12
       DEF Next, AnswerInHandler, AnswerLater, Slot!Next

(* The promise, its block and its future implement a one-shot answer slot. *)
THEOREM Refinement == Spec => ImplementsAnswerSlot
<1>1. Spec => []Inv
      BY Invariance
<1>2. QED
      BY <1>1, SlotInit, SlotStep, PTL DEF Spec, ImplementsAnswerSlot, Slot!Spec
=============================================================================
