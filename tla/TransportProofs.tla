--------------------------- MODULE TransportProofs ---------------------------
(***************************************************************************)
(* Theorems about Transport, for any threads, media and depth of calls:    *)
(* some whatever the application does, some of an application that keeps   *)
(* one or two of the duties, and that nothing freed is reached and that    *)
(* the contract is kept in one that keeps all but two: NoWaitOnSignal is   *)
(* about calls that never return, ConnectAlone about onConnect only.       *)
(***************************************************************************)
EXTENDS Transport, TLAPS

Dutiful == AllRules \ {"NoWaitOnSignal", "ConnectAlone"} \subseteq Rule

Negotiations == {"negotiating", "connecting", "describing", "asking", "waiting"}

InClose(f) == f.at \in {"closing", "notify"} \/ (f.op # "state" /\ f.at = "callback")

-----------------------------------------------------------------------------
(* The frames and their types.                                             *)
FramesTyped ==
  /\ calls \subseteq Frame
  /\ \A f, g \in calls : f.thread = g.thread /\ f.level = g.level => f = g

Ops == {"create", "restart", "shut", "close", "dispose", "state"}

Places ==
  {"negotiating", "connecting", "describing", "asking", "waiting", "closing", "notify",
   "callback", "delete", "adapter", "loaded", "unwinding"}

(* What the type of a frame says of its fields.                            *)
LEMMA FrameType ==
  ASSUME NEW f \in Frame
  PROVE  /\ f.thread \in Thread /\ f.level \in Nat /\ f.level \in 1..(MaxLevel + 1)
         /\ f.op \in Ops /\ f.at \in Places /\ f.on \in Media \cup {NoMedia}
  BY ConstantsAssumption DEF Frame, Ops, Places

(* A call that begins gets a frame on top of those of its thread.          *)
LEMMA NewFrameFits ==
  ASSUME TypeOK, NEW t \in Thread, CanCall(t),
         NEW op \in Ops, NEW at \in Places, NEW p \in Media \cup {NoMedia}
  PROVE  \E n \in Frame :
           /\ n = NewFrame(t, op, at, p)
           /\ n.thread = t /\ n.op = op /\ n.at = at /\ n.on = p
           /\ \A g \in calls : g.thread = t => g.level # n.level
<1>1. /\ Level(t) \in 0..MaxLevel
      /\ \A g \in calls : g.thread = t => g.level <= Level(t) /\ g.level \in Nat
  <2>1. \A g \in calls : g.level \in 1..(MaxLevel + 1) /\ g.level \in Nat
    BY FrameType DEF TypeOK
  <2>2. CASE Frames(t) = {}
    BY <2>1, <2>2, ConstantsAssumption DEF Level, Frames
  <2>3. CASE Frames(t) # {}
    <3> DEFINE c == CHOOSE f \in Frames(t) : Top(f)
    <3>1. c \in Frames(t) /\ Top(c)
      BY <2>3 DEF CanCall
    <3>2. Level(t) = c.level /\ Level(t) < MaxLevel
      BY <2>3 DEF CanCall, Level
    <3> HIDE DEF c
    <3> QED BY <2>1, <3>1, <3>2, ConstantsAssumption DEF Top, Frames
  <2> QED BY <2>2, <2>3
<1>2. Level(t) < MaxLevel
  BY DEF CanCall
<1>3. Level(t) + 1 \in 1..(MaxLevel + 1)
  BY <1>1, <1>2, ConstantsAssumption
<1>4. NewFrame(t, op, at, p) \in Frame
  BY <1>3 DEF NewFrame, Frame, Ops, Places
<1>5. NewFrame(t, op, at, p).level = Level(t) + 1
  BY DEF NewFrame
<1>6. /\ NewFrame(t, op, at, p).thread = t /\ NewFrame(t, op, at, p).op = op
      /\ NewFrame(t, op, at, p).at = at /\ NewFrame(t, op, at, p).on = p
  BY DEF NewFrame
<1> QED BY <1>1, <1>4, <1>5, <1>6

(* A call that goes on keeps its thread, level and operation.              *)
LEMMA StepMoves ==
  ASSUME TypeOK, NEW f \in calls, NEW at \in Places, NEW p \in Media \cup {NoMedia},
         Step(f, at, p)
  PROVE  \E g \in Frame :
           /\ calls' = (calls \ {f}) \cup {g}
           /\ g.thread = f.thread /\ g.level = f.level /\ g.op = f.op
           /\ g.at = at /\ g.on = p
<1> DEFINE g == [f EXCEPT !.at = at, !.on = p]
<1>1. f \in Frame
  BY DEF TypeOK
<1>2. /\ g \in Frame /\ g.thread = f.thread /\ g.level = f.level
      /\ g.op = f.op /\ g.at = at /\ g.on = p
  BY <1>1 DEF Frame, Places
<1>3. calls' = (calls \ {f}) \cup {g}
  BY DEF Step
<1> QED BY <1>2, <1>3

(* The three ways the frames change keep their types.                      *)
LEMMA FramesStayTyped ==
  ASSUME FramesTyped,
         \/ \E n \in Frame :
              /\ calls' = calls \cup {n}
              /\ \A g \in calls : g.thread = n.thread => g.level # n.level
         \/ \E f \in calls, g \in Frame :
              /\ calls' = (calls \ {f}) \cup {g}
              /\ g.thread = f.thread /\ g.level = f.level
         \/ calls' \subseteq calls
  PROVE  FramesTyped'
  BY DEF FramesTyped

-----------------------------------------------------------------------------
(* What an application without duties can rely on.  Where a call can be,   *)
(* whatever the state of the transport:                                    *)
Located(f) ==
  /\ f.op = "create" => f.at \in Negotiations /\ f.on \in Media
  /\ f.op \in {"restart", "shut"} => f.at = "negotiating"
  /\ f.op = "close" => f.at \in {"closing", "notify", "callback"}
  /\ f.op = "dispose" => f.at \in {"closing", "notify", "callback", "delete", "adapter"}
  /\ f.op = "state" => f.at \in {"loaded", "callback", "unwinding"} /\ f.level = 1

(* A transport is let go only by a call, which has a level to run on, and  *)
(* a medium is told of the closing only when it closes with it.            *)
AnyInv ==
  /\ TypeOK
  /\ \A f \in calls : Located(f)
  /\ ~owned => MaxLevel >= 1
  /\ \A p \in Media : notices[p] = 1 => p \in shut

(* A call begins, and one goes on, with a frame g in its place.            *)
Begins(n) ==
  /\ n \in Frame /\ calls' = calls \cup {n}
  /\ \A g \in calls : g.thread = n.thread => g.level # n.level

Becomes(f, g) ==
  /\ g \in Frame /\ calls' = (calls \ {f}) \cup {g}
  /\ g.thread = f.thread /\ g.level = f.level

(* A frame that disposes of the transport, where it starts.                *)
Disposes(n) ==
  /\ n.op = "dispose" /\ n.on = NoMedia
  /\ n.at = IF closed THEN "delete" ELSE "closing"
  /\ heard' = FALSE /\ closed' = TRUE
  /\ UNCHANGED <<handle, native, adapter, pcOpen>>

(* dispose() or the last release makes such a frame.                       *)
LEMMA DisposeFits ==
  ASSUME TypeOK, NEW t \in Thread, CanCall(t),
         BeginDispose(calls, NewFrame(t, "dispose", "closing", NoMedia))
  PROVE  \E n : Begins(n) /\ Disposes(n)
<1>1. PICK n \in Frame :
        /\ n = NewFrame(t, "dispose", "closing", NoMedia)
        /\ n.thread = t /\ n.op = "dispose" /\ n.at = "closing" /\ n.on = NoMedia
        /\ \A g \in calls : g.thread = t => g.level # n.level
  BY NewFrameFits DEF Ops, Places
<1> DEFINE m == [n EXCEPT !.at = IF closed THEN "delete" ELSE "closing"]
<1>2. /\ m \in Frame /\ m.thread = t /\ m.level = n.level /\ m.op = "dispose" /\ m.on = NoMedia
      /\ m.at = IF closed THEN "delete" ELSE "closing"
  BY <1>1 DEF Frame
<1>3. calls' = calls \cup {m} /\ heard' = FALSE /\ closed' = TRUE
      /\ UNCHANGED <<handle, native, adapter, pcOpen>>
  BY <1>1 DEF BeginDispose
<1> HIDE DEF m
<1>4. Begins(m) /\ Disposes(m)
  BY <1>1, <1>2, <1>3 DEF Begins, Disposes
<1> QED BY <1>4

(* A call returns, or its thread goes on to dispose of the transport.      *)
LEMMA LeaveFits ==
  ASSUME TypeOK, NEW f \in calls, Leave(f)
  PROVE  \/ calls' = calls \ {f} /\ UNCHANGED wrapperVars
         \/ /\ \E g : Becomes(f, g) /\ Disposes(g)
            /\ UNCHANGED owned /\ ~owned /\ \A g \in calls \ {f} : g.op = "shut"
<1>1. CASE handle = "live" /\ f.op # "shut" /\ ~Retained(calls \ {f})
  <2> DEFINE g == [[f EXCEPT !.op = "dispose", !.on = NoMedia]
                     EXCEPT !.at = IF closed THEN "delete" ELSE "closing"]
  <2>1. /\ calls' = (calls \ {f}) \cup {g} /\ heard' = FALSE /\ closed' = TRUE
        /\ UNCHANGED <<handle, native, adapter, pcOpen, owned>>
    BY <1>1 DEF Leave, BeginDispose
  <2>2. f \in Frame
    BY DEF TypeOK
  <2>3. /\ g \in Frame /\ g.thread = f.thread /\ g.level = f.level /\ g.op = "dispose"
        /\ g.on = NoMedia /\ g.at = IF closed THEN "delete" ELSE "closing"
    BY <2>2 DEF Frame
  <2> HIDE DEF g
  <2>4. Becomes(f, g) /\ Disposes(g)
    BY <2>1, <2>3 DEF Becomes, Disposes
  <2> QED BY <1>1, <2>1, <2>4 DEF Retained
<1>2. CASE ~(handle = "live" /\ f.op # "shut" /\ ~Retained(calls \ {f}))
  BY <1>2 DEF Leave
<1> QED BY <1>1, <1>2

(* The report of a state returns, or its thread goes on to dispose of the  *)
(* transport on a second level, the first it has to itself.                *)
LEMMA UnwindFits ==
  ASSUME AnyInv, NEW f \in calls, StateReturns(f)
  PROVE  \/ calls' = calls \ {f} /\ UNCHANGED wrapperVars
         \/ /\ \E g, n \in Frame :
                 /\ calls' = (calls \ {f}) \cup {g, n}
                 /\ g.thread = f.thread /\ g.level = f.level
                 /\ g.op = "state" /\ g.at = "unwinding"
                 /\ n.thread = f.thread /\ n.level = f.level + 1
                 /\ \A h \in calls : h.thread = f.thread => h.level # n.level
                 /\ Disposes(n)
            /\ UNCHANGED owned /\ \A g \in calls \ {f} : g.op = "shut"
<1>1. /\ f \in Frame /\ f.thread \in Thread /\ f.op = "state" /\ f.level = 1
      /\ Top(f) /\ UNCHANGED owned
      /\ \A h \in calls : h.level \in Nat
  BY FrameType DEF AnyInv, Located, TypeOK, StateReturns
<1>2. CASE handle = "live" /\ ~Retained(calls \ {f})
  <2> DEFINE g == [f EXCEPT !.at = "unwinding"]
             n == [NewFrame(f.thread, "dispose", "closing", NoMedia)
                     EXCEPT !.at = IF closed THEN "delete" ELSE "closing"]
  <2>1. /\ calls' = (calls \ {f}) \cup {g, n} /\ heard' = FALSE /\ closed' = TRUE
        /\ UNCHANGED <<handle, native, adapter, pcOpen>>
    BY <1>2 DEF StateReturns, BeginDispose
  <2>2. /\ g \in Frame /\ g.thread = f.thread /\ g.level = f.level
        /\ g.op = "state" /\ g.at = "unwinding"
    BY <1>1 DEF Frame
  <2>3. Level(f.thread) = f.level
    <3> DEFINE c == CHOOSE h \in Frames(f.thread) : Top(h)
    <3>1. f \in Frames(f.thread) /\ Top(f)
      BY <1>1 DEF Frames
    <3>2. c \in Frames(f.thread) /\ Top(c)
      BY <3>1
    <3>3. Level(f.thread) = c.level
      BY <3>1 DEF Level
    <3> HIDE DEF c
    <3>4. c \in calls /\ c.thread = f.thread /\ c.level <= f.level /\ f.level <= c.level
      BY <3>1, <3>2 DEF Frames, Top
    <3> QED BY <1>1, <3>3, <3>4
  <2>4. MaxLevel \in Nat /\ MaxLevel >= 1
    BY <1>2, ConstantsAssumption DEF Retained, AnyInv
  <2>5. /\ n \in Frame /\ n.thread = f.thread /\ n.level = f.level + 1 /\ n.op = "dispose"
        /\ n.on = NoMedia /\ n.at = IF closed THEN "delete" ELSE "closing"
    BY <1>1, <2>3, <2>4 DEF NewFrame, Frame
  <2> HIDE DEF g, n
  <2>6. \A h \in calls : h.thread = f.thread => h.level # n.level
    BY <1>1, <2>5 DEF Top, Frames
  <2> QED BY <1>1, <1>2, <2>1, <2>2, <2>5, <2>6 DEF Disposes, Retained
<1>3. CASE ~(handle = "live" /\ ~Retained(calls \ {f}))
  BY <1>1, <1>3 DEF StateReturns, wrapperVars
<1> QED BY <1>2, <1>3

(* The frames stay typed and located when a call begins, goes on, returns  *)
(* or has the thread dispose of the transport.                             *)
FramesFit == FramesTyped /\ \A f \in calls : Located(f)

LEMMA FramesStayFit ==
  ASSUME FramesFit,
         \/ \E n : Begins(n) /\ Located(n)
         \/ \E f \in calls : \E g : Becomes(f, g) /\ Located(g)
         \/ calls' \subseteq calls
  PROVE  FramesFit'
<1>1. FramesTyped'
  BY FramesStayTyped DEF FramesFit, Begins, Becomes
<1>2. \A f \in calls' : Located(f)
  BY DEF FramesFit, Begins, Becomes
<1> QED BY <1>1, <1>2 DEF FramesFit

(* A disposing frame is where it can be.                                   *)
LEMMA DisposesLocated ==
  ASSUME NEW n, Disposes(n)
  PROVE  Located(n)
  BY DEF Disposes, Located

(* A frame that goes on is where it can be if its new place is one of its  *)
(* operation's.                                                            *)
LEMMA MoveFits ==
  ASSUME AnyInv, NEW f \in calls, NEW at \in Places, NEW p \in Media \cup {NoMedia},
         Step(f, at, p),
         \A g \in Frame : g.op = f.op /\ g.level = f.level /\ g.at = at /\ g.on = p => Located(g)
  PROVE  FramesFit' /\ \E g : Becomes(f, g) /\ g.op = f.op /\ g.at = at /\ g.on = p
<1>1. PICK g \in Frame :
        /\ calls' = (calls \ {f}) \cup {g}
        /\ g.thread = f.thread /\ g.level = f.level /\ g.op = f.op
        /\ g.at = at /\ g.on = p
  BY StepMoves DEF AnyInv
<1>2. Becomes(f, g) /\ Located(g)
  BY <1>1 DEF Becomes
<1>3. FramesFit
  BY DEF AnyInv, TypeOK, FramesFit, FramesTyped
<1> QED BY <1>1, <1>2, <1>3, FramesStayFit

(* A call that returns leaves the frames fit.                              *)
LEMMA ReturnFits ==
  ASSUME AnyInv, NEW f \in calls, Leave(f)
  PROVE  /\ FramesFit' /\ owned' = owned
         /\ handle' \in {"live", "null"} /\ native' \in {"live", "freed"}
         /\ adapter' \in {"live", "freed"}
         /\ heard' \in BOOLEAN /\ closed' \in BOOLEAN /\ pcOpen' \in BOOLEAN
<1>1. FramesFit /\ TypeOK
  BY DEF AnyInv, TypeOK, FramesFit, FramesTyped
<1>2. CASE calls' = calls \ {f} /\ UNCHANGED wrapperVars
  BY <1>1, <1>2, FramesStayFit DEF wrapperVars, TypeOK
<1>3. CASE (\E g : Becomes(f, g) /\ Disposes(g)) /\ UNCHANGED owned
  BY <1>1, <1>3, FramesStayFit, DisposesLocated DEF Disposes, TypeOK
<1> QED BY <1>1, <1>2, <1>3, LeaveFits

(* Every step keeps this, whatever the application does.                   *)
LEMMA AnyCallStep ==
  ASSUME AnyInv, NEW t \in Thread,
         \/ Close(t) \/ Dispose(t) \/ Release(t) \/ RestartICE(t)
         \/ \E p \in Media : CreateProducer(t, p) \/ CreateConsumer(t, p)
         \/ \E p \in Media : CloseMedium(t, p) \/ DropMedium(t, p)
  PROVE  AnyInv'
<1>0. TypeOK /\ FramesFit /\ NoMedia \in Media \cup {NoMedia}
  BY DEF AnyInv, TypeOK, FramesFit, FramesTyped
<1>1. ASSUME NEW op \in {"create", "restart", "shut", "close"}, NEW p \in Media \cup {NoMedia},
             NEW at \in {"negotiating", "closing"},
             (at = "closing" <=> op = "close") /\ (op = "create" => p \in Media),
             CanCall(t), calls' = calls \cup {NewFrame(t, op, at, p)}
      PROVE  FramesFit'
  <2>1. PICK n \in Frame :
          /\ n = NewFrame(t, op, at, p)
          /\ n.thread = t /\ n.op = op /\ n.at = at /\ n.on = p
          /\ \A g \in calls : g.thread = t => g.level # n.level
    BY <1>0, <1>1, NewFrameFits DEF Ops, Places
  <2>2. Begins(n) /\ Located(n)
    BY <1>1, <2>1 DEF Begins, Located, Negotiations
  <2> QED BY <1>0, <2>2, FramesStayFit
<1>2. ASSUME CanCall(t), BeginDispose(calls, NewFrame(t, "dispose", "closing", NoMedia))
      PROVE  /\ FramesFit' /\ heard' \in BOOLEAN /\ closed' \in BOOLEAN
             /\ UNCHANGED <<handle, native, adapter, pcOpen>>
  <2>1. PICK n : Begins(n) /\ Disposes(n)
    BY <1>0, <1>2, DisposeFits
  <2> QED BY <1>0, <2>1, FramesStayFit, DisposesLocated DEF Disposes
<1>3. CASE Close(t)
  <2>1. FramesFit'
    BY <1>1, <1>3 DEF Close, Usable
  <2>2. /\ closed' = TRUE
        /\ UNCHANGED <<handle, native, adapter, heard, pcOpen, owned, direction, connected,
             section, connects, restarts, memory, registered, late, seen, shut, held, notices, ub>>
    BY <1>3 DEF Close, connectVars, mediaVars
  <2> QED BY <2>1, <2>2 DEF AnyInv, TypeOK, FramesFit, FramesTyped
<1>4. CASE Dispose(t)
  <2>1. /\ FramesFit' /\ heard' \in BOOLEAN /\ closed' \in BOOLEAN
        /\ UNCHANGED <<handle, native, adapter, pcOpen>>
    BY <1>2, <1>4 DEF Dispose, Usable
  <2>2. UNCHANGED <<owned, direction, connected, section, connects, restarts, memory, registered,
             late, seen, shut, held, notices, ub>>
    BY <1>4 DEF Dispose, connectVars, mediaVars
  <2> QED BY <2>1, <2>2 DEF AnyInv, TypeOK, FramesFit, FramesTyped
<1>5. CASE Release(t)
  <2>1. /\ FramesFit' /\ heard' \in BOOLEAN /\ closed' \in BOOLEAN
        /\ UNCHANGED <<handle, native, adapter, pcOpen>>
    <3>1. CASE BeginDispose(calls, NewFrame(t, "dispose", "closing", NoMedia))
      BY <1>2, <1>5, <3>1 DEF Release
    <3>2. CASE UNCHANGED <<handle, native, adapter, heard, closed, pcOpen, calls>>
      BY <1>0, <3>2, FramesStayFit DEF TypeOK
    <3> QED BY <1>5, <3>1, <3>2 DEF Release
  <2>2. MaxLevel >= 1
    <3>1. Level(t) < MaxLevel /\ MaxLevel \in Nat
      BY <1>5, ConstantsAssumption DEF Release, CanCall
    <3>2. Level(t) \in Nat
      <4>1. \A f \in calls : f.level \in Nat
        BY <1>0, FrameType DEF TypeOK
      <4>2. CASE Frames(t) = {}
        BY <4>2 DEF Level
      <4>3. CASE Frames(t) # {}
        <5>1. \E f \in Frames(t) : Top(f)
          BY <1>5, <4>3 DEF Release, CanCall
        <5>2. (CHOOSE f \in Frames(t) : Top(f)) \in calls
          BY <5>1 DEF Frames
        <5> QED BY <4>1, <4>3, <5>2 DEF Level
      <4> QED BY <4>2, <4>3
    <3> QED BY <3>1, <3>2
  <2>3. /\ owned' = FALSE
        /\ UNCHANGED <<direction, connected, section, connects, restarts, memory, registered,
             late, seen, shut, held, notices, ub>>
    BY <1>5 DEF Release, connectVars, mediaVars
  <2> QED BY <2>1, <2>2, <2>3 DEF AnyInv, TypeOK, FramesFit, FramesTyped
<1>6. CASE RestartICE(t)
  <2>1. FramesFit'
    BY <1>0, <1>1, <1>6 DEF RestartICE, BeginWaiting, Usable
  <2>2. /\ restarts' \in 0..MaxRestarts
        /\ UNCHANGED <<handle, native, adapter, heard, closed, pcOpen, owned, direction,
             connected, section, connects, memory, registered, late, seen, shut, held, notices,
             ub>>
    BY <1>0, <1>6, ConstantsAssumption
    DEF RestartICE, BeginWaiting, wrapperVars, mediaVars, TypeOK
  <2> QED BY <2>1, <2>2 DEF AnyInv, TypeOK, FramesFit, FramesTyped
<1>7. ASSUME NEW p \in Media, CreateProducer(t, p) \/ CreateConsumer(t, p)
      PROVE  AnyInv'
  <2>1. BeginWaiting(t, "create", p) /\ UNCHANGED connectVars
    BY <1>7 DEF CreateProducer, CreateConsumer
  <2>2. FramesFit'
    BY <1>1, <2>1 DEF BeginWaiting, Usable
  <2>3. UNCHANGED <<handle, native, adapter, heard, closed, pcOpen, owned, direction, connected,
             section, connects, restarts, memory, registered, late, seen, shut, held, notices, ub>>
    BY <2>1 DEF BeginWaiting, wrapperVars, mediaVars, connectVars
  <2> QED BY <2>2, <2>3 DEF AnyInv, TypeOK, FramesFit, FramesTyped
<1>8. ASSUME NEW p \in Media, CloseMedium(t, p)
      PROVE  AnyInv'
  <2>1. FramesFit'
    <3>1. CASE UNCHANGED calls
      BY <1>0, <3>1, FramesStayFit
    <3>2. CASE calls' = calls \cup {NewFrame(t, "shut", "negotiating", p)}
      BY <1>1, <1>8, <3>2 DEF CloseMedium
    <3> QED BY <1>8, <3>1, <3>2 DEF CloseMedium
  <2>2. /\ registered' \subseteq Media /\ shut' \subseteq Media /\ shut \subseteq shut'
        /\ ub' \in {ub, "freedTransport"}
    BY <1>0, <1>8 DEF CloseMedium, TypeOK
  <2>3. UNCHANGED <<handle, native, adapter, heard, closed, pcOpen, owned, direction, connected,
             section, connects, restarts, memory, late, seen, held, notices>>
    BY <1>8 DEF CloseMedium, transportVars, wrapperVars, connectVars
  <2> QED BY <2>1, <2>2, <2>3 DEF AnyInv, TypeOK, FramesFit, FramesTyped
<1>9. ASSUME NEW p \in Media, DropMedium(t, p)
      PROVE  AnyInv'
  <2>1. held' \subseteq Media /\ memory' \in [Media -> {"none", "failed", "live", "freed"}]
    BY <1>0, <1>9 DEF DropMedium, TypeOK
  <2>2. UNCHANGED <<handle, native, adapter, heard, closed, pcOpen, owned, direction, connected,
             section, connects, restarts, calls, registered, late, seen, shut, notices, ub>>
    BY <1>9 DEF DropMedium, transportVars, wrapperVars, connectVars
  <2> QED BY <2>1, <2>2 DEF AnyInv, TypeOK
<1> QED BY <1>3, <1>4, <1>5, <1>6, <1>7, <1>8, <1>9

(* The same of a step of a call in progress.                               *)
LEMMA AnyFrameStep ==
  ASSUME AnyInv, NEW f \in calls, FrameStep(f)
  PROVE  AnyInv'
<1>0. /\ TypeOK /\ FramesFit /\ f \in Frame /\ Located(f)
      /\ f.op \in Ops /\ f.at \in Places /\ f.on \in Media \cup {NoMedia}
  BY FrameType DEF AnyInv, TypeOK, FramesFit, FramesTyped
<1>1. ASSUME NEW at \in {"connecting", "describing", "asking", "waiting"},
             Step(f, at, f.on), f.op = "create"
      PROVE  FramesFit'
  BY <1>0, <1>1, MoveFits DEF Located, Negotiations, Places
<1>2. CASE Negotiated(f)
  <2>1. FramesFit'
    BY <1>1, <1>2 DEF Negotiated
  <2>2. connected' \in BOOLEAN /\ connects' \in Nat
    <3>1. connects \in Nat /\ connects + 1 \in Nat /\ connected \in BOOLEAN
      BY <1>0 DEF TypeOK
    <3> QED BY <1>2, <3>1 DEF Negotiated
  <2>3. UNCHANGED <<handle, native, adapter, heard, closed, pcOpen, owned, direction, section,
             restarts, memory, registered, late, seen, shut, held, notices, ub>>
    BY <1>2 DEF Negotiated, wrapperVars, mediaVars
  <2> QED BY <2>1, <2>2, <2>3 DEF AnyInv, TypeOK, FramesFit, FramesTyped
<1>3. CASE OnConnectReturns(f)
  <2>1. FramesFit'
    BY <1>0, <1>1, <1>3 DEF OnConnectReturns, Located, Ops
  <2>2. connected' = TRUE
        /\ UNCHANGED <<handle, native, adapter, heard, closed, pcOpen, owned, direction, section,
             connects, restarts, memory, registered, late, seen, shut, held, notices, ub>>
    BY <1>3 DEF OnConnectReturns, wrapperVars, mediaVars
  <2> QED BY <2>1, <2>2 DEF AnyInv, TypeOK, FramesFit, FramesTyped
<1>4. CASE Described(f) \/ OnProduceReturns(f)
  <2>1. FramesFit'
    BY <1>0, <1>1, <1>4 DEF Described, OnProduceReturns, Located, Ops
  <2>2. /\ section' \in BOOLEAN
        /\ UNCHANGED <<handle, native, adapter, heard, closed, pcOpen, owned, direction,
             connected, connects, restarts, memory, registered, late, seen, shut, held, notices,
             ub>>
    BY <1>0, <1>4
    DEF Described, OnProduceReturns, transportVars, wrapperVars, connectVars, mediaVars, TypeOK
  <2> QED BY <2>1, <2>2 DEF AnyInv, TypeOK, FramesFit, FramesTyped
<1>5. ASSUME Leave(f), UNCHANGED <<connectVars, seen, shut, notices, ub>>,
             memory' \in [Media -> {"none", "failed", "live", "freed"}],
             registered' \subseteq Media, late' \subseteq Media, held' \subseteq Media
      PROVE  AnyInv'
  <2>1. /\ FramesFit' /\ owned' = owned
        /\ handle' \in {"live", "null"} /\ native' \in {"live", "freed"}
        /\ adapter' \in {"live", "freed"}
        /\ heard' \in BOOLEAN /\ closed' \in BOOLEAN /\ pcOpen' \in BOOLEAN
    BY <1>5, ReturnFits
  <2>2. UNCHANGED <<direction, connected, section, connects, restarts, seen, shut, notices, ub>>
    BY <1>5 DEF connectVars
  <2> QED BY <1>5, <2>1, <2>2 DEF AnyInv, TypeOK, FramesFit, FramesTyped
<1>6. CASE Created(f)
  <2>1. f.on \in Media
    BY <1>0, <1>6 DEF Created, Located, Ops
  <2>2. /\ memory' \in [Media -> {"none", "failed", "live", "freed"}]
        /\ registered' \subseteq Media /\ late' \subseteq Media /\ held' \subseteq Media
        /\ Leave(f) /\ UNCHANGED <<connectVars, seen, shut, notices, ub>>
    BY <1>0, <1>6, <2>1 DEF Created, TypeOK
  <2> QED BY <1>5, <2>2
<1>7. CASE NotCreated(f)
  <2>1. /\ memory' \in [Media -> {"none", "failed", "live", "freed"}]
        /\ registered' \subseteq Media /\ late' \subseteq Media /\ held' \subseteq Media
        /\ Leave(f) /\ UNCHANGED <<connectVars, seen, shut, notices, ub>>
    BY <1>0, <1>7 DEF NotCreated, TypeOK
  <2> QED BY <1>5, <2>1
<1>8. CASE RestartReturns(f) \/ (CloseEnds(f) /\ f.op = "close")
  <2>1. /\ memory' \in [Media -> {"none", "failed", "live", "freed"}]
        /\ registered' \subseteq Media /\ late' \subseteq Media /\ held' \subseteq Media
        /\ Leave(f) /\ UNCHANGED <<connectVars, seen, shut, notices, ub>>
    BY <1>0, <1>8 DEF RestartReturns, CloseEnds, mediaVars, TypeOK
  <2> QED BY <1>5, <2>1
<1>9. CASE \/ PcClosed(f) \/ DeleteTransport(f) \/ OnConnectionStateChange(f)
           \/ CloseEnds(f) /\ f.op = "dispose"
  <2>1. FramesFit'
    <3>1. PICK at \in Places : /\ Step(f, at, NoMedia)
                               /\ \/ at = "notify" /\ f.at = "closing"
                                  \/ at = "adapter" /\ f.at = "delete"
                                  \/ at = "callback" /\ f.at = "loaded"
                                  \/ at = "delete" /\ f.op = "dispose"
      BY <1>9 DEF PcClosed, DeleteTransport, OnConnectionStateChange, CloseEnds, Places
    <3>2. \A g \in Frame :
            g.op = f.op /\ g.level = f.level /\ g.at = at /\ g.on = NoMedia => Located(g)
      BY <1>0, <3>1 DEF Located, Ops, Negotiations
    <3> QED BY <3>1, <3>2, MoveFits
  <2>2. /\ pcOpen' \in BOOLEAN /\ native' \in {"live", "freed"} /\ handle' \in {"live", "null"}
        /\ ub' \in {ub, "transportInUse"}
        /\ UNCHANGED <<adapter, heard, closed, owned, direction, connected, section, connects,
             restarts, memory, registered, late, seen, shut, held, notices>>
    BY <1>0, <1>9
    DEF PcClosed, DeleteTransport, OnConnectionStateChange, CloseEnds, transportVars,
        wrapperVars, connectVars, mediaVars, TypeOK
  <2> QED BY <2>1, <2>2 DEF AnyInv, TypeOK, FramesFit, FramesTyped
<1>10. ASSUME NEW p \in Media, TransportClosed(f, p)
       PROVE  AnyInv'
  <2>1. UNCHANGED <<handle, native, adapter, heard, closed, pcOpen, owned, direction, connected,
             section, connects, restarts, memory, registered, late, held>>
    BY <1>10 DEF TransportClosed, transportVars, wrapperVars, connectVars, mediaVars
  <2>2. FramesFit'
    <3>1. CASE UNCHANGED calls
      BY <1>0, <3>1, FramesStayFit
    <3>2. CASE Step(f, "callback", p)
      <4>1. f.at = "notify"
        BY <1>10 DEF TransportClosed
      <4>2. \A g \in Frame :
              g.op = f.op /\ g.level = f.level /\ g.at = "callback" /\ g.on = p => Located(g)
        BY <1>0, <4>1 DEF Located, Ops, Negotiations
      <4> QED BY <3>2, <4>2, MoveFits DEF Places
    <3> QED BY <1>10, <3>1, <3>2 DEF TransportClosed
  <2>3. /\ seen' \subseteq Media /\ shut' \subseteq Media /\ ub' \in {ub, "freedMedium"}
        /\ \/ shut' = shut /\ notices' = notices
           \/ p \notin shut /\ shut' = shut \cup {p} /\ notices' = [notices EXCEPT ![p] = @ + 1]
    BY <1>0, <1>10 DEF TransportClosed, mediaVars, TypeOK
  <2>4. notices' \in [Media -> 0..1] /\ \A q \in Media : notices'[q] = 1 => q \in shut'
    <3>1. notices[p] \in 0..1 /\ (notices[p] = 1 => p \in shut)
      BY DEF AnyInv, TypeOK
    <3> QED BY <2>3, <3>1 DEF AnyInv, TypeOK
  <2> QED BY <2>1, <2>2, <2>3, <2>4 DEF AnyInv, TypeOK, FramesFit, FramesTyped
<1>11. CASE OnTransportCloseReturns(f)
  <2>1. FramesFit'
    <3>1. f.op \in {"close", "dispose"} /\ Step(f, "notify", NoMedia)
      BY <1>0, <1>11 DEF OnTransportCloseReturns, Located, Ops, Negotiations
    <3>2. \A g \in Frame :
            g.op = f.op /\ g.level = f.level /\ g.at = "notify" /\ g.on = NoMedia => Located(g)
      BY <3>1 DEF Located
    <3> QED BY <3>1, <3>2, MoveFits DEF Places
  <2>2. memory' \in [Media -> {"none", "failed", "live", "freed"}]
    BY <1>0, <1>11 DEF OnTransportCloseReturns, Unpin, TypeOK
  <2>3. UNCHANGED <<handle, native, adapter, heard, closed, pcOpen, owned, direction, connected,
             section, connects, restarts, registered, late, seen, shut, held, notices, ub>>
    BY <1>11 DEF OnTransportCloseReturns, transportVars, wrapperVars, connectVars
  <2> QED BY <2>1, <2>2, <2>3 DEF AnyInv, TypeOK, FramesFit, FramesTyped
<1>12. CASE DeleteAdapter(f)
  <2>1. FramesFit'
    BY <1>0, <1>12, FramesStayFit DEF DeleteAdapter
  <2>2. /\ adapter' = "freed"
        /\ UNCHANGED <<handle, native, heard, closed, pcOpen, owned, direction, connected,
             section, connects, restarts, memory, registered, late, seen, shut, held, notices, ub>>
    BY <1>12 DEF DeleteAdapter, connectVars, mediaVars
  <2> QED BY <2>1, <2>2 DEF AnyInv, TypeOK, FramesFit, FramesTyped
<1>13. CASE CloseMediumReturns(f)
  <2>1. FramesFit'
    BY <1>0, <1>13, FramesStayFit DEF CloseMediumReturns
  <2>2. memory' \in [Media -> {"none", "failed", "live", "freed"}] /\ ub' \in {ub, "escaped"}
    BY <1>0, <1>13 DEF CloseMediumReturns, Unpin, TypeOK
  <2>3. UNCHANGED <<handle, native, adapter, heard, closed, pcOpen, owned, direction, connected,
             section, connects, restarts, registered, late, seen, shut, held, notices>>
    BY <1>13 DEF CloseMediumReturns, transportVars, wrapperVars, connectVars
  <2> QED BY <2>1, <2>2, <2>3 DEF AnyInv, TypeOK, FramesFit, FramesTyped
<1>14. CASE StateReturns(f)
  <2>1. UNCHANGED <<direction, connected, section, connects, restarts, memory, registered, late,
             seen, shut, held, notices, ub>>
    BY <1>14 DEF StateReturns, connectVars, mediaVars
  <2>2. CASE calls' = calls \ {f} /\ UNCHANGED wrapperVars
    <3>1. FramesFit'
      BY <1>0, <2>2, FramesStayFit
    <3> QED BY <2>1, <2>2, <3>1 DEF AnyInv, TypeOK, FramesFit, FramesTyped, wrapperVars
  <2>3. ASSUME NEW g \in Frame, NEW n \in Frame,
               calls' = (calls \ {f}) \cup {g, n},
               g.thread = f.thread, g.level = f.level, g.op = "state", g.at = "unwinding",
               n.thread = f.thread, n.level = f.level + 1,
               \A h \in calls : h.thread = f.thread => h.level # n.level,
               Disposes(n), UNCHANGED owned
        PROVE  AnyInv'
    <3>1. Located(n) /\ Located(g)
      <4>1. f.level = 1
        BY <1>0, <1>14 DEF Located, StateReturns
      <4> QED BY <2>3, <4>1, DisposesLocated DEF Located
    <3>2. \A h \in calls' : Located(h)
      BY <1>0, <2>3, <3>1 DEF FramesFit
    <3>3. f.level # n.level
      BY <1>0, <2>3, FrameType
    <3>4. \A a, b \in calls' : a.thread = b.thread /\ a.level = b.level => a = b
      BY <1>0, <2>3, <3>3 DEF FramesFit, FramesTyped
    <3>5. calls' \subseteq Frame
      BY <1>0, <2>3 DEF FramesFit, FramesTyped
    <3>6. /\ heard' = FALSE /\ closed' = TRUE
          /\ UNCHANGED <<handle, native, adapter, pcOpen, owned>>
      BY <2>3 DEF Disposes
    <3> QED BY <2>1, <3>2, <3>4, <3>5, <3>6 DEF AnyInv, TypeOK
  <2> QED BY <1>14, <2>2, <2>3, UnwindFits
<1>15. f.op = "close" \/ f.op = "dispose" \/ ~CloseEnds(f)
  BY DEF CloseEnds
<1> QED
  BY <1>2, <1>3, <1>4, <1>6, <1>7, <1>8, <1>9, <1>10, <1>11, <1>12, <1>13, <1>14, <1>15
  DEF FrameStep

(* And of every step there is.                                             *)
LEMMA AnyStep ==
  ASSUME AnyInv, [Next]_vars
  PROVE  AnyInv'
<1>0. TypeOK /\ FramesFit
  BY DEF AnyInv, TypeOK, FramesFit, FramesTyped
<1>1. CASE StateChange
  <2>1. /\ UNCHANGED <<handle, native, adapter, heard, closed, pcOpen, owned, direction, connected,
             section, connects, restarts, memory, registered, late, seen, shut, held, notices>>
        /\ ub' \in {ub, "freedAdapter"}
    BY <1>1 DEF StateChange, transportVars, wrapperVars, connectVars, mediaVars
  <2>2. FramesFit'
    <3>1. CASE UNCHANGED calls
      BY <1>0, <3>1, FramesStayFit
    <3>2. CASE calls' = calls \cup {NewFrame(Signal, "state", "loaded", NoMedia)}
      <4> DEFINE n == NewFrame(Signal, "state", "loaded", NoMedia)
      <4>1. Frames(Signal) = {}
        BY <1>1 DEF StateChange, SignalIdle
      <4>2. /\ n \in Frame /\ n.thread = Signal /\ n.level = 1 /\ n.op = "state" /\ n.at = "loaded"
        BY <4>1, ConstantsAssumption DEF NewFrame, Level, Frame
      <4> HIDE DEF n
      <4>3. Begins(n) /\ Located(n)
        BY <3>2, <4>1, <4>2 DEF Begins, Located, Frames, n
      <4> QED BY <1>0, <4>3, FramesStayFit
    <3> QED BY <1>1, <3>1, <3>2 DEF StateChange
  <2> QED BY <2>1, <2>2 DEF AnyInv, TypeOK, FramesFit, FramesTyped
<1>2. CASE UNCHANGED vars
  <2>1. UNCHANGED <<handle, native, adapter, heard, closed, pcOpen, owned>>
    BY <1>2 DEF vars, transportVars, wrapperVars
  <2>2. UNCHANGED <<direction, connected, section, connects, restarts, calls, memory, registered,
                    late, seen, shut, held, notices, ub>>
    BY <1>2 DEF vars, transportVars, connectVars, mediaVars
  <2> QED BY <2>1, <2>2 DEF AnyInv, TypeOK
<1> QED BY <1>1, <1>2, AnyCallStep, AnyFrameStep DEF Next

(* It holds initially.                                                     *)
LEMMA AnyInit ==
  ASSUME Init
  PROVE  AnyInv
<1>1. TypeOK
  <2>1. calls = {} /\ memory \in [Media -> {"none", "failed", "live", "freed"}]
        /\ notices \in [Media -> 0..1]
    BY DEF Init
  <2>2. restarts \in 0..MaxRestarts /\ connects \in Nat
    BY ConstantsAssumption DEF Init
  <2> QED BY <2>1, <2>2 DEF Init, TypeOK
<1>2. calls = {} /\ owned /\ \A p \in Media : notices[p] = 0
  BY DEF Init
<1> QED BY <1>1, <1>2 DEF AnyInv

-----------------------------------------------------------------------------
(* Once the application has been cut off it stays so.                      *)
Muted == Disposing \/ handle = "null" => ~heard

(* A step that reports no state: the delegate is let go with the disposal  *)
(* that begins, or stays with everything else, and nobody loads it.        *)
Quiet ==
  /\ \/ heard' = FALSE
     \/ /\ UNCHANGED <<heard, handle>>
        /\ \A g \in calls' : g.op = "dispose" => Disposing
  /\ \A g \in calls' \ calls : g.at # "loaded"

(* A call that begins, or goes on, is quiet.                               *)
LEMMA QuietMoves ==
  ASSUME \/ \E n : Begins(n) /\ Disposes(n)
         \/ \E f, g : Becomes(f, g) /\ Disposes(g)
         \/ /\ UNCHANGED <<heard, handle>>
            /\ \/ calls' \subseteq calls
               \/ \E n : calls' = calls \cup {n} /\ n.op # "dispose" /\ n.at # "loaded"
               \/ \E f \in calls : \E g : Becomes(f, g) /\ g.op = f.op /\ g.at # "loaded"
  PROVE  Quiet
  BY DEF Quiet, Begins, Becomes, Disposes, Disposing

(* So is what the application does ...                                     *)
LEMMA CallsQuiet ==
  ASSUME AnyInv, NEW t \in Thread,
         \/ Close(t) \/ Dispose(t) \/ Release(t) \/ RestartICE(t)
         \/ \E p \in Media : CreateProducer(t, p) \/ CreateConsumer(t, p)
         \/ \E p \in Media : CloseMedium(t, p) \/ DropMedium(t, p)
  PROVE  Quiet
<1>1. ASSUME NEW op \in {"create", "restart", "shut", "close"},
             NEW at \in {"negotiating", "closing"}, NEW p \in Media \cup {NoMedia},
             calls' = calls \cup {NewFrame(t, op, at, p)}, UNCHANGED <<heard, handle>>
      PROVE  Quiet
  <2> DEFINE n == NewFrame(t, op, at, p)
  <2>1. n.op # "dispose" /\ n.at # "loaded"
    BY DEF NewFrame
  <2>2. calls' = calls \cup {n}
    BY <1>1
  <2> HIDE DEF n
  <2> QED BY <1>1, <2>1, <2>2, QuietMoves
<1>2. CASE Close(t)
  BY <1>1, <1>2 DEF Close
<1>3. ASSUME BeginWaiting(t, "create", NoMedia) \/ BeginWaiting(t, "restart", NoMedia)
             \/ \E p \in Media : BeginWaiting(t, "create", p)
      PROVE  Quiet
  BY <1>1, <1>3 DEF BeginWaiting, wrapperVars
<1>4. CASE RestartICE(t) \/ \E p \in Media : CreateProducer(t, p) \/ CreateConsumer(t, p)
  BY <1>3, <1>4 DEF RestartICE, CreateProducer, CreateConsumer
<1>5. CASE CanCall(t) /\ BeginDispose(calls, NewFrame(t, "dispose", "closing", NoMedia))
  BY <1>5, DisposeFits, QuietMoves DEF AnyInv
<1>6. CASE UNCHANGED <<heard, handle, calls>>
  BY <1>6, QuietMoves
<1>7. CASE Dispose(t) \/ Release(t)
  BY <1>5, <1>6, <1>7 DEF Dispose, Release, Usable
<1>8. ASSUME NEW p \in Media, CloseMedium(t, p) \/ DropMedium(t, p)
      PROVE  Quiet
  <2>1. UNCHANGED <<heard, handle>>
        /\ (calls' = calls \/ calls' = calls \cup {NewFrame(t, "shut", "negotiating", p)})
    BY <1>8 DEF CloseMedium, DropMedium, transportVars, wrapperVars
  <2> QED BY <1>1, <1>6, <2>1
<1> QED BY <1>2, <1>4, <1>7, <1>8

(* ... and every step of a call in progress, but for the end of a disposal *)
(* and for the return of a report that disposes of the transport.          *)
LEMMA FramesQuiet ==
  ASSUME AnyInv, NEW f \in calls, FrameStep(f)
  PROVE  \/ Quiet
         \/ /\ UNCHANGED heard /\ f.op = "dispose"
            /\ \A g \in calls' \ calls : g.at # "loaded"
<1>0. /\ TypeOK /\ f \in Frame /\ Located(f)
      /\ f.op \in Ops /\ f.at \in Places /\ f.on \in Media \cup {NoMedia}
  BY FrameType DEF AnyInv, TypeOK
<1>1. ASSUME NEW at \in Places, at # "loaded", NEW p \in Media \cup {NoMedia}, Step(f, at, p)
      PROVE  \E g : Becomes(f, g) /\ g.op = f.op /\ g.at # "loaded"
  <2>1. PICK g \in Frame :
          /\ calls' = (calls \ {f}) \cup {g}
          /\ g.thread = f.thread /\ g.level = f.level /\ g.op = f.op /\ g.at = at /\ g.on = p
    BY <1>0, <1>1, StepMoves
  <2> QED BY <1>1, <2>1 DEF Becomes
<1>2. ASSUME NEW at \in Places, at # "loaded", NEW p \in Media \cup {NoMedia}, Step(f, at, p),
             UNCHANGED <<heard, handle>>
      PROVE  Quiet
  BY <1>1, <1>2, QuietMoves
<1>3. CASE Leave(f)
  BY <1>0, <1>3, LeaveFits, QuietMoves DEF wrapperVars
<1>4. CASE Negotiated(f) \/ OnConnectReturns(f) \/ Described(f) \/ OnProduceReturns(f)
  <2>1. UNCHANGED <<heard, handle>>
    BY <1>4 DEF Negotiated, OnConnectReturns, Described, OnProduceReturns, transportVars,
      wrapperVars
  <2>2. \E at \in Negotiations : Step(f, at, f.on)
    BY <1>4 DEF Negotiated, OnConnectReturns, Described, OnProduceReturns, Negotiations
  <2> QED BY <1>0, <1>2, <2>1, <2>2 DEF Negotiations, Places
<1>5. CASE Created(f) \/ NotCreated(f) \/ RestartReturns(f)
  BY <1>3, <1>5 DEF Created, NotCreated, RestartReturns
<1>6. CASE PcClosed(f) \/ OnTransportCloseReturns(f) \/ OnConnectionStateChange(f)
  BY <1>2, <1>6
  DEF PcClosed, OnTransportCloseReturns, OnConnectionStateChange, Places, transportVars, wrapperVars
<1>7. CASE CloseEnds(f)
  BY <1>2, <1>3, <1>7 DEF CloseEnds, Places, wrapperVars
<1>8. ASSUME NEW p \in Media, TransportClosed(f, p)
      PROVE  Quiet
  <2>1. UNCHANGED <<heard, handle>> /\ (calls' = calls \/ Step(f, "callback", p))
    BY <1>8 DEF TransportClosed, transportVars, wrapperVars
  <2> QED BY <1>2, <2>1, QuietMoves DEF Places
<1>9. CASE DeleteTransport(f)
  <2>1. f.op = "dispose" /\ UNCHANGED heard /\ Step(f, "adapter", NoMedia)
    BY <1>0, <1>9 DEF DeleteTransport, Located, Ops, Negotiations
  <2>2. PICK g : Becomes(f, g) /\ g.at # "loaded"
    BY <1>1, <2>1 DEF Places
  <2> QED BY <2>1, <2>2 DEF Becomes
<1>10. CASE DeleteAdapter(f) \/ CloseMediumReturns(f)
  <2>1. calls' \subseteq calls /\ UNCHANGED <<heard, handle>>
    BY <1>10 DEF DeleteAdapter, CloseMediumReturns, transportVars, wrapperVars
  <2> QED BY <2>1, QuietMoves
<1>11. CASE StateReturns(f)
  <2>1. CASE calls' = calls \ {f} /\ UNCHANGED wrapperVars
    BY <2>1, QuietMoves DEF wrapperVars
  <2>2. ASSUME NEW g \in Frame, NEW n \in Frame, calls' = (calls \ {f}) \cup {g, n},
               g.at = "unwinding", Disposes(n)
        PROVE  Quiet
    BY <2>2 DEF Quiet, Disposes
  <2> QED BY <1>11, <2>1, <2>2, UnwindFits
<1> QED BY <1>4, <1>5, <1>6, <1>7, <1>8, <1>9, <1>10, <1>11 DEF FrameStep

(* Once dispose has begun the application stays cut off, and no report of  *)
(* a state starts.                                                         *)
LEMMA SilentStep ==
  ASSUME AnyInv, Muted, [Next]_vars
  PROVE  Muted' /\ \A f \in calls' \ calls : f.at = "loaded" => ~Disposing /\ handle = "live"
<1>1. CASE UNCHANGED vars
  BY <1>1 DEF vars, transportVars, wrapperVars, Muted, Disposing
<1>2. CASE Quiet
  <2>1. Muted'
    <3>1. Disposing' => heard' = FALSE \/ Disposing
      BY <1>2 DEF Quiet, Disposing
    <3> QED BY <1>2, <3>1 DEF Muted, Quiet
  <2> QED BY <1>2, <2>1 DEF Quiet
<1>3. ASSUME NEW f \in calls, UNCHANGED heard, f.op = "dispose",
             \A g \in calls' \ calls : g.at # "loaded"
      PROVE  Muted' /\ \A g \in calls' \ calls : g.at = "loaded" => ~Disposing /\ handle = "live"
  <2>1. ~heard
    BY <1>3 DEF Muted, Disposing
  <2> QED BY <1>3, <2>1 DEF Muted
<1>4. CASE StateChange
  <2>1. UNCHANGED <<heard, handle>>
    BY <1>4 DEF StateChange, transportVars, wrapperVars
  <2>2. CASE UNCHANGED calls
    BY <2>1, <2>2 DEF Muted, Disposing
  <2>3. CASE heard /\ calls' = calls \cup {NewFrame(Signal, "state", "loaded", NoMedia)}
    <3>1. ~Disposing /\ handle = "live"
      BY <2>3 DEF Muted, AnyInv, TypeOK
    <3>2. Disposing' => Disposing
      BY <2>3 DEF Disposing, NewFrame
    <3> QED BY <2>1, <3>1, <3>2 DEF Muted
  <2> QED BY <1>4, <2>2, <2>3 DEF StateChange
<1> QED BY <1>1, <1>2, <1>3, <1>4, CallsQuiet, FramesQuiet DEF Next
-----------------------------------------------------------------------------
(* Until the transport is connected there is one creation at a time, and   *)
(* onConnect has been called only if that one is in it.                    *)
Connecting ==
  /\ ~connected =>
       \A f, g \in calls : f.op = "create" /\ g.op = "create" => f = g
  /\ connects <= 1
  /\ ~connected /\ (\A f \in calls : f.at # "connecting") => connects = 0

(* Connecting is about creations only.                                     *)
LEMMA ConnectingKept ==
  ASSUME Connecting, UNCHANGED <<connected, connects>>,
         \A f \in calls' : f.op = "create" => f \in calls,
         \A f \in calls : f.at = "connecting" => f \in calls'
  PROVE  Connecting'
  BY DEF Connecting

(* Calls that begin make no second creation before the transport is        *)
(* connected, as far as the application has its creations one by one.      *)
LEMMA CallsConnectOnce ==
  ASSUME AnyInv, Connecting, "ConnectAlone" \in Rule, NEW t \in Thread,
         \/ Close(t) \/ Dispose(t) \/ Release(t) \/ RestartICE(t)
         \/ \E p \in Media : CreateProducer(t, p) \/ CreateConsumer(t, p)
         \/ \E p \in Media : CloseMedium(t, p) \/ DropMedium(t, p)
  PROVE  Connecting'
<1>1. UNCHANGED <<connected, connects>>
  BY DEF Close, Dispose, Release, RestartICE, CreateProducer, CreateConsumer, CloseMedium,
    DropMedium, transportVars, connectVars
<1>2. ASSUME NEW n, calls' = calls \cup {n},
             n.op = "create" => connected \/ ~Creating
      PROVE  Connecting'
  BY <1>1, <1>2 DEF Connecting, Creating
<1>3. CASE UNCHANGED calls
  BY <1>1, <1>3, ConnectingKept
<1>4. ASSUME NEW op \in Ops, NEW at \in Places, NEW p \in Media \cup {NoMedia},
             op = "create" => connected \/ ~Creating,
             calls' = calls \cup {NewFrame(t, op, at, p)}
      PROVE  Connecting'
  BY <1>2, <1>4 DEF NewFrame
<1>5. CASE Close(t)
  BY <1>4, <1>5 DEF Close, Ops, Places
<1>6. CASE RestartICE(t)
  BY <1>4, <1>6 DEF RestartICE, BeginWaiting, Ops, Places
<1>7. ASSUME NEW p \in Media, CreateProducer(t, p) \/ CreateConsumer(t, p)
      PROVE  Connecting'
  <2>1. BeginWaiting(t, "create", p) /\ (connected \/ ~Creating)
    BY <1>7 DEF CreateProducer, CreateConsumer, Creatable
  <2> QED BY <1>4, <2>1 DEF BeginWaiting, Ops, Places
<1>8. ASSUME CanCall(t), BeginDispose(calls, NewFrame(t, "dispose", "closing", NoMedia))
      PROVE  Connecting'
  BY <1>2, <1>8, DisposeFits DEF AnyInv, Begins, Disposes
<1>9. CASE Dispose(t) \/ Release(t)
  BY <1>3, <1>8, <1>9 DEF Dispose, Release, Usable
<1>10. ASSUME NEW p \in Media, CloseMedium(t, p) \/ DropMedium(t, p)
       PROVE  Connecting'
  BY <1>3, <1>4, <1>10 DEF CloseMedium, DropMedium, Ops, Places
<1> QED BY <1>5, <1>6, <1>7, <1>9, <1>10

(* The creation that connects the transport is the only one.               *)
LEMMA CreationConnectsOnce ==
  ASSUME AnyInv, Connecting, NEW f \in calls,
         Negotiated(f) \/ OnConnectReturns(f) \/ Described(f) \/ OnProduceReturns(f)
  PROVE  Connecting'
<1>1. f.op = "create" /\ f.on \in Media
  <2>1. Located(f) /\ f.op \in Ops
    BY FrameType DEF AnyInv, TypeOK
  <2> QED
    BY <2>1 DEF Negotiated, OnConnectReturns, Described, OnProduceReturns, Located,
      Negotiations, Ops
<1>2. PICK at \in Negotiations :
        Step(f, at, f.on) /\ (Negotiated(f) /\ ~connected' => at = "connecting")
  BY DEF Negotiated, OnConnectReturns, Described, OnProduceReturns, Negotiations
<1>3. PICK g \in Frame :
        calls' = (calls \ {f}) \cup {g} /\ g.op = f.op /\ g.at = at
  BY <1>1, <1>2, StepMoves DEF AnyInv, Negotiations, Places
<1>4. ~connected => \A h \in calls' : h.op = "create" => h = g
  BY <1>1, <1>3 DEF Connecting
<1>5. CASE Negotiated(f)
  <2>1. ~connected => \A h \in calls : h.at = "connecting" => h.op = "create"
    <3>1. \A h \in calls : Located(h) /\ h.op \in Ops
      BY FrameType DEF AnyInv, TypeOK
    <3> QED BY <3>1 DEF Located, Ops
  <2>2. ~connected => connects = 0
    BY <1>1, <1>5, <2>1 DEF Negotiated, Connecting
  <2>3. CASE ~connected /\ connects' = connects + 1 /\ connected' = connected
    BY <1>2, <1>3, <1>4, <1>5, <2>2, <2>3 DEF Connecting
  <2>4. CASE connected /\ connects' = connects /\ connected' = connected
    BY <2>4 DEF Connecting
  <2> QED BY <1>5, <2>3, <2>4 DEF Negotiated
<1>6. CASE OnConnectReturns(f)
  BY <1>6 DEF OnConnectReturns, Connecting
<1>7. CASE Described(f) \/ OnProduceReturns(f)
  <2>1. UNCHANGED <<connected, connects>> /\ f.at # "connecting"
    BY <1>7 DEF Described, OnProduceReturns, transportVars, connectVars
  <2>2. (\A h \in calls' : h.at # "connecting") => \A h \in calls : h.at # "connecting"
    BY <1>3, <2>1
  <2> QED BY <1>4, <2>1, <2>2 DEF Connecting
<1> QED BY <1>5, <1>6, <1>7

(* No other step of a call in progress calls onConnect.                    *)
LEMMA FramesConnectOnce ==
  ASSUME AnyInv, Connecting, NEW f \in calls, FrameStep(f)
  PROVE  Connecting'
<1>0. /\ TypeOK /\ f \in Frame /\ Located(f)
      /\ f.op \in Ops /\ f.at \in Places /\ f.on \in Media \cup {NoMedia}
  BY FrameType DEF AnyInv, TypeOK
<1>1. CASE Negotiated(f) \/ OnConnectReturns(f) \/ Described(f) \/ OnProduceReturns(f)
  BY <1>1, CreationConnectsOnce
<1> SUFFICES ASSUME ~(Negotiated(f) \/ OnConnectReturns(f) \/ Described(f) \/ OnProduceReturns(f))
             PROVE  Connecting'
  BY <1>1
<1>2. UNCHANGED <<connected, connects>>
  BY DEF FrameStep, Created, NotCreated, RestartReturns, PcClosed, OnTransportCloseReturns,
    CloseEnds, TransportClosed, DeleteTransport, DeleteAdapter, CloseMediumReturns,
    OnConnectionStateChange, StateReturns, transportVars, connectVars
<1>3. f.at # "connecting"
  BY <1>0 DEF FrameStep, Created, NotCreated, RestartReturns, PcClosed,
      OnTransportCloseReturns, CloseEnds, TransportClosed, DeleteTransport, DeleteAdapter,
    CloseMediumReturns, OnConnectionStateChange, StateReturns, Located, Negotiations, Ops
<1>4. ASSUME calls \ {f} \subseteq calls', \A g \in calls' : g \in calls \/ g.op # "create"
      PROVE  Connecting'
  BY <1>2, <1>3, <1>4, ConnectingKept
<1>5. ASSUME NEW at \in Places, NEW p \in Media \cup {NoMedia}, Step(f, at, p), f.op # "create"
      PROVE  Connecting'
  <2>1. PICK g \in Frame : calls' = (calls \ {f}) \cup {g} /\ g.op = f.op
    BY <1>0, <1>5, StepMoves
  <2> QED BY <1>4, <1>5, <2>1
<1>6. CASE Leave(f)
  <2>1. CASE calls' = calls \ {f}
    BY <1>4, <2>1
  <2>2. ASSUME NEW g, Becomes(f, g), Disposes(g)
        PROVE  Connecting'
    BY <1>4, <2>2 DEF Becomes, Disposes
  <2> QED BY <1>0, <1>6, <2>1, <2>2, LeaveFits
<1>7. CASE Created(f) \/ NotCreated(f) \/ RestartReturns(f)
  BY <1>6, <1>7 DEF Created, NotCreated, RestartReturns
<1>8. CASE \/ PcClosed(f) \/ OnTransportCloseReturns(f) \/ OnConnectionStateChange(f)
           \/ DeleteTransport(f)
  <2>1. f.op # "create"
    BY <1>0, <1>8
    DEF PcClosed, OnTransportCloseReturns, OnConnectionStateChange, DeleteTransport, Located,
      Negotiations
  <2>2. \E at \in Places : Step(f, at, NoMedia)
    BY <1>8
    DEF PcClosed, OnTransportCloseReturns, OnConnectionStateChange, DeleteTransport, Places
  <2> QED BY <1>5, <2>1, <2>2
<1>9. CASE CloseEnds(f)
  BY <1>5, <1>6, <1>9 DEF CloseEnds, Places
<1>10. ASSUME NEW p \in Media, TransportClosed(f, p)
       PROVE  Connecting'
  <2>1. f.op # "create"
    BY <1>0, <1>10 DEF TransportClosed, Located, Negotiations
  <2>2. calls' = calls \/ Step(f, "callback", p)
    BY <1>10 DEF TransportClosed
  <2> QED BY <1>4, <1>5, <2>1, <2>2 DEF Places
<1>11. CASE DeleteAdapter(f) \/ CloseMediumReturns(f)
  BY <1>4, <1>11 DEF DeleteAdapter, CloseMediumReturns
<1>12. CASE StateReturns(f)
  <2>1. CASE calls' = calls \ {f}
    BY <1>4, <2>1
  <2>2. ASSUME NEW g \in Frame, NEW n \in Frame, calls' = (calls \ {f}) \cup {g, n},
               g.op = "state", Disposes(n)
        PROVE  Connecting'
    BY <1>4, <2>2 DEF Disposes
  <2> QED BY <1>12, <2>1, <2>2, UnwindFits
<1> QED BY <1>7, <1>8, <1>9, <1>10, <1>11, <1>12 DEF FrameStep

(* The application is asked to connect the transport at most once if it    *)
(* makes its media one by one until the first has connected it.            *)
LEMMA ConnectStep ==
  ASSUME AnyInv, Connecting, "ConnectAlone" \in Rule, [Next]_vars
  PROVE  Connecting'
<1>1. CASE UNCHANGED vars
  BY <1>1, ConnectingKept DEF vars, transportVars, connectVars
<1>2. CASE StateChange
  <2>1. UNCHANGED <<connected, connects>>
    BY <1>2 DEF StateChange, transportVars, connectVars
  <2>2. calls' = calls \/ calls' = calls \cup {NewFrame(Signal, "state", "loaded", NoMedia)}
    BY <1>2 DEF StateChange
  <2>3. \A g \in calls' : g.op = "create" => g \in calls
    BY <2>2 DEF NewFrame
  <2> QED BY <2>1, <2>2, <2>3, ConnectingKept
<1> QED BY <1>1, <1>2, CallsConnectOnce, FramesConnectOnce DEF Next
-----------------------------------------------------------------------------
(* What the media need of the application: that it leaves the transport    *)
(* open while one is being made.                                           *)
Patient == {"NoCloseWhileCreating", "NoDisposeWhileCalling"} \subseteq Rule

(* A medium is made on an open transport, and closed before a call to it   *)
(* or from it is in progress.                                              *)
OnMedium(f) ==
  /\ f.op = "create" => memory[f.on] = "none" /\ ~closed
  /\ f.op = "shut" \/ (f.op # "state" /\ f.at = "callback") => f.on \in shut
  /\ f.at = "closing" => closed

Makers ==
  /\ \A f \in calls : OnMedium(f)
  /\ \A f, g \in calls : f.op = "create" /\ g.op = "create" /\ f.on = g.on => f = g

(* From closed to the end of Close.                                        *)
Emptying ==
  /\ ~pcOpen => closed
  /\ closed /\ ~Closing => registered \subseteq shut

(* A live medium that is not closed is in the map; a closed one is in the  *)
(* map exactly if Close has told it.                                       *)
InMap ==
  /\ late = {} /\ seen \subseteq shut
  /\ \A p \in Media :
       /\ notices[p] = 1 <=> p \in registered \cap shut
       /\ memory[p] \in {"none", "failed"} => p \notin shut \cup held \cup registered
       /\ memory[p] = "live" /\ p \notin shut => p \in registered

MediaInv == AnyInv /\ Makers /\ Emptying /\ InMap

(* How each part is kept when little happens.                              *)
LEMMA MakersKept ==
  ASSUME Makers,
         \/ calls' \subseteq calls
         \/ \E n : /\ calls' \subseteq calls \cup {n}
                   /\ OnMedium(n)'
                   /\ n.op = "create" => \A g \in calls : g.op = "create" => g.on # n.on
         \/ \E f \in calls : \E g :
              Becomes(f, g) /\ OnMedium(g)' /\ g.op = f.op /\ (g.op = "create" => g.on = f.on)
         \/ \E f \in calls : \E g : Becomes(f, g) /\ OnMedium(g)' /\ g.op # "create",
         shut \subseteq shut', closed => closed',
         \A f \in calls : f \in calls' /\ f.op = "create" => ~closed' /\ memory'[f.on] = "none"
  PROVE  Makers'
<1>1. \A f \in calls : f \in calls' => OnMedium(f)'
  BY DEF Makers, OnMedium
<1>2. \A f \in calls' : OnMedium(f)'
  BY <1>1 DEF Becomes
<1>3. \A f, g \in calls' : f.op = "create" /\ g.op = "create" /\ f.on = g.on => f = g
  BY DEF Makers, Becomes
<1> QED BY <1>2, <1>3 DEF Makers

LEMMA EmptyingKept ==
  ASSUME Emptying, pcOpen' = pcOpen, closed => closed',
         \/ \E g \in calls' : InClose(g)
         \/ registered' \subseteq shut'
         \/ /\ closed' => closed
            /\ ~closed \/ registered' \ shut' \subseteq registered \ shut
            /\ \A g \in calls : InClose(g) => g \in calls'
  PROVE  Emptying'
<1>1. Closing <=> \E g \in calls : InClose(g)
  BY DEF Closing, InClose
<1>2. Closing' <=> \E g \in calls' : InClose(g)
  BY DEF Closing, InClose
<1> QED BY <1>1, <1>2 DEF Emptying

LEMMA InMapKept ==
  ASSUME AnyInv, InMap, UNCHANGED <<registered, late, seen, shut, notices>>, held' \subseteq held,
         memory' = memory \/ \E q : memory' = [memory EXCEPT ![q] = "freed"]
  PROVE  InMap'
<1>1. \A p \in Media : memory'[p] = memory[p] \/ memory'[p] = "freed"
  BY DEF AnyInv, TypeOK
<1> QED BY <1>1 DEF InMap

(* A disposal begins when no medium is being made.                         *)
LEMMA DisposalKept ==
  ASSUME MediaInv, NEW n \in calls', Disposes(n),
         \A g \in calls' :
           g.op # "create" /\ (g = n \/ g \in calls \/ (g.op = "state" /\ g.at = "unwinding")),
         \/ registered' \subseteq shut'
         \/ /\ ~closed \/ registered' \ shut' \subseteq registered \ shut
            /\ \A g \in calls : InClose(g) => g \in calls',
         shut \subseteq shut'
  PROVE  Makers' /\ Emptying'
<1>1. closed' = TRUE /\ pcOpen' = pcOpen
  BY DEF Disposes
<1>2. OnMedium(n)'
  BY <1>1 DEF Disposes, OnMedium
<1>3. \A g \in calls' : OnMedium(g)'
  BY <1>1, <1>2 DEF MediaInv, Makers, OnMedium
<1>4. ~closed => InClose(n)
  BY DEF Disposes, InClose
<1>5. closed \in BOOLEAN
  BY DEF MediaInv, AnyInv, TypeOK
<1>6. Emptying'
  BY <1>1, <1>4, <1>5, EmptyingKept DEF MediaInv
<1> QED BY <1>3, <1>6 DEF Makers

(* A call returns, or has its thread go on to dispose of the transport.    *)
LEMMA LeaveKept ==
  ASSUME MediaInv, NEW f \in calls, Leave(f), UNCHANGED shut,
         \A g \in calls \ {f} : g.op = "create" => memory'[g.on] = "none",
         \/ registered' \subseteq shut'
         \/ ~InClose(f) /\ (~closed \/ registered' \ shut' \subseteq registered \ shut)
  PROVE  Makers' /\ Emptying'
<1>0. TypeOK
  BY DEF MediaInv, AnyInv
<1>1. CASE calls' = calls \ {f} /\ UNCHANGED wrapperVars
  <2>1. UNCHANGED <<closed, pcOpen>>
    BY <1>1 DEF wrapperVars
  <2>2. \A g \in calls : g \in calls' /\ g.op = "create" => ~closed' /\ memory'[g.on] = "none"
    BY <1>1, <2>1 DEF MediaInv, Makers, OnMedium
  <2>3. Makers'
    BY <1>1, <2>1, <2>2, MakersKept DEF MediaInv
  <2>4. Emptying'
    BY <1>1, <2>1, EmptyingKept DEF MediaInv
  <2> QED BY <2>3, <2>4
<1>2. ASSUME NEW g, Becomes(f, g), Disposes(g), \A h \in calls \ {f} : h.op = "shut"
      PROVE  Makers' /\ Emptying'
  BY <1>2, DisposalKept DEF Becomes, Disposes
<1> QED BY <1>0, <1>1, <1>2, LeaveFits

(* What the application does.                                              *)
LEMMA CallsKeepMedia ==
  ASSUME MediaInv, Patient, NEW t \in Thread,
         \/ Close(t) \/ Dispose(t) \/ Release(t) \/ RestartICE(t)
         \/ \E p \in Media : CreateProducer(t, p) \/ CreateConsumer(t, p)
         \/ \E p \in Media : CloseMedium(t, p) \/ DropMedium(t, p)
  PROVE  Makers' /\ Emptying' /\ InMap'
<1>0. AnyInv /\ TypeOK /\ Makers /\ Emptying /\ InMap
  BY DEF MediaInv, AnyInv
<1>1. CASE Close(t)
  <2>0. PICK n : n = NewFrame(t, "close", "closing", NoMedia)
    OBVIOUS
  <2>1. n.op = "close" /\ n.at = "closing"
    BY <2>0 DEF NewFrame
  <2>2. /\ calls' = calls \cup {n} /\ n \in calls' /\ closed' = TRUE
        /\ UNCHANGED pcOpen /\ UNCHANGED mediaVars
    BY <1>1, <2>0 DEF Close
  <2>3. \A g \in calls : g.op # "create"
    BY <1>1 DEF Close, Patient, Creating
  <2>4. OnMedium(n)' /\ InClose(n)
    BY <2>1, <2>2 DEF OnMedium, InClose
  <2>5. Makers'
    BY <1>0, <2>1, <2>2, <2>3, <2>4, MakersKept DEF mediaVars
  <2>6. Emptying'
    BY <1>0, <2>1, <2>2, <2>4, EmptyingKept
  <2>7. InMap'
    BY <1>0, <2>2, InMapKept DEF mediaVars
  <2> QED BY <2>5, <2>6, <2>7
<1>2. ASSUME CanCall(t), BeginDispose(calls, NewFrame(t, "dispose", "closing", NoMedia)),
             \A g \in calls : g.op # "create", UNCHANGED mediaVars
      PROVE  Makers' /\ Emptying' /\ InMap'
  <2>1. PICK n : Begins(n) /\ Disposes(n)
    BY <1>0, <1>2, DisposeFits
  <2>2. Makers' /\ Emptying'
    BY <1>2, <2>1, DisposalKept DEF Begins, Disposes, mediaVars
  <2> QED BY <1>0, <1>2, <2>2, InMapKept DEF mediaVars
<1>3. CASE Dispose(t)
  BY <1>2, <1>3 DEF Dispose, Usable, Patient
<1>4. CASE Release(t)
  <2>1. UNCHANGED mediaVars /\ CanCall(t)
    BY <1>4 DEF Release
  <2>2. CASE UNCHANGED <<handle, native, adapter, heard, closed, pcOpen, calls>>
    <3>1. Makers' /\ Emptying'
      BY <1>0, <2>1, <2>2, EmptyingKept DEF Makers, OnMedium, mediaVars
    <3> QED BY <1>0, <2>1, <3>1, InMapKept DEF mediaVars
  <2> QED BY <1>2, <1>4, <2>1, <2>2 DEF Release
<1>5. ASSUME NEW op \in {"create", "restart"}, NEW p \in Media \cup {NoMedia},
             BeginWaiting(t, op, p), ~closed,
             op = "create" => memory[p] = "none" /\ \A f \in calls : f.on # p
      PROVE  Makers' /\ Emptying' /\ InMap'
  <2>0. PICK n : n = NewFrame(t, op, "negotiating", p)
    OBVIOUS
  <2>1. n.op = op /\ n.at = "negotiating" /\ n.on = p
    BY <2>0 DEF NewFrame
  <2>2. calls' = calls \cup {n} /\ UNCHANGED <<closed, pcOpen>> /\ UNCHANGED mediaVars
    BY <1>5, <2>0 DEF BeginWaiting, wrapperVars
  <2>3. OnMedium(n)'
    BY <1>5, <2>1, <2>2 DEF OnMedium, mediaVars
  <2>4. \A f \in calls : f.op = "create" => ~closed /\ memory[f.on] = "none"
    BY <1>0 DEF Makers, OnMedium
  <2>5. Makers'
    BY <1>0, <1>5, <2>1, <2>2, <2>3, <2>4, MakersKept DEF mediaVars
  <2>6. Emptying'
    BY <1>0, <2>2, EmptyingKept DEF mediaVars
  <2> QED BY <1>0, <2>2, <2>5, <2>6, InMapKept DEF mediaVars
<1>6. CASE RestartICE(t) \/ \E p \in Media : CreateProducer(t, p) \/ CreateConsumer(t, p)
  BY <1>5, <1>6 DEF RestartICE, CreateProducer, CreateConsumer, Creatable
<1>7. ASSUME NEW p \in Media, CloseMedium(t, p)
      PROVE  Makers' /\ Emptying' /\ InMap'
  <2>1. p \in held \ shut /\ UNCHANGED <<closed, pcOpen, memory, late, seen, held, notices>>
    BY <1>7 DEF CloseMedium, transportVars, wrapperVars
  <2>2. CASE UNCHANGED <<registered, shut, calls>>
    <3>1. Makers' /\ Emptying'
      BY <1>0, <2>1, <2>2, EmptyingKept DEF Makers, OnMedium
    <3> QED BY <1>0, <2>1, <2>2, <3>1, InMapKept
  <2>3. CASE /\ shut' = shut \cup {p} /\ registered' = registered \ {p}
             /\ calls' = IF closed THEN calls
                         ELSE calls \cup {NewFrame(t, "shut", "negotiating", p)}
    <3>0. PICK n : n = NewFrame(t, "shut", "negotiating", p)
      OBVIOUS
    <3>1. /\ n.op = "shut" /\ n.at = "negotiating" /\ n.on = p
          /\ calls \subseteq calls' /\ calls' \subseteq calls \cup {n}
      BY <2>3, <3>0 DEF NewFrame
    <3>2. OnMedium(n)'
      BY <2>3, <3>1 DEF OnMedium
    <3>3. \A f \in calls : f.op = "create" => ~closed /\ memory[f.on] = "none"
      BY <1>0 DEF Makers, OnMedium
    <3>4. Makers'
      BY <1>0, <2>1, <2>3, <3>1, <3>2, <3>3, MakersKept
    <3>5. Emptying'
      BY <1>0, <2>1, <2>3, <3>1, EmptyingKept
    <3>6. InMap'
      BY <1>0, <2>1, <2>3 DEF InMap
    <3> QED BY <3>4, <3>5, <3>6
  <2> QED BY <1>7, <2>2, <2>3 DEF CloseMedium
<1>8. ASSUME NEW p \in Media, DropMedium(t, p)
      PROVE  Makers' /\ Emptying' /\ InMap'
  <2>1. /\ p \in held /\ UNCHANGED <<closed, pcOpen, calls, registered, late, seen, shut, notices>>
        /\ held' \subseteq held /\ (memory' = memory \/ memory' = [memory EXCEPT ![p] = "freed"])
    BY <1>8 DEF DropMedium, transportVars, wrapperVars
  <2>2. \A f \in calls : f.op = "create" =>
          ~closed /\ memory[f.on] = "none" /\ f.on \in Media
    BY <1>0 DEF Makers, OnMedium, AnyInv, Located
  <2>3. \A f \in calls : f.op = "create" => memory'[f.on] = "none"
    <3>1. memory[p] # "none"
      BY <1>0, <2>1 DEF InMap
    <3> QED BY <1>0, <2>1, <2>2, <3>1 DEF TypeOK
  <2>4. Makers'
    BY <1>0, <2>1, <2>2, <2>3, MakersKept
  <2>5. Emptying'
    BY <1>0, <2>1, EmptyingKept
  <2> QED BY <1>0, <2>1, <2>4, <2>5, InMapKept
<1> QED BY <1>1, <1>3, <1>4, <1>6, <1>7, <1>8

(* A creation goes on, or returns, with a medium or without.               *)
LEMMA CreationKeepsMedia ==
  ASSUME MediaInv, NEW f \in calls,
         \/ Negotiated(f) \/ OnConnectReturns(f) \/ Described(f) \/ OnProduceReturns(f)
         \/ Created(f) \/ NotCreated(f)
  PROVE  Makers' /\ Emptying' /\ InMap'
<1>0. /\ AnyInv /\ TypeOK /\ Makers /\ Emptying /\ InMap
      /\ \A g \in calls : g.op = "create" => ~closed /\ memory[g.on] = "none" /\ g.on \in Media
  BY DEF MediaInv, AnyInv, Makers, OnMedium, Located
<1>1. f.op = "create" /\ f.on \in Media /\ ~closed /\ memory[f.on] = "none" /\ pcOpen
  <2>1. Located(f) /\ f.op \in Ops
    BY <1>0, FrameType DEF AnyInv, TypeOK
  <2>2. f.op = "create"
    BY <2>1 DEF Negotiated, OnConnectReturns, Described, OnProduceReturns, Created, NotCreated,
      Located, Negotiations, Ops
  <2> QED BY <1>0, <2>2 DEF Emptying
<1>2. CASE Negotiated(f) \/ OnConnectReturns(f) \/ Described(f) \/ OnProduceReturns(f)
  <2>1. UNCHANGED <<closed, pcOpen>> /\ UNCHANGED mediaVars
    BY <1>2 DEF Negotiated, OnConnectReturns, Described, OnProduceReturns, transportVars,
      wrapperVars
  <2>2. \E at \in Negotiations : Step(f, at, f.on)
    BY <1>2 DEF Negotiated, OnConnectReturns, Described, OnProduceReturns, Negotiations
  <2>3. PICK g \in Frame :
          /\ calls' = (calls \ {f}) \cup {g} /\ g.thread = f.thread /\ g.level = f.level
          /\ g.op = f.op /\ g.at \in Negotiations /\ g.on = f.on
    BY <1>0, <1>1, <2>2, StepMoves DEF Negotiations, Places
  <2>4. OnMedium(g)' /\ Becomes(f, g)
    BY <1>1, <2>1, <2>3 DEF OnMedium, Negotiations, Becomes, mediaVars
  <2>5. Makers'
    BY <1>0, <1>1, <2>1, <2>3, <2>4, MakersKept DEF mediaVars
  <2>6. ~InClose(f)
    BY <1>2 DEF Negotiated, OnConnectReturns, Described, OnProduceReturns, InClose
  <2>7. Emptying'
    BY <1>0, <1>1, <2>1, <2>3, <2>6, EmptyingKept
  <2> QED BY <1>0, <2>1, <2>5, <2>7, InMapKept DEF mediaVars
<1>3. CASE Created(f) \/ NotCreated(f)
  <2>1. /\ Leave(f) /\ UNCHANGED <<seen, shut, notices>>
        /\ \/ /\ memory' = [memory EXCEPT ![f.on] = "live"]
              /\ registered' = registered \cup {f.on} /\ held' = held \cup {f.on} /\ late' = late
           \/ memory' = [memory EXCEPT ![f.on] = "failed"] /\ UNCHANGED <<registered, held, late>>
    BY <1>1, <1>3 DEF Created, NotCreated
  <2>2. \A g \in calls \ {f} : g.op = "create" => g.on # f.on
    BY <1>0, <1>1 DEF Makers
  <2>3. \A q \in Media \ {f.on} : memory'[q] = memory[q]
    BY <1>0, <2>1 DEF TypeOK
  <2>4. \A g \in calls \ {f} : g.op = "create" => memory'[g.on] = "none"
    BY <1>0, <2>2, <2>3
  <2>5. ~InClose(f)
    BY <1>1, <1>3 DEF Created, NotCreated, InClose
  <2>6. Makers' /\ Emptying'
    BY <1>1, <2>1, <2>4, <2>5, LeaveKept
  <2>7. f.on \notin shut \cup held \cup registered
    BY <1>0, <1>1 DEF InMap
  <2>8. \/ /\ memory'[f.on] = "live"
           /\ registered' = registered \cup {f.on} /\ held' = held \cup {f.on}
        \/ memory'[f.on] = "failed" /\ registered' = registered /\ held' = held
    BY <1>0, <1>1, <2>1 DEF TypeOK
  <2>9. InMap'
    BY <1>0, <2>1, <2>3, <2>7, <2>8 DEF InMap
  <2> QED BY <2>6, <2>9
<1> QED BY <1>2, <1>3

(* The steps of Close and of dispose.                                      *)
LEMMA ClosingKeepsMedia ==
  ASSUME MediaInv, NEW f \in calls,
         \/ PcClosed(f) \/ OnTransportCloseReturns(f) \/ CloseEnds(f)
         \/ DeleteTransport(f) \/ DeleteAdapter(f)
         \/ \E p \in Media : TransportClosed(f, p)
  PROVE  Makers' /\ Emptying' /\ InMap'
<1>0. /\ AnyInv /\ TypeOK /\ Makers /\ Emptying /\ InMap /\ OnMedium(f)
      /\ \A g \in calls : g.op = "create" => ~closed /\ memory[g.on] = "none" /\ g.on \in Media
  BY DEF MediaInv, AnyInv, Makers, OnMedium, Located
<1>1. f.op \in {"close", "dispose"}
  <2>1. Located(f) /\ f.op \in Ops
    BY <1>0, FrameType DEF AnyInv, TypeOK
  <2> QED
    BY <2>1 DEF PcClosed, OnTransportCloseReturns, CloseEnds, DeleteTransport, DeleteAdapter,
      TransportClosed, Located, Negotiations, Ops
<1>2. ASSUME NEW at \in Places, at # "closing", NEW p \in Media \cup {NoMedia}, Step(f, at, p),
             at = "callback" => p \in shut', UNCHANGED <<closed, pcOpen>>, shut \subseteq shut',
             \A g \in calls : g.op = "create" => memory'[g.on] = "none",
             registered' \subseteq registered,
             at \in {"notify", "callback"} \/ registered' \subseteq shut' \/ ~InClose(f)
      PROVE  Makers' /\ Emptying'
  <2>1. PICK g \in Frame :
          /\ calls' = (calls \ {f}) \cup {g} /\ g.thread = f.thread /\ g.level = f.level
          /\ g.op = f.op /\ g.at = at /\ g.on = p
    BY <1>0, <1>2, StepMoves
  <2>2. OnMedium(g)' /\ Becomes(f, g)
    BY <1>1, <1>2, <2>1 DEF OnMedium, Becomes
  <2>3. Makers'
    BY <1>0, <1>1, <1>2, <2>1, <2>2, MakersKept
  <2>4. at \in {"notify", "callback"} => InClose(g)
    BY <1>1, <2>1 DEF InClose
  <2>5. Emptying'
    BY <1>0, <1>2, <2>1, <2>4, EmptyingKept
  <2> QED BY <2>3, <2>5
<1>3. CASE PcClosed(f)
  <2>1. Step(f, "notify", NoMedia) /\ UNCHANGED closed /\ UNCHANGED mediaVars /\ closed
    BY <1>0, <1>3 DEF PcClosed, OnMedium
  <2>2. PICK g \in Frame :
          /\ calls' = (calls \ {f}) \cup {g} /\ g.thread = f.thread /\ g.level = f.level
          /\ g.op = f.op /\ g.at = "notify" /\ g.on = NoMedia
    BY <1>0, <2>1, StepMoves DEF Places
  <2>3. OnMedium(g)' /\ Becomes(f, g) /\ g \in calls'
    BY <1>1, <2>2 DEF OnMedium, Becomes
  <2>4. Makers'
    BY <1>0, <1>1, <2>1, <2>2, <2>3, MakersKept DEF mediaVars
  <2>5. Emptying'
    BY <2>1, <2>2, <2>3 DEF Emptying, Closing
  <2> QED BY <1>0, <2>1, <2>4, <2>5, InMapKept DEF mediaVars
<1>4. CASE OnTransportCloseReturns(f)
  <2>1. /\ Step(f, "notify", NoMedia) /\ UNCHANGED <<closed, pcOpen>>
        /\ UNCHANGED <<registered, late, seen, shut, held, notices>>
        /\ memory' = memory \/ memory' = [memory EXCEPT ![f.on] = "freed"]
    BY <1>4 DEF OnTransportCloseReturns, Unpin, transportVars, wrapperVars
  <2>2. \A g \in calls : g.op = "create" => g.on # f.on
    <3>1. f.on \in shut
      BY <1>0, <1>4 DEF OnTransportCloseReturns, OnMedium
    <3> QED BY <1>0, <3>1 DEF InMap
  <2>3. \A g \in calls : g.op = "create" => memory'[g.on] = "none"
    BY <1>0, <2>1, <2>2 DEF TypeOK
  <2>4. Makers' /\ Emptying'
    BY <1>2, <2>1, <2>3 DEF Places
  <2> QED BY <1>0, <2>1, <2>4, InMapKept
<1>5. CASE CloseEnds(f)
  <2>1. registered \subseteq shut /\ UNCHANGED mediaVars
    BY <1>0, <1>5 DEF CloseEnds, InMap
  <2>2. CASE Leave(f)
    <3>1. Makers' /\ Emptying'
      BY <1>0, <2>1, <2>2, LeaveKept DEF mediaVars
    <3> QED BY <1>0, <2>1, <3>1, InMapKept DEF mediaVars
  <2>3. CASE Step(f, "delete", NoMedia) /\ UNCHANGED wrapperVars
    <3>1. Makers' /\ Emptying'
      BY <1>0, <1>2, <2>1, <2>3 DEF Places, mediaVars, wrapperVars
    <3> QED BY <1>0, <2>1, <3>1, InMapKept DEF mediaVars
  <2> QED BY <1>5, <2>2, <2>3 DEF CloseEnds
<1>6. CASE DeleteTransport(f)
  <2>1. Step(f, "adapter", NoMedia) /\ UNCHANGED <<closed, pcOpen>> /\ UNCHANGED mediaVars
        /\ ~InClose(f)
    BY <1>6 DEF DeleteTransport, InClose
  <2>2. Makers' /\ Emptying'
    BY <1>0, <1>2, <2>1 DEF Places, mediaVars
  <2> QED BY <1>0, <2>1, <2>2, InMapKept DEF mediaVars
<1>7. CASE DeleteAdapter(f)
  <2>1. calls' = calls \ {f} /\ UNCHANGED <<closed, pcOpen>> /\ UNCHANGED mediaVars /\ ~InClose(f)
    BY <1>7 DEF DeleteAdapter, InClose
  <2>2. Makers'
    BY <1>0, <2>1, MakersKept DEF mediaVars
  <2>3. Emptying'
    BY <1>0, <2>1, EmptyingKept DEF mediaVars
  <2> QED BY <1>0, <2>1, <2>2, <2>3, InMapKept DEF mediaVars
<1>8. ASSUME NEW p \in Media, TransportClosed(f, p)
      PROVE  Makers' /\ Emptying' /\ InMap'
  <2>1. p \in registered /\ UNCHANGED <<closed, pcOpen, memory, registered, late, held>>
    BY <1>8 DEF TransportClosed, transportVars, wrapperVars, mediaVars
  <2>2. CASE /\ UNCHANGED <<calls, shut, notices>>
             /\ seen' = seen \/ (p \in shut /\ seen' = seen \cup {p})
    <3>1. Makers' /\ Emptying'
      BY <1>0, <2>1, <2>2, EmptyingKept DEF Makers, OnMedium
    <3>2. InMap'
      BY <1>0, <2>1, <2>2 DEF InMap
    <3> QED BY <3>1, <3>2
  <2>3. CASE /\ seen' = seen \cup {p} /\ shut' = shut \cup {p} /\ p \notin shut
             /\ notices' = [notices EXCEPT ![p] = @ + 1] /\ Step(f, "callback", p)
    <3>1. Makers' /\ Emptying'
      BY <1>0, <1>2, <2>1, <2>3 DEF Places
    <3>2. notices[p] \in 0..1 /\ notices[p] # 1
      BY <1>0, <2>3 DEF InMap, TypeOK
    <3>3. notices'[p] = 1 /\ \A q \in Media \ {p} : notices'[q] = notices[q]
      BY <1>0, <2>3, <3>2 DEF TypeOK
    <3>4. memory[p] \notin {"none", "failed"}
      BY <1>0, <2>1 DEF InMap
    <3>5. InMap'
      BY <1>0, <2>1, <2>3, <3>3, <3>4 DEF InMap
    <3> QED BY <3>1, <3>5
  <2> QED BY <1>8, <2>2, <2>3 DEF TransportClosed, mediaVars
<1> QED BY <1>3, <1>4, <1>5, <1>6, <1>7, <1>8

(* The other steps.                                                        *)
LEMMA OthersKeepMedia ==
  ASSUME MediaInv,
         \/ StateChange
         \/ \E f \in calls : \/ RestartReturns(f) \/ CloseMediumReturns(f)
                             \/ OnConnectionStateChange(f) \/ StateReturns(f)
  PROVE  Makers' /\ Emptying' /\ InMap'
<1>0. /\ AnyInv /\ TypeOK /\ Makers /\ Emptying /\ InMap
      /\ \A g \in calls : g.op = "create" => ~closed /\ memory[g.on] = "none" /\ g.on \in Media
  BY DEF MediaInv, AnyInv, Makers, OnMedium, Located
<1>1. CASE StateChange
  <2>0. PICK n : n = NewFrame(Signal, "state", "loaded", NoMedia)
    OBVIOUS
  <2>1. n.op = "state" /\ n.at = "loaded"
    BY <2>0 DEF NewFrame
  <2>2. /\ calls \subseteq calls' /\ calls' \subseteq calls \cup {n}
        /\ UNCHANGED <<closed, pcOpen>> /\ UNCHANGED mediaVars
    BY <1>1, <2>0 DEF StateChange, transportVars, wrapperVars
  <2>3. OnMedium(n)'
    BY <2>1 DEF OnMedium
  <2>4. Makers'
    BY <1>0, <2>1, <2>2, <2>3, MakersKept DEF mediaVars
  <2>5. Emptying'
    BY <1>0, <2>2, EmptyingKept DEF mediaVars
  <2> QED BY <1>0, <2>2, <2>4, <2>5, InMapKept DEF mediaVars
<1>2. ASSUME NEW f \in calls, RestartReturns(f)
      PROVE  Makers' /\ Emptying' /\ InMap'
  <2>1. Leave(f) /\ UNCHANGED mediaVars /\ f.at = "negotiating"
    BY <1>0, <1>2 DEF RestartReturns, AnyInv, Located
  <2>2. Makers' /\ Emptying'
    BY <1>0, <2>1, LeaveKept DEF mediaVars, InClose
  <2> QED BY <1>0, <2>1, <2>2, InMapKept DEF mediaVars
<1>3. ASSUME NEW f \in calls, CloseMediumReturns(f)
      PROVE  Makers' /\ Emptying' /\ InMap'
  <2>1. /\ f.op = "shut" /\ f.at = "negotiating" /\ f.on \in shut
        /\ UNCHANGED <<closed, pcOpen, registered, late, seen, shut, held, notices>>
        /\ calls' = calls \/ calls' = calls \ {f}
        /\ memory' = memory \/ memory' = [memory EXCEPT ![f.on] = "freed"]
    BY <1>0, <1>3
    DEF CloseMediumReturns, Unpin, AnyInv, Located, Makers, OnMedium, transportVars, wrapperVars
  <2>2. \A g \in calls : g.op = "create" => g.on # f.on
    BY <1>0, <2>1 DEF InMap
  <2>3. \A g \in calls : g.op = "create" => memory'[g.on] = "none"
    BY <1>0, <2>1, <2>2 DEF TypeOK
  <2>4. Makers'
    BY <1>0, <2>1, <2>3, MakersKept
  <2>5. Emptying'
    BY <1>0, <2>1, EmptyingKept DEF InClose
  <2> QED BY <1>0, <2>1, <2>4, <2>5, InMapKept
<1>4. ASSUME NEW f \in calls, OnConnectionStateChange(f)
      PROVE  Makers' /\ Emptying' /\ InMap'
  <2>1. /\ f.op = "state" /\ f.at = "loaded" /\ Step(f, "callback", NoMedia)
        /\ UNCHANGED <<closed, pcOpen>> /\ UNCHANGED mediaVars
    <3>1. Located(f) /\ f.op \in Ops
      BY <1>0, FrameType DEF AnyInv, TypeOK
    <3> QED BY <1>4, <3>1
        DEF OnConnectionStateChange, Located, Negotiations, Ops, transportVars, wrapperVars
  <2>2. PICK g \in Frame :
          /\ calls' = (calls \ {f}) \cup {g} /\ g.thread = f.thread /\ g.level = f.level
          /\ g.op = f.op /\ g.at = "callback"
    BY <1>0, <2>1, StepMoves DEF Places
  <2>3. OnMedium(g)' /\ Becomes(f, g)
    BY <2>1, <2>2 DEF OnMedium, Becomes
  <2>4. Makers'
    BY <1>0, <2>1, <2>2, <2>3, MakersKept DEF mediaVars
  <2>5. Emptying'
    BY <1>0, <2>1, <2>2, EmptyingKept DEF mediaVars, InClose
  <2> QED BY <1>0, <2>1, <2>4, <2>5, InMapKept DEF mediaVars
<1>5. ASSUME NEW f \in calls, StateReturns(f)
      PROVE  Makers' /\ Emptying' /\ InMap'
  <2>1. f.op = "state" /\ UNCHANGED mediaVars /\ ~InClose(f)
    BY <1>5 DEF StateReturns, InClose
  <2>2. ASSUME calls' = calls \ {f}, UNCHANGED wrapperVars
        PROVE  Makers' /\ Emptying'
    <3>1. UNCHANGED <<closed, pcOpen, memory, registered, shut>>
      BY <2>1, <2>2 DEF mediaVars, wrapperVars
    <3>2. Makers'
      BY <1>0, <2>2, <3>1, MakersKept
    <3>3. Emptying'
      BY <1>0, <2>1, <2>2, <3>1, EmptyingKept
    <3> QED BY <3>2, <3>3
  <2>3. ASSUME NEW g \in Frame, NEW n \in Frame, calls' = (calls \ {f}) \cup {g, n},
               g.op = "state", g.at = "unwinding", Disposes(n), \A h \in calls \ {f} : h.op = "shut"
        PROVE  Makers' /\ Emptying'
    <3>1. n.op = "dispose"
      BY <2>3 DEF Disposes
    <3> QED BY <2>1, <2>3, <3>1, DisposalKept DEF mediaVars
  <2>4. Makers' /\ Emptying'
    BY <1>0, <1>5, <2>2, <2>3, UnwindFits
  <2> QED BY <1>0, <2>1, <2>4, InMapKept DEF mediaVars
<1> QED BY <1>1, <1>2, <1>3, <1>4, <1>5

(* Every step keeps the media where they belong.                           *)
LEMMA MediaStep ==
  ASSUME MediaInv, Patient, [Next]_vars
  PROVE  MediaInv'
<1>1. AnyInv'
  BY AnyStep DEF MediaInv
<1>2. CASE UNCHANGED vars
  <2>1. UNCHANGED <<closed, pcOpen, calls, memory, registered, late, seen, shut, held, notices>>
    BY <1>2 DEF vars, transportVars, wrapperVars, mediaVars
  <2> QED BY <1>1, <2>1 DEF MediaInv, Makers, OnMedium, Emptying, Closing, InMap
<1>3. ASSUME NEW f \in calls, FrameStep(f)
      PROVE  Makers' /\ Emptying' /\ InMap'
  BY <1>3, CreationKeepsMedia, ClosingKeepsMedia, OthersKeepMedia DEF FrameStep
<1>4. CASE StateChange
  BY <1>1, <1>4, OthersKeepMedia DEF MediaInv
<1> QED BY <1>1, <1>2, <1>3, <1>4, CallsKeepMedia DEF Next, MediaInv

-----------------------------------------------------------------------------
(* Where a call can be, and what it may rely on there: a medium is made    *)
(* or closed only while the transport is open, a transport is disposed of  *)
(* only off the signaling thread, and states are reported only on it.      *)
FrameOK(f) ==
  /\ f.op = "create" =>
       /\ f.at \in Negotiations /\ f.on \in Media
       /\ ~closed /\ memory[f.on] = "none"
  /\ f.op = "restart" => f.at = "negotiating"
  /\ f.op = "shut" => f.at = "negotiating" /\ f.on \in shut /\ ~closed
  /\ f.op = "close" => f.at \in {"closing", "notify", "callback"}
  /\ f.op = "dispose" =>
       /\ f.at \in {"closing", "notify", "callback", "delete", "adapter"}
       /\ f.thread # Signal
  /\ f.op = "state" =>
       f.at \in {"loaded", "callback", "unwinding"} /\ f.thread = Signal
  /\ f.at = "closing" => closed
  /\ f.at \in {"notify", "delete", "adapter"} => ~pcOpen
  /\ f.at = "adapter" => handle = "null"
  /\ f.op # "state" /\ f.at = "callback" => ~pcOpen /\ f.on \in shut

Placed == \A f \in calls : FrameOK(f)

(* A medium has one maker, and the transport is disposed of once.          *)
Pairs ==
  \A f, g \in calls :
    (\/ f.op = "create" /\ g.op = "create" /\ f.on = g.on
     \/ f.op = "dispose" /\ g.op = "dispose") => f = g

(* The life of the transport: from closed to the end of Close, and from    *)
(* the beginning of dispose to the end of the transport.                   *)
Life ==
  /\ ~pcOpen => closed
  /\ closed /\ pcOpen => \E f \in calls : f.at = "closing"
  /\ closed /\ ~Closing => registered \subseteq shut
  /\ native = "freed" <=> handle = "null"
  /\ adapter = "freed" => handle = "null"
  /\ Disposing \/ handle = "null" =>
       closed /\ ~heard /\ \A f \in calls : f.op \in {"dispose", "state"}
  /\ handle = "null" =>
       ~pcOpen /\ \A f \in calls : f.op = "dispose" /\ f.at = "adapter"
  /\ ~owned => handle = "null" \/ Disposing

(* A medium that is not closed is held by the application, live and in the *)
(* map; a closed one is in the map exactly if Close has told it.           *)
Objects ==
  /\ late = {} /\ seen \subseteq shut
  /\ \A p \in Media :
       /\ notices[p] = 1 <=> p \in registered \cap shut
       /\ p \in registered \cap shut => p \in seen
       /\ memory[p] \in {"none", "failed"} => p \notin shut \cup held \cup registered
       /\ p \notin shut => (memory[p] = "live" <=> p \in held) /\ (p \in held <=> p \in registered)
       /\ p \in held => memory[p] = "live"

Inv == TypeOK /\ Placed /\ Pairs /\ Life /\ Objects /\ ub = "none"

(* When a call or callback returns, the wrapper stays: whoever let the     *)
(* transport go has disposed of it, or is doing so.                        *)
LEMMA LeaveRemoves ==
  ASSUME Inv, NEW f \in calls, f.op # "dispose", Leave(f)
  PROVE  calls' = calls \ {f} /\ UNCHANGED wrapperVars
<1>1. handle = "live" => owned \/ Disposing
  BY DEF Inv, Life, TypeOK
<1>2. Disposing => Retained(calls \ {f})
  BY DEF Disposing, Retained
<1>3. owned => Retained(calls \ {f})
  BY DEF Retained
<1> QED BY <1>1, <1>2, <1>3 DEF Leave
-----------------------------------------------------------------------------
(* How each part of the invariant is kept when little happens.  The frames *)
(* stay in place while closed, pcOpen and handle only go one way and no    *)
(* creation loses its slot.                                                *)
LEMMA PlacedKept ==
  ASSUME Placed,
         \A g \in calls' : g \in calls \/ FrameOK(g)',
         shut \subseteq shut', pcOpen' => pcOpen, closed => closed',
         handle = "null" => handle' = "null",
         \A f \in calls : f \in calls' /\ f.op \in {"create", "shut"} => ~closed',
         \A f \in calls : f \in calls' /\ f.op = "create" => memory'[f.on] = "none"
  PROVE  Placed'
<1> SUFFICES ASSUME NEW f \in calls, f \in calls'
             PROVE  FrameOK(f)'
  BY DEF Placed
<1>1. FrameOK(f)
  BY DEF Placed
<1> QED BY <1>1 DEF FrameOK

(* No frame that begins is a second maker or a second disposal.            *)
LEMMA PairsAdd ==
  ASSUME Pairs, NEW n, calls' \subseteq calls \cup {n},
         n.op = "create" => \A f \in calls : f.op = "create" => f.on # n.on,
         n.op = "dispose" => ~Disposing
  PROVE  Pairs'
  BY DEF Pairs, Disposing

(* Nor does a frame that goes on become one.                               *)
LEMMA PairsMove ==
  ASSUME Pairs, NEW f \in calls, NEW g, calls' = (calls \ {f}) \cup {g},
         g.op = f.op, g.op = "create" => g.on = f.on
  PROVE  Pairs'
  BY DEF Pairs

(* What may have happened to the map meanwhile.                            *)
MapKept == ~closed \/ registered' \ shut' \subseteq registered \ shut

(* A call begins, while the transport is not being disposed of.            *)
LEMMA LifeAdd ==
  ASSUME Life, TypeOK, UNCHANGED wrapperVars, MapKept,
         NEW n, calls' = calls \cup {n}, n.op # "dispose",
         handle = "live", ~Disposing
  PROVE  Life'
<1>1. ~Disposing'
  BY DEF Disposing
<1>2. Closing => Closing'
  BY DEF Closing
<1>3. closed /\ ~Closing' => registered' \subseteq shut'
  BY <1>2 DEF Life, MapKept
<1> QED BY <1>1, <1>3 DEF Life, wrapperVars

(* A call goes on, and is closing after the step if it was before.         *)
LEMMA LifeMove ==
  ASSUME Life, TypeOK, UNCHANGED wrapperVars, MapKept,
         NEW f \in calls, NEW g, calls' = (calls \ {f}) \cup {g}, g.op = f.op,
         InClose(f) <=> InClose(g), f.at \notin {"closing", "adapter"}
  PROVE  Life'
<1>1. handle = "live"
  BY DEF Life, TypeOK
<1>2. Disposing <=> Disposing'
  BY DEF Disposing
<1>3. Closing <=> Closing'
  <2>1. Closing <=> \E h \in calls : InClose(h)
    BY DEF Closing, InClose
  <2>2. Closing' <=> \E h \in calls' : InClose(h)
    BY DEF Closing, InClose
  <2> QED BY <2>1, <2>2
<1>4. closed /\ ~Closing' => registered' \subseteq shut'
  BY <1>3 DEF Life, MapKept
<1>5. closed /\ pcOpen => \E h \in calls' : h.at = "closing"
  BY DEF Life
<1>6. Disposing' => \A h \in calls' : h.op \in {"dispose", "state"}
  BY <1>2 DEF Life
<1> QED BY <1>1, <1>2, <1>4, <1>5, <1>6 DEF Life, wrapperVars

(* A call returns that was not closing anything.                           *)
LEMMA LifeRemove ==
  ASSUME Life, TypeOK, UNCHANGED wrapperVars, MapKept,
         NEW f \in calls, calls' = calls \ {f}, f.op # "dispose", ~InClose(f)
  PROVE  Life'
<1>1. Disposing <=> Disposing'
  BY DEF Disposing
<1>2. Closing <=> Closing'
  <2>1. Closing <=> \E h \in calls : InClose(h)
    BY DEF Closing, InClose
  <2>2. Closing' <=> \E h \in calls' : InClose(h)
    BY DEF Closing, InClose
  <2> QED BY <2>1, <2>2
<1>3. closed /\ ~Closing' => registered' \subseteq shut'
  BY <1>2 DEF Life, MapKept
<1>4. closed /\ pcOpen => \E h \in calls' : h.at = "closing"
  BY DEF Life, InClose
<1>5. \A h \in calls' : h \in calls
  OBVIOUS
<1> QED BY <1>1, <1>3, <1>4, <1>5 DEF Life, wrapperVars

-----------------------------------------------------------------------------
(* It holds initially.                                                     *)
LEMMA InvInit ==
  ASSUME Init
  PROVE  Inv
<1>1. TypeOK
  BY AnyInit DEF AnyInv
<1>2. Placed /\ Pairs
  BY DEF Init, Placed, Pairs
<1>3. Life
  BY DEF Init, Life, Disposing
<1>4. Objects
  BY DEF Init, Objects
<1> QED BY <1>1, <1>2, <1>3, <1>4 DEF Inv, Init

(* The steps.  That one keeps the types is shown above, and assumed here.  *)
(* A creation or a restart of ICE begins.                                  *)
LEMMA BeginWaitingStep ==
  ASSUME Inv, TypeOK', NEW t \in Thread, NEW op \in {"create", "restart"},
         NEW p \in Media \cup {NoMedia}, BeginWaiting(t, op, p), ~closed,
         op = "create" => p \in Media /\ memory[p] = "none" /\ \A f \in calls : f.on # p
  PROVE  Inv'
<1>0. /\ CanCall(t) /\ handle = "live" /\ ~Disposing
      /\ calls' = calls \cup {NewFrame(t, op, "negotiating", p)}
      /\ UNCHANGED <<wrapperVars, mediaVars, ub>>
  BY DEF BeginWaiting, Usable
<1>1. PICK n \in Frame :
        /\ n = NewFrame(t, op, "negotiating", p)
        /\ n.thread = t /\ n.op = op /\ n.at = "negotiating" /\ n.on = p
        /\ \A g \in calls : g.thread = t => g.level # n.level
  BY <1>0, NewFrameFits DEF Inv, Ops, Places
<1>2. /\ handle = "live" /\ ~Disposing /\ calls' = calls \cup {n}
      /\ UNCHANGED <<wrapperVars, mediaVars, ub>>
  BY <1>0, <1>1
<1>3. Placed'
  <2>1. FrameOK(n)'
    BY <1>2, <1>1 DEF FrameOK, Negotiations, wrapperVars, mediaVars
  <2>2. \A f \in calls : f.op = "create" => memory[f.on] = "none"
    BY DEF Inv, Placed, FrameOK
  <2> QED BY <1>2, <2>1, <2>2, PlacedKept DEF Inv, wrapperVars, mediaVars
<1>4. Pairs'
  BY <1>2, <1>1, PairsAdd DEF Inv
<1>5. Life'
  BY <1>2, <1>1, LifeAdd DEF Inv, MapKept
<1>6. Objects'
  BY <1>2 DEF Inv, Objects, mediaVars
<1> QED BY <1>2, <1>3, <1>4, <1>5, <1>6 DEF Inv

(* A creation goes on; the first one calls onConnect on its way.           *)
LEMMA CreationStep ==
  ASSUME Inv, TypeOK', NEW f \in calls,
         Negotiated(f) \/ OnConnectReturns(f) \/ Described(f) \/ OnProduceReturns(f)
  PROVE  Inv'
<1>1. f.op = "create" /\ f.at \in Negotiations /\ f.on \in Media
  <2>1. FrameOK(f) /\ f.op \in Ops
    BY FrameType DEF Inv, Placed, TypeOK
  <2> QED
    BY <2>1 DEF Negotiated, OnConnectReturns, Described, OnProduceReturns, FrameOK,
      Negotiations, Ops
<1>2. \E at \in Negotiations : Step(f, at, f.on)
  BY DEF Negotiated, OnConnectReturns, Described, OnProduceReturns, Negotiations
<1>3. UNCHANGED <<wrapperVars, mediaVars, ub>>
  BY DEF Negotiated, OnConnectReturns, Described, OnProduceReturns, transportVars, connectVars
<1>4. PICK g \in Frame :
        /\ calls' = (calls \ {f}) \cup {g}
        /\ g.thread = f.thread /\ g.level = f.level /\ g.op = f.op
        /\ g.at \in Negotiations /\ g.on = f.on
  BY <1>1, <1>2, StepMoves DEF Inv, Negotiations, Places
<1>5. Placed'
  <2>1. FrameOK(f)
    BY DEF Inv, Placed
  <2>2. FrameOK(g)'
    BY <1>1, <1>3, <1>4, <2>1 DEF FrameOK, Negotiations, wrapperVars, mediaVars
  <2>3. \A h \in calls : FrameOK(h)
    BY DEF Inv, Placed
  <2> QED BY <1>3, <1>4, <2>2, <2>3, PlacedKept DEF Inv, FrameOK, wrapperVars, mediaVars
<1>6. Pairs'
  BY <1>4, PairsMove DEF Inv
<1>7. Life'
  BY <1>1, <1>3, <1>4, LifeMove DEF Inv, MapKept, InClose, Negotiations, mediaVars
<1>8. Objects'
  BY <1>3 DEF Inv, Objects, mediaVars
<1> QED BY <1>3, <1>5, <1>6, <1>7, <1>8 DEF Inv

(* A call that waited returns, with a medium or without.                   *)
LEMMA ReturnStep ==
  ASSUME Inv, TypeOK', NEW f \in calls,
         RestartReturns(f) \/ Created(f) \/ NotCreated(f)
  PROVE  Inv'
<1>1. /\ f \in Frame /\ f.op \in {"create", "restart"} /\ ~InClose(f) /\ FrameOK(f)
      /\ f.at # "connecting" /\ Leave(f)
  <2>1. FrameOK(f) /\ f.op \in Ops /\ f \in Frame
    BY FrameType DEF Inv, Placed, TypeOK
  <2> QED
    BY <2>1 DEF RestartReturns, Created, NotCreated, FrameOK, InClose, Negotiations, Ops
<1>2. calls' = calls \ {f} /\ UNCHANGED wrapperVars
  BY <1>1, LeaveRemoves
<1>3. /\ UNCHANGED <<connectVars, shut, seen, notices, ub>>
      /\ f.op = "restart" => UNCHANGED mediaVars
      /\ \/ UNCHANGED mediaVars
         \/ /\ f.op = "create" /\ f.on \in Media /\ memory[f.on] = "none" /\ ~closed
            /\ \/ /\ memory' = [memory EXCEPT ![f.on] = "failed"]
                  /\ UNCHANGED <<registered, late, held>>
               \/ /\ memory' = [memory EXCEPT ![f.on] = "live"]
                  /\ registered' = registered \cup {f.on} /\ held' = held \cup {f.on}
                  /\ UNCHANGED late
  <2>1. FrameOK(f) /\ f.op \in Ops
    BY <1>1 DEF Ops
  <2>2. CASE RestartReturns(f)
    BY <2>2 DEF RestartReturns, mediaVars
  <2>3. CASE NotCreated(f)
    BY <2>1, <2>3 DEF NotCreated, FrameOK
  <2>4. CASE Created(f)
    <3>1. f.op = "create" /\ f.on \in Media /\ memory[f.on] = "none" /\ ~closed
      BY <2>1, <2>4 DEF Created, FrameOK, Ops
    <3>2. pcOpen
      BY <3>1 DEF Inv, Life
    <3> QED BY <2>4, <3>1, <3>2 DEF Created
  <2> QED BY <2>2, <2>3, <2>4
<1>4. Placed'
  <2>1. \A g \in calls' : g.op = "create" => memory'[g.on] = "none"
    <3>1. \A g \in calls : g.op = "create" => g.on \in Media /\ memory[g.on] = "none"
      BY DEF Inv, Placed, FrameOK
    <3>2. \A g \in calls' : g \in calls /\ g # f
      BY <1>2
    <3>3. \A g \in calls' : f.op = "create" /\ g.op = "create" => g.on # f.on
      BY <3>2 DEF Inv, Pairs
    <3> QED BY <1>3, <3>1, <3>2, <3>3 DEF Inv, TypeOK, mediaVars
  <2>2. \A g \in calls : g.op \in {"create", "shut"} => ~closed
    BY DEF Inv, Placed, FrameOK
  <2> QED BY <1>2, <1>3, <2>1, <2>2, PlacedKept DEF Inv, wrapperVars
<1>5. Pairs'
  <2>1. calls' \subseteq calls
    BY <1>2
  <2> QED BY <2>1 DEF Inv, Pairs
<1>6. Life'
  <2>1. MapKept
    BY <1>3 DEF MapKept, mediaVars
  <2> QED BY <1>1, <1>2, <2>1, LifeRemove DEF Inv
<1>7. Objects'
  <2>1. CASE UNCHANGED mediaVars
    BY <2>1 DEF Inv, Objects, mediaVars
  <2>2. CASE f.on \in Media /\ memory[f.on] = "none" /\ ~UNCHANGED mediaVars
    <3>1. f.on \notin shut \cup held \cup registered
      BY <2>2 DEF Inv, Objects
    <3>2. \A p \in Media : p # f.on => memory'[p] = memory[p]
      BY <1>3, <2>2 DEF Inv, TypeOK
    <3>3. \/ memory'[f.on] = "failed"
          \/ memory'[f.on] = "live" /\ f.on \in held' /\ f.on \in registered'
      BY <1>3, <2>2 DEF Inv, TypeOK
    <3>4. /\ \A p \in Media : p # f.on =>
               (p \in held' <=> p \in held) /\ (p \in registered' <=> p \in registered)
          /\ memory'[f.on] = "failed" => UNCHANGED <<held, registered>>
          /\ UNCHANGED late
      BY <1>3, <2>2, <3>1, <3>2, <3>3 DEF Inv, TypeOK
    <3> QED BY <1>3, <2>2, <3>1, <3>2, <3>3, <3>4 DEF Inv, Objects
  <2> QED BY <1>3, <2>1, <2>2
<1> QED BY <1>3, <1>4, <1>5, <1>6, <1>7 DEF Inv
-----------------------------------------------------------------------------
(* close() begins.                                                         *)
LEMMA CloseStep ==
  ASSUME Inv, TypeOK', Dutiful, NEW t \in Thread, Close(t)
  PROVE  Inv'
<1>1. /\ CanCall(t) /\ handle = "live" /\ ~Disposing /\ ~closed /\ closed' = TRUE
      /\ ~Creating /\ ~Shutting
      /\ UNCHANGED <<handle, native, adapter, heard, pcOpen, owned, connectVars, mediaVars, ub>>
      /\ calls' = calls \cup {NewFrame(t, "close", "closing", NoMedia)}
  BY DEF Close, Usable, Dutiful, AllRules
<1>2. PICK n \in Frame :
        /\ n = NewFrame(t, "close", "closing", NoMedia)
        /\ n.thread = t /\ n.op = "close" /\ n.at = "closing" /\ n.on = NoMedia
        /\ \A g \in calls : g.thread = t => g.level # n.level
  BY <1>1, NewFrameFits DEF Inv, Ops, Places
<1>3. calls' = calls \cup {n}
  BY <1>1, <1>2
<1>4. Placed'
  <2>1. FrameOK(n)'
    BY <1>1, <1>2 DEF FrameOK
  <2> QED BY <1>1, <1>3, <2>1, PlacedKept DEF Inv, Creating, Shutting, mediaVars
<1>5. Pairs'
  BY <1>2, <1>3, PairsAdd DEF Inv
<1>6. Life'
  <2>1. ~Disposing' /\ Closing'
    BY <1>1, <1>2, <1>3 DEF Disposing, Closing
  <2> QED BY <1>1, <1>2, <1>3, <2>1 DEF Inv, Life
<1>7. Objects'
  BY <1>1 DEF Inv, Objects, mediaVars
<1> QED BY <1>1, <1>4, <1>5, <1>6, <1>7 DEF Inv

(* The disposal of the transport begins, off the signaling thread and      *)
(* with nothing in progress but reports of its state.                      *)
LEMMA DisposeBegins ==
  ASSUME Inv, TypeOK', NEW t \in Thread, CanCall(t), t # Signal, handle = "live",
         ~Disposing, \A f \in calls : f.op = "state",
         BeginDispose(calls, NewFrame(t, "dispose", "closing", NoMedia)),
         UNCHANGED <<connectVars, mediaVars, ub>>
  PROVE  Inv'
<1>1. /\ heard' = FALSE /\ closed' = TRUE /\ UNCHANGED <<handle, native, adapter, pcOpen>>
      /\ \E n \in Frame :
           /\ calls' = calls \cup {n}
           /\ n.thread = t /\ n.op = "dispose" /\ n.on = NoMedia
           /\ n.at = IF closed THEN "delete" ELSE "closing"
           /\ \A g \in calls : g.thread = t => g.level # n.level
  <2>1. PICK m \in Frame :
          /\ m = NewFrame(t, "dispose", "closing", NoMedia)
          /\ m.thread = t /\ m.op = "dispose" /\ m.on = NoMedia
          /\ \A g \in calls : g.thread = t => g.level # m.level
    BY NewFrameFits DEF Inv, Ops, Places
  <2> DEFINE n == [m EXCEPT !.at = IF closed THEN "delete" ELSE "closing"]
  <2>2. /\ n \in Frame /\ n.thread = m.thread /\ n.op = m.op /\ n.on = m.on
        /\ n.level = m.level /\ n.at = IF closed THEN "delete" ELSE "closing"
    BY <2>1 DEF Frame
  <2>3. /\ calls' = calls \cup {n}
        /\ heard' = FALSE /\ closed' = TRUE /\ UNCHANGED <<handle, native, adapter, pcOpen>>
    BY <2>1 DEF BeginDispose
  <2> HIDE DEF n
  <2> QED BY <2>1, <2>2, <2>3
<1>2. PICK n \in Frame :
        /\ calls' = calls \cup {n}
        /\ n.thread = t /\ n.op = "dispose" /\ n.on = NoMedia
        /\ n.at \in {"delete", "closing"} /\ (n.at = "delete" <=> closed)
        /\ \A g \in calls : g.thread = t => g.level # n.level
  BY <1>1
<1>3. ~Closing /\ (closed => ~pcOpen /\ registered \subseteq shut)
  <2>1. \A f \in calls : f.at \in {"loaded", "callback", "unwinding"}
    BY DEF Inv, Placed, FrameOK
  <2>2. ~Closing
    BY <2>1 DEF Closing
  <2> QED BY <2>1, <2>2 DEF Inv, Life
<1>4. Placed'
  <2>1. FrameOK(n)'
    BY <1>1, <1>2, <1>3 DEF FrameOK
  <2> QED BY <1>1, <1>2, <2>1, PlacedKept DEF Inv, mediaVars
<1>5. Pairs'
  BY <1>2, PairsAdd DEF Inv
<1>6. Life'
  <2>1. Disposing' /\ \A f \in calls' : f.op \in {"dispose", "state"}
    BY <1>2 DEF Disposing
  <2>2. ~closed => Closing' /\ \E f \in calls' : f.at = "closing"
    BY <1>2 DEF Closing
  <2>3. ~Closing' => registered' \subseteq shut'
    BY <1>3, <2>2 DEF mediaVars
  <2> QED BY <1>1, <1>3, <2>1, <2>2, <2>3 DEF Inv, Life
<1>7. Objects'
  BY DEF Inv, Objects, mediaVars
<1> QED BY <1>4, <1>5, <1>6, <1>7 DEF Inv

(* dispose() is called, or the last reference to the transport goes.       *)
LEMMA DisposeStep ==
  ASSUME Inv, TypeOK', Dutiful, NEW t \in Thread, Dispose(t) \/ Release(t)
  PROVE  Inv'
<1>1. CASE Dispose(t)
  <2>1. /\ CanCall(t) /\ handle = "live" /\ ~Disposing /\ Frames(t) = {}
        /\ \A f \in calls : f.op = "state"
        /\ BeginDispose(calls, NewFrame(t, "dispose", "closing", NoMedia))
        /\ UNCHANGED <<owned, connectVars, mediaVars, ub>>
    BY <1>1 DEF Dispose, Usable, Dutiful, AllRules
  <2>2. t # Signal
    BY <2>1 DEF CanCall
  <2> QED BY <2>1, <2>2, DisposeBegins
<1>2. CASE Release(t)
  <2>1. /\ CanCall(t) /\ owned' = FALSE /\ UNCHANGED <<connectVars, mediaVars, ub>>
        /\ handle = "null" \/ calls = {}
    BY <1>2 DEF Release, Dutiful, AllRules
  <2>2. CASE handle = "live"
    <3>1. /\ calls = {} /\ BeginDispose(calls, NewFrame(t, "dispose", "closing", NoMedia))
      BY <1>2, <2>1, <2>2 DEF Release
    <3>2. t # Signal
      BY <2>1, <3>1 DEF CanCall, Frames
    <3>3. ~Disposing
      BY <2>1, <3>1 DEF Disposing
    <3> QED BY <2>1, <2>2, <3>1, <3>2, <3>3, DisposeBegins
  <2>3. CASE handle # "live"
    <3>1. handle = "null" /\ UNCHANGED <<handle, native, adapter, heard, closed, pcOpen, calls>>
      BY <1>2, <2>3 DEF Release, Inv, TypeOK
    <3>2. Placed' /\ Pairs' /\ Objects'
      BY <2>1, <3>1 DEF Inv, Placed, Pairs, FrameOK, Objects, mediaVars
    <3>3. Life'
      BY <2>1, <3>1 DEF Inv, Life, Closing, Disposing, mediaVars
    <3> QED BY <2>1, <3>2, <3>3 DEF Inv
  <2> QED BY <2>2, <2>3
<1> QED BY <1>1, <1>2
-----------------------------------------------------------------------------
(* Close has closed the peer connection, and goes on to its loop.          *)
LEMMA PcClosedStep ==
  ASSUME Inv, TypeOK', NEW f \in calls, PcClosed(f)
  PROVE  Inv'
<1>1. /\ f.at = "closing" /\ pcOpen' = FALSE /\ Step(f, "notify", NoMedia)
      /\ UNCHANGED <<handle, native, adapter, heard, closed, owned, connectVars, mediaVars, ub>>
  BY DEF PcClosed
<1>2. f.op \in {"close", "dispose"} /\ closed /\ FrameOK(f) /\ handle = "live"
  <2>1. FrameOK(f) /\ f.op \in Ops
    BY FrameType DEF Inv, Placed, TypeOK
  <2>2. handle = "live"
    BY <1>1 DEF Inv, Life, TypeOK
  <2> QED BY <1>1, <2>1, <2>2 DEF FrameOK, Ops, Negotiations
<1>3. PICK g \in Frame :
        /\ calls' = (calls \ {f}) \cup {g}
        /\ g.thread = f.thread /\ g.level = f.level /\ g.op = f.op
        /\ g.at = "notify" /\ g.on = NoMedia
  BY <1>1, StepMoves DEF Inv, Places
<1>4. Placed'
  <2>1. FrameOK(g)'
    BY <1>1, <1>2, <1>3 DEF FrameOK
  <2>2. \A h \in calls : h.op \in {"create", "shut"} => ~closed
    BY DEF Inv, Placed, FrameOK
  <2> QED BY <1>1, <1>2, <1>3, <2>1, <2>2, PlacedKept DEF Inv, mediaVars
<1>5. Pairs'
  BY <1>2, <1>3, PairsMove DEF Inv
<1>6. Life'
  <2>1. Closing' /\ (Disposing <=> Disposing')
    BY <1>3 DEF Closing, Disposing
  <2>2. Disposing' => \A h \in calls' : h.op \in {"dispose", "state"}
    BY <1>3, <2>1 DEF Inv, Life
  <2> QED BY <1>1, <1>2, <2>1, <2>2 DEF Inv, Life
<1>7. Objects'
  BY <1>1 DEF Inv, Objects, mediaVars
<1> QED BY <1>1, <1>4, <1>5, <1>6, <1>7 DEF Inv

(* The medium the loop of Close comes to next is live and not closed.      *)
LEMMA NextIsOpen ==
  ASSUME Inv, NEW p \in registered \ seen
  PROVE  p \in Media /\ p \notin shut /\ memory[p] = "live" /\ notices[p] = 0
  BY DEF Inv, Objects, TypeOK

(* A medium is told that its transport closes.                             *)
LEMMA TransportClosedStep ==
  ASSUME Inv, TypeOK', NEW f \in calls, NEW p \in Media, TransportClosed(f, p)
  PROVE  Inv'
<1>1. /\ p \in registered /\ p \notin shut /\ memory[p] = "live" /\ notices[p] = 0
      /\ f.at = "notify"
  BY NextIsOpen DEF TransportClosed
<1>2. /\ seen' = seen \cup {p} /\ shut' = shut \cup {p}
      /\ notices' = [notices EXCEPT ![p] = @ + 1] /\ Step(f, "callback", p)
      /\ UNCHANGED <<transportVars, memory, registered, late, held, ub>>
  BY <1>1 DEF TransportClosed
<1>3. f.op \in {"close", "dispose"} /\ closed /\ ~pcOpen /\ FrameOK(f)
  <2>1. FrameOK(f) /\ f.op \in Ops
    BY FrameType DEF Inv, Placed, TypeOK
  <2>2. ~pcOpen => closed
    BY DEF Inv, Life
  <2> QED BY <1>1, <2>1, <2>2 DEF FrameOK, Ops, Negotiations
<1>4. PICK g \in Frame :
        /\ calls' = (calls \ {f}) \cup {g}
        /\ g.thread = f.thread /\ g.level = f.level /\ g.op = f.op
        /\ g.at = "callback" /\ g.on = p
  BY <1>2, StepMoves DEF Inv, Places
<1>5. Placed'
  <2>1. FrameOK(g)'
    BY <1>2, <1>3, <1>4 DEF FrameOK, transportVars, wrapperVars
  <2>2. \A h \in calls : h.op \in {"create", "shut"} => ~closed
    BY DEF Inv, Placed, FrameOK
  <2> QED
    BY <1>2, <1>3, <1>4, <2>1, <2>2, PlacedKept DEF Inv, transportVars, wrapperVars
<1>6. Pairs'
  BY <1>3, <1>4, PairsMove DEF Inv
<1>7. Life'
  BY <1>1, <1>2, <1>3, <1>4, LifeMove DEF Inv, MapKept, InClose, transportVars
<1>8. Objects'
  <2>1. late' = {} /\ seen' \subseteq shut'
    BY <1>2 DEF Inv, Objects
  <2>2. notices'[p] = 1 /\ \A q \in Media : q # p => notices'[q] = notices[q]
    BY <1>1, <1>2 DEF Inv, TypeOK
  <2> QED BY <1>1, <1>2, <2>1, <2>2 DEF Inv, Objects
<1> QED BY <1>2, <1>5, <1>6, <1>7, <1>8 DEF Inv

(* A medium's onTransportClose returns, and the medium may go with it.     *)
LEMMA OnTransportCloseReturnsStep ==
  ASSUME Inv, TypeOK', NEW f \in calls, OnTransportCloseReturns(f)
  PROVE  Inv'
<1>1. /\ f.op # "state" /\ f.at = "callback" /\ Step(f, "notify", NoMedia)
      /\ memory' = Unpin(f)
      /\ UNCHANGED <<transportVars, registered, late, seen, shut, held, notices, ub>>
  BY DEF OnTransportCloseReturns
<1>2. f.op \in {"close", "dispose"} /\ closed /\ ~pcOpen /\ FrameOK(f) /\ f.on \in shut
  <2>1. FrameOK(f) /\ f.op \in Ops
    BY FrameType DEF Inv, Placed, TypeOK
  <2>2. ~pcOpen => closed
    BY DEF Inv, Life
  <2> QED BY <1>1, <2>1, <2>2 DEF FrameOK, Ops, Negotiations
<1>3. PICK g \in Frame :
        /\ calls' = (calls \ {f}) \cup {g}
        /\ g.thread = f.thread /\ g.level = f.level /\ g.op = f.op
        /\ g.at = "notify" /\ g.on = NoMedia
  BY <1>1, StepMoves DEF Inv, Places
<1>4. \/ memory' = memory
      \/ f.on \notin held /\ memory' = [memory EXCEPT ![f.on] = "freed"]
  BY <1>1 DEF Unpin
<1>5. Placed'
  <2>1. FrameOK(g)'
    BY <1>1, <1>2, <1>3 DEF FrameOK, transportVars, wrapperVars
  <2>2. \A h \in calls : h.op \in {"create", "shut"} => ~closed
    BY DEF Inv, Placed, FrameOK
  <2> QED
    BY <1>1, <1>2, <1>3, <2>1, <2>2, PlacedKept DEF Inv, transportVars, wrapperVars
<1>6. Pairs'
  BY <1>2, <1>3, PairsMove DEF Inv
<1>7. Life'
  BY <1>1, <1>2, <1>3, LifeMove DEF Inv, MapKept, InClose, transportVars
<1>8. Objects'
  <2>1. \A q \in Media :
          memory'[q] = memory[q] \/ (q = f.on /\ memory'[q] = "freed" /\ q \notin held)
    BY <1>4 DEF Inv, TypeOK
  <2> QED BY <1>1, <1>2, <2>1 DEF Inv, Objects
<1> QED BY <1>1, <1>5, <1>6, <1>7, <1>8 DEF Inv

(* The loop of Close is over: every medium still in the map is closed.     *)
LEMMA CloseEndsStep ==
  ASSUME Inv, TypeOK', NEW f \in calls, CloseEnds(f)
  PROVE  Inv'
<1>1. /\ f.at = "notify" /\ registered \ late \subseteq seen
      /\ UNCHANGED <<connectVars, mediaVars, ub>>
  BY DEF CloseEnds
<1>2. registered \subseteq shut
  BY <1>1 DEF Inv, Objects
<1>3. closed /\ ~pcOpen /\ FrameOK(f) /\ handle = "live"
  <2>1. FrameOK(f) /\ handle = "live"
    BY <1>1 DEF Inv, Placed, Life, TypeOK
  <2>2. ~pcOpen => closed
    BY DEF Inv, Life
  <2> QED BY <1>1, <2>1, <2>2 DEF FrameOK
<1>4. \/ /\ f.op = "close" /\ calls' = calls \ {f}
      \/ /\ f.op = "dispose" /\ Step(f, "delete", NoMedia)
  BY LeaveRemoves DEF CloseEnds
<1>5. UNCHANGED wrapperVars
  <2>1. CASE f.op = "close"
    BY <2>1, LeaveRemoves DEF CloseEnds
  <2>2. CASE f.op # "close"
    BY <2>2 DEF CloseEnds
  <2> QED BY <2>1, <2>2
<1>6. \/ f.op = "close" /\ calls' = calls \ {f}
      \/ \E g \in Frame :
           /\ f.op = "dispose" /\ calls' = (calls \ {f}) \cup {g}
           /\ g.thread = f.thread /\ g.level = f.level /\ g.op = f.op
           /\ g.at = "delete" /\ g.on = NoMedia
  BY <1>4, StepMoves DEF Inv, Places
<1>7. Placed'
  <2>1. \A g \in calls' : g \in calls \/ FrameOK(g)'
    BY <1>3, <1>5, <1>6 DEF FrameOK, wrapperVars
  <2>2. \A h \in calls : h.op \in {"create", "shut"} => ~closed
    BY DEF Inv, Placed, FrameOK
  <2> QED BY <1>1, <1>3, <1>5, <2>1, <2>2, PlacedKept DEF Inv, mediaVars, wrapperVars
<1>8. Pairs'
  BY <1>6 DEF Inv, Pairs
<1>9. Life'
  <2>1. (Disposing <=> Disposing') /\ (Disposing => \A h \in calls' : h.op \in {"dispose", "state"})
    BY <1>6 DEF Inv, Life, Disposing
  <2> QED BY <1>1, <1>2, <1>3, <1>5, <2>1 DEF Inv, Life, wrapperVars, mediaVars
<1>10. Objects'
  BY <1>1 DEF Inv, Objects, mediaVars
<1> QED BY <1>1, <1>7, <1>8, <1>9, <1>10 DEF Inv
-----------------------------------------------------------------------------
(* Nobody else is in the transport when it is deleted: the caller has      *)
(* waited for the signaling thread, and dispose is called alone.           *)
LEMMA OnlyDisposal ==
  ASSUME Inv, NEW f \in calls, DeleteTransport(f), f.op = "dispose", f.thread # Signal
  PROVE  calls = {f}
<1>1. \A g \in calls : g.thread # Signal
  BY DEF DeleteTransport, SignalIdle, Frames
<1>2. \A g \in calls : g.op = "dispose"
  BY <1>1 DEF Inv, Life, Disposing, Placed, FrameOK
<1> QED BY <1>2 DEF Inv, Pairs

(* The transport is deleted with no other call or callback inside it.      *)
LEMMA DeleteTransportStep ==
  ASSUME Inv, TypeOK', NEW f \in calls, DeleteTransport(f)
  PROVE  Inv'
<1>1. /\ f.at = "delete" /\ f.op = "dispose" /\ f.thread # Signal /\ FrameOK(f) /\ Disposing
  <2>1. f.at = "delete" /\ FrameOK(f) /\ f.op \in Ops
    BY FrameType DEF DeleteTransport, Inv, Placed, TypeOK
  <2> QED BY <2>1 DEF FrameOK, Ops, Negotiations, Disposing
<1>2. calls = {f}
  BY <1>1, OnlyDisposal
<1>3. /\ native' = "freed" /\ handle' = "null" /\ Step(f, "adapter", NoMedia)
      /\ UNCHANGED <<adapter, heard, closed, pcOpen, owned, connectVars, mediaVars, ub>>
  BY <1>2 DEF DeleteTransport
<1>4. PICK g \in Frame :
        /\ calls' = (calls \ {f}) \cup {g}
        /\ g.thread = f.thread /\ g.level = f.level /\ g.op = f.op
        /\ g.at = "adapter" /\ g.on = NoMedia
  BY <1>3, StepMoves DEF Inv, Places
<1>5. Placed' /\ Pairs'
  <2>1. ~pcOpen' /\ handle' = "null"
    BY <1>1, <1>3 DEF FrameOK
  <2>2. FrameOK(g)'
    BY <1>1, <1>4, <2>1 DEF FrameOK
  <2> QED BY <1>2, <1>4, <2>2 DEF Placed, Pairs
<1>6. Life'
  <2>1. ~Closing /\ closed /\ ~heard /\ registered \subseteq shut /\ ~pcOpen
    BY <1>1, <1>2 DEF Closing, Inv, Life, FrameOK
  <2> QED BY <1>1, <1>2, <1>3, <1>4, <2>1 DEF Life, mediaVars
<1>7. Objects'
  BY <1>3 DEF Inv, Objects, mediaVars
<1> QED BY <1>3, <1>5, <1>6, <1>7 DEF Inv

(* The adapter is deleted after the transport.                             *)
LEMMA DeleteAdapterStep ==
  ASSUME Inv, TypeOK', NEW f \in calls, DeleteAdapter(f)
  PROVE  Inv'
<1>1. /\ f.at = "adapter" /\ adapter' = "freed" /\ calls' = calls \ {f}
      /\ UNCHANGED <<handle, native, heard, closed, pcOpen, owned, connectVars, mediaVars, ub>>
  BY DEF DeleteAdapter
<1>2. handle = "null" /\ handle' = "null"
  BY <1>1 DEF Inv, Placed, FrameOK
<1>3. Placed' /\ Pairs'
  BY <1>1, <1>2 DEF Inv, Placed, Pairs, FrameOK, mediaVars
<1>4. Life'
  <2>1. ~Closing /\ registered \subseteq shut
    BY <1>2 DEF Closing, Inv, Life
  <2> QED BY <1>1, <1>2, <2>1 DEF Inv, Life, mediaVars
<1>5. Objects'
  BY <1>1, <1>2 DEF Inv, Objects, Life, mediaVars
<1> QED BY <1>1, <1>3, <1>4, <1>5 DEF Inv

(* A state is reported only by a peer connection that is not closed, to a  *)
(* delegate that dispose has not taken away: the transport is still there. *)
LEMMA Heard ==
  ASSUME Inv, StateChange
  PROVE  adapter = "live" /\ handle = "live" /\ ~Disposing
<1>1. pcOpen /\ (adapter = "freed" \/ heard)
  BY DEF StateChange
<1>2. handle = "live" /\ adapter = "live"
  BY <1>1 DEF Inv, Life, TypeOK
<1> QED BY <1>1, <1>2 DEF Inv, Life

(* The report of a state begins.                                           *)
LEMMA StateChangeStep ==
  ASSUME Inv, TypeOK', StateChange
  PROVE  Inv'
<1>1. adapter = "live" /\ handle = "live" /\ ~Disposing
  BY Heard
<1>2. /\ calls' = calls \cup {NewFrame(Signal, "state", "loaded", NoMedia)}
      /\ UNCHANGED <<transportVars, mediaVars, ub>>
  BY <1>1 DEF StateChange
<1>3. PICK n \in Frame :
        /\ calls' = calls \cup {n}
        /\ n.thread = Signal /\ n.op = "state" /\ n.at = "loaded" /\ n.on = NoMedia
  <2>1. Level(Signal) = 0
    BY DEF StateChange, SignalIdle, Level
  <2> DEFINE n == NewFrame(Signal, "state", "loaded", NoMedia)
  <2>2. n \in Frame /\ n.thread = Signal /\ n.op = "state" /\ n.at = "loaded" /\ n.on = NoMedia
    BY <2>1, ConstantsAssumption DEF NewFrame, Frame
  <2> HIDE DEF n
  <2> QED BY <1>2, <2>2 DEF n
<1>4. Placed'
  <2>1. FrameOK(n)'
    BY <1>3 DEF FrameOK
  <2>2. \A h \in calls :
          /\ h.op \in {"create", "shut"} => ~closed
          /\ h.op = "create" => memory[h.on] = "none"
    BY DEF Inv, Placed, FrameOK
  <2> QED BY <1>2, <1>3, <2>1, <2>2, PlacedKept DEF Inv, transportVars, wrapperVars, mediaVars
<1>5. Pairs'
  BY <1>3, PairsAdd DEF Inv
<1>6. Life'
  BY <1>1, <1>2, <1>3, LifeAdd DEF Inv, MapKept, transportVars, mediaVars
<1>7. Objects'
  BY <1>2 DEF Inv, Objects, mediaVars
<1> QED BY <1>2, <1>4, <1>5, <1>6, <1>7 DEF Inv

(* The wrapper passes a state on.                                          *)
LEMMA OnConnectionStateChangeStep ==
  ASSUME Inv, TypeOK', NEW f \in calls, OnConnectionStateChange(f)
  PROVE  Inv'
<1>1. /\ f.at = "loaded" /\ Step(f, "callback", NoMedia)
      /\ UNCHANGED <<transportVars, mediaVars, ub>>
  BY DEF OnConnectionStateChange
<1>2. f.op = "state" /\ FrameOK(f)
  <2>1. FrameOK(f) /\ f.op \in Ops
    BY FrameType DEF Inv, Placed, TypeOK
  <2> QED BY <1>1, <2>1 DEF FrameOK, Ops, Negotiations
<1>3. PICK g \in Frame :
        /\ calls' = (calls \ {f}) \cup {g}
        /\ g.thread = f.thread /\ g.level = f.level /\ g.op = f.op
        /\ g.at = "callback" /\ g.on = NoMedia
  BY <1>1, StepMoves DEF Inv, Places
<1>4. Placed'
  <2>1. FrameOK(g)'
    BY <1>2, <1>3 DEF FrameOK
  <2>2. \A h \in calls :
          /\ h.op \in {"create", "shut"} => ~closed
          /\ h.op = "create" => memory[h.on] = "none"
    BY DEF Inv, Placed, FrameOK
  <2> QED BY <1>1, <1>3, <2>1, <2>2, PlacedKept DEF Inv, transportVars, wrapperVars, mediaVars
<1>5. Pairs'
  BY <1>2, <1>3, PairsMove DEF Inv
<1>6. Life'
  BY <1>1, <1>2, <1>3, LifeMove DEF Inv, MapKept, InClose, transportVars, mediaVars
<1>7. Objects'
  BY <1>1 DEF Inv, Objects, mediaVars
<1> QED BY <1>1, <1>4, <1>5, <1>6, <1>7 DEF Inv

(* The report of a state leaves the wrapper as it is when it returns:      *)
(* whoever let the transport go is disposing of it already.                *)
LEMMA StateReturnsOnly ==
  ASSUME Inv, NEW f \in calls, StateReturns(f)
  PROVE  calls' = calls \ {f} /\ UNCHANGED wrapperVars
<1>1. handle = "live" => owned \/ Disposing
  BY DEF Inv, Life, TypeOK
<1>2. Disposing => \E g \in calls \ {f} : g.op # "shut"
  BY DEF StateReturns, Disposing
<1>3. handle = "live" => Retained(calls \ {f})
  BY <1>1, <1>2 DEF Retained
<1> QED BY <1>3 DEF StateReturns, wrapperVars

(* The report of a state returns.                                          *)
LEMMA StateReturnsStep ==
  ASSUME Inv, TypeOK', NEW f \in calls, StateReturns(f)
  PROVE  Inv'
<1>1. f.op = "state" /\ f.at = "callback" /\ UNCHANGED <<owned, connectVars, mediaVars, ub>>
  BY DEF StateReturns
<1>2. calls' = calls \ {f} /\ UNCHANGED wrapperVars
  BY StateReturnsOnly
<1>3. Placed' /\ Pairs'
  BY <1>1, <1>2 DEF Inv, Placed, Pairs, FrameOK, wrapperVars, mediaVars
<1>4. Life'
  BY <1>1, <1>2, LifeRemove DEF Inv, MapKept, InClose, mediaVars
<1>5. Objects'
  BY <1>1, <1>2 DEF Inv, Objects, mediaVars
<1> QED BY <1>1, <1>3, <1>4, <1>5 DEF Inv
-----------------------------------------------------------------------------
(* The application closes a medium: the transport is still there.          *)
LEMMA CloseMediumStep ==
  ASSUME Inv, TypeOK', NEW t \in Thread, NEW p \in Media, CloseMedium(t, p)
  PROVE  Inv'
<1>1. /\ CanCall(t) /\ p \in held /\ p \notin shut /\ memory[p] = "live" /\ p \in registered
      /\ notices[p] = 0
  BY DEF CloseMedium, Inv, Objects, TypeOK
<1>2. native = "live"
  <2>1. native # "freed"
    <3>1. handle = "null" => closed /\ ~Closing
      BY DEF Inv, Life, Closing
    <3> QED BY <1>1, <3>1 DEF Inv, Life
  <2> QED BY <2>1 DEF Inv, TypeOK
<1>3. /\ shut' = shut \cup {p} /\ registered' = registered \ {p}
      /\ calls' = IF closed THEN calls ELSE calls \cup {NewFrame(t, "shut", "negotiating", p)}
      /\ UNCHANGED <<transportVars, memory, late, seen, held, notices, ub>>
  BY <1>2 DEF CloseMedium
<1>4. \/ closed /\ calls' = calls
      \/ \E n \in Frame :
           /\ ~closed /\ calls' = calls \cup {n}
           /\ n.thread = t /\ n.op = "shut" /\ n.at = "negotiating" /\ n.on = p
           /\ \A g \in calls : g.thread = t => g.level # n.level
  <2>1. \E n \in Frame :
          /\ n = NewFrame(t, "shut", "negotiating", p)
          /\ n.thread = t /\ n.op = "shut" /\ n.at = "negotiating" /\ n.on = p
          /\ \A g \in calls : g.thread = t => g.level # n.level
    BY <1>1, NewFrameFits DEF Inv, Ops, Places
  <2> QED BY <1>3, <2>1
<1>5. Placed'
  <2>1. \A g \in calls' : g \in calls \/ FrameOK(g)'
    BY <1>3, <1>4 DEF FrameOK, transportVars, wrapperVars
  <2>2. \A h \in calls :
          /\ h.op \in {"create", "shut"} => ~closed
          /\ h.op = "create" => memory[h.on] = "none"
    BY DEF Inv, Placed, FrameOK
  <2> QED BY <1>3, <2>1, <2>2, PlacedKept DEF Inv, transportVars, wrapperVars
<1>6. Pairs'
  BY <1>4, PairsAdd DEF Inv, Pairs
<1>7. Life'
  <2>1. MapKept /\ UNCHANGED wrapperVars
    BY <1>3 DEF MapKept, transportVars
  <2>2. CASE closed /\ calls' = calls
    BY <1>3, <2>1, <2>2 DEF Inv, Life, Closing, Disposing, wrapperVars
  <2>3. CASE ~closed
    <3>1. handle = "live" /\ ~Disposing
      BY <2>3 DEF Inv, Life, TypeOK
    <3> QED BY <1>4, <2>1, <2>3, <3>1, LifeAdd DEF Inv
  <2> QED BY <1>4, <2>2, <2>3
<1>8. Objects'
  BY <1>1, <1>3 DEF Inv, Objects, TypeOK
<1> QED BY <1>3, <1>5, <1>6, <1>7, <1>8 DEF Inv

(* The close of a medium returns: the peer connection is still open.       *)
LEMMA CloseMediumReturnsStep ==
  ASSUME Inv, TypeOK', NEW f \in calls, CloseMediumReturns(f)
  PROVE  Inv'
<1>1. f.op = "shut" /\ f.at = "negotiating" /\ f.on \in shut /\ ~closed /\ pcOpen
  <2>1. f.op = "shut" /\ FrameOK(f)
    BY DEF CloseMediumReturns, Inv, Placed
  <2> QED BY <2>1 DEF FrameOK, Inv, Life
<1>2. /\ calls' = calls \ {f} /\ memory' = Unpin(f)
      /\ UNCHANGED <<transportVars, registered, late, seen, shut, held, notices, ub>>
  BY <1>1 DEF CloseMediumReturns
<1>3. \/ memory' = memory
      \/ f.on \notin held /\ memory' = [memory EXCEPT ![f.on] = "freed"]
  BY <1>2 DEF Unpin
<1>4. \A q \in Media : memory'[q] = memory[q] \/ (q = f.on /\ memory'[q] = "freed" /\ q \notin held)
  BY <1>3 DEF Inv, TypeOK
<1>5. Placed'
  <2>1. \A h \in calls :
          /\ h.op \in {"create", "shut"} => ~closed
          /\ h.op = "create" => h.on \in Media /\ memory[h.on] = "none" /\ h.on \notin shut
    BY DEF Inv, Placed, FrameOK, Objects
  <2>2. \A h \in calls : h.op = "create" => memory'[h.on] = "none"
    BY <1>1, <1>4, <2>1
  <2> QED BY <1>2, <2>1, <2>2, PlacedKept DEF Inv, transportVars, wrapperVars
<1>6. Pairs'
  BY <1>2 DEF Inv, Pairs
<1>7. Life'
  BY <1>1, <1>2, LifeRemove DEF Inv, MapKept, InClose, transportVars
<1>8. Objects'
  BY <1>1, <1>2, <1>4 DEF Inv, Objects
<1> QED BY <1>2, <1>5, <1>6, <1>7, <1>8 DEF Inv

(* The application lets a medium go that is closed.                        *)
LEMMA DropMediumStep ==
  ASSUME Inv, TypeOK', Dutiful, NEW t \in Thread, NEW p \in Media, DropMedium(t, p)
  PROVE  Inv'
<1>1. /\ p \in shut /\ held' = held \ {p}
      /\ UNCHANGED <<transportVars, calls, registered, late, seen, shut, notices, ub>>
  BY DEF DropMedium, Dutiful, AllRules
<1>2. memory' = memory \/ memory' = [memory EXCEPT ![p] = "freed"]
  BY DEF DropMedium
<1>3. \A q \in Media : memory'[q] = memory[q] \/ (q = p /\ memory'[q] = "freed")
  BY <1>2 DEF Inv, TypeOK
<1>4. Placed'
  <2>1. \A h \in calls :
          /\ h.op \in {"create", "shut"} => ~closed
          /\ h.op = "create" => h.on \in Media /\ memory[h.on] = "none" /\ h.on \notin shut
    BY DEF Inv, Placed, FrameOK, Objects
  <2>2. \A h \in calls : h.op = "create" => memory'[h.on] = "none"
    BY <1>1, <1>3, <2>1
  <2> QED BY <1>1, <2>1, <2>2, PlacedKept DEF Inv, transportVars, wrapperVars
<1>5. Pairs' /\ Life'
  BY <1>1
  DEF Inv, Pairs, Life, Closing, Disposing, transportVars, wrapperVars
<1>6. Objects'
  BY <1>1, <1>3 DEF Inv, Objects
<1> QED BY <1>1, <1>4, <1>5, <1>6 DEF Inv
-----------------------------------------------------------------------------
(* Every step keeps the invariant.                                         *)
LEMMA InvStep ==
  ASSUME AnyInv, Inv, Dutiful, [Next]_vars
  PROVE  Inv'
<1>0. TypeOK'
  BY AnyStep DEF AnyInv
<1>1. CASE UNCHANGED vars
  <2>1. UNCHANGED <<handle, native, adapter, heard, closed, pcOpen, owned>>
    BY <1>1 DEF vars, transportVars, wrapperVars
  <2>2. UNCHANGED <<direction, connected, section, connects, restarts, calls, memory, registered,
                    late, seen, shut, held, notices, ub>>
    BY <1>1 DEF vars, transportVars, connectVars, mediaVars
  <2> QED
    BY <2>1, <2>2 DEF Inv, TypeOK, Placed, FrameOK, Pairs, Life, Closing, Disposing,
      Objects
<1>2. CASE \E t \in Thread : Close(t)
  BY <1>0, <1>2, CloseStep
<1>3. CASE \E t \in Thread : Dispose(t) \/ Release(t)
  BY <1>0, <1>3, DisposeStep
<1>4. CASE \E t \in Thread : RestartICE(t)
  <2>1. PICK t \in Thread : RestartICE(t)
    BY <1>4
  <2>2. BeginWaiting(t, "restart", NoMedia) /\ ~closed
    BY <2>1 DEF RestartICE
  <2> QED BY <1>0, <2>2, BeginWaitingStep
<1>5. CASE \E t \in Thread, p \in Media : CreateProducer(t, p) \/ CreateConsumer(t, p)
  <2>1. PICK t \in Thread, p \in Media : CreateProducer(t, p) \/ CreateConsumer(t, p)
    BY <1>5
  <2>2. BeginWaiting(t, "create", p) /\ Creatable(p)
    BY <2>1 DEF CreateProducer, CreateConsumer
  <2>3. ~closed /\ memory[p] = "none" /\ \A f \in calls : f.on # p
    BY <2>2 DEF Creatable, Dutiful, AllRules
  <2> QED BY <1>0, <2>2, <2>3, BeginWaitingStep
<1>6. CASE \E t \in Thread, p \in Media : CloseMedium(t, p) \/ DropMedium(t, p)
  BY <1>0, <1>6, CloseMediumStep, DropMediumStep
<1>7. CASE \E f \in calls : FrameStep(f)
  <2>1. PICK f \in calls : FrameStep(f)
    BY <1>7
  <2> QED
    BY <1>0, <2>1, CreationStep, ReturnStep, PcClosedStep, TransportClosedStep,
      OnTransportCloseReturnsStep, CloseEndsStep, DeleteTransportStep, DeleteAdapterStep,
      StateChangeStep, OnConnectionStateChangeStep, StateReturnsStep, CloseMediumReturnsStep
    DEF FrameStep
<1>8. CASE StateChange
  BY <1>0, <1>8, StateChangeStep
<1> QED BY <1>1, <1>2, <1>3, <1>4, <1>5, <1>6, <1>7, <1>8 DEF Next

-----------------------------------------------------------------------------
(* Every variable keeps its type, and no thread has two frames at a level, *)
(* whatever the application does.                                          *)
THEOREM Typing == Spec => []TypeOK
<1>1. Init => AnyInv
  BY AnyInit
<1>2. AnyInv /\ [Next]_vars => AnyInv'
  BY AnyStep
<1>3. AnyInv => TypeOK
  BY DEF AnyInv
<1> QED BY <1>1, <1>2, <1>3, PTL DEF Spec

(* Nothing freed is reached, the transport is deleted with nobody inside,  *)
(* and no C++ exception escapes.                                           *)
THEOREM IsSafe ==
  ASSUME Dutiful
  PROVE  Spec => [](MemorySafe /\ NothingEscapes)
<1>1. Init => AnyInv /\ Inv
  BY AnyInit, InvInit
<1>2. AnyInv /\ Inv /\ [Next]_vars => (AnyInv /\ Inv)'
  BY AnyStep, InvStep
<1>3. Inv => (MemorySafe /\ NothingEscapes)
  BY DEF Inv, MemorySafe, NothingEscapes
<1> QED BY <1>1, <1>2, <1>3, PTL DEF Spec

(* When Close is done every medium is closed, and those still in the map   *)
(* were told of it, once each.  The application need only leave the        *)
(* transport open while it makes a medium.                                 *)
THEOREM MediaEndWithTransport ==
  ASSUME Patient
  PROVE  Spec => [](ClosedWithTransport /\ ToldExactlyOnce)
<1>1. Init => MediaInv
  <2> SUFFICES ASSUME Init
               PROVE  MediaInv
    OBVIOUS
  <2>1. calls = {} /\ ~closed /\ pcOpen /\ registered = {} /\ late = {} /\ seen = {} /\ shut = {}
    BY DEF Init
  <2>2. held = {} /\ \A p \in Media : memory[p] = "none" /\ notices[p] = 0
    BY DEF Init
  <2> QED BY <2>1, <2>2, AnyInit DEF MediaInv, Makers, Emptying, InMap
<1>2. MediaInv /\ [Next]_vars => MediaInv'
  BY MediaStep
<1>3. MediaInv => (ClosedWithTransport /\ ToldExactlyOnce)
  <2> SUFFICES ASSUME MediaInv, closed, ~Closing, NEW p \in Media
               PROVE  /\ memory[p] = "live" => p \in shut
                      /\ notices[p] = 1 <=> p \in registered
    BY DEF ClosedWithTransport, ToldExactlyOnce
  <2>1. registered \subseteq shut
    BY DEF MediaInv, Emptying
  <2> QED BY <2>1 DEF MediaInv, InMap
<1> QED BY <1>1, <1>2, <1>3, PTL DEF Spec

(* The application is asked to connect the transport at most once, if it   *)
(* makes its media one by one until the first has connected it.            *)
THEOREM ConnectsAtMostOnce ==
  ASSUME "ConnectAlone" \in Rule
  PROVE  Spec => []ConnectsOnce
<1>1. Init => AnyInv /\ Connecting
  <2> SUFFICES ASSUME Init
               PROVE  AnyInv /\ Connecting
    OBVIOUS
  <2>1. calls = {} /\ connects = 0
    BY DEF Init
  <2> QED BY <2>1, AnyInit DEF Connecting
<1>2. AnyInv /\ Connecting /\ [Next]_vars => (AnyInv /\ Connecting)'
  BY AnyStep, ConnectStep
<1>3. Connecting => ConnectsOnce
  BY DEF Connecting, ConnectsOnce
<1> QED BY <1>1, <1>2, <1>3, PTL DEF Spec

(* Once dispose has begun, no report of a state starts on any thread,      *)
(* whatever the application does.                                          *)
THEOREM Silence == Spec => SilentOnceDisposing
<1>1. Init => AnyInv /\ Muted
  BY AnyInit DEF Init, Muted, Disposing
<1>2. AnyInv /\ Muted /\ [Next]_vars => (AnyInv /\ Muted)'
  BY AnyStep, SilentStep
<1>3. AnyInv /\ Muted /\ [Next]_vars =>
        [\A f \in calls' \ calls : f.at = "loaded" => ~Disposing /\ handle = "live"]_vars
  BY SilentStep
<1> QED BY <1>1, <1>2, <1>3, PTL DEF Spec, SilentOnceDisposing
-----------------------------------------------------------------------------
(* The contract's view of the transport and of each medium.                *)
Phase ==
  IF native = "freed" THEN "destroyed"
  ELSE IF ~closed THEN "open"
  ELSE IF Closing THEN "closing" ELSE "closed"

StateOf(p) ==
  IF memory[p] \in {"none", "failed"} THEN "none"
  ELSE IF memory[p] = "freed" THEN "gone"
  ELSE IF p \in shut THEN "closed" ELSE "open"

(* A step that changes neither view is a stutter of the contract.          *)
LEMMA Stutter ==
  ASSUME Phase' = Phase, \A q \in Media : StateOf(q)' = StateOf(q)
  PROVE  UNCHANGED Contract!vars
  BY DEF Contract!vars, Phase, StateOf

(* One medium moves, and the transport does not.                           *)
LEMMA MediumMoves ==
  ASSUME NEW p \in Media, Phase' = Phase,
         \A q \in Media \ {p} : StateOf(q)' = StateOf(q),
         \/ Phase = "open" /\ StateOf(p) = "none" /\ StateOf(p)' = "open"
         \/ Phase # "destroyed" /\ StateOf(p) = "open" /\ StateOf(p)' = "closed"
         \/ StateOf(p) = "closed" /\ StateOf(p)' = "gone"
  PROVE  Contract!Next
<1> DEFINE S == [q \in Media |-> StateOf(q)]
<1>1. S' = [S EXCEPT ![p] = StateOf(p)'] /\ S[p] = StateOf(p)
  OBVIOUS
<1>2. CASE Phase = "open" /\ StateOf(p) = "none" /\ StateOf(p)' = "open"
  <2>1. Contract!Create(p)
    BY <1>1, <1>2 DEF Contract!Create, Contract!Move, Phase, StateOf
  <2> QED BY <2>1 DEF Contract!Next
<1>3. CASE Phase # "destroyed" /\ StateOf(p) = "open" /\ StateOf(p)' = "closed"
  <2>1. Contract!Close(p)
    BY <1>1, <1>3 DEF Contract!Close, Contract!Move, Phase, StateOf
  <2> QED BY <2>1 DEF Contract!Next
<1>4. CASE StateOf(p) = "closed" /\ StateOf(p)' = "gone"
  <2>1. Contract!Drop(p)
    BY <1>1, <1>4 DEF Contract!Drop, Contract!Move, Phase, StateOf
  <2> QED BY <2>1 DEF Contract!Next
<1> QED BY <1>2, <1>3, <1>4

(* The transport moves, and no medium does.                                *)
LEMMA PhaseMoves ==
  ASSUME \A q \in Media : StateOf(q)' = StateOf(q),
         \/ Phase = "open" /\ Phase' = "closing"
         \/ /\ Phase = "closing" /\ Phase' = "closed"
            /\ \A q \in Media : StateOf(q) # "open"
         \/ Phase = "closed" /\ Phase' = "destroyed"
  PROVE  Contract!Next
<1>1. [q \in Media |-> StateOf(q)]' = [q \in Media |-> StateOf(q)]
  OBVIOUS
<1>2. CASE Phase = "open" /\ Phase' = "closing"
  <2>1. Contract!BeginClose
    BY <1>1, <1>2 DEF Contract!BeginClose, Phase, StateOf
  <2> QED BY <2>1 DEF Contract!Next
<1>3. CASE /\ Phase = "closing" /\ Phase' = "closed"
           /\ \A q \in Media : StateOf(q) # "open"
  <2>1. Contract!EndClose
    BY <1>1, <1>3 DEF Contract!EndClose, Phase, StateOf
  <2> QED BY <2>1 DEF Contract!Next
<1>4. CASE Phase = "closed" /\ Phase' = "destroyed"
  <2>1. Contract!Destroy
    BY <1>1, <1>4 DEF Contract!Destroy, Phase, StateOf
  <2> QED BY <2>1 DEF Contract!Next
<1> QED BY <1>2, <1>3, <1>4

Refines == [Contract!Next]_(Contract!vars)

(* The phase is kept by a step that keeps the frames that are closing.     *)
LEMMA PhaseKept ==
  ASSUME UNCHANGED <<native, closed>>,
         closed => ((\E f \in calls : InClose(f)) <=> (\E f \in calls' : InClose(f)))
  PROVE  Phase' = Phase
<1>1. Closing <=> \E f \in calls : InClose(f)
  BY DEF Closing, InClose
<1>2. Closing' <=> \E f \in calls' : InClose(f)
  BY DEF Closing, InClose
<1> QED BY <1>1, <1>2 DEF Phase

(* What a frame says of itself in a state of the invariant.                *)
LEMMA FrameFacts ==
  ASSUME Inv, NEW f \in calls
  PROVE  f \in Frame /\ f.op \in Ops /\ FrameOK(f) /\ (~pcOpen => closed)
  BY FrameType DEF Inv, Placed, Life, TypeOK

(* The native transport lives as long as anything but its deletion.        *)
LEMMA NativeLives ==
  ASSUME Inv, \/ ~closed \/ \E f \in calls : f.at # "adapter"
              \/ \E p \in Media : p \in held \ shut
  PROVE  native # "freed" /\ Phase # "destroyed" /\ (~closed => Phase = "open")
<1>1. handle = "null" => closed /\ ~Closing
  BY DEF Inv, Life, Closing
<1>2. handle # "null"
  BY <1>1 DEF Inv, Life, Objects
<1> QED BY <1>2 DEF Inv, Life, Phase

(* A closed medium is deallocated, or is not.                              *)
LEMMA GoneRefines ==
  ASSUME Inv, NEW p \in Media, p \in shut, UNCHANGED shut, Phase' = Phase,
         memory[p] \in {"live", "freed"},
         memory' = memory \/ memory' = [memory EXCEPT ![p] = "freed"]
  PROVE  Refines
<1>1. \A q \in Media \ {p} : StateOf(q)' = StateOf(q)
  BY DEF StateOf, Inv, TypeOK
<1>2. StateOf(p)' = StateOf(p) \/ (StateOf(p) = "closed" /\ StateOf(p)' = "gone")
  BY DEF StateOf, Inv, TypeOK
<1> QED BY <1>1, <1>2, Stutter, MediumMoves DEF Refines

(* Calls that begin are no steps of the contract, but for a close.         *)
LEMMA BeginRefines ==
  ASSUME Inv, Dutiful, NEW t \in Thread,
         \/ Close(t) \/ Dispose(t) \/ Release(t) \/ RestartICE(t)
         \/ \E p \in Media : CreateProducer(t, p) \/ CreateConsumer(t, p)
  PROVE  Refines
<1>1. \A q \in Media : StateOf(q)' = StateOf(q)
  BY DEF Close, Dispose, Release, RestartICE, CreateProducer, CreateConsumer, BeginWaiting,
    mediaVars, StateOf
<1>2. CASE RestartICE(t) \/ \E p \in Media : CreateProducer(t, p) \/ CreateConsumer(t, p)
  <2>1. UNCHANGED <<native, closed>> /\ ~closed
    BY <1>2 DEF RestartICE, CreateProducer, CreateConsumer, Creatable, BeginWaiting, wrapperVars
  <2> QED BY <1>1, <2>1, PhaseKept, Stutter DEF Refines
<1>3. CASE Close(t)
  <2>1. Phase = "open" /\ closed' /\ native' = native /\ native # "freed"
    BY <1>3, NativeLives DEF Close
  <2>2. Closing'
    <3>1. NewFrame(t, "close", "closing", NoMedia).at = "closing"
      BY DEF NewFrame
    <3>2. NewFrame(t, "close", "closing", NoMedia) \in calls'
      BY <1>3 DEF Close
    <3> QED BY <3>1, <3>2 DEF Closing
  <2>3. Phase' = "closing"
    BY <2>1, <2>2 DEF Phase
  <2> QED BY <1>1, <2>1, <2>3, PhaseMoves DEF Refines
<1>4. CASE BeginDispose(calls, NewFrame(t, "dispose", "closing", NoMedia))
  <2>1. native' = native /\ closed'
    BY <1>4 DEF BeginDispose
  <2>2. CASE ~closed
    <3>1. Phase = "open" /\ native # "freed"
      BY <2>2, NativeLives
    <3>2. Closing'
      BY <1>4, <2>2 DEF BeginDispose, Closing, NewFrame
    <3>3. Phase' = "closing"
      BY <2>1, <3>1, <3>2 DEF Phase
    <3> QED BY <1>1, <3>1, <3>3, PhaseMoves DEF Refines
  <2>3. CASE closed
    <3>1. \A n : calls' = calls \cup {n} /\ ~InClose(n) =>
            ((\E f \in calls : InClose(f)) <=> (\E f \in calls' : InClose(f)))
      OBVIOUS
    <3>2. \E n : calls' = calls \cup {n} /\ ~InClose(n)
      <4> DEFINE n == [NewFrame(t, "dispose", "closing", NoMedia) EXCEPT
                         !.at = IF closed THEN "delete" ELSE "closing"]
      <4>1. n.at = "delete"
        BY <2>3 DEF NewFrame
      <4>2. calls' = calls \cup {n}
        BY <1>4 DEF BeginDispose
      <4> HIDE DEF n
      <4> QED BY <4>1, <4>2 DEF InClose
    <3>3. closed' = closed
      BY <1>4, <2>3 DEF BeginDispose, Inv, TypeOK
    <3> QED BY <1>1, <2>1, <3>1, <3>2, <3>3, PhaseKept, Stutter DEF Refines
  <2> QED BY <2>2, <2>3
<1>5. CASE Dispose(t)
  BY <1>4, <1>5 DEF Dispose
<1>6. CASE Release(t)
  <2>1. CASE UNCHANGED <<handle, native, adapter, heard, closed, pcOpen, calls>>
    BY <1>1, <2>1, PhaseKept, Stutter DEF Refines
  <2> QED BY <1>4, <1>6, <2>1 DEF Release
<1> QED BY <1>2, <1>3, <1>5, <1>6

(* A creation is a step of the contract when the native medium is made.    *)
LEMMA CreationRefines ==
  ASSUME Inv, NEW f \in calls,
         \/ Negotiated(f) \/ OnConnectReturns(f) \/ Described(f) \/ OnProduceReturns(f)
         \/ Created(f) \/ NotCreated(f)
  PROVE  Refines
<1>1. f.op = "create" /\ ~closed /\ f.on \in Media /\ memory[f.on] = "none" /\ ~InClose(f)
  BY FrameFacts
  DEF Negotiated, OnConnectReturns, Described, OnProduceReturns, Created, NotCreated,
    FrameOK, Negotiations, Ops, InClose
<1>2. UNCHANGED <<native, closed, shut>>
  BY <1>1, LeaveRemoves
  DEF Negotiated, OnConnectReturns, Described, OnProduceReturns, Created, NotCreated,
    transportVars, wrapperVars, mediaVars
<1>3. Phase' = Phase /\ Phase = "open"
  BY <1>1, <1>2, PhaseKept, NativeLives
<1>4. CASE Created(f)
  <2>1. memory' = [memory EXCEPT ![f.on] = "live"] /\ f.on \notin shut
    BY <1>1, <1>4 DEF Created, Inv, Objects
  <2>2. StateOf(f.on) = "none" /\ StateOf(f.on)' = "open"
    BY <1>1, <1>2, <2>1 DEF StateOf, Inv, TypeOK
  <2>3. \A q \in Media \ {f.on} : StateOf(q)' = StateOf(q)
    BY <1>2, <2>1 DEF StateOf, Inv, TypeOK
  <2> QED BY <1>1, <1>3, <2>2, <2>3, MediumMoves DEF Refines
<1>5. CASE ~Created(f)
  <2>1. memory' = memory \/ memory' = [memory EXCEPT ![f.on] = "failed"]
    BY <1>5 DEF Negotiated, OnConnectReturns, Described, OnProduceReturns, NotCreated, mediaVars
  <2>2. \A q \in Media : StateOf(q)' = StateOf(q)
    BY <1>1, <1>2, <2>1 DEF StateOf, Inv, TypeOK
  <2> QED BY <1>3, <2>2, Stutter DEF Refines
<1> QED BY <1>4, <1>5

(* The loop of Close closes the media, one step of the contract each.      *)
LEMMA LoopRefines ==
  ASSUME Inv, NEW f \in calls,
         \/ PcClosed(f) \/ OnTransportCloseReturns(f)
         \/ \E p \in Media : TransportClosed(f, p)
  PROVE  Refines
<1>1. f.op \in {"close", "dispose"} /\ InClose(f) /\ f.at # "adapter" /\ f \in Frame
  BY FrameFacts
  DEF PcClosed, OnTransportCloseReturns, TransportClosed, FrameOK, Negotiations, Ops, InClose
<1>2. ASSUME NEW at \in {"notify", "callback"}, NEW p \in Media \cup {NoMedia}, Step(f, at, p),
             UNCHANGED <<native, closed>>
      PROVE  Phase' = Phase
  <2>1. PICK g \in Frame :
          /\ calls' = (calls \ {f}) \cup {g} /\ g.op = f.op /\ g.at = at
    BY <1>2, StepMoves DEF Inv, Places
  <2>2. InClose(g)
    BY <1>1, <2>1 DEF InClose
  <2> QED BY <1>1, <1>2, <2>1, <2>2, PhaseKept
<1>3. native # "freed" /\ Phase # "destroyed"
  BY <1>1, NativeLives
<1>4. CASE PcClosed(f)
  <2>1. Phase' = Phase
    BY <1>2, <1>4 DEF PcClosed
  <2>2. \A q \in Media : StateOf(q)' = StateOf(q)
    BY <1>4 DEF PcClosed, mediaVars, StateOf
  <2> QED BY <2>1, <2>2, Stutter DEF Refines
<1>5. CASE OnTransportCloseReturns(f)
  <2>1. Phase' = Phase /\ UNCHANGED shut
    BY <1>2, <1>5 DEF OnTransportCloseReturns, transportVars, wrapperVars
  <2>2. f.on \in shut /\ f.on \in Media
    BY <1>5, FrameFacts DEF OnTransportCloseReturns, FrameOK, Inv, TypeOK
  <2>3. memory[f.on] \in {"live", "freed"}
    BY <2>2 DEF Inv, Objects, TypeOK
  <2>4. memory' = memory \/ memory' = [memory EXCEPT ![f.on] = "freed"]
    BY <1>5 DEF OnTransportCloseReturns, Unpin
  <2> QED BY <2>1, <2>2, <2>3, <2>4, GoneRefines DEF Refines
<1>6. ASSUME NEW p \in Media, TransportClosed(f, p)
      PROVE  Refines
  <2>1. /\ memory[p] = "live" /\ p \notin shut
        /\ shut' = shut \cup {p} /\ Step(f, "callback", p)
        /\ UNCHANGED <<native, closed, memory>>
    BY <1>6, NextIsOpen DEF TransportClosed, transportVars, wrapperVars
  <2>2. Phase' = Phase
    BY <1>2, <2>1
  <2>3. StateOf(p) = "open" /\ StateOf(p)' = "closed"
    BY <2>1 DEF StateOf
  <2>4. \A q \in Media \ {p} : StateOf(q)' = StateOf(q)
    BY <2>1 DEF StateOf
  <2> QED BY <1>3, <2>2, <2>3, <2>4, MediumMoves DEF Refines
<1> QED BY <1>4, <1>5, <1>6

(* Close is done in the contract when the last loop is over, and the       *)
(* transport is destroyed when it is deleted.                              *)
LEMMA EndRefines ==
  ASSUME Inv, NEW f \in calls,
         CloseEnds(f) \/ DeleteTransport(f) \/ DeleteAdapter(f)
  PROVE  Refines
<1>1. \A q \in Media : StateOf(q)' = StateOf(q)
  BY DEF CloseEnds, DeleteTransport, DeleteAdapter, mediaVars, StateOf
<1>2. CASE CloseEnds(f)
  <2>1. closed /\ Closing /\ Phase = "closing" /\ native # "freed"
    <3>1. closed /\ f.at = "notify"
      BY <1>2, FrameFacts DEF CloseEnds, FrameOK
    <3> QED BY <3>1, NativeLives DEF Closing, Phase
  <2>2. UNCHANGED <<native, closed>>
    BY <1>2, LeaveRemoves DEF CloseEnds, wrapperVars
  <2>3. \A q \in Media : StateOf(q) # "open"
    <3>1. registered \subseteq shut
      BY <1>2 DEF CloseEnds, Inv, Objects
    <3> QED BY <3>1 DEF StateOf, Inv, Objects, TypeOK
  <2>4. CASE Closing'
    <3>1. Phase' = Phase
      BY <2>1, <2>2, <2>4 DEF Phase
    <3> QED BY <1>1, <3>1, Stutter DEF Refines
  <2>5. CASE ~Closing'
    <3>1. Phase' = "closed"
      BY <2>1, <2>2, <2>5 DEF Phase
    <3> QED BY <1>1, <2>1, <2>3, <3>1, PhaseMoves DEF Refines
  <2> QED BY <2>4, <2>5
<1>3. CASE DeleteTransport(f)
  <2>1. /\ f.at = "delete" /\ f.op = "dispose" /\ f.thread # Signal /\ closed /\ Disposing
    BY <1>3, FrameFacts DEF DeleteTransport, FrameOK, Ops, Negotiations, Disposing
  <2>2. calls = {f}
    BY <1>3, <2>1, OnlyDisposal
  <2>3. ~Closing /\ native # "freed"
    BY <2>1, <2>2, NativeLives DEF Closing
  <2>4. Phase = "closed" /\ Phase' = "destroyed"
    BY <1>3, <2>1, <2>3 DEF DeleteTransport, Phase
  <2> QED BY <1>1, <2>4, PhaseMoves DEF Refines
<1>4. CASE DeleteAdapter(f)
  <2>1. native = "freed" /\ native' = native
    BY <1>4, FrameFacts DEF DeleteAdapter, FrameOK, Inv, Life
  <2>2. Phase' = Phase
    BY <2>1 DEF Phase
  <2> QED BY <1>1, <2>2, Stutter DEF Refines
<1> QED BY <1>2, <1>3, <1>4

(* Restarts of ICE and reports of a state are no steps of the contract.    *)
LEMMA ReportRefines ==
  ASSUME Inv,
         \/ StateChange
         \/ \E f \in calls : RestartReturns(f) \/ OnConnectionStateChange(f) \/ StateReturns(f)
  PROVE  Refines
<1>1. \A q \in Media : StateOf(q)' = StateOf(q)
  BY DEF StateChange, RestartReturns, OnConnectionStateChange, StateReturns, mediaVars, StateOf
<1>2. CASE StateChange
  <2>1. calls' = calls \cup {NewFrame(Signal, "state", "loaded", NoMedia)}
        /\ UNCHANGED <<native, closed>>
    BY <1>2, Heard DEF StateChange, transportVars, wrapperVars
  <2>2. ~InClose(NewFrame(Signal, "state", "loaded", NoMedia))
    BY DEF NewFrame, InClose
  <2> QED BY <1>1, <2>1, <2>2, PhaseKept, Stutter DEF Refines
<1>3. ASSUME NEW f \in calls, RestartReturns(f) \/ StateReturns(f)
      PROVE  Refines
  <2>1. f.op \in {"restart", "state"} /\ ~InClose(f)
    BY <1>3, FrameFacts DEF RestartReturns, StateReturns, FrameOK, InClose
  <2>2. calls' = calls \ {f} /\ UNCHANGED wrapperVars
    BY <1>3, <2>1, LeaveRemoves, StateReturnsOnly DEF RestartReturns
  <2> QED BY <1>1, <2>1, <2>2, PhaseKept, Stutter DEF Refines, wrapperVars
<1>4. ASSUME NEW f \in calls, OnConnectionStateChange(f)
      PROVE  Refines
  <2>1. /\ f.op = "state" /\ f.at = "loaded" /\ Step(f, "callback", NoMedia)
        /\ UNCHANGED <<native, closed>>
    BY <1>4, FrameFacts
    DEF OnConnectionStateChange, FrameOK, Ops, Negotiations, transportVars, wrapperVars
  <2>2. PICK g \in Frame : calls' = (calls \ {f}) \cup {g} /\ g.op = f.op /\ g.at = "callback"
    BY <2>1, StepMoves DEF Inv, Places
  <2>3. ~InClose(f) /\ ~InClose(g)
    BY <2>1, <2>2 DEF InClose
  <2> QED BY <1>1, <2>1, <2>2, <2>3, PhaseKept, Stutter DEF Refines
<1> QED BY <1>2, <1>3, <1>4

(* The application closes a medium, or lets one go that is closed.         *)
LEMMA MediumRefines ==
  ASSUME Inv, Dutiful,
         \/ \E t \in Thread, p \in Media : CloseMedium(t, p) \/ DropMedium(t, p)
         \/ \E f \in calls : CloseMediumReturns(f)
  PROVE  Refines
<1>1. ASSUME NEW t \in Thread, NEW p \in Media, CloseMedium(t, p)
      PROVE  Refines
  <2>1. native # "freed" /\ Phase # "destroyed" /\ memory[p] = "live" /\ p \notin shut
    BY <1>1, NativeLives DEF CloseMedium, Inv, Objects
  <2>2. /\ shut' = shut \cup {p} /\ UNCHANGED <<native, closed, memory>>
        /\ closed => calls' = calls
    BY <1>1, <2>1 DEF CloseMedium, transportVars, wrapperVars
  <2>3. Phase' = Phase
    BY <2>2, PhaseKept
  <2>4. StateOf(p) = "open" /\ StateOf(p)' = "closed"
    BY <2>1, <2>2 DEF StateOf
  <2>5. \A q \in Media \ {p} : StateOf(q)' = StateOf(q)
    BY <2>2 DEF StateOf
  <2> QED BY <2>1, <2>3, <2>4, <2>5, MediumMoves DEF Refines
<1>2. ASSUME NEW t \in Thread, NEW p \in Media, DropMedium(t, p)
      PROVE  Refines
  <2>1. /\ p \in shut /\ UNCHANGED <<native, closed, shut, calls>>
        /\ memory' = memory \/ memory' = [memory EXCEPT ![p] = "freed"]
    BY <1>2 DEF DropMedium, Dutiful, AllRules, transportVars, wrapperVars
  <2>2. memory[p] \in {"live", "freed"}
    BY <2>1 DEF Inv, Objects, TypeOK
  <2>3. Phase' = Phase
    BY <2>1, PhaseKept
  <2> QED BY <2>1, <2>2, <2>3, GoneRefines DEF Refines
<1>3. ASSUME NEW f \in calls, CloseMediumReturns(f)
      PROVE  Refines
  <2>1. ~closed /\ pcOpen /\ f.on \in shut /\ f.on \in Media
    BY <1>3, FrameFacts DEF CloseMediumReturns, FrameOK, Inv, TypeOK
  <2>2. /\ UNCHANGED <<native, closed, shut>>
        /\ memory' = memory \/ memory' = [memory EXCEPT ![f.on] = "freed"]
    BY <1>3, <2>1 DEF CloseMediumReturns, Unpin, transportVars, wrapperVars
  <2>3. memory[f.on] \in {"live", "freed"}
    BY <2>1 DEF Inv, Objects, TypeOK
  <2>4. Phase' = Phase
    BY <2>1, <2>2, PhaseKept
  <2> QED BY <2>1, <2>2, <2>3, <2>4, GoneRefines DEF Refines
<1> QED BY <1>1, <1>2, <1>3

(* Every step of the transport is a step of the contract or a stutter.     *)
LEMMA StepRefines ==
  ASSUME Inv, Dutiful, [Next]_vars
  PROVE  Refines
<1>1. CASE UNCHANGED vars
  BY <1>1
  DEF vars, transportVars, wrapperVars, mediaVars, Refines, Contract!vars, Closing
<1>2. ASSUME NEW f \in calls, FrameStep(f)
      PROVE  Refines
  BY <1>2, CreationRefines, LoopRefines, EndRefines, ReportRefines, MediumRefines DEF FrameStep
<1>3. CASE Next
  BY <1>2, <1>3, BeginRefines, ReportRefines, MediumRefines DEF Next
<1> QED BY <1>1, <1>3

(* The transport keeps the contract, whatever is made on it and whenever   *)
(* and however often it is closed, disposed of or let go.                  *)
THEOREM Refinement ==
  ASSUME Dutiful
  PROVE  Spec => ImplementsContract
<1>1. Init => AnyInv /\ Inv
  BY AnyInit, InvInit
<1>2. AnyInv /\ Inv /\ [Next]_vars => (AnyInv /\ Inv)'
  BY AnyStep, InvStep
<1>3. Init => Contract!Init
  BY DEF Init, Contract!Init, Closing
<1>4. Inv /\ [Next]_vars => [Contract!Next]_(Contract!vars)
  BY StepRefines DEF Refines
<1> QED BY <1>1, <1>2, <1>3, <1>4, PTL DEF Spec, ImplementsContract, Contract!Spec
=============================================================================
