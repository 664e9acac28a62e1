----------------------------- MODULE DeviceProofs -----------------------------
(***************************************************************************)
(* Theorems about Device, for any threads, transports and capabilities:    *)
(* some of them whatever the application does, one of a device that is     *)
(* loaded by one thread at a time, and, of an application that keeps the   *)
(* other duties, that the device implements AudioSession and is safe.      *)
(***************************************************************************)
EXTENDS Device, AudioSessionProofs

(* A transport in the making has one maker.                                *)
OneMaker ==
  \A t \in Thread :
    call[t] \in Making =>
      /\ stage[call[t].create] = "creating"
      /\ \A s \in Thread :
           call[s] \in Making /\ call[s].create = call[t].create => s = t

(* The factory is shared exactly while there is a transport.               *)
Shares == transport <=> \E x \in Transports : stage[x] = "live"

OwnTypes ==
  /\ loaded \in BOOLEAN
  /\ capabilities \in Capabilities \cup {None}
  /\ call \in [Thread -> Loading \cup Making \cup {Idle}]
  /\ stage \in [Transports -> {"none", "creating", "failed", "live", "gone"}]
  /\ adapter \in [Transports -> {"none", "live", "freed"}]
  /\ copied \in [Transports -> Capabilities \cup {None}]
  /\ agreed \in [Transports -> Capabilities \cup {None}]
  /\ told \in Capabilities \cup {None}

(* Of the transports, whatever the application does.                       *)
Own == OwnTypes /\ Shares /\ OneMaker /\ AdaptersOwned

AnyDeviceInv == AnyInv /\ Own

(* A call loads or makes a transport, not both.                            *)
LEMMA CallsDiffer ==
  ASSUME NEW c
  PROVE  /\ c \in Loading => c \notin Making /\ c.load \in Capabilities
         /\ c \in Making => c.create \in Transports
         /\ c = Idle => c \notin Loading /\ c \notin Making
  BY LoadAssumption DEF Loading, Making

(* The initial state.                                                      *)
LEMMA AnyDeviceInit ==
  ASSUME DeviceInit
  PROVE  AnyDeviceInv
<1>1. AnyInv
  BY AnyInit DEF DeviceInit
<1>2. transport = FALSE
  BY DEF DeviceInit, Init
<1>3. \A t \in Thread : call[t] = Idle
  BY DEF DeviceInit
<1>4. OwnTypes /\ Shares /\ AdaptersOwned
  BY <1>2 DEF DeviceInit, OwnTypes, Shares, AdaptersOwned
<1>5. OneMaker
  BY <1>3, CallsDiffer DEF OneMaker
<1> QED BY <1>1, <1>4, <1>5 DEF AnyDeviceInv, Own
-----------------------------------------------------------------------------
(* What a call to the device can do to its audio session, other than one   *)
(* of the session's own steps: let an exception out, or read the native    *)
(* Device when it is freed.                                                *)
Breaks ==
  /\ ub' \in {"escaped", "freedDevice"}
  /\ UNCHANGED <<owned, wrapper, dealloc, transport, worker, tasks, module, wanted>>

LEMMA MakeMediumSession ==
  ASSUME NEW x \in Transports, MakeMedium(x)
  PROVE  IF wrapper = "freed" THEN Breaks /\ UNCHANGED agreed
         ELSE UNCHANGED vars /\ agreed' = [agreed EXCEPT ![x] = capabilities]
  BY DEF MakeMedium, Breaks

LEMMA BeginCreateSession ==
  ASSUME NEW t \in Thread, NEW x \in Transports, NEW copy, NEW sound \in Sound,
         BeginCreate(t, x, copy, sound)
  PROVE  IF sound THEN UNCHANGED vars ELSE Breaks /\ UNCHANGED deviceVars /\ FALSE \in Sound
<1>1. ~sound => sound = FALSE
  BY DEF Sound
<1> QED BY <1>1 DEF BeginCreate, PCOptionsEscape, Breaks

(* A step of the device is a step of its audio session, leaves it alone or *)
(* breaks it.                                                              *)
LEMMA SessionStepOrBreaks ==
  ASSUME [DeviceNext]_allVars
  PROVE  \/ [Next]_vars
         \/ /\ Breaks
            /\ FALSE \in Sound \/ \E x \in Transports : MakeMedium(x) /\ wrapper = "freed"
<1>1. ASSUME NEW t \in Thread, CreateEnds(t)
      PROVE  [Next]_vars
  BY <1>1 DEF CreateEnds, Next
<1>2. ASSUME NEW x \in Transports, DisposeTransport(x)
      PROVE  [Next]_vars
  BY <1>2 DEF DisposeTransport, Next
<1>3. ASSUME LetDeviceGo \/ SessionStep
      PROVE  Next
  BY <1>3 DEF LetDeviceGo, SessionStep, Next
<1>4. ASSUME NEW t \in Thread,
             \/ \E c \in Capabilities : BeginLoad(t, c)
             \/ LoadEnds(t) \/ LoadFails(t) \/ RTPCapabilities(t) \/ CreateFails(t)
      PROVE  UNCHANGED vars
  BY <1>4 DEF BeginLoad, LoadEnds, LoadFails, RTPCapabilities, CreateFails
<1>5. CASE UNCHANGED allVars
  BY <1>5 DEF allVars
<1>6. ASSUME NEW t \in Thread, NEW x \in Transports, NEW copy, NEW sound \in Sound,
             BeginCreate(t, x, copy, sound)
      PROVE  UNCHANGED vars \/ (Breaks /\ FALSE \in Sound)
  BY <1>6, BeginCreateSession
<1>7. ASSUME NEW x \in Transports, MakeMedium(x)
      PROVE  UNCHANGED vars \/ (Breaks /\ wrapper = "freed")
  BY <1>7, MakeMediumSession
<1> QED
  BY <1>1, <1>2, <1>3, <1>4, <1>5, <1>6, <1>7
  DEF DeviceNext, CreateSendTransport, CreateReceiveTransport

(* What holds of every session holds of that of a device too.              *)
LEMMA AnySessionStep ==
  ASSUME AnyInv, [DeviceNext]_allVars
  PROVE  AnyInv'
<1>1. ASSUME Breaks
      PROVE  AnyInv'
  BY <1>1 DEF Breaks, AnyInv, TypeOK, Alive, WorkerKept, LastWanted
<1> QED BY <1>1, AnyStep, SessionStepOrBreaks
-----------------------------------------------------------------------------
(* A step that makes no transport and ends none.                           *)
LEMMA OwnKept ==
  ASSUME Own, OwnTypes', UNCHANGED <<transport, stage, adapter>>,
         \A s \in Thread : call'[s] \in Making => call'[s] = call[s]
  PROVE  Own'
<1>1. Shares' /\ AdaptersOwned'
  BY DEF Own, Shares, AdaptersOwned
<1>2. OneMaker'
  BY DEF Own, OneMaker
<1> QED BY <1>1, <1>2 DEF Own

(* The steps of load.                                                      *)
LEMMA LoadStep ==
  ASSUME Own, NEW t \in Thread,
         (\E c \in Capabilities : BeginLoad(t, c)) \/ LoadEnds(t) \/ LoadFails(t)
  PROVE  Own'
<1>0. USE CallsDiffer
<1>1. CASE \E c \in Capabilities : BeginLoad(t, c)
  <2>1. PICK c \in Capabilities : call' = [call EXCEPT ![t] = [load |-> c]]
    BY <1>1 DEF BeginLoad
  <2>2. [load |-> c] \in Loading
    BY DEF Loading
  <2>3. UNCHANGED <<transport, loaded, capabilities, stage, adapter, copied, agreed, told>>
    BY <1>1 DEF BeginLoad, vars
  <2>4. \A s \in Thread : call'[s] = IF s = t THEN [load |-> c] ELSE call[s]
    BY <2>1 DEF Own, OwnTypes
  <2>5. OwnTypes'
    BY <2>1, <2>2, <2>3 DEF Own, OwnTypes
  <2> QED BY <2>2, <2>3, <2>4, <2>5, OwnKept
<1>2. CASE LoadEnds(t) \/ LoadFails(t)
  <2>1. /\ call[t] \in Loading /\ call' = [call EXCEPT ![t] = Idle]
        /\ loaded' \in {loaded, TRUE} /\ capabilities' \in {capabilities, call[t].load}
        /\ UNCHANGED <<transport, stage, adapter, copied, agreed, told>>
    BY <1>2 DEF LoadEnds, LoadFails, vars
  <2>2. \A s \in Thread : call'[s] = IF s = t THEN Idle ELSE call[s]
    BY <2>1 DEF Own, OwnTypes
  <2>3. OwnTypes'
    BY <2>1 DEF Own, OwnTypes
  <2> QED BY <2>1, <2>2, <2>3, OwnKept
<1> QED BY <1>1, <1>2

(* The steps of a creation; <1>2 is what its two ends have in common.      *)
LEMMA CreateStep ==
  ASSUME Own, NEW t \in Thread, NEW x \in Transports, NEW copy \in {capabilities, None},
         (\E sound \in Sound : BeginCreate(t, x, copy, sound)) \/ CreateEnds(t) \/ CreateFails(t)
  PROVE  Own'
<1>0. USE CallsDiffer
<1>1. ASSUME NEW sound \in Sound, BeginCreate(t, x, copy, sound)
      PROVE  Own'
  <2>1. CASE ~sound
    <3>1. UNCHANGED deviceVars /\ UNCHANGED transport
      BY <1>1, <2>1, BeginCreateSession DEF Breaks
    <3>2. OwnTypes'
      BY <3>1 DEF deviceVars, Own, OwnTypes
    <3> QED BY <3>1, <3>2, OwnKept DEF deviceVars
  <2>2. CASE sound
    <3>1. /\ stage[x] = "none"
          /\ stage' = [stage EXCEPT ![x] = "creating"]
          /\ adapter' = [adapter EXCEPT ![x] = "live"]
          /\ copied' = [copied EXCEPT ![x] = copy]
          /\ call' = [call EXCEPT ![t] = [create |-> x]]
          /\ UNCHANGED <<transport, loaded, capabilities, agreed, told>>
      BY <1>1, <2>2 DEF BeginCreate, vars
    <3>2. [create |-> x] \in Making
      BY DEF Making
    <3>3. \A s \in Thread : call'[s] = IF s = t THEN [create |-> x] ELSE call[s]
      BY <3>1 DEF Own, OwnTypes
    <3>4. OwnTypes'
      BY <3>1, <3>2 DEF Own, OwnTypes
    <3>5. Shares' /\ AdaptersOwned'
      BY <3>1 DEF Own, OwnTypes, Shares, AdaptersOwned
    <3>6. OneMaker'
      BY <3>1, <3>2, <3>3 DEF OneMaker, Own, OwnTypes
    <3> QED BY <3>4, <3>5, <3>6 DEF Own
  <2> QED BY <2>1, <2>2
<1>2. ASSUME NEW y \in Transports, NEW to, NEW kept,
             call[t] \in Making, y = call[t].create,
             \/ to = "live" /\ kept = "live" /\ transport' = TRUE
             \/ to = "failed" /\ kept = "freed" /\ UNCHANGED transport,
             stage' = [stage EXCEPT ![y] = to],
             adapter' = [adapter EXCEPT ![y] = kept],
             call' = [call EXCEPT ![t] = Idle],
             UNCHANGED <<loaded, capabilities, copied, agreed, told>>
      PROVE  Own'
  <2>1. stage[y] = "creating"
    BY <1>2 DEF Own, OneMaker
  <2>2. \A s \in Thread : call'[s] = IF s = t THEN Idle ELSE call[s]
    BY <1>2 DEF Own, OwnTypes
  <2>3. OwnTypes'
    BY <1>2 DEF Own, OwnTypes
  <2>4. Shares' /\ AdaptersOwned'
    BY <1>2, <2>1 DEF Own, OwnTypes, Shares, AdaptersOwned
  <2>5. OneMaker'
    BY <1>2, <2>1, <2>2 DEF OneMaker, Own, OwnTypes
  <2> QED BY <2>3, <2>4, <2>5 DEF Own
<1>3. CASE CreateEnds(t)
  <2>1. call[t].create \in Transports
    BY <1>3 DEF CreateEnds
  <2>2. stage[call[t].create] = "creating"
    BY <1>3 DEF CreateEnds, Own, OneMaker
  <2>3. adapter[call[t].create] = "live"
    BY <2>1, <2>2 DEF Own, AdaptersOwned
  <2>4. adapter' = [adapter EXCEPT ![call[t].create] = "live"]
    BY <1>3, <2>1, <2>3 DEF CreateEnds, Own, OwnTypes
  <2>5. transport' = TRUE
    BY <1>3 DEF CreateEnds, CreateTransport, vars, Own, Shares
  <2> QED BY <1>2, <1>3, <2>1, <2>4, <2>5 DEF CreateEnds
<1>4. CASE CreateFails(t)
  <2>1. call[t].create \in Transports
    BY <1>4 DEF CreateFails
  <2> QED BY <1>2, <1>4, <2>1 DEF CreateFails, vars
<1> QED BY <1>1, <1>3, <1>4

(* The end of a transport.                                                 *)
LEMMA DisposeStep ==
  ASSUME AnyInv, Own, NEW x \in Transports, DisposeTransport(x)
  PROVE  Own'
<1>1. /\ stage[x] = "live"
      /\ stage' = [stage EXCEPT ![x] = "gone"]
      /\ adapter' = [adapter EXCEPT ![x] = "freed"]
      /\ UNCHANGED <<loaded, capabilities, call, copied, agreed, told>>
  BY DEF DisposeTransport
<1>2. transport' = \E y \in Transports \ {x} : stage[y] = "live"
  <2>1. CASE \E y \in Transports \ {x} : stage[y] = "live"
    <3>1. transport' = transport /\ transport = TRUE
      BY <2>1 DEF DisposeTransport, vars, Own, Shares, AnyInv, TypeOK
    <3> QED BY <2>1, <3>1
  <2>2. CASE ~ \E y \in Transports \ {x} : stage[y] = "live"
    <3>1. transport' = FALSE
      BY <2>2 DEF DisposeTransport, DropTransport
    <3> QED BY <2>2, <3>1
  <2> QED BY <2>1, <2>2
<1>3. OwnTypes'
  BY <1>1 DEF Own, OwnTypes
<1>4. \A y \in Transports : stage'[y] = IF y = x THEN "gone" ELSE stage[y]
  BY <1>1 DEF Own, OwnTypes
<1>5. Shares'
  BY <1>2, <1>4 DEF Shares
<1>6. OneMaker'
  BY <1>1, <1>4, CallsDiffer DEF Own, OneMaker
<1>7. AdaptersOwned'
  BY <1>1, <1>4 DEF Own, OwnTypes, AdaptersOwned
<1> QED BY <1>3, <1>5, <1>6, <1>7 DEF Own

(* The steps that leave the transports alone.                              *)
LEMMA OtherStep ==
  ASSUME Own,
         \/ \E x \in Transports : MakeMedium(x)
         \/ \E t \in Thread : RTPCapabilities(t)
         \/ LetDeviceGo \/ SessionStep \/ UNCHANGED allVars
  PROVE  Own'
<1>1. ASSUME NEW x \in Transports, MakeMedium(x)
      PROVE  Own'
  <2>1. UNCHANGED <<transport, loaded, capabilities, call, stage, adapter, copied, told>>
    BY <1>1, MakeMediumSession DEF MakeMedium, Breaks, vars
  <2>2. UNCHANGED agreed \/ agreed' = [agreed EXCEPT ![x] = capabilities]
    BY <1>1, MakeMediumSession
  <2>3. OwnTypes'
    BY <2>1, <2>2 DEF Own, OwnTypes
  <2> QED BY <2>1, <2>3, OwnKept
<1>2. ASSUME NEW t \in Thread, RTPCapabilities(t)
      PROVE  Own'
  <2>1. /\ told' = capabilities
        /\ UNCHANGED <<transport, loaded, capabilities, call, stage, adapter, copied, agreed>>
    BY <1>2 DEF RTPCapabilities, vars
  <2>2. OwnTypes'
    BY <2>1 DEF Own, OwnTypes
  <2> QED BY <2>1, <2>2, OwnKept
<1>3. ASSUME LetDeviceGo \/ SessionStep \/ UNCHANGED allVars
      PROVE  Own'
  <2>1. UNCHANGED deviceVars /\ UNCHANGED transport
    BY <1>3
    DEF LetDeviceGo, SessionStep, DropDevice, RetainAudioSession, ReleaseAudioSession, Post,
        EndDealloc, RunTask, allVars, vars
  <2>2. OwnTypes'
    BY <2>1 DEF deviceVars, Own, OwnTypes
  <2> QED BY <2>1, <2>2, OwnKept DEF deviceVars
<1> QED BY <1>1, <1>2, <1>3

(* Every step keeps the transports in order.                               *)
LEMMA AnyDeviceStep ==
  ASSUME AnyDeviceInv, [DeviceNext]_allVars
  PROVE  AnyDeviceInv'
<1>1. ASSUME NEW t \in Thread,
             \/ \E x \in Transports : CreateSendTransport(t, x) \/ CreateReceiveTransport(t, x)
             \/ CreateEnds(t) \/ CreateFails(t)
      PROVE  Own'
  <2>1. ASSUME CreateEnds(t) \/ CreateFails(t)
        PROVE  Own'
    <3>1. call[t].create \in Transports
      BY <2>1, CallsDiffer DEF CreateEnds, CreateFails
    <3> QED BY <2>1, <3>1, CreateStep DEF AnyDeviceInv
  <2> QED
    BY <1>1, <2>1, CreateStep DEF AnyDeviceInv, CreateSendTransport, CreateReceiveTransport
<1>2. Own'
  BY <1>1, LoadStep, DisposeStep, OtherStep DEF DeviceNext, AnyDeviceInv
<1> QED BY <1>2, AnySessionStep DEF AnyDeviceInv

(* So they are, whatever the threads and the application do.               *)
LEMMA AnyDeviceAlways == DeviceSpec => []AnyDeviceInv
<1>1. DeviceInit => AnyDeviceInv
  BY AnyDeviceInit
<1>2. AnyDeviceInv /\ [DeviceNext]_allVars => AnyDeviceInv'
  BY AnyDeviceStep
<1> QED BY <1>1, <1>2, PTL DEF DeviceSpec

(* Every variable keeps its type, and the factory is shared exactly while  *)
(* there is a transport.                                                   *)
THEOREM DeviceTyping == DeviceSpec => []DeviceTypeOK
<1>1. DeviceSpec => []AnyDeviceInv
  BY AnyDeviceAlways
<1>2. AnyDeviceInv => DeviceTypeOK
  BY DEF AnyDeviceInv, AnyInv, Own, OwnTypes, Shares, DeviceTypeOK
<1> QED BY <1>1, <1>2, PTL

(* No adapter is leaked by a creation that fails or taken from a transport *)
(* that lives.                                                             *)
THEOREM TransportsKeepTheirOwn == DeviceSpec => []AdaptersOwned
<1>1. DeviceSpec => []AnyDeviceInv
  BY AnyDeviceAlways
<1>2. AnyDeviceInv => AdaptersOwned
  BY DEF AnyDeviceInv, Own
<1> QED BY <1>1, <1>2, PTL

(* The worker thread runs as long as there is a transport, whichever       *)
(* thread lets the device go and deallocates it.                           *)
THEOREM WorkerStays == DeviceSpec => []WorkerOutlives
<1>1. DeviceSpec => []AnyDeviceInv
  BY AnyDeviceAlways
<1>2. AnyDeviceInv => WorkerOutlives
  BY DEF AnyDeviceInv, AnyInv, WorkerKept, Own, Shares, WorkerOutlives
<1> QED BY <1>1, <1>2, PTL

(* The audio device module of a device that loads and makes transports     *)
(* meanwhile is last told what the last call wanted.                       *)
THEOREM DeviceLastCall == DeviceSpec => []LastCallWins
<1>1. DeviceSpec => []AnyDeviceInv
  BY AnyDeviceAlways
<1>2. AnyDeviceInv => LastCallWins
  BY DEF AnyDeviceInv, AnyInv, LastWanted, LastCallWins
<1> QED BY <1>1, <1>2, PTL
-----------------------------------------------------------------------------
(* Nothing has been told, copied, agreed or made before the device is      *)
(* loaded, and it is loaded once.                                          *)
NothingBeforeLoaded ==
  ~loaded =>
    /\ told = None
    /\ \A x \in Transports : copied[x] = None /\ agreed[x] = None /\ stage[x] = "none"

LoadingAlone ==
  \A t \in Thread :
    call[t] \in Loading => ~loaded /\ \A s \in Thread : call[s] \in Loading => s = t

Agreeing == NothingBeforeLoaded /\ LoadingAlone /\ OneTruth

(* Every step of a device that is loaded by one thread at a time.          *)
LEMMA AgreeingStep ==
  ASSUME "LoadAlone" \in DeviceDuties, AnyDeviceInv, Agreeing, [DeviceNext]_allVars
  PROVE  Agreeing'
<1>0. OwnTypes /\ OneMaker
  BY DEF AnyDeviceInv, Own
<1> USE CallsDiffer
<1>1. ASSUME NEW t \in Thread, NEW c \in Capabilities, BeginLoad(t, c)
      PROVE  Agreeing'
  <2>1. /\ call' = [call EXCEPT ![t] = [load |-> c]] /\ ~loaded
        /\ \A s \in Thread : call[s] \notin Loading
        /\ UNCHANGED <<loaded, capabilities, stage, copied, agreed, told>>
    BY <1>1 DEF BeginLoad
  <2>2. \A s \in Thread : call'[s] = IF s = t THEN [load |-> c] ELSE call[s]
    BY <1>0, <2>1 DEF OwnTypes
  <2>3. LoadingAlone'
    BY <2>1, <2>2 DEF LoadingAlone
  <2> QED BY <2>1, <2>3 DEF Agreeing, NothingBeforeLoaded, OneTruth
<1>2. ASSUME NEW t \in Thread, LoadEnds(t) \/ LoadFails(t)
      PROVE  Agreeing'
  <2>1. /\ call[t] \in Loading /\ ~loaded
        /\ call' = [call EXCEPT ![t] = Idle]
        /\ UNCHANGED <<stage, copied, agreed, told>>
    BY <1>2 DEF LoadEnds, LoadFails, Agreeing, LoadingAlone
  <2>2. \A s \in Thread : call'[s] = IF s = t THEN Idle ELSE call[s]
    BY <1>0, <2>1 DEF OwnTypes
  <2>3. LoadingAlone'
    BY <2>1, <2>2 DEF LoadingAlone, Agreeing
  <2> QED BY <2>1, <2>3 DEF Agreeing, NothingBeforeLoaded, OneTruth
<1>3. ASSUME NEW t \in Thread, RTPCapabilities(t)
      PROVE  Agreeing'
  <2>1. /\ loaded /\ told' = capabilities
        /\ UNCHANGED <<loaded, capabilities, call, stage, copied, agreed>>
    BY <1>3 DEF RTPCapabilities
  <2> QED BY <2>1 DEF Agreeing, NothingBeforeLoaded, LoadingAlone, OneTruth
<1>4. ASSUME NEW t \in Thread, NEW x \in Transports, NEW copy \in {capabilities, None},
             NEW sound \in Sound, BeginCreate(t, x, copy, sound)
      PROVE  Agreeing'
  <2>1. CASE ~sound
    <3>1. UNCHANGED deviceVars
      BY <1>4, <2>1, BeginCreateSession
    <3> QED BY <3>1 DEF deviceVars, Agreeing, NothingBeforeLoaded, LoadingAlone, OneTruth
  <2>2. CASE sound
    <3>1. /\ loaded
          /\ copied' = [copied EXCEPT ![x] = copy]
          /\ call' = [call EXCEPT ![t] = [create |-> x]]
          /\ UNCHANGED <<loaded, capabilities, agreed, told>>
      BY <1>4, <2>2 DEF BeginCreate
    <3>2. [create |-> x] \in Making
      BY DEF Making
    <3>3. \A s \in Thread : call'[s] = IF s = t THEN [create |-> x] ELSE call[s]
      BY <1>0, <3>1 DEF OwnTypes
    <3>4. LoadingAlone'
      BY <3>1, <3>2, <3>3 DEF LoadingAlone, Agreeing
    <3>5. OneTruth'
      BY <1>0, <3>1 DEF OwnTypes, Agreeing, OneTruth
    <3> QED BY <3>1, <3>4, <3>5 DEF Agreeing, NothingBeforeLoaded
  <2> QED BY <2>1, <2>2
<1>5. ASSUME NEW t \in Thread, CreateEnds(t) \/ CreateFails(t)
      PROVE  Agreeing'
  <2>1. /\ call[t] \in Making /\ call' = [call EXCEPT ![t] = Idle]
        /\ UNCHANGED <<loaded, capabilities, copied, agreed, told>>
    BY <1>5 DEF CreateEnds, CreateFails
  <2>2. loaded
    <3>1. call[t].create \in Transports /\ stage[call[t].create] = "creating"
      BY <1>0, <2>1 DEF OneMaker
    <3> QED BY <3>1 DEF Agreeing, NothingBeforeLoaded
  <2>3. \A s \in Thread : call'[s] = IF s = t THEN Idle ELSE call[s]
    BY <1>0, <2>1 DEF OwnTypes
  <2>4. LoadingAlone'
    BY <2>1, <2>3 DEF LoadingAlone, Agreeing
  <2> QED BY <2>1, <2>2, <2>4 DEF Agreeing, NothingBeforeLoaded, OneTruth
<1>6. ASSUME NEW x \in Transports, DisposeTransport(x)
      PROVE  Agreeing'
  <2>1. stage[x] = "live" /\ UNCHANGED <<loaded, capabilities, call, copied, agreed, told>>
    BY <1>6 DEF DisposeTransport
  <2> QED BY <2>1 DEF Agreeing, NothingBeforeLoaded, LoadingAlone, OneTruth
<1>7. ASSUME NEW x \in Transports, MakeMedium(x)
      PROVE  Agreeing'
  <2>1. stage[x] = "live" /\ UNCHANGED <<loaded, capabilities, call, stage, copied, told>>
    BY <1>7 DEF MakeMedium
  <2>2. loaded
    BY <2>1 DEF Agreeing, NothingBeforeLoaded
  <2>3. \A y \in Transports : agreed'[y] \in {agreed[y], capabilities}
    BY <1>0, <1>7, MakeMediumSession DEF OwnTypes
  <2>4. OneTruth'
    BY <2>1, <2>3 DEF Agreeing, OneTruth
  <2> QED BY <2>1, <2>2, <2>4 DEF Agreeing, NothingBeforeLoaded, LoadingAlone
<1>8. ASSUME LetDeviceGo \/ SessionStep \/ UNCHANGED allVars
      PROVE  Agreeing'
  <2>1. UNCHANGED deviceVars
    BY <1>8 DEF LetDeviceGo, SessionStep, allVars
  <2> QED BY <2>1 DEF deviceVars, Agreeing, NothingBeforeLoaded, LoadingAlone, OneTruth
<1> QED
  BY <1>1, <1>2, <1>3, <1>4, <1>5, <1>6, <1>7, <1>8
  DEF DeviceNext, CreateSendTransport, CreateReceiveTransport

(* There is one version of the capabilities in use, whoever was told them, *)
(* copied them or negotiated with them, if calls of load do not overlap.   *)
THEOREM CapabilitiesAgree ==
  ASSUME "LoadAlone" \in DeviceDuties
  PROVE  DeviceSpec => []OneTruth
<1>1. DeviceInit => Agreeing
  <2> SUFFICES ASSUME DeviceInit
               PROVE  Agreeing
    OBVIOUS
  <2>1. \A t \in Thread : call[t] \notin Loading
    BY CallsDiffer DEF DeviceInit
  <2> QED BY <2>1 DEF DeviceInit, Agreeing, NothingBeforeLoaded, LoadingAlone, OneTruth
<1>2. AnyDeviceInv /\ Agreeing /\ [DeviceNext]_allVars => Agreeing'
  BY AgreeingStep
<1>3. Agreeing => OneTruth
  BY DEF Agreeing
<1> QED BY <1>1, <1>2, <1>3, AnyDeviceAlways, PTL DEF DeviceSpec
-----------------------------------------------------------------------------
(* An application that produces and consumes only while it has the device, *)
(* and passes ICE servers that can be parsed.                              *)
Careful == {"SoundICEServers", "KeepDevice"} \subseteq DeviceDuties

(* A step of such a device is a step of its audio session.                 *)
LEMMA DeviceStepIsSessionStep ==
  ASSUME Careful, AnyInv, [DeviceNext]_allVars
  PROVE  [Next]_vars
<1>1. FALSE \notin Sound
  BY DEF Careful, Sound
<1>2. ASSUME NEW x \in Transports, MakeMedium(x)
      PROVE  wrapper # "freed"
  BY <1>2 DEF MakeMedium, Careful, AnyInv, Alive
<1> QED BY <1>1, <1>2, SessionStepOrBreaks

(* A device, whatever is loaded and made on it meanwhile, behaves as its   *)
(* audio session does alone.                                               *)
THEOREM DeviceIsAudioSession ==
  ASSUME Careful
  PROVE  DeviceSpec => Spec
<1>1. DeviceInit => Init
  BY DEF DeviceInit
<1>2. AnyDeviceInv /\ [DeviceNext]_allVars => [Next]_vars
  BY DeviceStepIsSessionStep DEF AnyDeviceInv
<1> QED BY <1>1, <1>2, AnyDeviceAlways, PTL DEF DeviceSpec, Spec

(* No transport reads the native Device when it is gone, no exception      *)
(* leaves the wrapper, no task reaches a freed wrapper, and the worker     *)
(* does not destroy its own factory.                                       *)
THEOREM DeviceIsSafe ==
  ASSUME Careful, Sheltered
  PROVE  DeviceSpec => []MemorySafe
<1>1. DeviceSpec => Spec
  BY DeviceIsAudioSession
<1>2. Spec => []MemorySafe
  BY TasksAreSafe
<1> QED BY <1>1, <1>2, PTL
=============================================================================
