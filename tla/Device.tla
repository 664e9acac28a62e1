-------------------------------- MODULE Device --------------------------------
(***************************************************************************)
(* The rest of Device: load, what it tells of its capabilities, and the    *)
(* creation of transports, composed with the lifetime of its wrapper and   *)
(* of the peer connection factory in AudioSession.                         *)
(*                                                                         *)
(* load and the creation of a transport wait for the signaling thread in   *)
(* the middle, so calls of several threads overlap.  A transport shares    *)
(* the factory, but not the native Device, into which the native transport *)
(* keeps raw pointers; a send transport also copies the capabilities when  *)
(* it is made.  The transports refine the Boolean transport of             *)
(* AudioSession.  What becomes of one is in Transport.                     *)
(***************************************************************************)
EXTENDS AudioSession

CONSTANTS
  Thread,       (* threads of the application                              *)
  Transports,   (* one attempt each to make a transport                    *)
  Capabilities, (* what load may find a router and this device can do      *)
  None,         (* no capabilities                                         *)
  Idle,         (* a thread without a call in progress                     *)
  DeviceDuties  (* duties of the application, a subset of AllDeviceDuties  *)

AllDeviceDuties ==
  {"LoadAlone",        (* calls of load do not overlap                     *)
   "SoundICEServers",  (* iceServers is JSON of the documented format      *)
   "KeepDevice"}       (* nothing is produced or consumed once the         *)
                       (* application has let the device go                *)

ASSUME LoadAssumption ==
  /\ None \notin Capabilities
  /\ Idle \notin [load : Capabilities] \cup [create : Transports]
  /\ DeviceDuties \subseteq AllDeviceDuties

VARIABLES
  loaded,        (* loaded of the native Device                            *)
  capabilities,  (* its extendedRtpCapabilities and what follows from them *)
  call,          (* call[t]: the load or creation thread t is in, or Idle  *)
  stage,         (* stage[x]: "none", "creating", "failed", "live", "gone" *)
  adapter,       (* adapter[x]: its listener adapter, "none", "live" or    *)
                 (* "freed"                                                *)
  copied,        (* copied[x]: the capabilities send transport x copied    *)
  agreed,        (* history: agreed[x]: those the last medium of x used    *)
  told           (* history: those the application was told last           *)

deviceVars == <<loaded, capabilities, call, stage, adapter, copied, agreed, told>>
allVars == <<vars, deviceVars>>

Loading == [load : Capabilities]
Making == [create : Transports]

(* Every variable of the device has the values declared for it, and the    *)
(* factory is shared exactly while there is a transport.                   *)
DeviceTypeOK ==
  /\ TypeOK
  /\ loaded \in BOOLEAN
  /\ capabilities \in Capabilities \cup {None}
  /\ call \in [Thread -> Loading \cup Making \cup {Idle}]
  /\ stage \in [Transports -> {"none", "creating", "failed", "live", "gone"}]
  /\ adapter \in [Transports -> {"none", "live", "freed"}]
  /\ copied \in [Transports -> Capabilities \cup {None}]
  /\ agreed \in [Transports -> Capabilities \cup {None}]
  /\ told \in Capabilities \cup {None}
  /\ transport <=> \E x \in Transports : stage[x] = "live"

DeviceInit ==
  /\ Init
  /\ loaded = FALSE /\ capabilities = None /\ told = None
  /\ call = [t \in Thread |-> Idle]
  /\ stage = [x \in Transports |-> "none"]
  /\ adapter = [x \in Transports |-> "none"]
  /\ copied = [x \in Transports |-> None]
  /\ agreed = [x \in Transports |-> None]
-----------------------------------------------------------------------------
(* A thread that may call a method of the device.                          *)
MayCall(t) == ub = "none" /\ owned /\ call[t] = Idle

\* Mutant of BeginLoad: Load does not look at loaded.
BeginLoadAgain(t, c) ==
  /\ MayCall(t)
  /\ "LoadAlone" \in DeviceDuties => \A s \in Thread : call[s] \notin Loading
  /\ call' = [call EXCEPT ![t] = [load |-> c]]
  /\ UNCHANGED <<vars, loaded, capabilities, stage, adapter, copied, agreed, told>>

(* load throws when the device is loaded; else it waits for a peer         *)
(* connection that tells what WebRTC can do.                               *)
BeginLoad(t, c) ==
  /\ MayCall(t) /\ ~loaded
  /\ "LoadAlone" \in DeviceDuties => \A s \in Thread : call[s] \notin Loading
  /\ call' = [call EXCEPT ![t] = [load |-> c]]
  /\ UNCHANGED <<vars, loaded, capabilities, stage, adapter, copied, agreed, told>>

(* It computes the capabilities and, unless a check after that throws,     *)
(* sets loaded last.                                                       *)
LoadEnds(t) ==
  /\ call[t] \in Loading
  /\ capabilities' = call[t].load
  /\ loaded' \in {loaded, TRUE}
  /\ call' = [call EXCEPT ![t] = Idle]
  /\ UNCHANGED <<vars, stage, adapter, copied, agreed, told>>

(* It throws before: the router's capabilities or WebRTC's are no good.    *)
LoadFails(t) ==
  /\ call[t] \in Loading
  /\ call' = [call EXCEPT ![t] = Idle]
  /\ UNCHANGED <<vars, loaded, capabilities, stage, adapter, copied, agreed, told>>

(* rtpCapabilities, sctpCapabilities and canProduce throw before loaded.   *)
RTPCapabilities(t) ==
  /\ MayCall(t) /\ loaded
  /\ told' = capabilities
  /\ UNCHANGED <<vars, loaded, capabilities, call, stage, adapter, copied, agreed>>
-----------------------------------------------------------------------------
(* Whether the ICE servers of a call can be parsed.                        *)
Sound == IF "SoundICEServers" \in DeviceDuties THEN {TRUE} ELSE BOOLEAN

(* The ICE servers are parsed outside of any try block, in every state of  *)
(* the device.                                                             *)
PCOptionsEscape ==
  /\ ub' = "escaped"
  /\ UNCHANGED <<owned, wrapper, dealloc, transport, worker, tasks, module, wanted,
                 deviceVars>>

(* Then the adapter is made, and the native Device, which throws before it *)
(* is loaded, waits for a new peer connection.                             *)
BeginCreate(t, x, copy, sound) ==
  /\ MayCall(t)
  /\ stage[x] = "none"
  /\ IF ~sound THEN PCOptionsEscape
     ELSE /\ loaded
          /\ stage' = [stage EXCEPT ![x] = "creating"]
          /\ adapter' = [adapter EXCEPT ![x] = "live"]
          /\ copied' = [copied EXCEPT ![x] = copy]
          /\ call' = [call EXCEPT ![t] = [create |-> x]]
          /\ UNCHANGED <<vars, loaded, capabilities, agreed, told>>

CreateSendTransport(t, x) == \E sound \in Sound : BeginCreate(t, x, capabilities, sound)

CreateReceiveTransport(t, x) == \E sound \in Sound : BeginCreate(t, x, None, sound)

(* The wrapper takes the adapter and a share of the factory.               *)
CreateEnds(t) ==
  /\ call[t] \in Making
  /\ stage' = [stage EXCEPT ![call[t].create] = "live"]
  /\ call' = [call EXCEPT ![t] = Idle]
  /\ IF transport THEN UNCHANGED vars ELSE CreateTransport
  /\ UNCHANGED <<loaded, capabilities, adapter, copied, agreed, told>>

\* Mutant of CreateFails: the adapter is forgotten.
CreateFailsLeaking(t) ==
  /\ call[t] \in Making
  /\ stage' = [stage EXCEPT ![call[t].create] = "failed"]
  /\ call' = [call EXCEPT ![t] = Idle]
  /\ UNCHANGED <<vars, loaded, capabilities, adapter, copied, agreed, told>>

(* The catch block deletes the adapter, whatever was thrown.               *)
CreateFails(t) ==
  /\ call[t] \in Making
  /\ stage' = [stage EXCEPT ![call[t].create] = "failed"]
  /\ adapter' = [adapter EXCEPT ![call[t].create] = "freed"]
  /\ call' = [call EXCEPT ![t] = Idle]
  /\ UNCHANGED <<vars, loaded, capabilities, copied, agreed, told>>

\* Mutant of DisposeTransport: the first transport to go takes the factory.
DisposeTransportFirst(x) ==
  /\ ub = "none" /\ stage[x] = "live"
  /\ stage' = [stage EXCEPT ![x] = "gone"]
  /\ adapter' = [adapter EXCEPT ![x] = "freed"]
  /\ IF transport THEN DropTransport ELSE UNCHANGED vars
  /\ UNCHANGED <<loaded, capabilities, call, copied, agreed, told>>

(* A transport is disposed of and let go (module Transport).               *)
DisposeTransport(x) ==
  /\ ub = "none" /\ stage[x] = "live"
  /\ stage' = [stage EXCEPT ![x] = "gone"]
  /\ adapter' = [adapter EXCEPT ![x] = "freed"]
  /\ IF \E y \in Transports \ {x} : stage[y] = "live"
     THEN UNCHANGED vars ELSE DropTransport
  /\ UNCHANGED <<loaded, capabilities, call, copied, agreed, told>>

(* Produce and Consume read the capabilities through the raw pointer.      *)
MakeMedium(x) ==
  /\ ub = "none" /\ stage[x] = "live"
  /\ "KeepDevice" \in DeviceDuties => owned
  /\ IF wrapper = "freed"
     THEN /\ ub' = "freedDevice"
          /\ UNCHANGED <<owned, wrapper, dealloc, transport, worker, tasks, module,
                         wanted, agreed>>
     ELSE /\ agreed' = [agreed EXCEPT ![x] = capabilities]
          /\ UNCHANGED vars
  /\ UNCHANGED <<loaded, capabilities, call, stage, adapter, copied, told>>

(* A call in progress is one of the application's references.              *)
LetDeviceGo ==
  /\ \A t \in Thread : call[t] = Idle
  /\ DropDevice
  /\ UNCHANGED deviceVars

SessionStep ==
  /\ RetainAudioSession \/ ReleaseAudioSession \/ EndDealloc \/ RunTask
  /\ UNCHANGED deviceVars

DeviceNext ==
  \/ \E t \in Thread :
       \/ \E c \in Capabilities : BeginLoad(t, c)
       \/ LoadEnds(t) \/ LoadFails(t) \/ RTPCapabilities(t)
       \/ \E x \in Transports : CreateSendTransport(t, x) \/ CreateReceiveTransport(t, x)
       \/ CreateEnds(t) \/ CreateFails(t)
  \/ \E x \in Transports : DisposeTransport(x) \/ MakeMedium(x)
  \/ LetDeviceGo
  \/ SessionStep

DeviceSpec == DeviceInit /\ [][DeviceNext]_allVars

DeviceFairSpec == DeviceSpec /\ Fairness
-----------------------------------------------------------------------------
(* What the application was told of the capabilities, what a transport has *)
(* copied and what its media were negotiated with are the same, and still  *)
(* what the device has: load and the calls that overlap it never leave     *)
(* two versions in use.                                                    *)
OneTruth ==
  {told} \cup {copied[x] : x \in Transports} \cup {agreed[x] : x \in Transports}
    \subseteq {capabilities, None}

(* A listener adapter lives exactly as long as the creation that made it   *)
(* or the transport that took it over, on every path out of the creation.  *)
AdaptersOwned ==
  \A x \in Transports : adapter[x] = "live" <=> stage[x] \in {"creating", "live"}

(* As long as there is a transport, the worker thread of its factory runs, *)
(* whoever lets the device go and on whichever thread its dealloc runs.    *)
WorkerOutlives ==
  \A x \in Transports : stage[x] = "live" => worker = "running"
=============================================================================
