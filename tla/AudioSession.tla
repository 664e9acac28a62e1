---------------------------- MODULE AudioSession ----------------------------
(***************************************************************************)
(* Device.retainAudioSession and releaseAudioSession, and the lifetime of  *)
(* the DeviceWrapper.                                                      *)
(*                                                                         *)
(* Both calls post a task to the worker thread of the peer connection      *)
(* factory, a FIFO queue, and return.  The task refers to the wrapper,     *)
(* through which it reaches the audio device module.  A task posted by a   *)
(* method retains the wrapper; the one that dealloc posts cannot, since    *)
(* the wrapper is freed when dealloc returns.  The wrapper owns the        *)
(* factory together with the transports, and the factory its worker.       *)
(*                                                                         *)
(* WebRTC starts and stops the same module on its own as audio tracks come *)
(* and go.  The model follows only what the tasks tell the module, so its  *)
(* properties are about the commands and not about what is heard.          *)
(***************************************************************************)
EXTENDS Naturals, Sequences

CONSTANTS
  Capture,    (* whether the device was made with captureAudioSession      *)
  OwnModule,  (* whether the wrapper made the factory, and with it the     *)
              (* audio device module (init(pcFactory:) leaves it null)     *)
  Duties,     (* duties of the application, a subset of {"KeepTransport"}: *)
              (* a transport exists from before the last reference to the  *)
              (* device goes until the wrapper is freed                    *)
  MaxTasks    (* bound on the length of the worker's queue                 *)

ASSUME DeviceAssumption ==
  /\ Capture \in BOOLEAN
  /\ OwnModule \in BOOLEAN
  /\ Capture => OwnModule
  /\ Duties \subseteq {"KeepTransport"}
  /\ MaxTasks \in Nat \ {0}

VARIABLES
  owned,      (* whether the application refers to the Device              *)
  wrapper,    (* the DeviceWrapper: "live", "dealloc" or "freed"           *)
  dealloc,    (* the thread that runs its dealloc: "none", "app", "worker" *)
  transport,  (* whether a transport shares the factory                    *)
  worker,     (* the worker thread: "running" or "stopped"                 *)
  tasks,      (* its queue                                                 *)
  module,     (* the state the tasks last put the audio device module in:  *)
              (* "started" or "stopped" (WebRTC's own moves are left out)  *)
  wanted,     (* history: what the last call asked of the module           *)
  ub          (* what went wrong, or "none"                                *)

vars == <<owned, wrapper, dealloc, transport, worker, tasks, module, wanted, ub>>

Task == [op : {"started", "stopped"}, retains : BOOLEAN]

(* The wrapper, the worker's queue and the module take only the values     *)
(* that the declarations above name.                                       *)
TypeOK ==
  /\ owned \in BOOLEAN
  /\ wrapper \in {"live", "dealloc", "freed"}
  /\ dealloc \in {"none", "app", "worker"}
  /\ transport \in BOOLEAN
  /\ worker \in {"running", "stopped"}
  /\ tasks \in Seq(Task)
  /\ module \in {"started", "stopped"}
  /\ wanted \in {"started", "stopped"}
  /\ ub \in {"none", "freedWrapper", "nullModule", "workerJoinsItself",
             "freedDevice", "escaped"}

(* initCaptureAudioSession retains the session as its last act.            *)
Init ==
  /\ owned = TRUE /\ wrapper = "live" /\ dealloc = "none" /\ transport = FALSE
  /\ worker = "running" /\ module = "stopped" /\ ub = "none"
  /\ tasks = IF Capture THEN <<[op |-> "started", retains |-> TRUE]>> ELSE <<>>
  /\ wanted = IF Capture THEN "started" ELSE "stopped"

Retained(refs, queue) == refs \/ \E i \in 1..Len(queue) : queue[i].retains

\* Mutant of Post: the task captures the wrapper without retaining it.
PostUnretained(op) ==
  /\ ub = "none" /\ owned /\ Len(tasks) < MaxTasks
  /\ tasks' = Append(tasks, [op |-> op, retains |-> FALSE])
  /\ wanted' = op
  /\ UNCHANGED <<owned, wrapper, dealloc, transport, worker, module, ub>>

Post(op) ==
  /\ ub = "none" /\ owned /\ Len(tasks) < MaxTasks
  /\ tasks' = Append(tasks, [op |-> op, retains |-> TRUE])
  /\ wanted' = op
  /\ UNCHANGED <<owned, wrapper, dealloc, transport, worker, module, ub>>

RetainAudioSession == Post("started")

ReleaseAudioSession == Post("stopped")

(* dealloc begins on a thread; with captureAudioSession it posts a last    *)
(* release, which does not keep the wrapper.                               *)
BeginDealloc(thread, queue) ==
  /\ wrapper' = "dealloc"
  /\ dealloc' = thread
  /\ tasks' = IF Capture
              THEN Append(queue, [op |-> "stopped", retains |-> FALSE]) ELSE queue
  /\ wanted' = IF Capture THEN "stopped" ELSE wanted

(* The factory goes with its last owner and stops its worker: the queue is *)
(* dropped and the module with it.  The worker cannot wait for itself.     *)
DeleteFactory(thread) ==
  IF thread = "worker"
  THEN ub' = "workerJoinsItself" /\ UNCHANGED <<worker, tasks, module>>
  ELSE worker' = "stopped" /\ tasks' = <<>> /\ module' = "stopped" /\ UNCHANGED ub

(* The application's last reference to the Device goes.                    *)
DropDevice ==
  /\ ub = "none" /\ owned
  /\ "KeepTransport" \in Duties => transport
  /\ owned' = FALSE
  /\ IF Retained(FALSE, tasks)
     THEN UNCHANGED <<wrapper, dealloc, tasks, wanted>>
     ELSE BeginDealloc("app", tasks)
  /\ UNCHANGED <<transport, worker, module, ub>>

\* Mutant of EndDealloc: transports have no share in the factory.
EndDeallocAlone ==
  /\ ub = "none" /\ wrapper = "dealloc"
  /\ wrapper' = "freed"
  /\ dealloc' = "none"
  /\ DeleteFactory(dealloc)
  /\ UNCHANGED <<owned, transport, wanted>>

(* dealloc returns and the wrapper is freed, with the native Device and    *)
(* its hold on the factory.                                                *)
EndDealloc ==
  /\ ub = "none" /\ wrapper = "dealloc"
  /\ wrapper' = "freed"
  /\ dealloc' = "none"
  /\ IF transport
     THEN UNCHANGED <<worker, tasks, module, ub>>
     ELSE DeleteFactory(dealloc)
  /\ UNCHANGED <<owned, transport, wanted>>

CreateTransport ==
  /\ ub = "none" /\ owned /\ ~transport
  /\ transport' = TRUE
  /\ UNCHANGED <<owned, wrapper, dealloc, worker, tasks, module, wanted, ub>>

DropTransport ==
  /\ ub = "none" /\ transport
  /\ "KeepTransport" \in Duties => owned \/ wrapper = "freed"
  /\ transport' = FALSE
  /\ IF wrapper = "freed"
     THEN DeleteFactory("app")
     ELSE UNCHANGED <<worker, tasks, module, ub>>
  /\ UNCHANGED <<owned, wrapper, dealloc, wanted>>

\* Mutant of RunTask: the newest task is run first.
RunLatestTask ==
  /\ ub = "none" /\ worker = "running" /\ dealloc # "worker" /\ tasks # <<>>
  /\ LET task == tasks[Len(tasks)]
         rest == SubSeq(tasks, 1, Len(tasks) - 1)
     IN /\ wrapper # "freed" /\ OwnModule
        /\ module' = task.op
        /\ tasks' = rest
  /\ UNCHANGED <<owned, wrapper, dealloc, transport, worker, wanted, ub>>

(* The worker runs its next task, which starts or stops the module         *)
(* whatever WebRTC did to it meanwhile, and destroys the task; that may    *)
(* give up the last reference to the wrapper, which is then deallocated    *)
(* here.                                                                   *)
RunTask ==
  /\ ub = "none" /\ worker = "running" /\ dealloc # "worker" /\ tasks # <<>>
  /\ IF wrapper = "freed" \/ ~OwnModule
     THEN /\ ub' = IF wrapper = "freed" THEN "freedWrapper" ELSE "nullModule"
          /\ UNCHANGED <<wrapper, dealloc, tasks, module, wanted>>
     ELSE /\ module' = Head(tasks).op
          /\ IF Head(tasks).retains /\ ~Retained(owned, Tail(tasks))
             THEN BeginDealloc("worker", Tail(tasks))
             ELSE tasks' = Tail(tasks) /\ UNCHANGED <<wrapper, dealloc, wanted>>
          /\ UNCHANGED ub
  /\ UNCHANGED <<owned, transport, worker>>

Next ==
  \/ RetainAudioSession \/ ReleaseAudioSession
  \/ DropDevice \/ EndDealloc
  \/ CreateTransport \/ DropTransport
  \/ RunTask

Spec == Init /\ [][Next]_vars

(* The worker runs, and a dealloc that has begun returns.                  *)
Fairness == WF_vars(RunTask) /\ WF_vars(EndDealloc)

FairSpec == Spec /\ Fairness
-----------------------------------------------------------------------------
(* No task reaches a freed wrapper or a module that is not there, and the  *)
(* worker never destroys the factory that owns it.                         *)
MemorySafe == ub = "none"

(* When the queue has run dry, the module was last told what the last call *)
(* wanted, on whatever threads the calls were made.                        *)
LastCallWins == tasks = <<>> /\ wrapper # "freed" => module = wanted

(* A release is not lost: the module is told to stop, or goes with the     *)
(* factory, unless it is retained again, even when the device is let go    *)
(* right after the call.                                                   *)
ReleaseStops ==
  wanted = "stopped" ~> module = "stopped" \/ wanted = "started"
=============================================================================
