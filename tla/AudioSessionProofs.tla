------------------------- MODULE AudioSessionProofs -------------------------
(***************************************************************************)
(* Theorems about AudioSession, for queues of any length: that the last    *)
(* call wins, whatever the application does and however the device was     *)
(* made; and, for a device that made its own factory without               *)
(* captureAudioSession, in an application that keeps a transport until the *)
(* wrapper is freed, that its tasks are safe.  (With captureAudioSession,  *)
(* MemorySafe does not hold: run audio_captured.)                          *)
(***************************************************************************)
EXTENDS AudioSession, TLAPS

(* The application's reference keeps the wrapper, and whoever shares the   *)
(* factory keeps the worker.                                               *)
Alive == owned => wrapper = "live"

WorkerKept == transport \/ wrapper # "freed" => worker = "running"

(* The task queued last, or else the module, is what the last call wanted. *)
LastWanted ==
  wrapper # "freed" =>
    IF tasks = <<>> THEN module = wanted ELSE tasks[Len(tasks)].op = wanted

(* These hold of every application.                                        *)
AnyInv == TypeOK /\ Alive /\ WorkerKept /\ LastWanted

(* A queue to which a task is added, and one whose first task is taken.    *)
LEMMA Queues ==
  ASSUME NEW queue \in Seq(Task), NEW task \in Task
  PROVE  /\ Append(queue, task) \in Seq(Task) /\ Append(queue, task) # <<>>
         /\ Append(queue, task)[Len(Append(queue, task))] = task
         /\ queue # <<>> =>
              /\ Head(queue) \in Task /\ Head(queue) = queue[1]
              /\ Tail(queue) \in Seq(Task)
              /\ Len(Tail(queue)) = Len(queue) - 1
              /\ \A i \in 1..Len(Tail(queue)) : Tail(queue)[i] = queue[i + 1]
  OBVIOUS

(* When the first task is taken, the last one stays the last, unless it    *)
(* was the first.                                                          *)
LEMMA LastOfTail ==
  ASSUME NEW queue \in Seq(Task), queue # <<>>
  PROVE  IF Tail(queue) = <<>> THEN Head(queue) = queue[Len(queue)]
         ELSE Tail(queue)[Len(Tail(queue))] = queue[Len(queue)]
<1>0. [op |-> "started", retains |-> TRUE] \in Task
  BY DEF Task
<1>1. /\ Head(queue) = queue[1] /\ Tail(queue) \in Seq(Task)
      /\ Len(Tail(queue)) = Len(queue) - 1
      /\ \A i \in 1..Len(Tail(queue)) : Tail(queue)[i] = queue[i + 1]
  BY <1>0, Queues
<1>2. CASE Tail(queue) = <<>>
  <2>1. Len(Tail(queue)) = 0
    <3>1. Len(<<>>) = 0
      OBVIOUS
    <3> QED BY <1>2, <3>1, Zenon
  <2>2. Len(queue) \in Nat
    OBVIOUS
  <2>3. Len(queue) = 1
    <3>1. Len(Tail(queue)) = Len(queue) - 1
      BY <1>1
    <3> QED BY <2>1, <2>2, <3>1
  <2> QED BY <1>1, <1>2, <2>3
<1>3. CASE Tail(queue) # <<>>
  <2>1. Len(Tail(queue)) \in Nat \ {0}
    BY <1>1, <1>3
  <2>2. Tail(queue)[Len(Tail(queue))] = queue[Len(queue)]
    BY <1>1, <2>1
  <2> QED BY <1>3, <2>2
<1> QED BY <1>2, <1>3

(* dealloc begins on a queue whose last task, or else the module, is what  *)
(* the last call wanted.                                                   *)
LEMMA DeallocBegins ==
  ASSUME TypeOK, NEW thread \in {"app", "worker"}, NEW queue \in Seq(Task),
         module' \in {"started", "stopped"},
         IF queue = <<>> THEN module' = wanted ELSE queue[Len(queue)].op = wanted,
         BeginDealloc(thread, queue)
  PROVE  /\ wrapper' = "dealloc" /\ dealloc' = thread /\ tasks' \in Seq(Task)
         /\ wanted' \in {"started", "stopped"} /\ LastWanted'
<1> DEFINE last == [op |-> "stopped", retains |-> FALSE]
<1>1. last \in Task /\ last.op = "stopped"
  BY DEF Task
<1>2. /\ wrapper' = "dealloc" /\ dealloc' = thread
      /\ tasks' = IF Capture THEN Append(queue, last) ELSE queue
      /\ wanted' = IF Capture THEN "stopped" ELSE wanted
  BY DEF BeginDealloc
<1> HIDE DEF last
<1>3. CASE Capture
  BY <1>1, <1>2, <1>3, Queues DEF LastWanted
<1>4. CASE ~Capture
  BY <1>2, <1>4 DEF LastWanted, TypeOK
<1> QED BY <1>3, <1>4

(* The initial state.                                                      *)
LEMMA AnyInit ==
  ASSUME Init
  PROVE  AnyInv
<1>1. CASE Capture
  <2>1. [op |-> "started", retains |-> TRUE] \in Task
    BY DEF Task
  <2>2. /\ tasks \in Seq(Task) /\ Len(tasks) = 1 /\ tasks # <<>>
        /\ tasks[Len(tasks)].op = "started" /\ wanted = "started"
    BY <1>1, <2>1 DEF Init
  <2> QED BY <2>2 DEF Init, AnyInv, TypeOK, Alive, WorkerKept, LastWanted
<1>2. CASE ~Capture
  <2>1. tasks = <<>> /\ tasks \in Seq(Task) /\ wanted = "stopped"
    BY <1>2 DEF Init
  <2> QED BY <2>1 DEF Init, AnyInv, TypeOK, Alive, WorkerKept, LastWanted
<1> QED BY <1>1, <1>2

(* Every step, by action.                                                  *)
LEMMA AnyStep ==
  ASSUME AnyInv, [Next]_vars
  PROVE  AnyInv'
<1> USE DEF AnyInv
<1>1. ASSUME NEW op \in {"started", "stopped"}, Post(op)
      PROVE  AnyInv'
  <2> DEFINE task == [op |-> op, retains |-> TRUE]
  <2>1. /\ tasks' = Append(tasks, task) /\ wanted' = op /\ tasks \in Seq(Task)
        /\ UNCHANGED <<owned, wrapper, dealloc, transport, worker, module, ub>>
    BY <1>1 DEF Post, TypeOK
  <2>2. task \in Task /\ task.op = op
    BY DEF Task
  <2> HIDE DEF task
  <2>3. tasks' \in Seq(Task) /\ tasks' # <<>> /\ tasks'[Len(tasks')] = task
    BY <2>1, <2>2, Queues
  <2> QED BY <2>1, <2>2, <2>3 DEF TypeOK, Alive, WorkerKept, LastWanted
<1>2. CASE DropDevice
  <2>1. /\ owned /\ owned' = FALSE /\ wrapper = "live"
        /\ UNCHANGED <<transport, worker, module, ub>>
    BY <1>2 DEF DropDevice, Alive
  <2>2. CASE UNCHANGED <<wrapper, dealloc, tasks, wanted>>
    BY <2>1, <2>2 DEF TypeOK, Alive, WorkerKept, LastWanted
  <2>3. CASE BeginDealloc("app", tasks)
    <3>1. /\ wrapper' = "dealloc" /\ dealloc' = "app" /\ tasks' \in Seq(Task)
          /\ wanted' \in {"started", "stopped"} /\ LastWanted'
      BY <2>1, <2>3, DeallocBegins DEF TypeOK, LastWanted
    <3> QED BY <2>1, <3>1 DEF TypeOK, Alive, WorkerKept
  <2> QED BY <1>2, <2>2, <2>3 DEF DropDevice
<1>3. ASSUME NEW thread, DeleteFactory(thread)
      PROVE  /\ worker' \in {"running", "stopped"} /\ tasks' \in Seq(Task)
             /\ module' \in {"started", "stopped"}
             /\ ub' \in {ub, "workerJoinsItself"}
  <2>1. <<>> \in Seq(Task)
    OBVIOUS
  <2> QED BY <1>3, <2>1 DEF DeleteFactory, TypeOK
<1>4. CASE EndDealloc
  <2>1. /\ wrapper = "dealloc" /\ wrapper' = "freed" /\ dealloc' = "none" /\ ~owned
        /\ UNCHANGED <<owned, transport, wanted>>
    BY <1>4 DEF EndDealloc, Alive
  <2>2. CASE transport
    <3>1. UNCHANGED <<worker, tasks, module, ub>>
      BY <1>4, <2>2 DEF EndDealloc
    <3> QED BY <2>1, <3>1 DEF TypeOK, Alive, WorkerKept, LastWanted
  <2>3. CASE ~transport
    <3>1. DeleteFactory(dealloc)
      BY <1>4, <2>3 DEF EndDealloc
    <3>2. /\ worker' \in {"running", "stopped"} /\ tasks' \in Seq(Task)
          /\ module' \in {"started", "stopped"} /\ ub' \in {ub, "workerJoinsItself"}
      BY <1>3, <3>1
    <3> QED BY <2>1, <2>3, <3>2 DEF TypeOK, Alive, WorkerKept, LastWanted
  <2> QED BY <2>2, <2>3
<1>5. CASE CreateTransport
  BY <1>5 DEF CreateTransport, TypeOK, Alive, WorkerKept, LastWanted
<1>6. CASE DropTransport
  <2>1. transport' = FALSE /\ UNCHANGED <<owned, wrapper, dealloc, wanted>>
    BY <1>6 DEF DropTransport
  <2>2. CASE wrapper = "freed"
    <3>1. /\ worker' \in {"running", "stopped"} /\ tasks' \in Seq(Task)
          /\ module' \in {"started", "stopped"} /\ ub' \in {ub, "workerJoinsItself"}
      BY <1>3, <1>6, <2>2 DEF DropTransport
    <3> QED BY <2>1, <2>2, <3>1 DEF TypeOK, Alive, WorkerKept, LastWanted
  <2>3. CASE wrapper # "freed"
    <3>1. UNCHANGED <<worker, tasks, module, ub>>
      BY <1>6, <2>3 DEF DropTransport
    <3> QED BY <2>1, <2>3, <3>1 DEF TypeOK, Alive, WorkerKept, LastWanted
  <2> QED BY <2>2, <2>3
<1>7. CASE RunTask
  <2>1. tasks # <<>> /\ tasks \in Seq(Task) /\ UNCHANGED <<owned, transport, worker>>
    BY <1>7 DEF RunTask, TypeOK
  <2>2. CASE wrapper = "freed" \/ ~OwnModule
    <3>1. /\ ub' \in {"freedWrapper", "nullModule"}
          /\ UNCHANGED <<wrapper, dealloc, tasks, module, wanted>>
      BY <1>7, <2>2 DEF RunTask
    <3> QED BY <2>1, <3>1 DEF TypeOK, Alive, WorkerKept, LastWanted
  <2>3. CASE ~(wrapper = "freed" \/ ~OwnModule)
    <3>1. module' = Head(tasks).op /\ UNCHANGED ub /\ wrapper # "freed"
      BY <1>7, <2>3 DEF RunTask
    <3>2. /\ Head(tasks) \in Task /\ Tail(tasks) \in Seq(Task)
          /\ module' \in {"started", "stopped"}
      <4>1. Head(tasks) \in Task /\ Tail(tasks) \in Seq(Task)
        BY <2>1
      <4> QED BY <3>1, <4>1 DEF Task
    <3>3. IF Tail(tasks) = <<>> THEN module' = wanted
          ELSE Tail(tasks)[Len(Tail(tasks))].op = wanted
      <4>1. tasks[Len(tasks)].op = wanted
        BY <2>1, <3>1 DEF LastWanted
      <4> QED BY <2>1, <3>1, <4>1, LastOfTail
    <3>4. CASE /\ ~owned /\ BeginDealloc("worker", Tail(tasks))
      <4>1. /\ wrapper' = "dealloc" /\ dealloc' = "worker" /\ tasks' \in Seq(Task)
            /\ wanted' \in {"started", "stopped"} /\ LastWanted'
        BY <3>2, <3>3, <3>4, DeallocBegins
      <4> QED BY <2>1, <3>1, <3>2, <3>4, <4>1 DEF TypeOK, Alive, WorkerKept
    <3>5. CASE tasks' = Tail(tasks) /\ UNCHANGED <<wrapper, dealloc, wanted>>
      BY <2>1, <3>1, <3>2, <3>3, <3>5 DEF TypeOK, Alive, WorkerKept, LastWanted
    <3> QED BY <1>7, <2>3, <3>4, <3>5 DEF RunTask, Retained
  <2> QED BY <2>2, <2>3
<1>8. CASE UNCHANGED vars
  BY <1>8 DEF vars, TypeOK, Alive, WorkerKept, LastWanted
<1> QED
  BY <1>1, <1>2, <1>4, <1>5, <1>6, <1>7, <1>8
  DEF Next, RetainAudioSession, ReleaseAudioSession

(* Retain and release calls reach the module in the order they were made:  *)
(* once the queue is empty, it was last told what the last of them wanted, *)
(* also when the last is the release of a dealloc.                         *)
THEOREM LastCallDecides == Spec => []LastCallWins
<1>1. Init => AnyInv
  BY AnyInit
<1>2. AnyInv /\ [Next]_vars => AnyInv'
  BY AnyStep
<1>3. AnyInv => LastCallWins
  BY DEF AnyInv, LastWanted, LastCallWins
<1> QED BY <1>1, <1>2, <1>3, PTL DEF Spec
-----------------------------------------------------------------------------
(* A device that made its own factory and did not capture the session, in  *)
(* an application that keeps a transport.                                  *)
Sheltered == ~Capture /\ OwnModule /\ "KeepTransport" \in Duties

(* Every queued task keeps the wrapper, so a wrapper that is going or gone *)
(* has left an empty queue behind; while nothing else keeps it, a queued   *)
(* task does.                                                              *)
TasksRetain == \A i \in 1..Len(tasks) : tasks[i].retains

NothingQueuedBehind == wrapper # "live" => tasks = <<>>

Kept == wrapper = "live" => owned \/ tasks # <<>>

(* From the last reference to the freeing, a transport keeps the factory.  *)
FactoryKept == ~owned /\ wrapper # "freed" => transport

Inv == AnyInv /\ MemorySafe /\ TasksRetain /\ NothingQueuedBehind /\ Kept /\ FactoryKept

(* In a queue all of whose tasks retain, something retains unless the      *)
(* queue is empty.                                                         *)
LEMMA RetainedIffQueued ==
  ASSUME NEW refs \in BOOLEAN, NEW queue \in Seq(Task),
         \A i \in 1..Len(queue) : queue[i].retains
  PROVE  Retained(refs, queue) <=> refs \/ queue # <<>>
  BY DEF Retained

(* The initial state.                                                      *)
LEMMA InvInit ==
  ASSUME Sheltered, Init
  PROVE  Inv
<1>1. tasks = <<>> /\ owned /\ wrapper = "live" /\ ub = "none"
  BY DEF Sheltered, Init
<1>2. TasksRetain
  BY <1>1 DEF TasksRetain
<1> QED
  BY AnyInit, <1>1, <1>2 DEF Inv, MemorySafe, NothingQueuedBehind, Kept, FactoryKept

(* Every step, by action.                                                  *)
LEMMA InvStep ==
  ASSUME Sheltered, Inv, [Next]_vars
  PROVE  Inv'
<1> USE DEF MemorySafe, NothingQueuedBehind, Kept, FactoryKept
<1>0. /\ AnyInv' /\ TypeOK /\ tasks \in Seq(Task) /\ owned \in BOOLEAN
      /\ owned => wrapper = "live"
  BY AnyStep DEF Inv, AnyInv, TypeOK, Alive
<1>1. ASSUME NEW op \in {"started", "stopped"}, Post(op)
      PROVE  Inv'
  <2>1. /\ tasks' = Append(tasks, [op |-> op, retains |-> TRUE]) /\ owned
        /\ UNCHANGED <<owned, wrapper, transport, ub>>
    BY <1>1 DEF Post
  <2>2. /\ tasks' # <<>> /\ Len(tasks') = Len(tasks) + 1
        /\ \A i \in 1..Len(tasks) : tasks'[i] = tasks[i]
        /\ tasks'[Len(tasks) + 1].retains
    BY <1>0, <2>1
  <2>3. TasksRetain'
    BY <1>0, <2>2 DEF Inv, TasksRetain
  <2> QED BY <1>0, <2>1, <2>2, <2>3 DEF Inv
<1>2. CASE DropDevice
  <2>1. /\ owned /\ transport /\ wrapper = "live" /\ owned' = FALSE
        /\ UNCHANGED <<transport, ub>>
    BY <1>0, <1>2 DEF DropDevice, Sheltered
  <2>2. UNCHANGED tasks /\ IF tasks # <<>> THEN UNCHANGED wrapper ELSE wrapper' = "dealloc"
    <3>1. Retained(FALSE, tasks) <=> tasks # <<>>
      BY <1>0, RetainedIffQueued DEF Inv, TasksRetain
    <3> QED BY <1>2, <3>1 DEF DropDevice, BeginDealloc, Sheltered
  <2>3. TasksRetain'
    BY <2>2 DEF Inv, TasksRetain
  <2> QED BY <1>0, <2>1, <2>2, <2>3 DEF Inv
<1>3. CASE EndDealloc
  <2>1. transport /\ ~owned /\ tasks = <<>>
    BY <1>0, <1>3 DEF EndDealloc, Inv
  <2>2. wrapper' = "freed" /\ UNCHANGED <<owned, transport, tasks, ub>>
    BY <1>3, <2>1 DEF EndDealloc
  <2>3. TasksRetain'
    BY <2>2 DEF Inv, TasksRetain
  <2> QED BY <1>0, <2>1, <2>2, <2>3 DEF Inv
<1>4. CASE CreateTransport
  <2>1. transport' = TRUE /\ UNCHANGED <<owned, wrapper, tasks, ub>>
    BY <1>4 DEF CreateTransport
  <2>2. TasksRetain'
    BY <2>1 DEF Inv, TasksRetain
  <2> QED BY <1>0, <2>1, <2>2 DEF Inv
<1>5. CASE DropTransport
  <2>1. (owned \/ wrapper = "freed") /\ UNCHANGED <<owned, wrapper>>
    BY <1>5 DEF DropTransport, Sheltered
  <2>2. UNCHANGED <<tasks, ub>>
    BY <1>5, <2>1 DEF DropTransport, DeleteFactory, Inv
  <2>3. TasksRetain'
    BY <2>2 DEF Inv, TasksRetain
  <2> QED BY <1>0, <2>1, <2>2, <2>3 DEF Inv
<1>6. CASE RunTask
  <2>1. /\ tasks # <<>> /\ wrapper = "live" /\ UNCHANGED <<owned, transport>>
        /\ \A i \in 1..Len(tasks) : tasks[i].retains
    BY <1>6 DEF RunTask, Inv, TasksRetain
  <2>2. /\ Head(tasks) = tasks[1] /\ Tail(tasks) \in Seq(Task)
        /\ Len(Tail(tasks)) = Len(tasks) - 1
        /\ \A i \in 1..Len(Tail(tasks)) : Tail(tasks)[i] = tasks[i + 1]
    BY <1>0, <2>1
  <2>3. /\ Head(tasks).retains
        /\ \A i \in 1..Len(Tail(tasks)) : Tail(tasks)[i].retains
    BY <1>0, <2>1, <2>2
  <2>4. Retained(owned, Tail(tasks)) <=> owned \/ Tail(tasks) # <<>>
    BY <1>0, <2>2, <2>3, RetainedIffQueued
  <2>5. /\ tasks' = Tail(tasks) /\ UNCHANGED ub
        /\ IF owned \/ Tail(tasks) # <<>> THEN UNCHANGED wrapper ELSE wrapper' = "dealloc"
    BY <1>6, <2>1, <2>3, <2>4 DEF RunTask, BeginDealloc, Sheltered
  <2>6. TasksRetain'
    BY <2>3, <2>5 DEF TasksRetain
  <2> QED BY <1>0, <2>1, <2>5, <2>6 DEF Inv
<1>7. CASE UNCHANGED vars
  BY <1>0, <1>7 DEF vars, Inv, TasksRetain
<1> QED
  BY <1>1, <1>2, <1>3, <1>4, <1>5, <1>6, <1>7
  DEF Next, RetainAudioSession, ReleaseAudioSession

(* No task of a device that made its own factory without capturing the     *)
(* session reaches a freed wrapper, and the worker never destroys its own  *)
(* factory, as long as a transport keeps the factory.                      *)
THEOREM TasksAreSafe ==
  ASSUME Sheltered
  PROVE  Spec => []MemorySafe
<1>1. Init => Inv
  BY InvInit
<1>2. Inv /\ [Next]_vars => Inv'
  BY InvStep
<1>3. Inv => MemorySafe
  BY DEF Inv
<1> QED BY <1>1, <1>2, <1>3, PTL DEF Spec
=============================================================================
