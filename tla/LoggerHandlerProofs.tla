------------------------- MODULE LoggerHandlerProofs -------------------------
(***************************************************************************)
(* Theorems about LoggerHandler, for any threads and handlers.  Each duty  *)
(* has its own: an application that does not overlap its calls finds its   *)
(* messages at the handler it set, and one that logs nothing while the     *)
(* default handler is restored finds no adapter deleted.                   *)
(***************************************************************************)
EXTENDS LoggerHandler, TLAPS

(* The pointers agree on one adapter, or on none.                          *)
OneAdapter == handler = adapter /\ live = {adapter} \ {0}

(* What holds in the middle of t's call.                                   *)
Midway(t) ==
  /\ call[t].at = "held" => OneAdapter /\ holder = call[t].holder
  /\ call[t].at = "attached" =>
       /\ adapter # 0 /\ live = {adapter} /\ handler \in {0, adapter}
       /\ delegate[adapter] = holder
  /\ call[t].at = "forgotten" => OneAdapter /\ holder = NoHolder
  /\ call[t].at = "deleted" => adapter = 0 /\ live = {} /\ holder = NoHolder

(* One call at a time.                                                     *)
Alone == \A s, t \in Caller : call[s] # Idle /\ call[t] # Idle => s = t

(* What the duty OneCaller gives.                                          *)
Inv == TypeOK /\ Alone /\ (\A t \in Caller : Midway(t)) /\ LeadsToHandler

(* A message on its way goes to an adapter that is there, and there is     *)
(* none while the default handler is restored.                             *)
OnItsWay ==
  /\ \A t \in Logging : log[t].at = "loaded" => log[t].on \in live
  /\ SettingDefault => Quiet

(* The static pointer leads to an adapter that is there, and so does the   *)
(* native one, until the caller that deleted its adapter has reset it.     *)
Registered ==
  /\ adapter \in live \cup {0}
  /\ handler \in live \cup {0} \/ \E t \in Caller : call[t].at = "deleted"

(* What the duty QuietDefault gives, whether calls overlap or not.         *)
SafeInv == TypeOK /\ MemorySafe /\ OnItsWay /\ Registered

(* A caller is idle exactly when its step says so.                         *)
LEMMA IdleAt ==
  ASSUME TypeOK, NEW t \in Caller
  PROVE  call[t] = Idle <=> call[t].at = "idle"
<1>1. call[t] \in Call
  BY DEF TypeOK
<1>2. CASE call[t] \in [at : {"idle", "forgotten", "deleted"}, holder : {NoHolder}]
  BY <1>2 DEF Idle
<1>3. CASE call[t] \in [at : {"held", "attached"}, holder : Holder]
  BY <1>3 DEF Idle
<1> QED BY <1>1, <1>2, <1>3 DEF Call

(* What a message being loaded or handled refers to.                       *)
LEMMA MessageOn ==
  ASSUME TypeOK, NEW t \in Logging
  PROVE  /\ log[t].at = "loaded" => log[t].on \in Adapter
         /\ log[t].at = "handling" => log[t].on \in Holder
         /\ log[t] = Silent => log[t].at = "none"
<1>1. log[t] \in Message
  BY DEF TypeOK
<1> QED BY <1>1 DEF Message, Silent

(* The records the steps write are calls and messages.                     *)
LEMMA Records ==
  /\ Idle \in Call /\ Silent \in Message
  /\ \A at \in {"forgotten", "deleted"} : [at |-> at, holder |-> NoHolder] \in Call
  /\ \A at \in {"held", "attached"}, h \in Holder : [at |-> at, holder |-> h] \in Call
  /\ \A a \in Adapter : [at |-> "loaded", on |-> a] \in Message
  /\ \A h \in Holder : [at |-> "handling", on |-> h] \in Message
  BY DEF Call, Message, Idle, Silent

(* Following a holder, or none, keeps the type of span.                    *)
LEMMA FollowType ==
  ASSUME TypeOK, NEW h \in Holder \cup {NoHolder}, Follow(h)
  PROVE  span' \in [Logging -> SUBSET (Holder \cup {NoHolder})]
  BY DEF TypeOK, Follow

(* Zero is no adapter.                                                     *)
LEMMA ZeroIsNone == 0 \notin Adapter
  BY DEF Adapter

(* Every step keeps the types.                                             *)
LEMMA TypeStep ==
  ASSUME TypeOK, [Next]_vars
  PROVE  TypeOK'
<1> USE Records
<1>1. ASSUME NEW t \in Caller, NEW h \in Holder, SetHandler(t, h)
      PROVE  TypeOK'
  <2>1. span' \in [Logging -> SUBSET (Holder \cup {NoHolder})]
    BY <1>1, FollowType DEF SetHandler
  <2> QED BY <1>1, <2>1 DEF SetHandler, Become, TypeOK
<1>2. ASSUME NEW t \in Caller, Attach(t)
      PROVE  TypeOK'
  <2>1. span' \in [Logging -> SUBSET (Holder \cup {NoHolder})]
    BY <1>2, FollowType DEF Attach, TypeOK
  <2>2. call[t].holder \in Holder
    <3>1. call[t] \in Call /\ call[t].at = "held"
      BY <1>2 DEF Attach, TypeOK
    <3> QED BY <3>1 DEF Call
  <2>3. call' \in [Caller -> Call]
    BY <1>2, <2>2 DEF Attach, Become, TypeOK
  <2>4. /\ made' \in 0..MaxAdapters /\ adapter' \in Adapter \cup {0}
        /\ live' \in SUBSET Adapter
    <3>1. CASE adapter = 0
      <4>1. made' = made + 1 /\ adapter' = made + 1 /\ live' = live \cup {made + 1}
        BY <1>2, <3>1 DEF Attach
      <4>2. made \in 0..MaxAdapters /\ made < MaxAdapters /\ MaxAdapters \in Nat
        BY <1>2, <3>1, LoggerAssumption DEF Attach, TypeOK
      <4>3. made + 1 \in Adapter /\ made + 1 \in 0..MaxAdapters
        BY <4>2 DEF Adapter
      <4> QED BY <4>1, <4>3 DEF TypeOK
    <3>2. CASE adapter # 0
      BY <1>2, <3>2 DEF Attach, TypeOK
    <3> QED BY <3>1, <3>2
  <2>5. delegate' \in [Adapter -> Holder \cup {NoHolder}]
    BY <1>2, <2>2 DEF Attach, TypeOK
  <2> QED BY <1>2, <2>1, <2>3, <2>4, <2>5 DEF Attach, TypeOK
<1>3. ASSUME NEW t \in Caller, Register(t)
      PROVE  TypeOK'
  <2>1. span' \in [Logging -> SUBSET (Holder \cup {NoHolder})]
    BY <1>3, FollowType DEF Register, TypeOK
  <2>2. call' \in [Caller -> Call]
    BY <1>3 DEF Register, Become, TypeOK, Idle
  <2> QED BY <1>3, <2>1, <2>2 DEF Register, TypeOK
<1>4. ASSUME NEW t \in Caller, SetDefaultHandler(t)
      PROVE  TypeOK'
  <2>1. span' \in [Logging -> SUBSET (Holder \cup {NoHolder})]
    BY <1>4, FollowType DEF SetDefaultHandler
  <2> QED BY <1>4, <2>1 DEF SetDefaultHandler, Become, TypeOK
<1>5. ASSUME NEW t \in Caller, DeleteAdapter(t)
      PROVE  TypeOK'
  <2>1. span' \in [Logging -> SUBSET (Holder \cup {NoHolder})]
    BY <1>5, FollowType DEF DeleteAdapter
  <2> QED BY <1>5, <2>1 DEF DeleteAdapter, Become, TypeOK
<1>6. ASSUME NEW t \in Caller, Unregister(t)
      PROVE  TypeOK'
  <2>1. span' \in [Logging -> SUBSET (Holder \cup {NoHolder})]
    BY <1>6, FollowType DEF Unregister
  <2>2. call' \in [Caller -> Call]
    BY <1>6 DEF Unregister, Become, TypeOK, Idle
  <2> QED BY <1>6, <2>1, <2>2 DEF Unregister, TypeOK
<1>7. ASSUME NEW t \in Logging, Log(t)
      PROVE  TypeOK'
  <2>1. log' \in [Logging -> Message]
    BY <1>7 DEF Log, TypeOK
  <2>2. span' \in [Logging -> SUBSET (Holder \cup {NoHolder})]
    <3>1. {installed} \cup (IF Switching THEN {holder, NoHolder} ELSE {})
            \in SUBSET (Holder \cup {NoHolder})
      BY DEF TypeOK
    <3> QED BY <1>7, <3>1 DEF Log, TypeOK
  <2> QED BY <1>7, <2>1, <2>2 DEF Log, TypeOK
<1>8. ASSUME NEW t \in Logging, OnLog(t)
      PROVE  TypeOK'
  <2>1. log[t].on \in Adapter
    BY <1>8, MessageOn DEF OnLog
  <2>2. log' \in [Logging -> Message]
    <3>1. CASE log[t].on \notin live
      BY <1>8, <3>1 DEF OnLog, TypeOK
    <3>2. CASE log[t].on \in live
      <4> DEFINE h == delegate[log[t].on]
      <4>1. h \in Holder \cup {NoHolder}
        BY <2>1 DEF TypeOK
      <4>2. log' = [log EXCEPT ![t] = IF h # NoHolder /\ Alive(h)
                                      THEN [at |-> "handling", on |-> h] ELSE Silent]
        BY <1>8, <3>2 DEF OnLog
      <4> QED BY <4>1, <4>2 DEF TypeOK
    <3> QED BY <3>1, <3>2
  <2>3. ub' \in BOOLEAN
    BY <1>8 DEF OnLog, TypeOK
  <2> QED BY <1>8, <2>2, <2>3 DEF OnLog, TypeOK
<1>9. ASSUME NEW t \in Logging, OnLogReturns(t)
      PROVE  TypeOK'
  BY <1>9 DEF OnLogReturns, TypeOK
<1>10. CASE UNCHANGED vars
  BY <1>10 DEF vars, TypeOK
<1> QED
  BY <1>1, <1>2, <1>3, <1>4, <1>5, <1>6, <1>7, <1>8, <1>9, <1>10 DEF Next

(* With one call at a time, a call that starts finds all callers idle, and *)
(* a call in progress finds all others idle.                               *)
LEMMA OthersIdle ==
  ASSUME TypeOK, Alone, NEW t \in Caller, call[t].at # "idle"
  PROVE  \A s \in Caller \ {t} : call[s] = Idle
  BY IdleAt DEF Alone

(* An idle caller is in the middle of nothing.                             *)
LEMMA IdleMidway ==
  ASSUME NEW t \in Caller, call[t] = Idle
  PROVE  Midway(t)
  BY DEF Midway, Idle

(* When a step leaves the messages alone and deletes nothing, and does not *)
(* begin to restore the default handler, they stay on their way.           *)
LEMMA KeepOnItsWay ==
  ASSUME OnItsWay, log' = log, live \subseteq live', SettingDefault' => SettingDefault
  PROVE  OnItsWay'
  BY DEF OnItsWay, Quiet

(* What a caller's step has to establish: its own part, and the agreement  *)
(* of the pointers if it ends the call.                                    *)
LEMMA CallerStep ==
  ASSUME Inv, TypeOK', NEW t \in Caller, NEW at, NEW h, Become(t, at, h),
         \A s \in Caller \ {t} : call[s] = Idle,
         Midway(t)', at = "idle" => LeadsToHandler', at # "idle" => Switching'
  PROVE  Inv'
<1>1. \A s \in Caller \ {t} : call'[s] = Idle
  BY DEF Inv, TypeOK, Become
<1>2. Alone'
  BY <1>1 DEF Alone, Idle
<1>3. \A s \in Caller : Midway(s)'
  <2>1. ASSUME NEW s \in Caller \ {t}
        PROVE  Midway(s)'
    BY <1>1 DEF Midway, Idle
  <2> QED BY <2>1
<1>4. LeadsToHandler'
  BY DEF LeadsToHandler
<1> QED BY <1>2, <1>3, <1>4 DEF Inv

(* Every step keeps the pointers in agreement.                             *)
LEMMA InvStep ==
  ASSUME "OneCaller" \in Duties, Inv, [Next]_vars
  PROVE  Inv'
<1> USE ZeroIsNone
<1>0. TypeOK /\ TypeOK' /\ call \in [Caller -> Call]
  BY TypeStep DEF Inv, TypeOK
<1>1. ASSUME NEW t \in Caller, NEW h \in Holder, SetHandler(t, h)
      PROVE  Inv'
  <2>1. /\ ~Switching /\ Become(t, "held", h) /\ holder' = h
        /\ UNCHANGED <<adapter, live, delegate, handler>>
    BY <1>1 DEF SetHandler, MayCall
  <2>2. call'[t] = [at |-> "held", holder |-> h]
    BY <1>0, <2>1 DEF Become
  <2>3. Midway(t)'
    BY <2>1, <2>2 DEF Inv, LeadsToHandler, Midway, OneAdapter
  <2>4. Switching'
    BY <2>2 DEF Switching, Idle
  <2>5. \A s \in Caller \ {t} : call[s] = Idle
    BY <2>1 DEF Switching
  <2> QED BY <1>0, <2>1, <2>3, <2>4, <2>5, CallerStep
<1>2. ASSUME NEW t \in Caller, Attach(t)
      PROVE  Inv'
  <2>1. /\ call[t].at = "held" /\ Become(t, "attached", call[t].holder)
        /\ UNCHANGED <<holder, handler>>
        /\ OneAdapter /\ holder = call[t].holder
    BY <1>2 DEF Attach, Inv, Midway
  <2>2. call'[t] = [at |-> "attached", holder |-> holder]
    BY <1>0, <2>1 DEF Become
  <2>3. adapter' \in Adapter /\ live' = {adapter'} /\ handler' \in {0, adapter'}
    <3>1. CASE adapter = 0
      <4>1. adapter' = made + 1 /\ live' = live \cup {made + 1} /\ made \in Nat
        BY <1>0, <1>2, <3>1 DEF Attach, TypeOK
      <4>2. adapter' # 0
        BY <4>1
      <4>3. live = {} /\ handler = 0
        BY <2>1, <3>1 DEF OneAdapter
      <4> QED BY <1>0, <2>1, <4>1, <4>2, <4>3 DEF TypeOK
    <3>2. CASE adapter # 0
      <4>1. adapter' = adapter /\ live' = live
        BY <1>2, <3>2 DEF Attach
      <4> QED BY <1>0, <2>1, <3>2, <4>1 DEF OneAdapter, TypeOK
    <3> QED BY <3>1, <3>2
  <2>4. delegate'[adapter'] = holder'
    BY <1>0, <1>2, <2>1, <2>3 DEF Attach, TypeOK
  <2>5. Midway(t)'
    BY <2>2, <2>3, <2>4 DEF Midway
  <2>6. Switching'
    BY <2>2 DEF Switching, Idle
  <2>7. \A s \in Caller \ {t} : call[s] = Idle
    BY <1>0, <2>1, OthersIdle DEF Inv
  <2> QED BY <1>0, <2>1, <2>5, <2>6, <2>7, CallerStep
<1>3. ASSUME NEW t \in Caller, Register(t)
      PROVE  Inv'
  <2>1. /\ call[t].at = "attached" /\ Become(t, "idle", NoHolder) /\ handler' = adapter
        /\ UNCHANGED <<holder, adapter, live, delegate>>
        /\ adapter # 0 /\ live = {adapter} /\ delegate[adapter] = holder
    BY <1>3 DEF Register, Inv, Midway
  <2>2. call'[t] = Idle
    BY <1>0, <2>1 DEF Become, Idle
  <2>3. Midway(t)'
    BY <2>2 DEF Midway, Idle
  <2>4. LeadsToHandler'
    BY <2>1 DEF LeadsToHandler
  <2>5. \A s \in Caller \ {t} : call[s] = Idle
    BY <1>0, <2>1, OthersIdle DEF Inv
  <2> QED BY <1>0, <2>1, <2>3, <2>4, <2>5, CallerStep
<1>4. ASSUME NEW t \in Caller, SetDefaultHandler(t)
      PROVE  Inv'
  <2>1. /\ ~Switching /\ Become(t, "forgotten", NoHolder)
        /\ holder' = NoHolder /\ UNCHANGED <<adapter, live, handler>>
    BY <1>4 DEF SetDefaultHandler, MayCall
  <2>2. call'[t] = [at |-> "forgotten", holder |-> NoHolder]
    BY <1>0, <2>1 DEF Become
  <2>3. Midway(t)'
    BY <2>1, <2>2 DEF Inv, LeadsToHandler, Midway, OneAdapter
  <2>4. Switching'
    BY <2>2 DEF Switching, Idle
  <2>5. \A s \in Caller \ {t} : call[s] = Idle
    BY <2>1 DEF Switching
  <2> QED BY <1>0, <2>1, <2>3, <2>4, <2>5, CallerStep
<1>5. ASSUME NEW t \in Caller, DeleteAdapter(t)
      PROVE  Inv'
  <2>1. /\ call[t].at = "forgotten" /\ Become(t, "deleted", NoHolder) /\ adapter' = 0
        /\ live' = live \ {adapter} /\ UNCHANGED holder
        /\ OneAdapter /\ holder = NoHolder
    BY <1>5 DEF DeleteAdapter, Inv, Midway
  <2>2. call'[t] = [at |-> "deleted", holder |-> NoHolder]
    BY <1>0, <2>1 DEF Become
  <2>3. Midway(t)'
    BY <2>1, <2>2 DEF Midway, OneAdapter
  <2>4. Switching'
    BY <2>2 DEF Switching, Idle
  <2>5. \A s \in Caller \ {t} : call[s] = Idle
    BY <1>0, <2>1, OthersIdle DEF Inv
  <2> QED BY <1>0, <2>1, <2>3, <2>4, <2>5, CallerStep
<1>6. ASSUME NEW t \in Caller, Unregister(t)
      PROVE  Inv'
  <2>1. /\ call[t].at = "deleted" /\ Become(t, "idle", NoHolder) /\ handler' = 0
        /\ UNCHANGED <<holder, adapter, live>>
        /\ adapter = 0 /\ live = {} /\ holder = NoHolder
    BY <1>6 DEF Unregister, Inv, Midway
  <2>2. call'[t] = Idle
    BY <1>0, <2>1 DEF Become, Idle
  <2>3. Midway(t)'
    BY <2>2 DEF Midway, Idle
  <2>4. LeadsToHandler'
    BY <2>1 DEF LeadsToHandler
  <2>5. \A s \in Caller \ {t} : call[s] = Idle
    BY <1>0, <2>1, OthersIdle DEF Inv
  <2> QED BY <1>0, <2>1, <2>3, <2>4, <2>5, CallerStep
<1>7. CASE \/ \E t \in Logging : Log(t) \/ OnLog(t) \/ OnLogReturns(t)
           \/ UNCHANGED vars
  <2>1. UNCHANGED <<holder, adapter, live, delegate, handler, call>>
    BY <1>7 DEF Log, OnLog, OnLogReturns, vars
  <2> QED BY <1>0, <2>1
      DEF Inv, Alone, Midway, OneAdapter, LeadsToHandler, Switching
<1> QED
  BY <1>1, <1>2, <1>3, <1>4, <1>5, <1>6, <1>7 DEF Next

(* The initial state.                                                      *)
LEMMA TypeInit ==
  ASSUME Init
  PROVE  TypeOK
<1>1. made \in 0..MaxAdapters
  BY LoggerAssumption DEF Init
<1>2. call \in [Caller -> Call] /\ log \in [Logging -> Message]
  BY Records DEF Init
<1>3. /\ delegate \in [Adapter -> Holder \cup {NoHolder}]
      /\ span \in [Logging -> SUBSET (Holder \cup {NoHolder})]
  BY DEF Init
<1> QED BY <1>1, <1>2, <1>3 DEF Init, TypeOK

LEMMA InvInit ==
  ASSUME Init
  PROVE  Inv
<1>1. Alone /\ \A t \in Caller : Midway(t)
  BY DEF Init, Alone, Midway, Idle
<1>2. LeadsToHandler
  BY DEF Init, LeadsToHandler
<1> QED BY TypeInit, <1>1, <1>2 DEF Inv

LEMMA SafeInit ==
  ASSUME Init
  PROVE  SafeInv
<1>1. OnItsWay /\ Registered
  BY DEF Init, OnItsWay, Registered, SettingDefault, Idle, Silent
<1> QED BY TypeInit, <1>1 DEF Init, MemorySafe, SafeInv

(* Every step keeps the adapters there, whether calls overlap or not.      *)
LEMMA SafeStep ==
  ASSUME "QuietDefault" \in Duties, SafeInv, [Next]_vars
  PROVE  SafeInv'
<1> USE ZeroIsNone
<1>0. /\ TypeOK /\ TypeOK' /\ OnItsWay /\ Registered /\ ub = FALSE
      /\ call \in [Caller -> Call] /\ log \in [Logging -> Message]
  BY TypeStep DEF SafeInv, TypeOK, MemorySafe
<1>1. ASSUME NEW t \in Caller, NEW h \in Holder, SetHandler(t, h)
      PROVE  (OnItsWay /\ Registered)' /\ ub' = ub
  <2>1. /\ call[t] = Idle /\ call' = [call EXCEPT ![t] = [at |-> "held", holder |-> h]]
        /\ UNCHANGED <<adapter, live, handler, log, ub>>
    BY <1>1 DEF SetHandler, MayCall, Become
  <2>2. SettingDefault' => SettingDefault
    BY <1>0, <2>1 DEF SettingDefault
  <2>3. Registered'
    BY <1>0, <2>1 DEF Registered, Idle
  <2> QED BY <1>0, <2>1, <2>2, <2>3, KeepOnItsWay
<1>2. ASSUME NEW t \in Caller, Attach(t)
      PROVE  (OnItsWay /\ Registered)' /\ ub' = ub
  <2>1. /\ call[t].at = "held" /\ UNCHANGED <<handler, log, ub>>
        /\ call' = [call EXCEPT ![t] = [at |-> "attached", holder |-> call[t].holder]]
    BY <1>2 DEF Attach, Become
  <2>2. live \subseteq live' /\ adapter' \in live'
    BY <1>0, <1>2 DEF Attach, Registered
  <2>3. SettingDefault' => SettingDefault
    BY <1>0, <2>1 DEF SettingDefault
  <2>4. Registered'
    BY <1>0, <2>1, <2>2 DEF Registered
  <2> QED BY <1>0, <2>1, <2>2, <2>3, <2>4, KeepOnItsWay
<1>3. ASSUME NEW t \in Caller, Register(t)
      PROVE  (OnItsWay /\ Registered)' /\ ub' = ub
  <2>1. /\ handler' = adapter /\ call' = [call EXCEPT ![t] = [at |-> "idle", holder |-> NoHolder]]
        /\ UNCHANGED <<adapter, live, log, ub>>
    BY <1>3 DEF Register, Become
  <2>2. SettingDefault' => SettingDefault
    BY <1>0, <2>1 DEF SettingDefault
  <2> QED BY <1>0, <2>1, <2>2, KeepOnItsWay DEF Registered
<1>4. ASSUME NEW t \in Caller, SetDefaultHandler(t)
      PROVE  (OnItsWay /\ Registered)' /\ ub' = ub
  <2>1. /\ call[t] = Idle /\ Quiet
        /\ call' = [call EXCEPT ![t] = [at |-> "forgotten", holder |-> NoHolder]]
        /\ UNCHANGED <<adapter, live, handler, log, ub>>
    BY <1>4 DEF SetDefaultHandler, MayCall, Become
  <2>2. OnItsWay'
    BY <1>0, <2>1 DEF OnItsWay, Quiet
  <2>3. Registered'
    BY <1>0, <2>1 DEF Registered, Idle
  <2> QED BY <2>1, <2>2, <2>3
<1>5. ASSUME NEW t \in Caller, DeleteAdapter(t)
      PROVE  (OnItsWay /\ Registered)' /\ ub' = ub
  <2>1. /\ call[t].at = "forgotten" /\ adapter' = 0 /\ UNCHANGED <<log, ub>>
        /\ call' = [call EXCEPT ![t] = [at |-> "deleted", holder |-> NoHolder]]
    BY <1>5 DEF DeleteAdapter, Become
  <2>2. Quiet
    BY <1>0, <2>1 DEF OnItsWay, SettingDefault
  <2>3. OnItsWay'
    BY <2>1, <2>2 DEF OnItsWay, Quiet, Silent
  <2>4. call'[t].at = "deleted"
    BY <1>0, <2>1
  <2>5. Registered'
    BY <2>1, <2>4 DEF Registered
  <2> QED BY <2>1, <2>3, <2>5
<1>6. ASSUME NEW t \in Caller, Unregister(t)
      PROVE  (OnItsWay /\ Registered)' /\ ub' = ub
  <2>1. /\ handler' = 0 /\ call' = [call EXCEPT ![t] = [at |-> "idle", holder |-> NoHolder]]
        /\ UNCHANGED <<adapter, live, log, ub>>
    BY <1>6 DEF Unregister, Become
  <2>2. SettingDefault' => SettingDefault
    BY <1>0, <2>1 DEF SettingDefault
  <2> QED BY <1>0, <2>1, <2>2, KeepOnItsWay DEF Registered
<1>7. ASSUME NEW t \in Logging, Log(t)
      PROVE  (OnItsWay /\ Registered)' /\ ub' = ub
  <2>1. /\ ~SettingDefault /\ handler # 0
        /\ log' = [log EXCEPT ![t] = [at |-> "loaded", on |-> handler]]
        /\ UNCHANGED <<adapter, live, handler, call, ub>>
    BY <1>7 DEF Log
  <2>2. handler \in live
    BY <1>0, <2>1 DEF Registered, SettingDefault
  <2>3. OnItsWay'
    BY <1>0, <2>1, <2>2 DEF OnItsWay, SettingDefault
  <2> QED BY <1>0, <2>1, <2>3 DEF Registered
<1>8. ASSUME NEW t \in Logging, OnLog(t) \/ OnLogReturns(t)
      PROVE  (OnItsWay /\ Registered)' /\ ub' = ub
  <2>1. UNCHANGED <<adapter, live, handler, call>> /\ log[t] # Silent
    BY <1>8 DEF OnLog, OnLogReturns, Silent
  <2>2. (\A s \in Logging \ {t} : log'[s] = log[s]) /\ log'[t].at # "loaded" /\ ub' = ub
    <3>1. CASE OnLog(t)
      <4>1. log[t].at = "loaded" /\ log[t].on \in live
        BY <1>0, <3>1 DEF OnLog, OnItsWay
      <4> DEFINE h == delegate[log[t].on]
      <4>2. /\ log' = [log EXCEPT ![t] = IF h # NoHolder /\ Alive(h)
                                         THEN [at |-> "handling", on |-> h] ELSE Silent]
            /\ ub' = ub
        BY <3>1, <4>1 DEF OnLog
      <4>3. log'[t] = Silent \/ log'[t] = [at |-> "handling", on |-> h]
        BY <1>0, <4>2
      <4> QED BY <1>0, <4>2, <4>3 DEF Silent
    <3>2. CASE OnLogReturns(t)
      BY <1>0, <3>2 DEF OnLogReturns, Silent
    <3> QED BY <1>8, <3>1, <3>2
  <2>3. ~SettingDefault
    BY <1>0, <2>1 DEF OnItsWay, Quiet
  <2>4. OnItsWay'
    BY <1>0, <2>1, <2>2, <2>3 DEF OnItsWay, SettingDefault
  <2> QED BY <1>0, <2>1, <2>2, <2>4 DEF Registered
<1>9. ASSUME UNCHANGED vars
      PROVE  (OnItsWay /\ Registered)' /\ ub' = ub
  BY <1>0, <1>9 DEF vars, OnItsWay, Registered, SettingDefault, Quiet
<1>10. (OnItsWay /\ Registered)' /\ ub' = ub
  BY <1>1, <1>2, <1>3, <1>4, <1>5, <1>6, <1>7, <1>8, <1>9 DEF Next, vars
<1> QED BY <1>0, <1>10 DEF SafeInv, MemorySafe

-----------------------------------------------------------------------------
(* What a message on its way is followed through: what its handler could   *)
(* turn out to be is among it, and it is marked while a call goes on.  A   *)
(* message logged now finds the holder that was installed last, until the  *)
(* adapter that is registered has its new one.                             *)
Followed ==
  /\ ~Switching => installed = holder
  /\ \A t \in Caller :
       call[t].at \in {"held", "forgotten", "deleted"} /\ handler # 0 =>
         delegate[handler] = installed
  /\ \A t \in Logging :
       log[t].at = "loaded" =>
         /\ {holder, delegate[log[t].on]} \subseteq span[t]
         /\ Switching => NoHolder \in span[t]

FollowInv == Inv /\ Followed /\ NoStaleDelivery

(* With one call at a time, a caller in the middle of one is the one that  *)
(* is switching.                                                           *)
LEMMA OneSwitches ==
  ASSUME Inv, NEW t \in Caller, call[t].at \in {"held", "attached", "forgotten", "deleted"}
  PROVE  Switching /\ \A s \in Caller \ {t} : call[s] = Idle
  BY OthersIdle DEF Inv, Switching, Idle

(* The callers' steps only let what the messages are followed through      *)
(* grow, by the holder and by the mark of a call.                          *)
LEMMA FollowGrows ==
  ASSUME Inv, NEW h, Follow(h), log' = log
  PROVE  /\ \A t \in Logging : span[t] \subseteq span'[t]
         /\ \A t \in Logging : log[t].at = "loaded" => {h, NoHolder} \subseteq span'[t]
         /\ NoStaleDelivery => NoStaleDelivery'
  BY DEF Inv, TypeOK, Follow, NoStaleDelivery

(* What handles a message loaded now has been followed.                    *)
LEMMA DelegateFollowed ==
  ASSUME Inv, Followed, handler # 0
  PROVE  delegate[handler] \in {installed} \cup IF Switching THEN {holder} ELSE {}
<1>1. CASE ~Switching
  BY <1>1 DEF Inv, LeadsToHandler, Followed
<1>2. CASE Switching
  <2>1. PICK t \in Caller : call[t] # Idle
    BY <1>2 DEF Switching
  <2>2. call[t].at \in {"held", "attached", "forgotten", "deleted"}
    <3>1. call[t].at \in {"idle", "forgotten", "deleted", "held", "attached"}
      BY DEF Inv, TypeOK, Call
    <3> QED BY <2>1, <3>1, IdleAt DEF Inv
  <2>3. CASE call[t].at # "attached"
    BY <2>2, <2>3 DEF Followed
  <2>4. CASE call[t].at = "attached"
    <3>1. handler = adapter /\ delegate[adapter] = holder
      BY <2>4 DEF Inv, Midway
    <3> QED BY <1>2, <3>1
  <2> QED BY <2>3, <2>4
<1> QED BY <1>1, <1>2

(* A caller's step keeps the messages followed when it follows the holder  *)
(* it leaves, whatever it makes a delegate.                                *)
LEMMA CallerFollows ==
  ASSUME FollowInv, NEW h, Follow(h), log' = log, holder' \in {h, holder},
         \A a \in Adapter : delegate'[a] \in {delegate[a], h},
         ~Switching' => installed' = holder',
         \A t \in Caller :
           call'[t].at \in {"held", "forgotten", "deleted"} /\ handler' # 0 =>
             delegate'[handler'] = installed'
  PROVE  Followed' /\ NoStaleDelivery'
<1>1. Inv /\ TypeOK /\ Followed /\ NoStaleDelivery
  BY DEF FollowInv, Inv
<1>2. NoStaleDelivery'
  BY <1>1, FollowGrows
<1>3. ASSUME NEW t \in Logging, log'[t].at = "loaded"
      PROVE  {holder', delegate'[log'[t].on], NoHolder} \subseteq span'[t]
  <2>1. {holder, delegate[log[t].on], h, NoHolder} \subseteq span'[t]
    BY <1>1, <1>3, FollowGrows DEF Followed
  <2>2. log[t].on \in Adapter
    BY <1>1, <1>3, MessageOn
  <2> QED BY <2>1, <2>2
<1> QED BY <1>2, <1>3 DEF Followed

(* Every step keeps the messages followed.                                 *)
LEMMA FollowStep ==
  ASSUME "OneCaller" \in Duties, FollowInv, [Next]_vars
  PROVE  FollowInv'
<1>0. /\ Inv /\ Inv' /\ TypeOK /\ Followed /\ NoStaleDelivery
      /\ call \in [Caller -> Call] /\ log \in [Logging -> Message]
      /\ delegate \in [Adapter -> Holder \cup {NoHolder}]
  BY InvStep DEF FollowInv, Inv, TypeOK
<1>1. ASSUME NEW t \in Caller,
             (\E h \in Holder : SetHandler(t, h)) \/ SetDefaultHandler(t)
      PROVE  (Followed /\ NoStaleDelivery)'
  <2>1. PICK at, h :
          /\ ~Switching /\ Become(t, at, h) /\ at # "idle" /\ holder' = h /\ Follow(h)
          /\ UNCHANGED <<delegate, log, installed, handler>>
    BY <1>1 DEF SetHandler, SetDefaultHandler, MayCall
  <2>2. call'[t].at = at /\ Switching'
    BY <1>0, <2>1 DEF Become, Switching, Idle
  <2>3. handler # 0 => delegate[handler] = installed
    BY <1>0, <2>1 DEF Inv, LeadsToHandler, Followed
  <2> QED BY <2>1, <2>2, <2>3, CallerFollows
<1>2. ASSUME NEW t \in Caller, Attach(t)
      PROVE  (Followed /\ NoStaleDelivery)'
  <2>1. /\ call[t].at = "held" /\ Become(t, "attached", call[t].holder) /\ Follow(holder)
        /\ delegate' = [delegate EXCEPT ![adapter'] = call[t].holder]
        /\ UNCHANGED <<holder, log, installed>>
    BY <1>2 DEF Attach
  <2>2. Switching /\ (\A s \in Caller \ {t} : call[s] = Idle) /\ call[t].holder = holder
    BY <1>0, <2>1, OneSwitches DEF Inv, Midway
  <2>3. Switching' /\ \A s \in Caller : call'[s].at \notin {"held", "forgotten", "deleted"}
    BY <1>0, <2>1, <2>2 DEF Become, Switching, Idle
  <2>4. \A a \in Adapter : delegate'[a] \in {delegate[a], holder}
    BY <1>0, <2>1, <2>2
  <2> QED BY <2>1, <2>3, <2>4, CallerFollows
<1>3. ASSUME NEW t \in Caller, Register(t) \/ Unregister(t)
      PROVE  (Followed /\ NoStaleDelivery)'
  <2>1. /\ call[t].at \in {"attached", "deleted"} /\ Become(t, "idle", NoHolder)
        /\ Follow(holder) /\ installed' = holder /\ UNCHANGED <<holder, log, delegate>>
    BY <1>0, <1>3 DEF Register, Unregister, Inv, Midway
  <2>2. ~Switching' /\ \A s \in Caller : call'[s].at = "idle"
    BY <1>0, <2>1, OneSwitches DEF Become, Switching, Idle
  <2> QED BY <2>1, <2>2, CallerFollows
<1>4. ASSUME NEW t \in Caller, DeleteAdapter(t)
      PROVE  (Followed /\ NoStaleDelivery)'
  <2>1. /\ call[t].at = "forgotten" /\ Become(t, "deleted", NoHolder) /\ Follow(NoHolder)
        /\ UNCHANGED <<holder, delegate, log, installed, handler>>
    BY <1>4 DEF DeleteAdapter
  <2>2. Switching' /\ (handler # 0 => delegate[handler] = installed)
    BY <1>0, <2>1 DEF Become, Switching, Idle, Followed
  <2> QED BY <2>1, <2>2, CallerFollows
<1>5. ASSUME NEW t \in Logging, Log(t)
      PROVE  (Followed /\ NoStaleDelivery)'
  <2>1. /\ handler # 0
        /\ log' = [log EXCEPT ![t] = [at |-> "loaded", on |-> handler]]
        /\ span' = [span EXCEPT ![t] = {installed} \cup IF Switching THEN {holder, NoHolder} ELSE {}]
        /\ UNCHANGED <<holder, handler, delegate, call, installed>>
    BY <1>5 DEF Log
  <2>2. \A s \in Logging \ {t} : log'[s] = log[s] /\ span'[s] = span[s]
    BY <1>0, <2>1 DEF TypeOK
  <2>3. log'[t].at = "loaded" /\ log'[t].on = handler
    BY <1>0, <2>1
  <2>4. span'[t] = {installed} \cup IF Switching THEN {holder, NoHolder} ELSE {}
    BY <1>0, <2>1 DEF TypeOK
  <2>5. {holder, delegate[handler]} \subseteq span'[t] /\ (Switching => NoHolder \in span'[t])
    BY <1>0, <2>1, <2>4, DelegateFollowed DEF Followed
  <2>6. Followed'
    BY <1>0, <2>1, <2>2, <2>3, <2>5 DEF Followed, Switching
  <2>7. NoStaleDelivery'
    BY <1>0, <2>2, <2>3 DEF NoStaleDelivery
  <2> QED BY <2>6, <2>7
<1>6. ASSUME NEW t \in Logging, OnLog(t) \/ OnLogReturns(t)
      PROVE  (Followed /\ NoStaleDelivery)'
  <2>1. UNCHANGED <<holder, handler, delegate, call, installed, span>>
    BY <1>6 DEF OnLog, OnLogReturns
  <2>2. /\ \A s \in Logging \ {t} : log'[s] = log[s]
        /\ \/ log'[t] \in {log[t], Silent}
           \/ log[t].at = "loaded" /\ log'[t] = [at |-> "handling", on |-> delegate[log[t].on]]
    BY <1>0, <1>6 DEF OnLog, OnLogReturns
  <2>3. Followed'
    BY <1>0, <2>1, <2>2 DEF Followed, Switching, Silent
  <2>4. NoStaleDelivery'
    BY <1>0, <2>1, <2>2 DEF Followed, NoStaleDelivery, Silent
  <2> QED BY <2>3, <2>4
<1>7. ASSUME UNCHANGED vars
      PROVE  (Followed /\ NoStaleDelivery)'
  <2>1. UNCHANGED <<holder, handler, delegate, call, log, installed, span>>
    BY <1>7 DEF vars
  <2>2. Followed'
    BY <1>0, <2>1 DEF Followed, Switching
  <2>3. NoStaleDelivery'
    BY <1>0, <2>1 DEF NoStaleDelivery
  <2> QED BY <2>2, <2>3
<1>8. (Followed /\ NoStaleDelivery)'
  BY <1>1, <1>2, <1>3, <1>4, <1>5, <1>6, <1>7 DEF Next
<1> QED BY <1>0, <1>8 DEF FollowInv

(* Nothing is on its way initially.                                        *)
LEMMA FollowInit ==
  ASSUME Init
  PROVE  FollowInv
  BY InvInit DEF Init, FollowInv, Followed, NoStaleDelivery, Switching, Idle, Silent

(* A message that is dropped was on its way while a call went on, or while *)
(* no handler was set.                                                     *)
LEMMA DropStep ==
  ASSUME FollowInv, [Next]_vars, NEW t \in Logging, log[t].at = "loaded", log'[t] = Silent
  PROVE  NoHolder \in span[t]
<1>0. Inv /\ TypeOK /\ Followed /\ log \in [Logging -> Message]
  BY DEF FollowInv, Inv, TypeOK
<1>1. log[t] # Silent
  BY DEF Silent
<1>2. OnLog(t)
  <2>1. ASSUME NEW s \in Logging, Log(s) \/ OnLog(s) \/ OnLogReturns(s)
        PROVE  s = t /\ OnLog(s)
    BY <1>0, <1>1, <2>1 DEF Log, OnLog, OnLogReturns, Silent
  <2>2. ASSUME NEW s \in Caller,
               \/ \E h \in Holder : SetHandler(s, h)
               \/ Attach(s) \/ Register(s)
               \/ SetDefaultHandler(s) \/ DeleteAdapter(s) \/ Unregister(s)
        PROVE  log' = log
    BY <2>2 DEF SetHandler, Attach, Register, SetDefaultHandler, DeleteAdapter, Unregister
  <2> QED BY <1>1, <2>1, <2>2 DEF Next, vars
<1>3. log[t].on \in live
  BY <1>1, <1>2 DEF OnLog
<1> DEFINE h == delegate[log[t].on]
<1>4. h \in span[t]
  BY <1>0 DEF Followed
<1>5. h = NoHolder \/ ~Alive(h)
  BY <1>0, <1>2, <1>3 DEF OnLog, Silent
<1>6. CASE h = NoHolder
  BY <1>4, <1>6
<1>7. CASE ~Alive(h)
  <2>1. h # holder
    BY <1>7 DEF Alive
  <2>2. Switching
    BY <1>0, <1>3, <2>1 DEF Inv, LeadsToHandler
  <2> QED BY <1>0, <2>2 DEF Followed
<1> QED BY <1>5, <1>6, <1>7

-----------------------------------------------------------------------------
(* Every variable keeps its type, whether calls overlap or not.            *)
THEOREM Typing == Spec => []TypeOK
<1>1. Init => TypeOK
  BY TypeInit
<1>2. TypeOK /\ [Next]_vars => TypeOK'
  BY TypeStep
<1> QED BY <1>1, <1>2, PTL DEF Spec

(* No logging thread calls a deleted adapter, when nothing is logged       *)
(* during setDefaultHandler, even if calls to the Logger overlap.          *)
THEOREM AdapterIsThere ==
  ASSUME "QuietDefault" \in Duties
  PROVE  Spec => []MemorySafe
<1>1. Init => SafeInv
  BY SafeInit
<1>2. SafeInv /\ [Next]_vars => SafeInv'
  BY SafeStep
<1>3. SafeInv => MemorySafe
  BY DEF SafeInv
<1> QED BY <1>1, <1>2, <1>3, PTL DEF Spec

(* Between calls, the native logger, the adapter and its delegate lead to  *)
(* the handler set last, after any sequence of setHandler and              *)
(* setDefaultHandler.                                                      *)
THEOREM PointersAgree ==
  ASSUME "OneCaller" \in Duties
  PROVE  Spec => []LeadsToHandler
<1>1. Init => Inv
  BY InvInit
<1>2. Inv /\ [Next]_vars => Inv'
  BY InvStep
<1>3. Inv => LeadsToHandler
  BY DEF Inv
<1> QED BY <1>1, <1>2, <1>3, PTL DEF Spec

(* A message reaches the handler that was set when it was logged, or one   *)
(* set while it was on its way, never one replaced before.                 *)
THEOREM NeverStale ==
  ASSUME "OneCaller" \in Duties
  PROVE  Spec => []NoStaleDelivery
<1>1. Init => FollowInv
  BY FollowInit
<1>2. FollowInv /\ [Next]_vars => FollowInv'
  BY FollowStep
<1>3. FollowInv => NoStaleDelivery
  BY DEF FollowInv
<1> QED BY <1>1, <1>2, <1>3, PTL DEF Spec

(* A message logged while a handler was set is not dropped unless a call   *)
(* to the Logger goes on while it is on its way.                           *)
THEOREM NoneDropped ==
  ASSUME "OneCaller" \in Duties
  PROVE  Spec => NothingLost
<1>1. Init => FollowInv
  BY FollowInit
<1>2. FollowInv /\ [Next]_vars => FollowInv'
  BY FollowStep
<1>3. FollowInv /\ [Next]_vars =>
        [\A t \in Logging :
           log[t].at = "loaded" /\ log'[t] = Silent => NoHolder \in span[t]]_vars
  BY DropStep
<1> QED BY <1>1, <1>2, <1>3, PTL DEF Spec, NothingLost
=============================================================================
