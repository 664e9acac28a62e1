----------------------------- MODULE TracksProofs -----------------------------
(***************************************************************************)
(* Theorems about Tracks, for any threads, producers, consumers and        *)
(* tracks: the types, whatever overlaps; when the calls on an object do    *)
(* not overlap, its three references agree; when it has its tracks to      *)
(* itself, a pause lasts.                                                  *)
(***************************************************************************)
EXTENDS Tracks, TLAPS

(* The sender transmits track k, unless p is closed or k of another kind.  *)
Follows(p, k) == p \notin shut /\ Kind[k] = Kind[p] => sender[p] = k

Between ==
  \A p \in Object : ~Busy(p) => native[p] = property[p] /\ Follows(p, native[p])

(* How far the references agree at each place of replaceTrack.             *)
Midway ==
  \A t \in Thread : call[t] # Idle =>
    LET p == call[t].on
        k == call[t].track
    IN /\ call[t].at = "sender" => native[p] = property[p] /\ Follows(p, native[p])
       /\ call[t].at = "native" => native[p] = property[p] /\ Follows(p, k)
       /\ call[t].at = "property" => native[p] = k /\ Follows(p, k)

OneAtATime ==
  \A s, t \in Thread :
    call[s] # Idle /\ call[t] # Idle /\ call[s].on = call[t].on => s = t

Inv == TypeOK /\ Between /\ Midway /\ OneAtATime

(* What the types say of a call in progress.                               *)
LEMMA CallType ==
  ASSUME TypeOK, NEW t \in Thread, call[t] # Idle
  PROVE  /\ call[t] \in Replacing
         /\ call[t].on \in Producer /\ call[t].on \in Object
         /\ call[t].track \in Track /\ call[t].pausing \in BOOLEAN
         /\ call[t].at \in {"sender", "native", "property"}
  BY DEF TypeOK, Replacing, Object

(* The initial state.                                                      *)
LEMMA InvInit ==
  ASSUME Init
  PROVE  Inv
<1>1. \A t \in Thread : call[t] = Idle
  BY DEF Init
<1>2. TypeOK
  <2>1. First \in [Object -> Track] /\ Nothing \notin Track
    BY TracksAssumption
  <2>2. \A p \in Object : enabled[First[p]] \in BOOLEAN
    BY <2>1 DEF Init
  <2> QED BY <2>1, <2>2 DEF Init, TypeOK
<1>3. Between
  BY DEF Init, Between, Follows
<1> QED BY <1>1, <1>2, <1>3 DEF Inv, Midway, OneAtATime

-----------------------------------------------------------------------------
(* The types are kept, whichever calls overlap.                            *)
LEMMA TypeStep ==
  ASSUME TypeOK, [Next]_vars
  PROVE  TypeOK'
<1>1. ASSUME NEW t \in Thread, NEW p \in Producer, NEW k \in Track, BeginReplace(t, p, k)
      PROVE  TypeOK'
  <2> DEFINE c == [on |-> p, track |-> k, at |-> "sender", pausing |-> FALSE]
  <2>1. /\ \/ UNCHANGED call
           \/ call' = [call EXCEPT ![t] = c]
        /\ UNCHANGED property \/ property' = [property EXCEPT ![p] = k]
        /\ UNCHANGED <<native, sender, shut, stopped, enabled, ended, held, paused>>
    BY <1>1 DEF BeginReplace, Store, trackVars
  <2>2. c \in Replacing
    BY DEF Replacing
  <2> HIDE DEF c
  <2> QED BY <2>1, <2>2 DEF TypeOK
<1>2. ASSUME NEW t \in Thread, SetSenderTrack(t)
      PROVE  TypeOK'
  <2> DEFINE p == call[t].on
             k == call[t].track
             c == [call[t] EXCEPT !.at = "native", !.pausing = ~enabled[native[p]]]
  <2>1. call[t] \in Replacing /\ p \in Object /\ k \in Track
    BY <1>2, CallType DEF SetSenderTrack, At
  <2>2. /\ call' = [call EXCEPT ![t] = c]
        /\ UNCHANGED sender \/ sender' = [sender EXCEPT ![p] = k]
        /\ UNCHANGED <<native, property, shut, stopped, enabled, ended, held, paused>>
    BY <1>2 DEF SetSenderTrack, trackVars
  <2>3. c \in Replacing
    <3>1. enabled[native[p]] \in BOOLEAN
      BY <2>1 DEF TypeOK
    <3> QED BY <2>1, <3>1 DEF Replacing
  <2> HIDE DEF c, p, k
  <2>4. \A q \in Object \ shut : sender'[q] # Nothing
    BY <2>1, <2>2, TracksAssumption DEF TypeOK
  <2> QED BY <2>1, <2>2, <2>3, <2>4 DEF TypeOK
<1>3. ASSUME NEW t \in Thread, SetNativeTrack(t)
      PROVE  TypeOK'
  <2> DEFINE p == call[t].on
             k == call[t].track
             c == [call[t] EXCEPT !.at = "property"]
  <2>1. /\ call[t] \in Replacing /\ p \in Object /\ k \in Track
        /\ call[t].pausing \in BOOLEAN
    BY <1>3, CallType DEF SetNativeTrack, At
  <2>2. /\ call' = [call EXCEPT ![t] = c]
        /\ native' = [native EXCEPT ![p] = k]
        /\ enabled' = [enabled EXCEPT ![k] = ~call[t].pausing]
        /\ UNCHANGED <<property, sender, shut, stopped, ended, held, paused>>
    BY <1>3 DEF SetNativeTrack
  <2>3. c \in Replacing
    BY <2>1 DEF Replacing
  <2> HIDE DEF c, p, k
  <2> QED BY <2>1, <2>2, <2>3 DEF TypeOK
<1>4. ASSUME NEW t \in Thread, StoreTrack(t)
      PROVE  TypeOK'
  <2>1. call[t].on \in Object /\ call[t].track \in Track
    BY <1>4, CallType DEF StoreTrack, At
  <2> QED BY <1>4, <2>1 DEF StoreTrack, Store, trackVars, TypeOK
<1>5. ASSUME NEW t \in Thread, NEW p \in Object, NEW value \in BOOLEAN, SetPaused(t, p, value)
      PROVE  TypeOK'
  BY <1>5 DEF SetPaused, objectVars, TypeOK
<1>6. ASSUME NEW t \in Thread, NEW p \in Object, Close(t, p)
      PROVE  TypeOK'
  <2>1. \A q \in Object : q # p => sender'[q] = sender[q]
    BY <1>6 DEF Close, TypeOK
  <2>2. sender' \in [Object -> Track \cup {Nothing}]
    BY <1>6 DEF Close, TypeOK
  <2>3. /\ shut' = shut \cup {p}
        /\ UNCHANGED <<native, property, stopped, enabled, ended, held, call, paused>>
    BY <1>6 DEF Close, trackVars
  <2> QED BY <2>1, <2>2, <2>3 DEF TypeOK
<1>7. ASSUME NEW p \in Object, TransportClosed(p) \/ GetTrack(p)
      PROVE  TypeOK'
  BY <1>7 DEF TransportClosed, GetTrack, objectVars, trackVars, TypeOK
<1>8. ASSUME NEW k \in Track, LetGo(k) \/ SetEnabled(k) \/ EndTrack(k)
      PROVE  TypeOK'
  BY <1>8 DEF LetGo, SetEnabled, EndTrack, objectVars, TypeOK
<1>9. CASE UNCHANGED vars
  BY <1>9 DEF vars, objectVars, trackVars, TypeOK
<1> QED BY <1>1, <1>2, <1>3, <1>4, <1>5, <1>6, <1>7, <1>8, <1>9 DEF Next, Pause, Resume

(* replaceTrack begins.                                                    *)
LEMMA BeginReplaceStep ==
  ASSUME Inv, TypeOK', "OneCall" \in Duties,
         NEW t \in Thread, NEW p \in Producer, NEW k \in Track, BeginReplace(t, p, k)
  PROVE  Inv'
<1>0. p \in Object /\ ~Busy(p) /\ call[t] = Idle /\ p \notin shut
  BY DEF BeginReplace, MayCall, Object
<1>1. /\ native[p] = property[p] /\ Follows(p, native[p])
      /\ UNCHANGED <<native, sender, shut, stopped, enabled, ended, held, paused>>
  BY <1>0 DEF BeginReplace, trackVars, Inv, Between
<1>2. CASE k = native[p]
  <2>1. property' = [property EXCEPT ![p] = k] /\ UNCHANGED call
    BY <1>2 DEF BeginReplace, Store
  <2>2. UNCHANGED property
    BY <1>0, <1>1, <1>2, <2>1 DEF Inv, TypeOK
  <2> QED
    BY <1>1, <2>1, <2>2 DEF Inv, TypeOK, Between, Midway, OneAtATime, Busy, Follows
<1>3. CASE k # native[p]
  <2> DEFINE c == [on |-> p, track |-> k, at |-> "sender", pausing |-> FALSE]
  <2>1. call' = [call EXCEPT ![t] = c] /\ UNCHANGED property
    BY <1>3 DEF BeginReplace
  <2>2. c \in Replacing /\ c # Idle /\ c.on = p /\ c.track = k /\ c.at = "sender"
    <3>1. c \in Replacing
      BY DEF Replacing
    <3> QED BY <3>1, TracksAssumption DEF Replacing
  <2> HIDE DEF c
  <2>3. \A s \in Thread : call'[s] = IF s = t THEN c ELSE call[s]
    BY <2>1 DEF Inv, TypeOK
  <2>4. Between'
    BY <1>0, <1>1, <2>1, <2>2, <2>3 DEF Inv, Between, Busy, Follows
  <2>5. Midway'
    BY <1>0, <1>1, <2>1, <2>2, <2>3 DEF Inv, Midway, Follows
  <2>6. OneAtATime'
    BY <1>0, <2>2, <2>3 DEF Inv, OneAtATime, Busy
  <2> QED BY <2>4, <2>5, <2>6 DEF Inv
<1> QED BY <1>2, <1>3

(* The sender takes the track, or refuses it.                              *)
LEMMA SetSenderTrackStep ==
  ASSUME Inv, TypeOK', NEW t \in Thread, SetSenderTrack(t)
  PROVE  Inv'
<1> DEFINE p == call[t].on
           k == call[t].track
           c == [call[t] EXCEPT !.at = "native", !.pausing = ~enabled[native[p]]]
<1>1. /\ p = call[t].on /\ k = call[t].track
      /\ call[t] # Idle /\ call[t].at = "sender" /\ call[t] \in Replacing
      /\ p \in Object /\ k \in Track
  BY CallType DEF SetSenderTrack, At, Inv
<1>2. /\ call' = [call EXCEPT ![t] = c]
      /\ sender' = IF Accepts(p, k) THEN [sender EXCEPT ![p] = k] ELSE sender
      /\ UNCHANGED <<native, property, shut, stopped, enabled, ended, held, paused>>
  BY DEF SetSenderTrack, trackVars
<1>3. c \in Replacing /\ c # Idle /\ c.on = p /\ c.track = k /\ c.at = "native"
  <2>1. enabled[native[p]] \in BOOLEAN
    BY <1>1 DEF Inv, TypeOK
  <2>2. c \in Replacing
    BY <1>1, <2>1 DEF Replacing
  <2> QED BY <1>1, <2>2, TracksAssumption DEF Replacing
<1> HIDE DEF c, p, k
<1>4. \A s \in Thread : call'[s] = IF s = t THEN c ELSE call[s]
  BY <1>2 DEF Inv, TypeOK
<1>5. \A q \in Object \ {p} : sender'[q] = sender[q]
  BY <1>2 DEF Inv, TypeOK
<1>6. p \notin shut /\ Kind[k] = Kind[p] => sender'[p] = k
  BY <1>1, <1>2 DEF Accepts, Inv, TypeOK
<1>7. Between'
  BY <1>1, <1>2, <1>3, <1>4, <1>5 DEF Inv, Between, Busy, Follows
<1>8. Midway'
  <2>1. native[p] = property[p]
    BY <1>1 DEF Inv, Midway
  <2>2. \A s \in Thread : s # t /\ call[s] # Idle => call[s].on # p /\ call[s].on \in Object
    BY <1>1, CallType DEF Inv, OneAtATime
  <2> QED
    BY <1>2, <1>3, <1>4, <1>5, <1>6, <2>1, <2>2 DEF Inv, Midway, Follows
<1>9. OneAtATime'
  BY <1>1, <1>3, <1>4 DEF Inv, OneAtATime
<1> QED BY <1>7, <1>8, <1>9 DEF Inv

(* The native producer takes the track.                                    *)
LEMMA SetNativeTrackStep ==
  ASSUME Inv, TypeOK', NEW t \in Thread, SetNativeTrack(t)
  PROVE  Inv'
<1> DEFINE p == call[t].on
           k == call[t].track
           c == [call[t] EXCEPT !.at = "property"]
<1>1. /\ p = call[t].on /\ k = call[t].track
      /\ call[t] # Idle /\ call[t].at = "native" /\ call[t] \in Replacing
      /\ p \in Object /\ k \in Track /\ call[t].pausing \in BOOLEAN
  BY CallType DEF SetNativeTrack, At, Inv
<1>2. /\ call' = [call EXCEPT ![t] = c]
      /\ native' = [native EXCEPT ![p] = k]
      /\ enabled' = [enabled EXCEPT ![k] = ~call[t].pausing]
      /\ UNCHANGED <<property, sender, shut, stopped, ended, held, paused>>
  BY DEF SetNativeTrack
<1>3. c \in Replacing /\ c # Idle /\ c.on = p /\ c.track = k /\ c.at = "property"
  <2>1. c \in Replacing
    BY <1>1 DEF Replacing
  <2> QED BY <1>1, <2>1, TracksAssumption DEF Replacing
<1> HIDE DEF c, p, k
<1>4. \A s \in Thread : call'[s] = IF s = t THEN c ELSE call[s]
  BY <1>2 DEF Inv, TypeOK
<1>5. \A q \in Object : native'[q] = IF q = p THEN k ELSE native[q]
  BY <1>2 DEF Inv, TypeOK
<1>6. Between'
  BY <1>1, <1>2, <1>3, <1>4, <1>5 DEF Inv, Between, Busy, Follows
<1>7. Midway'
  <2>1. Follows(p, k)
    BY <1>1 DEF Inv, Midway
  <2>2. \A s \in Thread : s # t /\ call[s] # Idle => call[s].on # p /\ call[s].on \in Object
    BY <1>1, CallType DEF Inv, OneAtATime
  <2> QED
    BY <1>1, <1>2, <1>3, <1>4, <1>5, <2>1, <2>2 DEF Inv, Midway, Follows
<1>8. OneAtATime'
  BY <1>1, <1>3, <1>4 DEF Inv, OneAtATime
<1> QED BY <1>6, <1>7, <1>8 DEF Inv

(* The wrapper stores the track.                                           *)
LEMMA StoreTrackStep ==
  ASSUME Inv, TypeOK', NEW t \in Thread, StoreTrack(t)
  PROVE  Inv'
<1> DEFINE p == call[t].on
           k == call[t].track
<1>1. /\ p = call[t].on /\ k = call[t].track
      /\ call[t] # Idle /\ call[t].at = "property"
      /\ p \in Object /\ k \in Track
  BY CallType DEF StoreTrack, At, Inv
<1>2. /\ call' = [call EXCEPT ![t] = Idle]
      /\ property' = [property EXCEPT ![p] = k]
      /\ UNCHANGED <<native, sender, shut, stopped, enabled, ended, held, paused>>
  BY DEF StoreTrack, Store, trackVars
<1>3. \A s \in Thread : call'[s] = IF s = t THEN Idle ELSE call[s]
  BY <1>2 DEF Inv, TypeOK
<1>4. \A q \in Object : property'[q] = IF q = p THEN k ELSE property[q]
  BY <1>2 DEF Inv, TypeOK
<1>5. native[p] = k /\ Follows(p, k)
  BY <1>1 DEF Inv, Midway
<1>6. Between'
  BY <1>1, <1>2, <1>3, <1>4, <1>5 DEF Inv, Between, Busy, Follows
<1>7. Midway'
  <2>1. \A s \in Thread : s # t /\ call[s] # Idle => call[s].on # p /\ call[s].on \in Object
    BY <1>1, CallType DEF Inv, OneAtATime
  <2> QED
    BY <1>2, <1>3, <1>4, <2>1 DEF Inv, Midway, Follows
<1>8. OneAtATime'
  BY <1>3 DEF Inv, OneAtATime
<1> QED BY <1>6, <1>7, <1>8 DEF Inv

(* Every other step leaves the calls and the references alone, but for the *)
(* sender of an object that is closed.                                     *)
LEMMA QuietStep ==
  ASSUME Inv,
         UNCHANGED <<call, native, property>>, TypeOK', shut \subseteq shut',
         \A p \in Object : p \notin shut' => sender'[p] = sender[p]
  PROVE  Inv'
<1>1. \A p \in Object, k \in Track : Follows(p, k) => Follows(p, k)'
  BY DEF Follows
<1>2. Between'
  <2>1. \A p \in Object : native[p] \in Track
    BY DEF Inv, TypeOK
  <2> QED BY <1>1, <2>1 DEF Inv, Between, Busy, Follows
<1>3. Midway'
  <2>1. \A t \in Thread : call[t] # Idle => call[t].on \in Object /\ call[t].track \in Track
    BY CallType DEF Inv
  <2> QED BY <2>1 DEF Inv, Midway, Follows
<1>4. OneAtATime'
  BY DEF Inv, OneAtATime
<1> QED BY <1>2, <1>3, <1>4 DEF Inv

(* pause, resume, close, the closing of the transport, and what is done to *)
(* the tracks themselves.                                                  *)
LEMMA OtherStep ==
  ASSUME Inv, TypeOK',
         \/ \E t \in Thread, p \in Object : Pause(t, p) \/ Resume(t, p) \/ Close(t, p)
         \/ \E p \in Object : TransportClosed(p) \/ GetTrack(p)
         \/ \E k \in Track : LetGo(k) \/ SetEnabled(k) \/ EndTrack(k)
         \/ UNCHANGED vars
  PROVE  Inv'
<1>1. UNCHANGED <<call, native, property>> /\ shut \subseteq shut'
  BY DEF Pause, Resume, SetPaused, Close, TransportClosed, GetTrack, LetGo, SetEnabled,
    EndTrack, vars, objectVars, trackVars
<1>2. \A p \in Object : p \notin shut' => sender'[p] = sender[p]
  BY DEF Pause, Resume, SetPaused, Close, TransportClosed, GetTrack, LetGo, SetEnabled,
    EndTrack, vars, objectVars, trackVars, Inv, TypeOK
<1> QED BY <1>1, <1>2, QuietStep

(* The invariant is inductive.                                            *)
LEMMA InvStep ==
  ASSUME Inv, "OneCall" \in Duties, [Next]_vars
  PROVE  Inv'
<1>1. TypeOK'
  BY TypeStep DEF Inv
<1> QED
  BY <1>1, BeginReplaceStep, SetSenderTrackStep, SetNativeTrackStep, StoreTrackStep, OtherStep
  DEF Next

(* Type correctness, whatever overlaps and whoever else uses the tracks.   *)
THEOREM Typing == Spec => []TypeOK
<1>1. Init => TypeOK
  BY InvInit DEF Inv
<1>2. TypeOK /\ [Next]_vars => TypeOK'
  BY TypeStep
<1> QED BY <1>1, <1>2, PTL DEF Spec

(* The native pointer always leads to a track that somebody counts: the    *)
(* wrapper's property, or the call that is about to store it there.        *)
THEOREM TracksStay ==
  ASSUME "OneCall" \in Duties
  PROVE  Spec => []NeverDangles
<1>1. Inv /\ [Next]_vars => Inv'
  BY InvStep
<1>2. ASSUME Inv
      PROVE  NeverDangles
  <2> SUFFICES ASSUME NEW p \in Object
               PROVE  Live(native[p])
    BY DEF NeverDangles
  <2>1. CASE ~Busy(p)
    BY <1>2, <2>1 DEF Inv, Between, Live
  <2>2. CASE Busy(p)
    <3>1. PICK t \in Thread : call[t] # Idle /\ call[t].on = p
      BY <2>2 DEF Busy
    <3>2. native[p] = property[p] \/ native[p] = call[t].track
      BY <1>2, <3>1, CallType DEF Inv, Midway
    <3> QED BY <3>1, <3>2 DEF Live
  <2> QED BY <2>1, <2>2
<1> QED BY InvInit, <1>1, <1>2, PTL DEF Spec

(* replaceTrack is all or nothing for the three references.                *)
THEOREM ReferencesAgree ==
  ASSUME "OneCall" \in Duties
  PROVE  Spec => []TrackFollows
<1>1. Inv /\ [Next]_vars => Inv'
  BY InvStep
<1>2. Inv => TrackFollows
  BY DEF Inv, Between, Follows, TrackFollows
<1> QED BY InvInit, <1>1, <1>2, PTL DEF Spec
-----------------------------------------------------------------------------
(* With its tracks to itself, an object has the flag of its native track   *)
(* as pause or resume left it, and replaceTrack carries it over.           *)
Disjoint == \A p, q \in Object, k \in Track : Uses(p, k) /\ Uses(q, k) => p = q

FlagKept ==
  \A p \in Object : p \notin shut =>
    /\ enabled[native[p]] = ~paused[p]
    /\ \A t \in Thread :
         call[t] # Idle /\ call[t].on = p /\ call[t].at = "native" =>
           call[t].pausing = paused[p]

PauseInv == Inv /\ Disjoint /\ FlagKept

Dutiful == "OneCall" \in Duties /\ "OwnTrack" \in Duties

(* The initial state.                                                      *)
LEMMA PauseInvInit ==
  ASSUME Init
  PROVE  PauseInv
<1>1. \A t \in Thread : call[t] = Idle
  BY DEF Init
<1>2. Disjoint
  <2>1. \A p \in Object, k \in Track : Uses(p, k) => k = First[p]
    BY <1>1 DEF Init, Uses
  <2> QED BY <2>1, TracksAssumption DEF Disjoint
<1>3. FlagKept
  <2>1. \A p \in Object : paused[p] = ~enabled[First[p]] /\ First[p] \in Track
    BY TracksAssumption DEF Init
  <2>2. \A k \in Track : enabled[k] \in BOOLEAN
    BY DEF Init
  <2>3. \A p \in Object : enabled[native[p]] = ~paused[p]
    BY <2>1, <2>2 DEF Init
  <2> QED BY <1>1, <2>3 DEF FlagKept
<1> QED BY <1>2, <1>3, InvInit DEF PauseInv

(* Only the beginning of replaceTrack gives an object another track.       *)
LEMMA BeginReplaceKeepsDisjoint ==
  ASSUME PauseInv, Dutiful,
         NEW t \in Thread, NEW p \in Producer, NEW k \in Track, BeginReplace(t, p, k)
  PROVE  Disjoint'
<1>1. /\ \A q \in Object \ {p} : ~Uses(q, k)
      /\ p \in Object /\ p \notin shut /\ call[t] = Idle
      /\ UNCHANGED <<native, sender, shut>>
  BY DEF BeginReplace, Exclusive, MayCall, Dutiful, Object
<1>2. \A q \in Object \ {p} : property'[q] = property[q]
  BY DEF BeginReplace, Store, PauseInv, Inv, TypeOK
<1>3. property'[p] \in {property[p], k}
  BY <1>1 DEF BeginReplace, Store, PauseInv, Inv, TypeOK
<1>4. \A s \in Thread : call'[s] # Idle =>
        call'[s] = call[s] \/ (call'[s].on = p /\ call'[s].track = k)
  <2> DEFINE c == [on |-> p, track |-> k, at |-> "sender", pausing |-> FALSE]
  <2>1. UNCHANGED call \/ call' = [call EXCEPT ![t] = c]
    BY DEF BeginReplace
  <2>2. c.on = p /\ c.track = k
    OBVIOUS
  <2> HIDE DEF c
  <2> QED BY <2>1, <2>2 DEF PauseInv, Inv, TypeOK
<1>5. \A q \in Object \ {p}, j \in Track : Uses(q, j)' => Uses(q, j)
  BY <1>1, <1>2, <1>4 DEF Uses
<1>6. \A j \in Track : Uses(p, j)' => Uses(p, j) \/ j = k
  BY <1>1, <1>3, <1>4 DEF Uses
<1> QED BY <1>1, <1>5, <1>6 DEF PauseInv, Disjoint

(* No other step does.                                                     *)
LEMMA UsesOnlyShrink ==
  ASSUME Inv,
         \/ \E t \in Thread : SetSenderTrack(t) \/ SetNativeTrack(t) \/ StoreTrack(t)
         \/ /\ UNCHANGED <<native, property, call>> /\ shut \subseteq shut'
            /\ \A p \in Object : p \notin shut' => sender'[p] = sender[p]
  PROVE  \A q \in Object, j \in Track : Uses(q, j)' => Uses(q, j)
<1>1. ASSUME NEW t \in Thread, SetSenderTrack(t)
      PROVE  \A q \in Object, j \in Track : Uses(q, j)' => Uses(q, j)
  <2> DEFINE p == call[t].on
             k == call[t].track
             c == [call[t] EXCEPT !.at = "native", !.pausing = ~enabled[native[call[t].on]]]
  <2>1. /\ p = call[t].on /\ k = call[t].track
        /\ call[t] # Idle /\ call[t] \in Replacing
        /\ call' = [call EXCEPT ![t] = c]
        /\ UNCHANGED <<native, property, shut>>
    BY <1>1, CallType DEF SetSenderTrack, At, Inv
  <2>2. c.on = p /\ c.track = k
    BY <2>1 DEF Replacing
  <2>3. \A q \in Object : sender'[q] = sender[q] \/ (q = p /\ sender'[q] = k)
    BY <1>1 DEF SetSenderTrack, Inv, TypeOK
  <2> HIDE DEF c, p, k
  <2>4. \A s \in Thread : call'[s] # Idle =>
          call[s] # Idle /\ call'[s].on = call[s].on /\ call'[s].track = call[s].track
    BY <2>1, <2>2 DEF Inv, TypeOK
  <2> QED BY <2>1, <2>3, <2>4 DEF Uses
<1>2. ASSUME NEW t \in Thread, SetNativeTrack(t)
      PROVE  \A q \in Object, j \in Track : Uses(q, j)' => Uses(q, j)
  <2> DEFINE p == call[t].on
             k == call[t].track
             c == [call[t] EXCEPT !.at = "property"]
  <2>1. /\ p = call[t].on /\ k = call[t].track
        /\ call[t] # Idle /\ call[t] \in Replacing
        /\ call' = [call EXCEPT ![t] = c]
        /\ UNCHANGED <<sender, property, shut>>
    BY <1>2, CallType DEF SetNativeTrack, At, Inv
  <2>2. c.on = p /\ c.track = k
    BY <2>1 DEF Replacing
  <2>3. \A q \in Object : native'[q] = native[q] \/ (q = p /\ native'[q] = k)
    BY <1>2 DEF SetNativeTrack, Inv, TypeOK
  <2> HIDE DEF c, p, k
  <2>4. \A s \in Thread : call'[s] # Idle =>
          call[s] # Idle /\ call'[s].on = call[s].on /\ call'[s].track = call[s].track
    BY <2>1, <2>2 DEF Inv, TypeOK
  <2> QED BY <2>1, <2>3, <2>4 DEF Uses
<1>3. ASSUME NEW t \in Thread, StoreTrack(t)
      PROVE  \A q \in Object, j \in Track : Uses(q, j)' => Uses(q, j)
  <2>1. /\ call[t] # Idle /\ UNCHANGED <<sender, native, shut>>
        /\ property' = [property EXCEPT ![call[t].on] = call[t].track]
    BY <1>3 DEF StoreTrack, Store, At
  <2>2. \A s \in Thread : call'[s] # Idle => call'[s] = call[s]
    BY <1>3 DEF StoreTrack, Inv, TypeOK
  <2>3. \A q \in Object :
          property'[q] = property[q] \/ (q = call[t].on /\ property'[q] = call[t].track)
    BY <2>1 DEF Inv, TypeOK
  <2> QED BY <2>1, <2>2, <2>3 DEF Uses
<1>4. ASSUME UNCHANGED <<native, property, call>>, shut \subseteq shut',
             \A p \in Object : p \notin shut' => sender'[p] = sender[p]
      PROVE  \A q \in Object, j \in Track : Uses(q, j)' => Uses(q, j)
  BY <1>4 DEF Uses
<1> QED BY <1>1, <1>2, <1>3, <1>4

(* What a call in progress or an open object uses.                         *)
LEMMA UsesOwn ==
  ASSUME PauseInv
  PROVE  /\ \A p \in Object : p \notin shut => Uses(p, native[p]) /\ native[p] \in Track
         /\ \A t \in Thread : call[t] # Idle => Uses(call[t].on, call[t].track)
  BY DEF PauseInv, Inv, TypeOK, Uses

(* The steps of replaceTrack keep the flag.                                *)
LEMMA ReplaceKeepsFlag ==
  ASSUME PauseInv, Dutiful, NEW t \in Thread,
         \/ \E p \in Producer, k \in Track : BeginReplace(t, p, k)
         \/ SetSenderTrack(t) \/ SetNativeTrack(t) \/ StoreTrack(t)
  PROVE  FlagKept'
<1>1. ASSUME NEW p \in Producer, NEW k \in Track, BeginReplace(t, p, k)
      PROVE  FlagKept'
  <2>1. UNCHANGED <<native, shut, enabled, paused>>
    BY <1>1 DEF BeginReplace, trackVars
  <2>2. \A s \in Thread : call'[s] # Idle => call'[s] = call[s] \/ call'[s].at = "sender"
    BY <1>1 DEF BeginReplace, PauseInv, Inv, TypeOK
  <2> QED BY <2>1, <2>2 DEF PauseInv, FlagKept
<1>2. CASE SetSenderTrack(t)
  <2> DEFINE p == call[t].on
             v == ~enabled[native[p]]
  <2>1. /\ p \in Object /\ call[t] # Idle /\ call[t] \in Replacing
        /\ UNCHANGED <<native, shut, enabled, paused>>
        /\ call' = [call EXCEPT ![t].at = "native", ![t].pausing = v]
    BY <1>2, CallType DEF SetSenderTrack, At, trackVars, PauseInv, Inv
  <2>2. /\ \A s \in Thread : s # t => call'[s] = call[s]
        /\ call'[t].on = p /\ call'[t].pausing = v
    BY <2>1 DEF PauseInv, Inv, TypeOK, Replacing
  <2>3. p \notin shut => v = paused[p]
    <3>1. enabled[native[p]] \in BOOLEAN /\ paused[p] \in BOOLEAN
      BY <2>1 DEF PauseInv, Inv, TypeOK
    <3>2. p \notin shut => enabled[native[p]] = ~paused[p]
      BY <2>1 DEF PauseInv, FlagKept
    <3> QED BY <3>1, <3>2
  <2> HIDE DEF p, v
  <2>4. \A q \in Object : q \notin shut' => enabled'[native'[q]] = ~paused'[q]
    BY <2>1 DEF PauseInv, FlagKept
  <2>5. \A q \in Object, s \in Thread :
          q \notin shut' /\ call'[s] # Idle /\ call'[s].on = q /\ call'[s].at = "native" =>
            call'[s].pausing = paused'[q]
    <3>1. \A q \in Object : q \notin shut /\ call'[t].on = q => call'[t].pausing = paused[q]
      BY <2>2, <2>3
    <3>2. UNCHANGED <<shut, paused>> /\ \A s \in Thread : s # t => call'[s] = call[s]
      BY <2>1, <2>2
    <3> QED BY <3>1, <3>2 DEF PauseInv, FlagKept
  <2> QED BY <2>4, <2>5 DEF FlagKept
<1>3. CASE SetNativeTrack(t)
  <2> DEFINE p == call[t].on
             k == call[t].track
  <2>1. /\ p \in Object /\ k \in Track /\ call[t] # Idle /\ call[t].at = "native"
        /\ call[t] \in Replacing
        /\ call' = [call EXCEPT ![t].at = "property"]
        /\ native' = [native EXCEPT ![p] = k]
        /\ enabled' = [enabled EXCEPT ![k] = ~call[t].pausing]
        /\ UNCHANGED <<shut, paused>>
    BY <1>3, CallType DEF SetNativeTrack, At, PauseInv, Inv
  <2>2. \A s \in Thread : IF s = t THEN call'[s].at = "property" ELSE call'[s] = call[s]
    BY <2>1 DEF PauseInv, Inv, TypeOK, Replacing
  <2>3. /\ native'[p] = k /\ enabled'[k] = ~call[t].pausing
        /\ \A q \in Object \ {p} : native'[q] = native[q]
        /\ \A j \in Track \ {k} : enabled'[j] = enabled[j]
    BY <2>1 DEF PauseInv, Inv, TypeOK
  <2>4. p \notin shut => call[t].pausing = paused[p]
    BY <2>1 DEF PauseInv, FlagKept
  <2>5. \A q \in Object \ {p} : q \notin shut => native[q] \in Track \ {k}
    BY <2>1, UsesOwn DEF PauseInv, Disjoint
  <2> HIDE DEF p, k
  <2>6. \A q \in Object : q \notin shut' => enabled'[native'[q]] = ~paused'[q]
    <3>1. p \notin shut => enabled'[native'[p]] = ~paused'[p]
      BY <2>1, <2>3, <2>4
    <3>2. \A q \in Object \ {p} : q \notin shut => enabled'[native'[q]] = enabled[native[q]]
      BY <2>3, <2>5
    <3>3. \A q \in Object \ {p} : q \notin shut => enabled[native[q]] = ~paused[q]
      BY DEF PauseInv, FlagKept
    <3> QED BY <2>1, <3>1, <3>2, <3>3
  <2>7. \A q \in Object, s \in Thread :
          q \notin shut' /\ call'[s] # Idle /\ call'[s].on = q /\ call'[s].at = "native" =>
            call'[s].pausing = paused'[q]
    BY <2>1, <2>2 DEF PauseInv, FlagKept
  <2> QED BY <2>6, <2>7 DEF FlagKept
<1>4. CASE StoreTrack(t)
  <2>1. UNCHANGED <<native, shut, enabled, paused>>
    BY <1>4 DEF StoreTrack, trackVars
  <2>2. \A s \in Thread : call'[s] # Idle => call'[s] = call[s]
    BY <1>4 DEF StoreTrack, PauseInv, Inv, TypeOK
  <2> QED BY <2>1, <2>2 DEF PauseInv, FlagKept
<1> QED BY <1>1, <1>2, <1>3, <1>4

(* pause and resume set it, for this object alone.                         *)
LEMMA SetPausedKeepsFlag ==
  ASSUME PauseInv, Dutiful,
         NEW t \in Thread, NEW p \in Object, NEW value \in BOOLEAN, SetPaused(t, p, value)
  PROVE  FlagKept'
<1>1. /\ p \notin shut /\ ~Busy(p) /\ UNCHANGED <<native, shut, call>>
      /\ enabled' = [enabled EXCEPT ![native[p]] = ~value]
      /\ paused' = [paused EXCEPT ![p] = value]
  BY DEF SetPaused, MayCall, Dutiful, objectVars
<1>2. /\ enabled'[native[p]] = ~value /\ paused'[p] = value
      /\ \A q \in Object \ {p} : paused'[q] = paused[q]
      /\ \A j \in Track : j # native[p] => enabled'[j] = enabled[j]
  BY <1>1 DEF PauseInv, Inv, TypeOK
<1>3. \A q \in Object \ {p} : q \notin shut => native[q] # native[p] /\ native[q] \in Track
  BY <1>1, UsesOwn DEF PauseInv, Disjoint
<1>4. \A q \in Object : q \notin shut' => enabled'[native'[q]] = ~paused'[q]
  BY <1>1, <1>2, <1>3 DEF PauseInv, FlagKept
<1>5. \A q \in Object, s \in Thread :
        q \notin shut' /\ call'[s] # Idle /\ call'[s].on = q /\ call'[s].at = "native" =>
          call'[s].pausing = paused'[q]
  BY <1>1, <1>2 DEF PauseInv, FlagKept, Busy
<1> QED BY <1>4, <1>5 DEF FlagKept

(* The other steps leave it alone; the application switches no track that  *)
(* an object uses.                                                         *)
LEMMA OtherKeepsFlag ==
  ASSUME PauseInv, Dutiful,
         \/ \E t \in Thread, p \in Object : Close(t, p)
         \/ \E p \in Object : TransportClosed(p) \/ GetTrack(p)
         \/ \E k \in Track : LetGo(k) \/ SetEnabled(k) \/ EndTrack(k)
         \/ UNCHANGED vars
  PROVE  FlagKept'
<1>1. /\ UNCHANGED <<native, call, paused>> /\ shut \subseteq shut'
      /\ \/ UNCHANGED enabled
         \/ \E k \in Track : SetEnabled(k)
  BY DEF Close, TransportClosed, GetTrack, LetGo, SetEnabled, EndTrack, vars, objectVars, trackVars
<1>2. \A p \in Object : p \notin shut => enabled'[native[p]] = enabled[native[p]]
  <2>1. ASSUME NEW k \in Track, SetEnabled(k)
        PROVE  \A p \in Object : p \notin shut => enabled'[native[p]] = enabled[native[p]]
    <3>1. \A p \in Object : p \notin shut => native[p] # k /\ native[p] \in Track
      BY <2>1, UsesOwn DEF SetEnabled, Dutiful
    <3>2. \A j \in Track : j # k => enabled'[j] = enabled[j]
      BY <2>1 DEF SetEnabled, PauseInv, Inv, TypeOK
    <3> QED BY <3>1, <3>2
  <2> QED BY <1>1, <2>1
<1> QED BY <1>1, <1>2 DEF PauseInv, FlagKept

(* The strengthened invariant is inductive.                                *)
LEMMA PauseInvStep ==
  ASSUME PauseInv, Dutiful, [Next]_vars
  PROVE  PauseInv'
<1>1. Inv'
  BY InvStep DEF PauseInv, Dutiful
<1>2. Disjoint'
  <2>1. CASE \E t \in Thread, p \in Producer, k \in Track : BeginReplace(t, p, k)
    BY <2>1, BeginReplaceKeepsDisjoint
  <2>2. CASE \E t \in Thread : SetSenderTrack(t) \/ SetNativeTrack(t) \/ StoreTrack(t)
    BY <2>2, UsesOnlyShrink DEF PauseInv, Disjoint
  <2>3. ASSUME \/ \E t \in Thread, p \in Object : Pause(t, p) \/ Resume(t, p) \/ Close(t, p)
               \/ \E p \in Object : TransportClosed(p) \/ GetTrack(p)
               \/ \E k \in Track : LetGo(k) \/ SetEnabled(k) \/ EndTrack(k)
               \/ UNCHANGED vars
        PROVE  Disjoint'
    <3>1. UNCHANGED <<native, property, call>> /\ shut \subseteq shut'
      BY <2>3 DEF Pause, Resume, SetPaused, Close, TransportClosed, GetTrack, LetGo,
        SetEnabled, EndTrack, vars, objectVars, trackVars
    <3>2. \A p \in Object : p \notin shut' => sender'[p] = sender[p]
      BY <2>3 DEF Pause, Resume, SetPaused, Close, TransportClosed, GetTrack, LetGo,
        SetEnabled, EndTrack, vars, objectVars, trackVars, PauseInv, Inv, TypeOK
    <3> QED BY <3>1, <3>2, UsesOnlyShrink DEF PauseInv, Disjoint
  <2> QED BY <2>1, <2>2, <2>3 DEF Next
<1>3. FlagKept'
  BY ReplaceKeepsFlag, SetPausedKeepsFlag, OtherKeepsFlag DEF Next, Pause, Resume
<1> QED BY <1>1, <1>2, <1>3 DEF PauseInv

(* A pause lasts until resume, whichever tracks the producer is given.     *)
THEOREM PausesLast ==
  ASSUME Dutiful
  PROVE  Spec => []PauseLasts
<1>1. PauseInv /\ [Next]_vars => PauseInv'
  BY PauseInvStep
<1>2. ASSUME PauseInv
      PROVE  PauseLasts
  <2>1. \A p \in Object :
          ~Busy(p) /\ p \notin shut /\ Kind[property[p]] = Kind[p] => sender[p] = native[p]
    BY <1>2 DEF PauseInv, Inv, Between, Follows
  <2>2. \A p \in Object : p \notin shut => enabled[native[p]] = ~paused[p]
    BY <1>2 DEF PauseInv, FlagKept
  <2> QED BY <2>1, <2>2 DEF PauseLasts
<1> QED BY PauseInvInit, <1>1, <1>2, PTL DEF Spec
=============================================================================
