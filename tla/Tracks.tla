-------------------------------- MODULE Tracks --------------------------------
(***************************************************************************)
(* Producer.replaceTrack, and pause and resume of producers and consumers. *)
(*                                                                         *)
(* The track of a producer is kept in three places: the native producer    *)
(* has a raw pointer to the native track, the ProducerWrapper a strong     *)
(* reference to its RTCMediaStreamTrack, and the WebRTC sender a counted   *)
(* reference to the native track.  replaceTrack changes them one after the *)
(* other, waiting for the signaling thread in between.  Whether a producer *)
(* is paused is the enabled flag of its track, so a new track takes it     *)
(* over.  A consumer has the same three references, to the track of its    *)
(* receiver, and never changes them.                                       *)
(***************************************************************************)
EXTENDS Naturals

CONSTANTS
  Thread,    (* threads of the application                                 *)
  Producer,
  Consumer,
  Track,     (* native tracks                                              *)
  Kind,      (* Kind[k]: "audio" or "video", of tracks and of producers    *)
  First,     (* First[p]: the track that p is made with                    *)
  Idle,      (* a thread without a call in progress                        *)
  Nothing,   (* no track                                                   *)
  Duties     (* duties of the application, a subset of AllDuties           *)

AllDuties ==
  {"OneCall",   (* the calls on one producer or consumer do not overlap    *)
   "OwnTrack"}  (* a track serves one of them at a time, and is enabled or *)
                (* disabled only through it                                *)

Object == Producer \cup Consumer

ASSUME TracksAssumption ==
  /\ Producer \cap Consumer = {}
  /\ Kind \in [Track \cup Object -> {"audio", "video"}]
  /\ First \in [Object -> Track]
  /\ \A p \in Object : Kind[First[p]] = Kind[p]
  /\ \A p, q \in Object : First[p] = First[q] => p = q
  /\ Idle \notin [on : Producer, track : Track, at : {"sender", "native", "property"},
                  pausing : BOOLEAN]
  /\ Nothing \notin Track
  /\ Duties \subseteq AllDuties

VARIABLES
  native,    (* native[p]: the raw pointer of the native object            *)
  property,  (* property[p]: the track property of the wrapper             *)
  sender,    (* sender[p]: the track of the WebRTC sender or receiver      *)
  shut,      (* objects whose closed is set                                *)
  stopped,   (* objects whose peer connection is closed                    *)
  enabled,   (* enabled[k]: the enabled flag of track k                    *)
  ended,     (* tracks whose source has ended                              *)
  held,      (* tracks the application refers to                           *)
  call,      (* call[t]: the replaceTrack that thread t is in, or Idle     *)
  paused     (* history: what pause or resume asked of each object last    *)

objectVars == <<native, property, sender, shut, stopped>>
trackVars == <<enabled, ended, held>>
vars == <<objectVars, trackVars, call, paused>>

(* "sender": about to set the sender's track; "native": about to set the   *)
(* native one; "property": about to set the wrapper's.                     *)
Replacing ==
  [on : Producer, track : Track, at : {"sender", "native", "property"},
   pausing : BOOLEAN]

(* Every variable has the values declared for it; only a closed object has *)
(* a sender without a track.                                               *)
TypeOK ==
  /\ native \in [Object -> Track]
  /\ property \in [Object -> Track]
  /\ sender \in [Object -> Track \cup {Nothing}]
  /\ shut \subseteq Object /\ stopped \subseteq shut
  /\ enabled \in [Track -> BOOLEAN]
  /\ ended \subseteq Track /\ held \subseteq Track
  /\ call \in [Thread -> Replacing \cup {Idle}]
  /\ paused \in [Object -> BOOLEAN]
  /\ \A p \in Object \ shut : sender[p] # Nothing

Init ==
  /\ native = First /\ property = First /\ sender = First
  /\ shut = {} /\ stopped = {}
  /\ enabled \in [Track -> BOOLEAN]
  /\ ended = {} /\ held = Track
  /\ call = [t \in Thread |-> Idle]
  /\ paused = [p \in Object |-> ~enabled[First[p]]]
-----------------------------------------------------------------------------
Busy(p) == \E t \in Thread : call[t] # Idle /\ call[t].on = p

(* Whether p has, or is about to get, something to do with track k.        *)
Uses(p, k) ==
  \/ p \notin shut /\ k \in {native[p], property[p], sender[p]}
  \/ \E t \in Thread :
       call[t] # Idle /\ call[t].on = p /\ k \in {call[t].track, native[p]}

(* Something counts as a reference to track k.                             *)
Live(k) ==
  \/ k \in held
  \/ \E p \in Object : k \in {property[p], sender[p]}
  \/ \E t \in Thread : call[t] # Idle /\ call[t].track = k

MayCall(t, p) ==
  /\ call[t] = Idle
  /\ "OneCall" \in Duties => ~Busy(p)

Exclusive(p, k) == "OwnTrack" \in Duties => \A q \in Object \ {p} : ~Uses(q, k)

Store(p, k) == property' = [property EXCEPT ![p] = k]

\* Mutant of BeginReplace: the property is set before the native call.
BeginReplaceEager(t, p, k) ==
  /\ MayCall(t, p) /\ k \in held /\ Exclusive(p, k)
  /\ Store(p, k)
  /\ IF p \in shut \/ k \in ended \/ k = native[p]
     THEN UNCHANGED call
     ELSE call' = [call EXCEPT ![t] =
                     [on |-> p, track |-> k, at |-> "sender", pausing |-> FALSE]]
  /\ UNCHANGED <<native, sender, shut, stopped, trackVars, paused>>

(* ReplaceTrack throws on a closed producer or an ended track, and has     *)
(* nothing to do when the track stays the same.                            *)
BeginReplace(t, p, k) ==
  /\ MayCall(t, p) /\ k \in held /\ Exclusive(p, k)
  /\ p \notin shut /\ k \notin ended
  /\ IF k = native[p]
     THEN Store(p, k) /\ UNCHANGED call
     ELSE /\ call' = [call EXCEPT ![t] =
                        [on |-> p, track |-> k, at |-> "sender", pausing |-> FALSE]]
          /\ UNCHANGED property
  /\ UNCHANGED <<native, sender, shut, stopped, trackVars, paused>>

At(t, stage) == call[t] # Idle /\ call[t].at = stage

(* The sender refuses a track of the other kind, and every track once the  *)
(* peer connection is closed; the handler does not look at its answer.     *)
Accepts(p, k) == p \notin stopped /\ Kind[k] = Kind[p]

(* OnReplaceTrack, then IsPaused of the track in use so far.               *)
SetSenderTrack(t) ==
  /\ At(t, "sender")
  /\ LET p == call[t].on
         k == call[t].track
     IN /\ sender' = IF Accepts(p, k) THEN [sender EXCEPT ![p] = k] ELSE sender
        /\ call' = [call EXCEPT ![t].at = "native", ![t].pausing = ~enabled[native[p]]]
  /\ UNCHANGED <<native, property, shut, stopped, trackVars, paused>>

\* Mutant of SetNativeTrack: IsPaused is asked of the new track.
SetNativeTrackLate(t) ==
  /\ At(t, "native")
  /\ native' = [native EXCEPT ![call[t].on] = call[t].track]
  /\ call' = [call EXCEPT ![t].at = "property"]
  /\ UNCHANGED <<property, sender, shut, stopped, trackVars, paused>>

(* The new track takes over the flag.  ReplaceTrack sets it on the track   *)
(* itself, not through Pause and Resume, which would look at closed: it    *)
(* does so also if the producer was closed while the sender was waited for.*)
SetNativeTrack(t) ==
  /\ At(t, "native")
  /\ native' = [native EXCEPT ![call[t].on] = call[t].track]
  /\ enabled' = [enabled EXCEPT ![call[t].track] = ~call[t].pausing]
  /\ call' = [call EXCEPT ![t].at = "property"]
  /\ UNCHANGED <<property, sender, shut, stopped, ended, held, paused>>

\* Mutant of StoreTrack: the wrapper keeps its first track.
StoreTrackNot(t) ==
  /\ At(t, "property")
  /\ call' = [call EXCEPT ![t] = Idle]
  /\ UNCHANGED <<objectVars, trackVars, paused>>

(* replaceTrack stores the track and returns.                              *)
StoreTrack(t) ==
  /\ At(t, "property")
  /\ Store(call[t].on, call[t].track)
  /\ call' = [call EXCEPT ![t] = Idle]
  /\ UNCHANGED <<native, sender, shut, stopped, trackVars, paused>>
-----------------------------------------------------------------------------
(* Pause and Resume do nothing on a closed object.                         *)
SetPaused(t, p, value) ==
  /\ MayCall(t, p)
  /\ p \notin shut
  /\ enabled' = [enabled EXCEPT ![native[p]] = ~value]
  /\ paused' = [paused EXCEPT ![p] = value]
  /\ UNCHANGED <<objectVars, ended, held, call>>

Pause(t, p) == SetPaused(t, p, TRUE)

Resume(t, p) == SetPaused(t, p, FALSE)

\* Mutant of Close: closed is not set.
CloseUnnoted(t, p) ==
  /\ MayCall(t, p)
  /\ p \notin shut
  /\ sender' = [sender EXCEPT ![p] = Nothing]
  /\ UNCHANGED <<native, property, shut, stopped, trackVars, call, paused>>

(* close takes the track away from a sender; a receiver keeps its track.   *)
Close(t, p) ==
  /\ MayCall(t, p)
  /\ p \notin shut
  /\ shut' = shut \cup {p}
  /\ sender' = IF p \in Producer THEN [sender EXCEPT ![p] = Nothing] ELSE sender
  /\ UNCHANGED <<native, property, stopped, trackVars, call, paused>>

(* The transport may be closed at any time, also under a replaceTrack; its *)
(* senders stop but keep their tracks.                                     *)
TransportClosed(p) ==
  /\ p \notin shut
  /\ shut' = shut \cup {p}
  /\ stopped' = stopped \cup {p}
  /\ UNCHANGED <<native, property, sender, trackVars, call, paused>>
-----------------------------------------------------------------------------
(* What the application and the sources do with the tracks themselves.     *)
GetTrack(p) ==
  /\ property[p] \notin held
  /\ held' = held \cup {property[p]}
  /\ UNCHANGED <<objectVars, enabled, ended, call, paused>>

LetGo(k) ==
  /\ k \in held
  /\ held' = held \ {k}
  /\ UNCHANGED <<objectVars, enabled, ended, call, paused>>

SetEnabled(k) ==
  /\ k \in held
  /\ "OwnTrack" \in Duties => \A p \in Object : ~Uses(p, k)
  /\ enabled' = [enabled EXCEPT ![k] = ~enabled[k]]
  /\ UNCHANGED <<objectVars, ended, held, call, paused>>

EndTrack(k) ==
  /\ k \notin ended
  /\ ended' = ended \cup {k}
  /\ UNCHANGED <<objectVars, enabled, held, call, paused>>

Next ==
  \/ \E t \in Thread, p \in Producer, k \in Track : BeginReplace(t, p, k)
  \/ \E t \in Thread : SetSenderTrack(t) \/ SetNativeTrack(t) \/ StoreTrack(t)
  \/ \E t \in Thread, p \in Object : Pause(t, p) \/ Resume(t, p) \/ Close(t, p)
  \/ \E p \in Object : TransportClosed(p) \/ GetTrack(p)
  \/ \E k \in Track : LetGo(k) \/ SetEnabled(k) \/ EndTrack(k)

Spec == Init /\ [][Next]_vars
-----------------------------------------------------------------------------
(* A native producer's raw pointer never leads to a track that is freed,   *)
(* in the middle of replaceTrack no more than between calls, whatever the  *)
(* application keeps.                                                      *)
NeverDangles == \A p \in Object : Live(native[p])

(* Between calls the track property tells the track that the native object *)
(* works on, and, while it is open, the one that is being transmitted,     *)
(* unless that is of the wrong kind: replaceTrack is all or nothing.       *)
(* ("The audio or video track being transmitted.")                         *)
TrackFollows ==
  \A p \in Object :
    ~Busy(p) =>
      /\ native[p] = property[p]
      /\ p \notin shut /\ Kind[property[p]] = Kind[p] => sender[p] = property[p]

(* A producer that was paused sends nothing until it is resumed, and one   *)
(* that was resumed sends, whichever tracks it is given in between.        *)
PauseLasts ==
  \A p \in Object :
    ~Busy(p) /\ p \notin shut /\ Kind[property[p]] = Kind[p] =>
      enabled[sender[p]] = ~paused[p]
=============================================================================
