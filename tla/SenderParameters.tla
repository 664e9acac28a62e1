-------------------------- MODULE SenderParameters --------------------------
(***************************************************************************)
(* Producer.updateSenderParameters and setMaxSpatialLayer: read the        *)
(* parameters of the WebRTC RTP sender, let the application change a Swift *)
(* copy, write the copy back.                                              *)
(*                                                                         *)
(* An update is a GetParameters, application code, and a SetParameters,    *)
(* with nothing held in between; updates may overlap, on several threads   *)
(* or nested in one another's closures.  WebRTC accepts a SetParameters    *)
(* only for the last GetParameters (the transaction id).                   *)
(* updateSenderParameters does not look at a refusal; setMaxSpatialLayer   *)
(* throws, and notes the layer in the producer only if it was accepted.    *)
(* Of the fields of an encoding, active and the two bit rates stand for    *)
(* the rest, which are copied both ways as they are.  The producer is a    *)
(* video producer and open: any other one throws and changes nothing.      *)
(***************************************************************************)
EXTENDS Integers, Sequences

CONSTANTS
  Update,      (* the updates that may be in progress together             *)
  Layers,      (* encodings of the sender                                  *)
  Bits,        (* width of the native bit rates, 32 in the code            *)
  Nil,         (* an optional without a value                              *)
  None,        (* no transaction                                           *)
  Edit,        (* what the application's closures and calls may change     *)
  Initially,   (* the sender's first degradation preference                *)
  Rule         (* duties of the application: {} or {"LimitAlone"}, that    *)
               (* no two calls of setMaxSpatialLayer overlap               *)

Preference == {"disabled", "maintainFramerate", "maintainResolution", "balanced", Nil}

Int32 == -(2^(Bits - 1)) .. (2^(Bits - 1) - 1)

UInt8 == 0..255

ASSUME ParametersAssumption ==
  /\ Layers \in Nat \ {0} /\ Bits \in Nat \ {0, 1}
  /\ Nil \notin Int /\ None \notin Update
  /\ Initially \in Preference
  /\ Rule \subseteq {"LimitAlone"}

VARIABLES
  native,   (* the parameters of the RTP sender                            *)
  last,     (* the update whose GetParameters came last, or None           *)
  pending,  (* pending[u]: the edit and the parameters read, or Nil        *)
  maxLayer, (* maxSpatialLayer of the native producer                      *)
  noting,   (* noting[u]: the layer the sender has been limited to and the *)
            (* producer has yet to note, or Nil                            *)
  ub        (* whether an encoding past the end was written                *)

vars == <<native, last, pending, maxLayer, noting, ub>>

Encoding == [active : BOOLEAN, min : Int32 \cup {Nil}, max : Int32 \cup {Nil}]

Parameters == [encodings : [1..Layers -> Encoding], preference : Preference]

(* What reaches the RTP sender are 32-bit rates and a preference, in as    *)
(* many encodings as the sender has.                                       *)
TypeOK ==
  /\ native \in Parameters
  /\ last \in Update \cup {None}
  /\ \A u \in Update :
       pending[u] # Nil => pending[u].edit \in Edit /\ pending[u].read \in Parameters
  /\ maxLayer \in UInt8
  /\ noting \in [Update -> UInt8 \cup {Nil}]
  /\ ub \in BOOLEAN

Init ==
  /\ native = [encodings |-> [i \in 1..Layers |-> [active |-> TRUE, min |-> 1, max |-> Nil]],
               preference |-> Initially]
  /\ last = None
  /\ pending = [u \in Update |-> Nil]
  /\ maxLayer = 0
  /\ noting = [u \in Update |-> Nil]
  /\ ub = FALSE
-----------------------------------------------------------------------------
\* Mutant of IntValue: the wide value is passed on.
IntValueWide(n) == n

(* NSNumber.intValue keeps the low bits.                                   *)
IntValue(n) ==
  IF n = Nil THEN Nil
  ELSE LET low == n % 2^Bits
       IN IF low < 2^(Bits - 1) THEN low ELSE low - 2^Bits

\* Mutant of WrappedPreference: the preference is not copied.
WrappedPreferenceNone(preference) == Nil

(* The cases of the switch fall through to the last one.                   *)
WrappedPreference(preference) == IF preference = Nil THEN Nil ELSE "balanced"

(* The Swift copy of the sender's parameters.                              *)
RTPParameters(read) ==
  [encodings |-> [i \in 1..Layers |-> read.encodings[i]],
   preference |-> WrappedPreference(read.preference)]

(* What the application's closure makes of it.                             *)
Edited(parameters, edit) ==
  CASE edit.op = "keep"   -> parameters
    [] edit.op = "prefer" -> [parameters EXCEPT !.preference = edit.preference]
    [] edit.op = "cap"    -> [parameters EXCEPT !.encodings[1].max = edit.max]
    [] edit.op = "mute"   -> [parameters EXCEPT !.encodings[1].active = FALSE]
    [] edit.op = "forget" -> [parameters EXCEPT !.encodings = <<>>]
    [] edit.op = "append" -> [parameters EXCEPT !.encodings = Append(@, @[Layers])]

\* Mutant of WriteBack: the lower bit rate is left out of the copy and reset.
WriteBackReset(read, parameters) ==
  [encodings |->
     [i \in 1..Layers |->
        IF i <= Len(parameters.encodings)
        THEN [read.encodings[i] EXCEPT !.min = Nil,
                                       !.max = IntValue(parameters.encodings[i].max)]
        ELSE read.encodings[i]],
   preference |-> parameters.preference]

(* The copy is written into the parameters read; active is not.            *)
WriteBack(read, parameters) ==
  [encodings |->
     [i \in 1..Layers |->
        IF i <= Len(parameters.encodings)
        THEN [read.encodings[i] EXCEPT !.min = IntValue(parameters.encodings[i].min),
                                       !.max = IntValue(parameters.encodings[i].max)]
        ELSE read.encodings[i]],
   preference |-> parameters.preference]

(* The layers the handler knows are counted from one.                      *)
Spatial == 1..3

(* The handler's SetMaxSpatialLayer: of the first three encodings, those   *)
(* up to the layer are active; any other layer changes nothing.            *)
Limited(read, layer) ==
  [read EXCEPT !.encodings =
     [i \in 1..Layers |->
        IF layer \in Spatial /\ i \in Spatial THEN [@[i] EXCEPT !.active = i <= layer]
        ELSE @[i]]]

(* The parameters update u hands to SetParameters.                         *)
Sent(u) ==
  LET edit == pending[u].edit
      read == pending[u].read
  IN IF edit.op = "limit" THEN Limited(read, edit.layer)
     ELSE WriteBack(read, Edited(RTPParameters(read), edit))

InRange(parameters) ==
  \A i \in 1..Layers :
    LET e == parameters.encodings[i]
    IN e.min # Nil /\ e.max # Nil => e.min <= e.max

Accepted(u) == last = u /\ InRange(Sent(u))

Limiting(u) ==
  \/ noting[u] # Nil
  \/ pending[u] # Nil /\ pending[u].edit.op = "limit"

(* GetParameters starts a transaction.  setMaxSpatialLayer returns before  *)
(* it if the layer is the one the producer has noted.                      *)
Begin(u, edit) ==
  /\ ~ub
  /\ pending[u] = Nil /\ noting[u] = Nil
  /\ edit.op = "limit" =>
       /\ edit.layer # maxLayer
       /\ "LimitAlone" \in Rule => \A v \in Update : ~Limiting(v)
  /\ pending' = [pending EXCEPT ![u] = [edit |-> edit, read |-> native]]
  /\ last' = u
  /\ UNCHANGED <<native, maxLayer, noting, ub>>

(* The closure returned more encodings than there are.                     *)
PastEnd(u) ==
  /\ pending[u].edit.op # "limit"
  /\ Len(Edited(RTPParameters(pending[u].read), pending[u].edit).encodings) > Layers

\* Mutant of ToNote: a refused limit is noted, too.
ToNoteRefused(u) ==
  IF pending[u].edit.op = "limit" THEN pending[u].edit.layer ELSE Nil

(* What the producer has to note when SetParameters has returned.          *)
ToNote(u) ==
  IF pending[u].edit.op = "limit" /\ Accepted(u) THEN pending[u].edit.layer ELSE Nil

(* The closure has returned, SetParameters is called.                      *)
Finish(u) ==
  /\ ~ub
  /\ pending[u] # Nil
  /\ IF PastEnd(u)
     THEN ub' = TRUE /\ UNCHANGED <<native, last, noting>>
     ELSE /\ native' = IF Accepted(u) THEN Sent(u) ELSE native
          /\ last' = IF last = u THEN None ELSE last
          /\ noting' = [noting EXCEPT ![u] = ToNote(u)]
          /\ UNCHANGED ub
  /\ pending' = [pending EXCEPT ![u] = Nil]
  /\ UNCHANGED maxLayer

(* The producer notes the layer, after the wait for SetParameters.         *)
Note(u) ==
  /\ ~ub
  /\ noting[u] # Nil
  /\ maxLayer' = noting[u]
  /\ noting' = [noting EXCEPT ![u] = Nil]
  /\ UNCHANGED <<native, last, pending, ub>>

Next == \E u \in Update : Finish(u) \/ Note(u) \/ \E edit \in Edit : Begin(u, edit)

Spec == Init /\ [][Next]_vars
-----------------------------------------------------------------------------
(* The layer the producer has noted is the one the sender is limited to,   *)
(* whatever updates overlap the limit and whichever of the calls WebRTC    *)
(* refuses; else a repeated setMaxSpatialLayer would return at once, with  *)
(* the limit not in force.                                                 *)
LimitInForce ==
  (\A u \in Update : noting[u] = Nil) /\ maxLayer \in Spatial =>
    \A i \in Spatial \cap 1..Layers : native.encodings[i].active <=> i <= maxLayer

(* What an accepted edit asks of the sender, stated without the copies: an *)
(* encoding the closure does not return is left alone.                     *)
Asked(read, edit) ==
  CASE edit.op = "limit"  -> Limited(read, edit.layer)
    [] edit.op = "forget" -> read
    [] OTHER              -> Edited(read, edit)

(* A change of the sender's parameters is one edit applied to the          *)
(* parameters it replaces: no overlapping update is overwritten, what the  *)
(* closure changed is changed, and nothing else is.                        *)
OneEditAtATime ==
  [][native' # native =>
       \E u \in Update :
         pending[u] # Nil /\ native' = Asked(native, pending[u].edit)]_vars

(* An update that overlaps no other, and whose values are within range and *)
(* representable, takes effect.                                            *)
UndisturbedTakesEffect ==
  [][\A u \in Update :
       /\ pending[u] # Nil /\ pending'[u] = Nil
       /\ \A v \in Update \ {u} : pending[v] = Nil
       /\ last = u
       /\ InRange(Asked(native, pending[u].edit))
       /\ Asked(native, pending[u].edit) \in Parameters
       => native' = Asked(native, pending[u].edit)]_vars
=============================================================================
