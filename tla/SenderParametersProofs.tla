------------------------ MODULE SenderParametersProofs ------------------------
(***************************************************************************)
(* Theorems about SenderParameters, for any updates in progress, any       *)
(* number of encodings and any width of the bit rates: what the updates    *)
(* leave in the sender when the edits are ones the code carries out.       *)
(***************************************************************************)
EXTENDS SenderParameters, SequenceTheorems, FiniteSetTheorems, TLAPS

(* The edits the code carries out: closures that return the copy as it is, *)
(* set an upper bit rate, whatever its size, set the preference to the one *)
(* that survives the copy, or return no encodings; and layer limits.  The  *)
(* sender starts with a preference that survives the copy.                 *)
CarriedOut ==
  /\ Edit \subseteq [op : {"keep", "forget"}]
                    \cup [op : {"cap"}, max : Int \cup {Nil}]
                    \cup [op : {"prefer"}, preference : {"balanced", Nil}]
                    \cup [op : {"limit"}, layer : UInt8]
  /\ Initially \in {"balanced", Nil}

(* A bit rate has the native width, or is cut to one below the lower bit   *)
(* rate, which WebRTC refuses.                                             *)
Representable ==
  \A edit \in Edit :
    edit.op = "cap" => edit.max \in Int32 \cup {Nil} \/ IntValue(edit.max) < 1

-----------------------------------------------------------------------------
(* A power of two is the number of subsets, and one more element doubles   *)
(* it.                                                                     *)
LEMMA PowerDoubles ==
  ASSUME NEW n \in Nat
  PROVE  2^n \in Nat \ {0} /\ 2^(n + 1) = 2 * 2^n
<1> DEFINE S == 1..n
           T == 1..(n + 1)
           Old == SUBSET S
           All == SUBSET T
           F == [A \in Old |-> A \cup {n + 1}]
<1>1. /\ IsFiniteSet(S) /\ Cardinality(S) = n
      /\ IsFiniteSet(T) /\ Cardinality(T) = n + 1
  BY FS_Interval
<1>2. n + 1 \in T /\ n + 1 \notin S /\ T = S \cup {n + 1}
  OBVIOUS
<1> HIDE DEF S, T
<1>3. /\ IsFiniteSet(Old) /\ Cardinality(Old) = 2^n
      /\ IsFiniteSet(All) /\ Cardinality(All) = 2^(n + 1)
  BY <1>1, FS_SUBSET
<1>4. {} \in Old /\ Old \subseteq All
  BY <1>2
<1>5. \A A \in Old : A \cup {n + 1} \in All \ Old
  BY <1>2
<1>6. \A A, B \in Old : A \cup {n + 1} = B \cup {n + 1} => A = B
  BY <1>2
<1>7. ASSUME NEW B \in All \ Old
      PROVE  \E A \in Old : A \cup {n + 1} = B
  <2>1. n + 1 \in B
    BY <1>2, <1>7
  <2>2. B \ {n + 1} \in Old /\ (B \ {n + 1}) \cup {n + 1} = B
    BY <1>2, <2>1
  <2> QED BY <2>2
<1> HIDE DEF Old, All
<1>8. F \in Bijection(Old, All \ Old)
  BY <1>5, <1>6, <1>7 DEF Bijection, Injection, IsInjective, Surjection
<1>9. Cardinality(All \ Old) = Cardinality(Old)
  BY <1>3, <1>8, FS_Bijection DEF ExistsBijection
<1>10. All \cap Old = Old
  BY <1>4
<1>11. Cardinality(All \ Old) = Cardinality(All) - Cardinality(Old)
  <2>1. IsFiniteSet(All)
    BY <1>3
  <2>2. Cardinality(All \ Old) = Cardinality(All) - Cardinality(All \cap Old)
    BY <2>1, FS_Difference
  <2> QED BY <2>2, <1>10
<1>12. 2^n \in Nat /\ 2^n # 0
  BY <1>3, <1>4, FS_CardinalityType, FS_EmptySet
<1> QED BY <1>3, <1>9, <1>11, <1>12, FS_CardinalityType

(* The native width splits evenly around zero and has room for one.        *)
LEMMA Width ==
  /\ 2^(Bits - 1) \in Nat \ {0} /\ 2^Bits = 2 * 2^(Bits - 1)
  /\ Int32 \subseteq Int /\ 1 \in Int32
<1>1. Bits - 1 \in Nat /\ Bits - 2 \in Nat
  BY ParametersAssumption
<1>2. 2^(Bits - 1) \in Nat \ {0} /\ 2^((Bits - 1) + 1) = 2 * 2^(Bits - 1)
  BY <1>1, PowerDoubles
<1>3. 2^(Bits - 2) \in Nat \ {0} /\ 2^((Bits - 2) + 1) = 2 * 2^(Bits - 2)
  BY <1>1, PowerDoubles
<1>4. (Bits - 1) + 1 = Bits /\ (Bits - 2) + 1 = Bits - 1
  BY ParametersAssumption
<1>5. 2^(Bits - 1) >= 2
  BY <1>2, <1>3, <1>4
<1> QED BY <1>2, <1>4, <1>5 DEF Int32

(* What intValue makes of a number fits the native width, and a number     *)
(* that fits it is left as it is.                                          *)
LEMMA IntValueFits ==
  ASSUME NEW n \in Int \cup {Nil}
  PROVE  /\ IntValue(n) \in Int32 \cup {Nil}
         /\ n \in Int32 \cup {Nil} => IntValue(n) = n
<1> DEFINE h == 2^(Bits - 1)
<1>1. h \in Nat \ {0} /\ 2^Bits = 2 * h /\ Int32 = -h .. (h - 1)
  BY Width DEF Int32
<1>2. CASE n = Nil
  BY <1>2 DEF IntValue
<1>3. CASE n # Nil
  <2>1. IntValue(n) = IF n % (2 * h) < h THEN n % (2 * h) ELSE (n % (2 * h)) - 2 * h
    BY <1>1, <1>3 DEF IntValue
  <2>2. n \in Int
    BY <1>3
  <2> HIDE DEF h
  <2>3. IntValue(n) \in -h .. (h - 1)
    BY <1>1, <2>1, <2>2
  <2>4. n \in -h .. (h - 1) => IntValue(n) = n
    BY <1>1, <2>1, <2>2
  <2> QED BY <1>1, <1>3, <2>3, <2>4
<1> QED BY <1>2, <1>3

-----------------------------------------------------------------------------
(* Parameters whose preference survives the copy and whose lower bit rates *)
(* nobody has changed.                                                     *)
Plain ==
  {p \in Parameters :
     p.preference \in {"balanced", Nil} /\ \A i \in 1..Layers : p.encodings[i].min = 1}

(* An edit whose bit rate went through intValue.                           *)
Truncated(edit) ==
  IF edit.op = "cap" THEN [edit EXCEPT !.max = IntValue(@)] ELSE edit

(* What the update that read the parameters hands over for an edit.        *)
Outcome(read, edit) ==
  IF edit.op = "limit" THEN Limited(read, edit.layer)
  ELSE WriteBack(read, Edited(RTPParameters(read), edit))

(* The kinds of edits that are carried out.                                *)
LEMMA EditKinds ==
  ASSUME CarriedOut, NEW edit \in Edit
  PROVE  \/ edit.op = "keep" \/ edit.op = "forget"
         \/ edit.op = "cap" /\ edit.max \in Int \cup {Nil}
            /\ edit = [op |-> "cap", max |-> edit.max]
         \/ edit.op = "prefer" /\ edit.preference \in {"balanced", Nil}
         \/ edit.op = "limit" /\ edit.layer \in UInt8
<1>1. CASE edit \in [op : {"keep", "forget"}]
  BY <1>1
<1>2. CASE edit \in [op : {"cap"}, max : Int \cup {Nil}]
  BY <1>2
<1>3. CASE edit \in [op : {"prefer"}, preference : {"balanced", Nil}]
  BY <1>3
<1>4. CASE edit \in [op : {"limit"}, layer : UInt8]
  BY <1>4
<1> QED BY <1>1, <1>2, <1>3, <1>4 DEF CarriedOut

(* The Swift copy of plain parameters says what they say.                  *)
LEMMA CopyOfPlain ==
  ASSUME NEW read \in Plain
  PROVE  RTPParameters(read) = read
<1>1. /\ read = [encodings |-> read.encodings, preference |-> read.preference]
      /\ read.encodings = [i \in 1..Layers |-> read.encodings[i]]
      /\ read.preference \in {"balanced", Nil}
  BY DEF Plain, Parameters
<1>2. WrappedPreference(read.preference) = read.preference
  BY <1>1 DEF WrappedPreference
<1> QED BY <1>1, <1>2 DEF RTPParameters

(* A sequence with an element for every encoding is as long as the sender  *)
(* has encodings.                                                          *)
LEMMA AsMany ==
  ASSUME NEW E, NEW e \in [1..Layers -> E]
  PROVE  Len(e) = Layers
<1>1. Layers \in Nat
  BY ParametersAssumption
<1>2. e \in Seq(E)
  BY <1>1, SeqDef
<1> QED BY <1>1, <1>2, LenProperties

(* The two bit rates of an encoding set together.                          *)
LEMMA BothRates ==
  ASSUME NEW e \in Encoding, NEW m, NEW n
  PROVE  [e EXCEPT !.min = m, !.max = n] = [active |-> e.active, min |-> m, max |-> n]
<1>1. e = [active |-> e.active, min |-> e.min, max |-> e.max]
  BY DEF Encoding
<1> DEFINE f == [e EXCEPT !.min = m]
<1>2. f = [active |-> e.active, min |-> m, max |-> e.max]
  BY <1>1
<1>3. [f EXCEPT !.max = n] = [active |-> e.active, min |-> m, max |-> n]
  <2> HIDE DEF f
  <2> QED BY <1>2
<1>4. [e EXCEPT !.min = m, !.max = n] = [f EXCEPT !.max = n]
  BY Zenon
<1> QED BY <1>3, <1>4

(* What is written back for a plain copy is that copy, with the rates as   *)
(* intValue leaves them.                                                   *)
LEMMA WriteBackCopy ==
  ASSUME NEW read \in Plain, NEW copy,
         copy.encodings \in [1..Layers -> [active : BOOLEAN, min : Int32 \cup {Nil},
                                            max : Int \cup {Nil}]],
         \A i \in 1..Layers : /\ copy.encodings[i].min = read.encodings[i].min
                              /\ copy.encodings[i].active = read.encodings[i].active
  PROVE  WriteBack(read, copy) =
           [encodings |-> [i \in 1..Layers |->
              [active |-> read.encodings[i].active, min |-> read.encodings[i].min,
               max |-> IntValue(copy.encodings[i].max)]],
            preference |-> copy.preference]
<1>1. Len(copy.encodings) = Layers /\ Layers \in Nat
  BY AsMany, ParametersAssumption
<1>2. ASSUME NEW i \in 1..Layers
      PROVE  (IF i <= Len(copy.encodings)
              THEN [read.encodings[i] EXCEPT !.min = IntValue(copy.encodings[i].min),
                                             !.max = IntValue(copy.encodings[i].max)]
              ELSE read.encodings[i])
             = [active |-> read.encodings[i].active, min |-> read.encodings[i].min,
                max |-> IntValue(copy.encodings[i].max)]
  <2>1. read.encodings[i] \in Encoding
    BY DEF Plain, Parameters
  <2>2. IntValue(copy.encodings[i].min) = read.encodings[i].min
    <3>1. read.encodings[i].min \in Int32 \cup {Nil} /\ Int32 \subseteq Int
      BY <2>1, Width DEF Encoding
    <3> QED BY <3>1, IntValueFits
  <2>3. i <= Len(copy.encodings)
    BY <1>1
  <2>4. [read.encodings[i] EXCEPT !.min = IntValue(copy.encodings[i].min),
                                  !.max = IntValue(copy.encodings[i].max)]
        = [active |-> read.encodings[i].active, min |-> IntValue(copy.encodings[i].min),
           max |-> IntValue(copy.encodings[i].max)]
    BY <2>1, BothRates
  <2> QED BY <2>2, <2>3, <2>4
<1> QED BY <1>2 DEF WriteBack

(* Encodings that are copied and not changed are written back unchanged.   *)
LEMMA WriteBackKeeps ==
  ASSUME NEW read \in Plain, NEW copy, copy.encodings = read.encodings
  PROVE  WriteBack(read, copy) = [encodings |-> read.encodings, preference |-> copy.preference]
<1>0. read.encodings \in [1..Layers -> Encoding] /\ Int32 \subseteq Int
  BY Width DEF Plain, Parameters
<1>1. read.encodings \in [1..Layers -> [active : BOOLEAN, min : Int32 \cup {Nil},
                                        max : Int \cup {Nil}]]
  BY <1>0 DEF Encoding
<1>2. ASSUME NEW i \in 1..Layers
      PROVE  [active |-> read.encodings[i].active, min |-> read.encodings[i].min,
              max |-> IntValue(read.encodings[i].max)] = read.encodings[i]
  <2>1. read.encodings[i] \in Encoding
    BY <1>0
  <2>2. read.encodings[i].max \in Int32 \cup {Nil}
    BY <2>1 DEF Encoding
  <2>3. IntValue(read.encodings[i].max) = read.encodings[i].max
    BY <1>0, <2>2, IntValueFits
  <2> QED BY <2>1, <2>3 DEF Encoding
<1>3. [i \in 1..Layers |->
         [active |-> read.encodings[i].active, min |-> read.encodings[i].min,
          max |-> IntValue(copy.encodings[i].max)]] = read.encodings
  BY <1>0, <1>2
<1>4. WriteBack(read, copy) =
           [encodings |-> [i \in 1..Layers |->
              [active |-> read.encodings[i].active, min |-> read.encodings[i].min,
               max |-> IntValue(copy.encodings[i].max)]],
            preference |-> copy.preference]
  BY <1>1, WriteBackCopy
<1> QED BY <1>3, <1>4

(* What is handed over is what was asked for, its bit rate cut to the      *)
(* native width: the copies lose nothing else.                             *)
LEMMA OutcomeIsAsked ==
  ASSUME CarriedOut, NEW read \in Plain, NEW edit \in Edit
  PROVE  Outcome(read, edit) = Asked(read, Truncated(edit))
<1>0. /\ read = [encodings |-> read.encodings, preference |-> read.preference]
      /\ read.encodings \in [1..Layers -> Encoding] /\ Int32 \subseteq Int
      /\ 1 \in 1..Layers
  BY Width, ParametersAssumption DEF Plain, Parameters
<1>1. ASSUME NEW i \in 1..Layers
      PROVE  /\ read.encodings[i] = [active |-> read.encodings[i].active,
                                     min |-> read.encodings[i].min,
                                     max |-> IntValue(read.encodings[i].max)]
             /\ read.encodings[i] \in [active : BOOLEAN, min : Int32 \cup {Nil},
                                       max : Int \cup {Nil}]
  <2>1. read.encodings[i] \in Encoding
    BY <1>0
  <2>2. read.encodings[i].max \in Int32 \cup {Nil} /\ read.encodings[i].max \in Int \cup {Nil}
    BY <1>0, <2>1 DEF Encoding
  <2>3. IntValue(read.encodings[i].max) = read.encodings[i].max
    BY <2>2, IntValueFits
  <2> QED BY <1>0, <2>1, <2>2, <2>3 DEF Encoding
<1>2. RTPParameters(read) = read
  BY CopyOfPlain
<1>3. CASE edit.op = "keep"
  <2>1. WriteBack(read, read) = read
    BY <1>0, WriteBackKeeps
  <2>2. Edited(read, edit) = read
    BY <1>3 DEF Edited
  <2> QED BY <1>2, <1>3, <2>1, <2>2 DEF Outcome, Asked, Truncated
<1>4. CASE edit.op = "forget"
  <2>1. Edited(read, edit) = [read EXCEPT !.encodings = <<>>]
    BY <1>4 DEF Edited
  <2>2. Edited(read, edit).encodings = <<>> /\ Edited(read, edit).preference = read.preference
    BY <1>0, <2>1
  <2>3. \A i \in 1..Layers : ~(i <= Len(<<>>))
    BY EmptySeq
  <2>4. WriteBack(read, Edited(read, edit)) = read
    BY <1>0, <2>2, <2>3 DEF WriteBack
  <2> QED BY <1>2, <1>4, <2>4 DEF Outcome, Asked, Truncated
<1>5. CASE edit.op = "prefer"
  <2>1. Edited(read, edit) = [encodings |-> read.encodings, preference |-> edit.preference]
    BY <1>0, <1>5 DEF Edited
  <2>2. WriteBack(read, Edited(read, edit)) = Edited(read, edit)
    BY <1>0, <2>1, WriteBackKeeps
  <2> QED BY <1>2, <1>5, <2>2 DEF Outcome, Asked, Truncated
<1>6. CASE edit.op = "cap"
  <2>1. edit.max \in Int \cup {Nil} /\ edit = [op |-> "cap", max |-> edit.max]
    BY <1>6, EditKinds
  <2>2. Truncated(edit) = [op |-> "cap", max |-> IntValue(edit.max)]
    BY <1>6, <2>1 DEF Truncated
  <2> DEFINE copy == [encodings |-> [read.encodings EXCEPT ![1].max = edit.max],
                      preference |-> read.preference]
  <2>3. Edited(read, edit) = copy
    BY <1>0, <1>6 DEF Edited
  <2>4. /\ copy.encodings \in [1..Layers -> [active : BOOLEAN, min : Int32 \cup {Nil},
                                             max : Int \cup {Nil}]]
        /\ \A i \in 1..Layers : /\ copy.encodings[i].min = read.encodings[i].min
                                 /\ copy.encodings[i].active = read.encodings[i].active
    BY <1>0, <1>1, <2>1
  <2>5. WriteBack(read, copy) =
           [encodings |-> [i \in 1..Layers |->
              [active |-> read.encodings[i].active, min |-> read.encodings[i].min,
               max |-> IntValue(copy.encodings[i].max)]],
            preference |-> copy.preference]
    <3> HIDE DEF copy
    <3> QED BY <2>4, WriteBackCopy
  <2>6. [i \in 1..Layers |->
              [active |-> read.encodings[i].active, min |-> read.encodings[i].min,
               max |-> IntValue(copy.encodings[i].max)]]
         = [read.encodings EXCEPT ![1].max = IntValue(edit.max)]
    BY <1>0, <1>1
  <2>7. Asked(read, Truncated(edit))
          = [encodings |-> [read.encodings EXCEPT ![1].max = IntValue(edit.max)],
             preference |-> read.preference]
    BY <1>0, <2>2 DEF Asked, Edited
  <2> QED BY <1>2, <1>6, <2>3, <2>5, <2>6, <2>7 DEF Outcome
<1>7. CASE edit.op = "limit"
  BY <1>7 DEF Outcome, Asked, Truncated
<1> QED BY <1>3, <1>4, <1>5, <1>6, <1>7, EditKinds

(* An encoding that is switched on or off stays one.                       *)
LEMMA ActiveSet ==
  ASSUME NEW e \in Encoding, NEW active \in BOOLEAN
  PROVE  /\ [e EXCEPT !.active = active] \in Encoding
         /\ [e EXCEPT !.active = active].min = e.min
         /\ [e EXCEPT !.active = active].active = active
  BY DEF Encoding

(* Setting the upper bit rate of the first encoding sets nothing else.     *)
LEMMA FirstCapped ==
  ASSUME NEW e \in [1..Layers -> Encoding], NEW m
  PROVE  /\ [e EXCEPT ![1].max = m][1].max = m
         /\ [e EXCEPT ![1].max = m][1].min = e[1].min
<1>1. 1 \in 1..Layers
  BY ParametersAssumption
<1>2. [e EXCEPT ![1].max = m][1] = [e[1] EXCEPT !.max = m]
  BY <1>1
<1>3. e[1] = [active |-> e[1].active, min |-> e[1].min, max |-> e[1].max]
  BY <1>1 DEF Encoding
<1>4. [e[1] EXCEPT !.max = m] = [active |-> e[1].active, min |-> e[1].min, max |-> m]
  BY <1>3
<1> QED BY <1>2, <1>4

(* A layer limit switches encodings on and off, those up to a layer the    *)
(* handler knows on and the others off, and sets nothing else.             *)
LEMMA LimitedFits ==
  ASSUME NEW read \in Parameters, NEW layer \in UInt8
  PROVE  \E encodings \in [1..Layers -> Encoding] :
           /\ Limited(read, layer) = [encodings |-> encodings, preference |-> read.preference]
           /\ \A i \in 1..Layers : encodings[i].min = read.encodings[i].min
           /\ layer \in Spatial =>
                \A i \in Spatial \cap 1..Layers : encodings[i].active <=> i <= layer
<1> DEFINE e(i) == IF layer \in Spatial /\ i \in Spatial
                   THEN [read.encodings[i] EXCEPT !.active = i <= layer]
                   ELSE read.encodings[i]
           encodings == [i \in 1..Layers |-> e(i)]
<1>1. read = [encodings |-> read.encodings, preference |-> read.preference]
      /\ read.encodings \in [1..Layers -> Encoding]
  BY DEF Parameters
<1>2. Limited(read, layer) = [encodings |-> encodings, preference |-> read.preference]
  <2>1. Limited(read, layer) = [read EXCEPT !.encodings = encodings]
    BY <1>1 DEF Limited
  <2> HIDE DEF encodings
  <2> QED BY <1>1, <2>1
<1>3. ASSUME NEW i \in 1..Layers
      PROVE  /\ e(i) \in Encoding /\ e(i).min = read.encodings[i].min
             /\ layer \in Spatial /\ i \in Spatial => (e(i).active <=> i <= layer)
  <2>1. (i <= layer) \in BOOLEAN
    <3>1. i \in Int /\ layer \in Int
      BY DEF UInt8
    <3> QED BY <3>1
  <2>2. read.encodings[i] \in Encoding
    BY <1>1
  <2>3. /\ [read.encodings[i] EXCEPT !.active = i <= layer] \in Encoding
        /\ [read.encodings[i] EXCEPT !.active = i <= layer].min = read.encodings[i].min
        /\ [read.encodings[i] EXCEPT !.active = i <= layer].active = (i <= layer)
    BY <2>1, <2>2, ActiveSet
  <2> QED BY <2>2, <2>3
<1>4. /\ encodings \in [1..Layers -> Encoding]
      /\ \A i \in 1..Layers : encodings[i] = e(i)
  BY <1>3
<1> HIDE DEF encodings, e
<1> QED BY <1>2, <1>3, <1>4

(* What is handed over is plain again.                                     *)
LEMMA OutcomeIsPlain ==
  ASSUME CarriedOut, NEW read \in Plain, NEW edit \in Edit
  PROVE  Outcome(read, edit) \in Plain
<1>0. /\ read = [encodings |-> read.encodings, preference |-> read.preference]
      /\ read.encodings \in [1..Layers -> Encoding] /\ 1 \in 1..Layers
      /\ read.preference \in {"balanced", Nil}
      /\ \A i \in 1..Layers : read.encodings[i].min = 1
  BY ParametersAssumption DEF Plain, Parameters
<1>1. ASSUME NEW encodings \in [1..Layers -> Encoding], NEW preference \in {"balanced", Nil},
             \A i \in 1..Layers : encodings[i].min = 1
      PROVE  [encodings |-> encodings, preference |-> preference] \in Plain
  BY <1>1 DEF Plain, Parameters, Preference
<1>2. Outcome(read, edit) = Asked(read, Truncated(edit))
  BY OutcomeIsAsked
<1>3. CASE edit.op \in {"keep", "forget"}
  <2>1. Asked(read, Truncated(edit)) = read
    BY <1>3 DEF Asked, Edited, Truncated
  <2> QED BY <1>2, <2>1
<1>4. CASE edit.op = "prefer"
  <2>1. Asked(read, Truncated(edit))
          = [encodings |-> read.encodings, preference |-> edit.preference]
    BY <1>0, <1>4 DEF Asked, Edited, Truncated
  <2> QED BY <1>0, <1>1, <1>2, <1>4, <2>1, EditKinds
<1>5. CASE edit.op = "cap"
  <2>1. edit.max \in Int \cup {Nil} /\ edit = [op |-> "cap", max |-> edit.max]
    BY <1>5, EditKinds
  <2>2. IntValue(edit.max) \in Int32 \cup {Nil}
    BY <2>1, IntValueFits
  <2>3. Truncated(edit) = [op |-> "cap", max |-> IntValue(edit.max)]
    BY <1>5, <2>1 DEF Truncated
  <2> DEFINE encodings == [read.encodings EXCEPT ![1].max = IntValue(edit.max)]
  <2>4. Asked(read, Truncated(edit))
          = [encodings |-> encodings, preference |-> read.preference]
    BY <1>0, <2>3 DEF Asked, Edited
  <2>5. encodings \in [1..Layers -> Encoding] /\ \A i \in 1..Layers : encodings[i].min = 1
    BY <1>0, <2>2 DEF Encoding
  <2> HIDE DEF encodings
  <2> QED BY <1>0, <1>1, <1>2, <2>4, <2>5
<1>6. CASE edit.op = "limit"
  <2>1. PICK encodings \in [1..Layers -> Encoding] :
          /\ Limited(read, edit.layer)
               = [encodings |-> encodings, preference |-> read.preference]
          /\ \A i \in 1..Layers : encodings[i].min = read.encodings[i].min
    <3>1. read \in Parameters /\ edit.layer \in UInt8
      BY <1>6, EditKinds DEF Plain
    <3> QED BY <3>1, LimitedFits
  <2> QED BY <1>0, <1>1, <1>6, <2>1 DEF Outcome
<1> QED BY <1>3, <1>4, <1>5, <1>6, EditKinds

-----------------------------------------------------------------------------
(* The parameters read last are still those of the sender, and all that    *)
(* was read is plain.                                                      *)
Inv ==
  /\ native \in Plain
  /\ last \in Update \cup {None}
  /\ pending \in [Update -> [edit : Edit, read : Plain] \cup {Nil}]
  /\ \A u \in Update : last = u /\ pending[u] # Nil => pending[u].read = native
  /\ ub = FALSE

(* The initial state.                                                      *)
LEMMA InvInit ==
  ASSUME CarriedOut, Init
  PROVE  Inv
<1>1. [active |-> TRUE, min |-> 1, max |-> Nil] \in Encoding
  BY Width DEF Encoding
<1>2. native \in Plain
  BY <1>1 DEF Init, Plain, Parameters, CarriedOut, Preference
<1> QED BY <1>2, ParametersAssumption DEF Init, Inv

(* An update in progress hands over the outcome of its edit and never      *)
(* writes past the end.                                                    *)
LEMMA Pending ==
  ASSUME CarriedOut, Inv, NEW u \in Update, pending[u] # Nil
  PROVE  /\ pending[u].edit \in Edit /\ pending[u].read \in Plain
         /\ Sent(u) = Outcome(pending[u].read, pending[u].edit)
         /\ ~PastEnd(u)
<1>1. pending[u].edit \in Edit /\ pending[u].read \in Plain
  BY DEF Inv
<1>2. Sent(u) = Outcome(pending[u].read, pending[u].edit)
  BY DEF Sent, Outcome
<1> DEFINE read == pending[u].read
           edit == pending[u].edit
<1>3. /\ read = [encodings |-> read.encodings, preference |-> read.preference]
      /\ read.encodings \in [1..Layers -> Encoding]
  BY <1>1 DEF Plain, Parameters
<1>4. RTPParameters(read) = read
  BY <1>1, CopyOfPlain
<1>5. Layers \in Nat /\ Len(read.encodings) = Layers
  BY <1>3, AsMany, ParametersAssumption
<1>6. CASE edit.op \in {"keep", "prefer"}
  <2>1. Edited(read, edit).encodings = read.encodings
    BY <1>3, <1>6 DEF Edited
  <2> QED BY <1>1, <1>2, <1>4, <1>5, <2>1 DEF PastEnd
<1>7. CASE edit.op = "forget"
  <2>1. Edited(read, edit).encodings = <<>>
    BY <1>3, <1>7 DEF Edited
  <2>2. ~(Len(<<>>) > Layers)
    BY <1>5, EmptySeq
  <2> QED BY <1>1, <1>2, <1>4, <2>1, <2>2 DEF PastEnd
<1>8. CASE edit.op = "cap"
  <2>1. Edited(read, edit).encodings = [read.encodings EXCEPT ![1].max = edit.max]
    BY <1>3, <1>8 DEF Edited
  <2> DEFINE e == [read.encodings EXCEPT ![1].max = edit.max]
  <2>2. e \in [1..Layers -> {e[i] : i \in 1..Layers}]
    BY <1>3
  <2>3. Len(e) = Layers
    BY <2>2, AsMany
  <2> QED BY <1>1, <1>2, <1>4, <1>5, <2>1, <2>3 DEF PastEnd
<1>9. CASE edit.op = "limit"
  BY <1>1, <1>2, <1>9 DEF PastEnd
<1> QED BY <1>1, <1>6, <1>7, <1>8, <1>9, EditKinds

(* What the end of an update does.                                         *)
LEMMA Finished ==
  ASSUME CarriedOut, Inv, NEW u \in Update, Finish(u)
  PROVE  /\ pending[u] # Nil /\ pending' = [pending EXCEPT ![u] = Nil] /\ ub' = FALSE
         /\ last' = IF last = u THEN None ELSE last
         /\ native' = IF last = u /\ InRange(Sent(u)) THEN Sent(u) ELSE native
<1>1. pending[u] # Nil
  BY DEF Finish
<1> QED BY <1>1, Pending DEF Finish, Accepted, Inv

(* Every step keeps the invariant.                                         *)
LEMMA InvStep ==
  ASSUME CarriedOut, Inv, [Next]_vars
  PROVE  Inv'
<1>1. ASSUME NEW u \in Update, NEW edit \in Edit, Begin(u, edit)
      PROVE  Inv'
  <2>1. /\ pending' = [pending EXCEPT ![u] = [edit |-> edit, read |-> native]]
        /\ last' = u /\ UNCHANGED <<native, ub>>
    BY <1>1 DEF Begin
  <2>2. [edit |-> edit, read |-> native] \in [edit : Edit, read : Plain]
    BY DEF Inv
  <2>3. pending' \in [Update -> [edit : Edit, read : Plain] \cup {Nil}]
    BY <2>1, <2>2 DEF Inv
  <2>4. pending'[u].read = native
    BY <2>1 DEF Inv
  <2> QED BY <2>1, <2>3, <2>4 DEF Inv
<1>2. ASSUME NEW u \in Update, Finish(u)
      PROVE  Inv'
  <2>1. /\ pending[u] # Nil /\ pending' = [pending EXCEPT ![u] = Nil] /\ ub' = FALSE
        /\ last' = IF last = u THEN None ELSE last
        /\ native' = IF last = u /\ InRange(Sent(u)) THEN Sent(u) ELSE native
    BY <1>2, Finished
  <2>2. Sent(u) \in Plain
    BY <2>1, Pending, OutcomeIsPlain
  <2>3. native' \in Plain
    BY <2>1, <2>2 DEF Inv
  <2>4. pending' \in [Update -> [edit : Edit, read : Plain] \cup {Nil}]
    BY <2>1 DEF Inv
  <2>5. ASSUME NEW v \in Update, last' = v, pending'[v] # Nil
        PROVE  pending'[v].read = native'
    BY <2>1, <2>5, ParametersAssumption DEF Inv
  <2> QED BY <2>1, <2>3, <2>4, <2>5 DEF Inv
<1>3. CASE UNCHANGED vars \/ \E u \in Update : Note(u)
  BY <1>3 DEF vars, Note, Inv
<1> QED BY <1>1, <1>2, <1>3 DEF Next

(* A change is one edit applied to the parameters it replaces.             *)
LEMMA OneEditStep ==
  ASSUME CarriedOut, Representable, Inv, [Next]_vars, native' # native
  PROVE  \E u \in Update :
           pending[u] # Nil /\ native' = Asked(native, pending[u].edit)
<1>1. PICK u \in Update : Finish(u)
  BY DEF Next, Begin, Note, vars
<1> DEFINE edit == pending[u].edit
<1>2. /\ pending[u] # Nil /\ last = u /\ InRange(Sent(u)) /\ native' = Sent(u)
  BY <1>1, Finished
<1>3. edit \in Edit /\ pending[u].read = native /\ native \in Plain
  BY <1>2, Pending DEF Inv
<1>4. Sent(u) = Asked(native, Truncated(edit))
  BY <1>2, <1>3, Pending, OutcomeIsAsked
<1>5. Truncated(edit) = edit
  <2>1. CASE edit.op = "cap" /\ ~(edit.max \in Int32 \cup {Nil})
    <3>1. edit.max \in Int /\ edit = [op |-> "cap", max |-> edit.max]
      BY <1>3, <2>1, EditKinds
    <3>2. IntValue(edit.max) < 1
      BY <1>3, <2>1 DEF Representable
    <3>3. IntValue(edit.max) \in Int /\ IntValue(edit.max) # Nil
      <4>1. IntValue(edit.max) \in Int
        BY <2>1, <3>1, Width DEF IntValue
      <4> QED BY <4>1, ParametersAssumption
    <3>4. Truncated(edit) = [op |-> "cap", max |-> IntValue(edit.max)]
      BY <2>1, <3>1 DEF Truncated
    <3>5. /\ native.encodings \in [1..Layers -> Encoding] /\ 1 \in 1..Layers
          /\ native = [encodings |-> native.encodings, preference |-> native.preference]
          /\ native.encodings[1].min = 1
      BY <1>3, ParametersAssumption DEF Plain, Parameters
    <3>6. Asked(native, Truncated(edit)).encodings
            = [native.encodings EXCEPT ![1].max = IntValue(edit.max)]
      BY <3>4, <3>5 DEF Asked, Edited
    <3>7. /\ Sent(u).encodings[1].min = 1
          /\ Sent(u).encodings[1].max = IntValue(edit.max)
      <4> DEFINE rate == IntValue(edit.max)
      <4>1. Sent(u).encodings = [native.encodings EXCEPT ![1].max = rate]
        BY <1>4, <3>6
      <4> HIDE DEF rate
      <4>2. /\ [native.encodings EXCEPT ![1].max = rate][1].max = rate
            /\ [native.encodings EXCEPT ![1].max = rate][1].min = native.encodings[1].min
        BY <3>5, FirstCapped
      <4>3. Sent(u).encodings[1].max = rate /\ Sent(u).encodings[1].min = 1
        BY <3>5, <4>1, <4>2
      <4> QED BY <4>3 DEF rate
    <3>8. 1 # Nil
      BY ParametersAssumption
    <3> QED BY <1>2, <3>2, <3>3, <3>5, <3>7, <3>8 DEF InRange
  <2>2. CASE edit.op = "cap" /\ edit.max \in Int32 \cup {Nil}
    <3>1. edit.max \in Int \cup {Nil} /\ edit = [op |-> "cap", max |-> edit.max]
      BY <1>3, <2>2, EditKinds
    <3>2. IntValue(edit.max) = edit.max
      BY <2>2, <3>1, IntValueFits
    <3> QED BY <2>2, <3>1, <3>2 DEF Truncated
  <2>3. CASE edit.op # "cap"
    BY <2>3 DEF Truncated
  <2> QED BY <2>1, <2>2, <2>3
<1> QED BY <1>2, <1>4, <1>5

(* An update whose GetParameters came last and whose values are within     *)
(* range and representable takes effect, others in progress or not.        *)
LEMMA UndisturbedStep ==
  ASSUME CarriedOut, Inv, [Next]_vars, NEW u \in Update,
         pending[u] # Nil, pending'[u] = Nil, last = u,
         InRange(Asked(native, pending[u].edit)),
         Asked(native, pending[u].edit) \in Parameters
  PROVE  native' = Asked(native, pending[u].edit)
<1> DEFINE edit == pending[u].edit
<1>1. Finish(u)
  <2>1. ASSUME NEW v \in Update, NEW e \in Edit, Begin(v, e)
        PROVE  pending'[u] = pending[u]
    BY <2>1 DEF Begin, Inv
  <2>2. ASSUME NEW v \in Update \ {u}, Finish(v)
        PROVE  pending'[u] = pending[u]
    BY <2>2 DEF Finish, Inv
  <2> QED BY <2>1, <2>2 DEF Next, Note, vars
<1>2. edit \in Edit /\ pending[u].read = native /\ native \in Plain
  BY Pending DEF Inv
<1>3. Sent(u) = Asked(native, Truncated(edit))
  BY <1>2, Pending, OutcomeIsAsked
<1>4. Truncated(edit) = edit
  <2>1. CASE edit.op = "cap"
    <3>1. edit.max \in Int \cup {Nil} /\ edit = [op |-> "cap", max |-> edit.max]
      BY <1>2, <2>1, EditKinds
    <3>2. /\ native.encodings \in [1..Layers -> Encoding] /\ 1 \in 1..Layers
          /\ native = [encodings |-> native.encodings, preference |-> native.preference]
      BY <1>2, ParametersAssumption DEF Plain, Parameters
    <3>3. Asked(native, edit).encodings = [native.encodings EXCEPT ![1].max = edit.max]
      BY <2>1, <3>2 DEF Asked, Edited
    <3>4. Asked(native, edit).encodings[1].max = edit.max
      BY <3>2, <3>3, FirstCapped
    <3>5. Asked(native, edit).encodings[1] \in Encoding
      BY <3>2 DEF Parameters
    <3>6. edit.max \in Int32 \cup {Nil}
      BY <3>4, <3>5 DEF Encoding
    <3>7. IntValue(edit.max) = edit.max
      BY <3>1, <3>6, IntValueFits
    <3> QED BY <2>1, <3>1, <3>7 DEF Truncated
  <2>2. CASE edit.op # "cap"
    BY <2>2 DEF Truncated
  <2> QED BY <2>1, <2>2
<1> QED BY <1>1, <1>3, <1>4, Finished

(* The invariant holds throughout.                                         *)
LEMMA InvAlways ==
  ASSUME CarriedOut
  PROVE  Spec => []Inv
<1>1. Init => Inv
  BY InvInit
<1>2. Inv /\ [Next]_vars => Inv'
  BY InvStep
<1> QED BY <1>1, <1>2, PTL DEF Spec

-----------------------------------------------------------------------------
(* Closures and calls of any kind, with values of the types of their       *)
(* arguments.                                                              *)
Typed ==
  Edit \subseteq [op : {"keep", "forget", "mute", "append"}]
                 \cup [op : {"cap"}, max : Int \cup {Nil}]
                 \cup [op : {"prefer"}, preference : Preference]
                 \cup [op : {"limit"}, layer : UInt8]

(* An encoding as a closure may leave it, with a rate of any size.         *)
Wide == [active : BOOLEAN, min : Int32 \cup {Nil}, max : Int \cup {Nil}]

(* Setting one field of such an encoding leaves it one.                    *)
LEMMA WideSet ==
  ASSUME NEW e \in Wide
  PROVE  /\ [e EXCEPT !.active = FALSE] \in Wide
         /\ \A m \in Int \cup {Nil} : [e EXCEPT !.max = m] \in Wide
  BY DEF Wide

(* The kinds of edits.                                                     *)
LEMMA TypedKinds ==
  ASSUME Typed, NEW edit \in Edit
  PROVE  \/ edit.op \in {"keep", "forget", "mute", "append"}
         \/ edit.op = "cap" /\ edit.max \in Int \cup {Nil}
         \/ edit.op = "prefer" /\ edit.preference \in Preference
         \/ edit.op = "limit" /\ edit.layer \in UInt8
<1>1. CASE edit \in [op : {"keep", "forget", "mute", "append"}]
  BY <1>1
<1>2. CASE edit \in [op : {"cap"}, max : Int \cup {Nil}]
  BY <1>2
<1>3. CASE edit \in [op : {"prefer"}, preference : Preference]
  BY <1>3
<1>4. CASE edit \in [op : {"limit"}, layer : UInt8]
  BY <1>4
<1> QED BY <1>1, <1>2, <1>3, <1>4 DEF Typed

(* A closure returns as many encodings as it got, or none, or too many.    *)
LEMMA EditedShape ==
  ASSUME Typed, NEW read \in Parameters, NEW edit \in Edit, edit.op # "limit"
  PROVE  LET copy == Edited(RTPParameters(read), edit)
         IN /\ copy.preference \in Preference
            /\ \/ copy.encodings = <<>> \/ copy.encodings \in [1..Layers -> Wide]
               \/ Len(copy.encodings) > Layers
<1> DEFINE rates == [i \in 1..Layers |-> read.encodings[i]]
           preference == WrappedPreference(read.preference)
           whole == [encodings |-> rates, preference |-> preference]
<1>1. rates \in [1..Layers -> Encoding] /\ Int32 \subseteq Int /\ 1 \in 1..Layers
  BY Width, ParametersAssumption DEF Parameters
<1>2. rates \in [1..Layers -> Wide]
  BY <1>1 DEF Encoding, Wide
<1>3. preference \in Preference
  BY DEF WrappedPreference, Preference
<1>4. RTPParameters(read) = whole
  BY DEF RTPParameters
<1> HIDE DEF rates, preference
<1>5. CASE edit.op = "keep"
  BY <1>2, <1>3, <1>4, <1>5 DEF Edited
<1>6. CASE edit.op = "forget"
  <2>1. Edited(whole, edit) = [encodings |-> <<>>, preference |-> preference]
    BY <1>6 DEF Edited
  <2> QED BY <1>3, <1>4, <2>1
<1>7. CASE edit.op = "mute"
  <2> DEFINE changed == [rates EXCEPT ![1].active = FALSE]
  <2>1. Edited(whole, edit) = [encodings |-> changed, preference |-> preference]
    BY <1>7 DEF Edited
  <2>2. changed \in [1..Layers -> Wide]
    <3>1. [rates[1] EXCEPT !.active = FALSE] \in Wide
      BY <1>1, <1>2, WideSet
    <3> QED BY <1>1, <1>2, <3>1
  <2> HIDE DEF changed
  <2> QED BY <1>3, <1>4, <2>1, <2>2
<1>8. CASE edit.op = "cap" /\ edit.max \in Int \cup {Nil}
  <2> DEFINE changed == [rates EXCEPT ![1].max = edit.max]
  <2>1. Edited(whole, edit) = [encodings |-> changed, preference |-> preference]
    BY <1>8 DEF Edited
  <2>2. changed \in [1..Layers -> Wide]
    <3>1. [rates[1] EXCEPT !.max = edit.max] \in Wide
      BY <1>1, <1>2, <1>8, WideSet
    <3> QED BY <1>1, <1>2, <3>1
  <2> HIDE DEF changed
  <2> QED BY <1>3, <1>4, <2>1, <2>2
<1>9. CASE edit.op = "prefer" /\ edit.preference \in Preference
  <2>1. Edited(whole, edit) = [encodings |-> rates, preference |-> edit.preference]
    BY <1>9 DEF Edited
  <2> QED BY <1>2, <1>4, <1>9, <2>1
<1>10. CASE edit.op = "append"
  <2> DEFINE longer == Append(rates, rates[Layers])
  <2>1. Edited(whole, edit) = [encodings |-> longer, preference |-> preference]
    BY <1>10 DEF Edited
  <2>2. Len(longer) > Layers
    <3>1. Layers \in Nat /\ rates \in Seq(Wide) /\ Len(rates) = Layers
      BY <1>2, AsMany, ParametersAssumption, SeqDef
    <3>2. rates[Layers] \in Wide
      BY <1>2, ParametersAssumption
    <3> QED BY <3>1, <3>2, AppendProperties
  <2> HIDE DEF longer
  <2> QED BY <1>3, <1>4, <2>1, <2>2
<1> QED BY <1>5, <1>6, <1>7, <1>8, <1>9, <1>10, TypedKinds

(* A copy of the sender's shape is written back at rates of the native     *)
(* width.                                                                  *)
LEMMA WriteBackFits ==
  ASSUME NEW read \in Parameters, NEW copy, copy.preference \in Preference,
         copy.encodings = <<>> \/ copy.encodings \in [1..Layers -> Wide]
  PROVE  WriteBack(read, copy) \in Parameters
<1>1. Layers \in Nat /\ Int32 \subseteq Int
  BY ParametersAssumption, Width
<1>2. ASSUME NEW i \in 1..Layers
      PROVE  (IF i <= Len(copy.encodings)
              THEN [read.encodings[i] EXCEPT !.min = IntValue(copy.encodings[i].min),
                                             !.max = IntValue(copy.encodings[i].max)]
              ELSE read.encodings[i]) \in Encoding
  <2>1. read.encodings[i] \in Encoding
    BY DEF Parameters
  <2>2. CASE i <= Len(copy.encodings)
    <3>1. copy.encodings \in [1..Layers -> Wide]
      <4>1. ~(i <= Len(<<>>))
        BY EmptySeq
      <4> QED BY <2>2, <4>1
    <3>2. copy.encodings[i].min \in Int \cup {Nil} /\ copy.encodings[i].max \in Int \cup {Nil}
      BY <1>1, <3>1 DEF Wide
    <3> DEFINE m == IntValue(copy.encodings[i].min)
               n == IntValue(copy.encodings[i].max)
    <3>3. m \in Int32 \cup {Nil} /\ n \in Int32 \cup {Nil}
      BY <3>2, IntValueFits
    <3> HIDE DEF m, n
    <3>4. [read.encodings[i] EXCEPT !.min = m, !.max = n]
            = [active |-> read.encodings[i].active, min |-> m, max |-> n]
      BY <2>1, BothRates
    <3>5. [read.encodings[i] EXCEPT !.min = m, !.max = n] \in Encoding
      BY <2>1, <3>3, <3>4 DEF Encoding
    <3> QED BY <2>2, <3>5 DEF m, n
  <2> QED BY <2>1, <2>2
<1> QED BY <1>2 DEF WriteBack, Parameters

(* The parameters in the sender, and those read from it, keep their shape. *)
ShapeInv ==
  /\ native \in Parameters
  /\ last \in Update \cup {None}
  /\ pending \in [Update -> [edit : Edit, read : Parameters] \cup {Nil}]
  /\ maxLayer \in UInt8
  /\ noting \in [Update -> UInt8 \cup {Nil}]
  /\ ub \in BOOLEAN

LEMMA ShapeInit ==
  ASSUME Init
  PROVE  ShapeInv
<1>1. [active |-> TRUE, min |-> 1, max |-> Nil] \in Encoding
  BY Width DEF Encoding
<1>2. native \in Parameters
  BY <1>1, ParametersAssumption DEF Init, Parameters
<1>3. 0 \in UInt8
  BY DEF UInt8
<1>4. /\ last = None /\ maxLayer = 0 /\ ub = FALSE
      /\ pending = [u \in Update |-> Nil] /\ noting = [u \in Update |-> Nil]
  BY DEF Init
<1> QED BY <1>2, <1>3, <1>4 DEF ShapeInv

(* What is handed to SetParameters has the shape, too, and the producer    *)
(* has a layer to note if it was a limit that was accepted.                *)
LEMMA SentFits ==
  ASSUME Typed, ShapeInv, NEW u \in Update, pending[u] # Nil, ~PastEnd(u)
  PROVE  Sent(u) \in Parameters /\ ToNote(u) \in UInt8 \cup {Nil}
<1> DEFINE edit == pending[u].edit
           read == pending[u].read
           copy == Edited(RTPParameters(read), edit)
<1>1. edit \in Edit /\ read \in Parameters
  BY DEF ShapeInv
<1>2. CASE edit.op = "limit"
  <2>1. edit.layer \in UInt8
    BY <1>1, <1>2, TypedKinds
  <2>2. Limited(read, edit.layer) \in Parameters
    <3>1. read.preference \in Preference
      BY <1>1 DEF Parameters
    <3>2. PICK encodings \in [1..Layers -> Encoding] :
            Limited(read, edit.layer) = [encodings |-> encodings, preference |-> read.preference]
      BY <1>1, <2>1, LimitedFits
    <3> QED BY <3>1, <3>2 DEF Parameters
  <2> QED BY <1>2, <2>1, <2>2 DEF Sent, ToNote
<1>3. CASE edit.op # "limit"
  <2>1. /\ copy.preference \in Preference
        /\ copy.encodings = <<>> \/ copy.encodings \in [1..Layers -> Wide]
    <3>1. ~(Len(copy.encodings) > Layers)
      BY <1>3 DEF PastEnd
    <3> HIDE DEF edit, read
    <3> QED BY <1>1, <1>3, <3>1, EditedShape
  <2>2. WriteBack(read, copy) \in Parameters
    <3> HIDE DEF edit, read, copy
    <3> QED BY <1>1, <2>1, WriteBackFits
  <2> QED BY <1>3, <2>2 DEF Sent, ToNote
<1> QED BY <1>2, <1>3

(* Every step keeps the shape.                                             *)
LEMMA ShapeStep ==
  ASSUME Typed, ShapeInv, [Next]_vars
  PROVE  ShapeInv'
<1>1. ASSUME NEW u \in Update, NEW edit \in Edit, Begin(u, edit)
      PROVE  ShapeInv'
  <2>1. /\ pending' = [pending EXCEPT ![u] = [edit |-> edit, read |-> native]]
        /\ last' = u /\ UNCHANGED <<native, maxLayer, noting, ub>>
    BY <1>1 DEF Begin
  <2>2. [edit |-> edit, read |-> native] \in [edit : Edit, read : Parameters]
    BY DEF ShapeInv
  <2> QED BY <2>1, <2>2 DEF ShapeInv
<1>2. ASSUME NEW u \in Update, Finish(u)
      PROVE  ShapeInv'
  <2>1. pending[u] # Nil /\ pending' = [pending EXCEPT ![u] = Nil] /\ maxLayer' = maxLayer
    BY <1>2 DEF Finish
  <2>2. CASE PastEnd(u)
    <3>1. ub' = TRUE /\ UNCHANGED <<native, last, noting>>
      BY <1>2, <2>2 DEF Finish
    <3> QED BY <2>1, <3>1 DEF ShapeInv
  <2>3. CASE ~PastEnd(u)
    <3>1. /\ native' \in {native, Sent(u)} /\ last' \in {last, None}
          /\ noting' = [noting EXCEPT ![u] = ToNote(u)] /\ ub' = ub
      BY <1>2, <2>3 DEF Finish
    <3>2. Sent(u) \in Parameters /\ ToNote(u) \in UInt8 \cup {Nil}
      BY <2>1, <2>3, SentFits
    <3> QED BY <2>1, <3>1, <3>2 DEF ShapeInv
  <2> QED BY <2>2, <2>3
<1>3. ASSUME NEW u \in Update, Note(u)
      PROVE  ShapeInv'
  BY <1>3 DEF Note, ShapeInv
<1>4. CASE UNCHANGED vars
  BY <1>4 DEF vars, ShapeInv
<1> QED BY <1>1, <1>2, <1>3, <1>4 DEF Next

-----------------------------------------------------------------------------
(* The sender is limited to a layer, if the handler knows the layer.       *)
LimitedTo(parameters, layer) ==
  layer \in Spatial =>
    \A i \in Spatial \cap 1..Layers : parameters.encodings[i].active <=> i <= layer

(* The layer to be noted, or else the one that was, is in force.  There is *)
(* one limit at a time, and the parameters read last are the sender's, so  *)
(* that no update puts back an encoding the limit has switched off.        *)
LimitInv ==
  /\ ShapeInv
  /\ \A u \in Update : last = u /\ pending[u] # Nil => pending[u].read = native
  /\ \A u, v \in Update : Limiting(u) /\ Limiting(v) => u = v
  /\ \A u \in Update : noting[u] # Nil => pending[u] = Nil /\ LimitedTo(native, noting[u])
  /\ (\A u \in Update : noting[u] = Nil) => LimitedTo(native, maxLayer)

(* The copy leaves active as it was read.                                  *)
LEMMA ActiveKept ==
  ASSUME NEW read \in Parameters, NEW copy, NEW i \in 1..Layers
  PROVE  WriteBack(read, copy).encodings[i].active = read.encodings[i].active
<1>1. read.encodings[i] \in Encoding
  BY DEF Parameters
<1>2. \A m, n : [read.encodings[i] EXCEPT !.min = m, !.max = n].active
                  = read.encodings[i].active
  BY <1>1, BothRates
<1> QED BY <1>2 DEF WriteBack

(* An accepted update that is no limit leaves the limit in force.          *)
LEMMA UpdateKeepsLimit ==
  ASSUME LimitInv, NEW u \in Update, pending[u] # Nil, last = u, pending[u].edit.op # "limit",
         NEW layer, LimitedTo(native, layer)
  PROVE  LimitedTo(Sent(u), layer)
<1>1. pending[u].read = native /\ native \in Parameters
  BY DEF LimitInv, ShapeInv
<1>2. PICK copy : Sent(u) = WriteBack(native, copy)
  BY <1>1 DEF Sent
<1>3. \A i \in 1..Layers : Sent(u).encodings[i].active = native.encodings[i].active
  BY <1>1, <1>2, ActiveKept
<1> QED BY <1>3 DEF LimitedTo

(* An accepted limit is in force.                                          *)
LEMMA LimitTakesForce ==
  ASSUME Typed, LimitInv, NEW u \in Update, pending[u] # Nil, pending[u].edit.op = "limit"
  PROVE  /\ LimitedTo(Sent(u), pending[u].edit.layer)
         /\ pending[u].edit.layer \in UInt8 /\ pending[u].edit.layer # Nil
<1> DEFINE edit == pending[u].edit
           read == pending[u].read
<1>1. edit \in Edit /\ read \in Parameters
  BY DEF LimitInv, ShapeInv
<1>2. edit.layer \in UInt8 /\ edit.layer # Nil
  BY <1>1, TypedKinds, ParametersAssumption DEF UInt8
<1>3. Sent(u) = Limited(read, edit.layer)
  BY DEF Sent
<1> HIDE DEF edit, read
<1>4. PICK encodings \in [1..Layers -> Encoding] :
        /\ Limited(read, edit.layer) = [encodings |-> encodings, preference |-> read.preference]
        /\ edit.layer \in Spatial =>
             \A i \in Spatial \cap 1..Layers : encodings[i].active <=> i <= edit.layer
  BY <1>1, <1>2, LimitedFits
<1>5. LimitedTo(Sent(u), edit.layer)
  BY <1>3, <1>4 DEF LimitedTo
<1> QED BY <1>2, <1>5 DEF edit

(* Every step keeps the limit in force.                                    *)
LEMMA LimitStep ==
  ASSUME Typed, "LimitAlone" \in Rule, LimitInv, [Next]_vars
  PROVE  LimitInv'
<1>0. ShapeInv'
  BY ShapeStep DEF LimitInv
<1>1. ASSUME NEW u \in Update, NEW edit \in Edit, Begin(u, edit)
      PROVE  LimitInv'
  <2>1. /\ pending' = [pending EXCEPT ![u] = [edit |-> edit, read |-> native]]
        /\ last' = u /\ UNCHANGED <<native, maxLayer, noting, ub>>
        /\ noting[u] = Nil
        /\ edit.op = "limit" => \A v \in Update : ~Limiting(v)
    BY <1>1 DEF Begin
  <2>2. /\ pending'[u] = [edit |-> edit, read |-> native]
        /\ \A v \in Update \ {u} : pending'[v] = pending[v]
    BY <2>1 DEF LimitInv, ShapeInv
  <2>3. ASSUME NEW v \in Update, Limiting(v)'
        PROVE  Limiting(v) \/ (v = u /\ edit.op = "limit")
    BY <2>1, <2>2, <2>3 DEF Limiting
  <2>4. \A v, w \in Update : Limiting(v)' /\ Limiting(w)' => v = w
    BY <2>1, <2>3 DEF LimitInv
  <2>5. \A v \in Update : last' = v /\ pending'[v] # Nil => pending'[v].read = native'
    BY <2>1, <2>2
  <2>6. \A v \in Update : noting'[v] # Nil => pending'[v] = Nil /\ LimitedTo(native', noting'[v])
    BY <2>1, <2>2 DEF LimitInv
  <2>7. (\A v \in Update : noting'[v] = Nil) => LimitedTo(native', maxLayer')
    BY <2>1 DEF LimitInv
  <2> QED BY <1>0, <2>4, <2>5, <2>6, <2>7 DEF LimitInv, LimitedTo
<1>2. ASSUME NEW u \in Update, Finish(u)
      PROVE  LimitInv'
  <2>1. /\ pending[u] # Nil /\ pending' = [pending EXCEPT ![u] = Nil] /\ maxLayer' = maxLayer
        /\ noting[u] = Nil
    BY <1>2 DEF Finish, LimitInv
  <2>2. /\ pending'[u] = Nil
        /\ \A v \in Update \ {u} : pending'[v] = pending[v]
    BY <2>1 DEF LimitInv, ShapeInv
  <2>3. CASE native' = native /\ noting' = noting /\ last' \in {last, None}
    <3>1. \A v \in Update : Limiting(v)' => Limiting(v)
      BY <2>2, <2>3 DEF Limiting
    <3>2. \A v \in Update : last' = v /\ pending'[v] # Nil => pending'[v].read = native'
      BY <2>2, <2>3, ParametersAssumption DEF LimitInv
    <3>3. \A v \in Update :
            noting'[v] # Nil => pending'[v] = Nil /\ LimitedTo(native', noting'[v])
      BY <2>2, <2>3 DEF LimitInv
    <3>4. (\A v \in Update : noting'[v] = Nil) => LimitedTo(native', maxLayer')
      BY <2>1, <2>3 DEF LimitInv
    <3> QED BY <1>0, <3>1, <3>2, <3>3, <3>4 DEF LimitInv, LimitedTo
  <2>4. CASE ~PastEnd(u) /\ Accepted(u)
    <3>1. /\ native' = Sent(u) /\ last = u /\ last' = None
          /\ noting' = [noting EXCEPT ![u] = ToNote(u)]
      BY <1>2, <2>4 DEF Finish, Accepted
    <3>2. /\ noting'[u] = ToNote(u)
          /\ \A v \in Update \ {u} : noting'[v] = noting[v]
      BY <3>1 DEF LimitInv, ShapeInv
    <3>3. \A v \in Update : last' = v /\ pending'[v] # Nil => pending'[v].read = native'
      BY <3>1, ParametersAssumption
    <3>4. CASE pending[u].edit.op # "limit"
      <4>1. noting'[u] = Nil
        BY <3>2, <3>4 DEF ToNote
      <4>2. \A v \in Update : Limiting(v)' => Limiting(v)
        BY <2>2, <3>2, <4>1 DEF Limiting
      <4>3. \A layer : LimitedTo(native, layer) => LimitedTo(native', layer)
        BY <2>1, <3>1, <3>4, UpdateKeepsLimit
      <4>4. \A v \in Update :
              noting'[v] # Nil => pending'[v] = Nil /\ LimitedTo(native', noting'[v])
        BY <2>2, <3>2, <4>1, <4>3 DEF LimitInv
      <4>5. (\A v \in Update : noting'[v] = Nil) => LimitedTo(native', maxLayer')
        <5>1. (\A v \in Update : noting'[v] = Nil) => \A v \in Update : noting[v] = Nil
          BY <2>1, <3>2
        <5> QED BY <2>1, <4>3, <5>1 DEF LimitInv
      <4> QED BY <1>0, <3>3, <4>2, <4>4, <4>5 DEF LimitInv, LimitedTo
    <3>5. CASE pending[u].edit.op = "limit"
      <4>1. noting'[u] = pending[u].edit.layer
        BY <2>4, <3>2, <3>5 DEF ToNote
      <4>2. LimitedTo(native', noting'[u]) /\ noting'[u] # Nil
        BY <2>1, <3>1, <3>5, <4>1, LimitTakesForce
      <4>3. Limiting(u)
        BY <2>1, <3>5 DEF Limiting
      <4>4. \A v \in Update \ {u} : ~Limiting(v) /\ noting'[v] = Nil /\ ~Limiting(v)'
        BY <2>2, <3>2, <4>3 DEF LimitInv, Limiting
      <4>5. \A v \in Update :
              noting'[v] # Nil => pending'[v] = Nil /\ LimitedTo(native', noting'[v])
        BY <2>2, <4>2, <4>4
      <4> QED BY <1>0, <3>3, <4>2, <4>4, <4>5 DEF LimitInv, LimitedTo
    <3> QED BY <3>4, <3>5
  <2>5. CASE PastEnd(u)
    BY <1>2, <2>3, <2>5 DEF Finish
  <2>6. CASE ~PastEnd(u) /\ ~Accepted(u)
    <3>1. native' = native /\ last' \in {last, None} /\ noting' = [noting EXCEPT ![u] = Nil]
      BY <1>2, <2>6 DEF Finish, ToNote
    <3>2. noting' = noting
      BY <2>1, <3>1 DEF LimitInv, ShapeInv
    <3> QED BY <2>3, <3>1, <3>2
  <2> QED BY <2>4, <2>5, <2>6
<1>3. ASSUME NEW u \in Update, Note(u)
      PROVE  LimitInv'
  <2>1. /\ noting[u] # Nil /\ maxLayer' = noting[u] /\ noting' = [noting EXCEPT ![u] = Nil]
        /\ UNCHANGED <<native, last, pending>>
    BY <1>3 DEF Note
  <2>2. Limiting(u)
    BY <2>1 DEF Limiting
  <2>3. \A v \in Update : noting'[v] = Nil
    BY <2>1, <2>2 DEF LimitInv, ShapeInv, Limiting
  <2>4. \A v \in Update : Limiting(v)' => Limiting(v)
    BY <2>1, <2>3 DEF Limiting
  <2>5. LimitedTo(native', maxLayer')
    BY <2>1 DEF LimitInv
  <2> QED BY <1>0, <2>1, <2>3, <2>4, <2>5 DEF LimitInv, LimitedTo
<1>4. CASE UNCHANGED vars
  BY <1>0, <1>4 DEF vars, LimitInv, Limiting, LimitedTo
<1> QED BY <1>1, <1>2, <1>3, <1>4 DEF Next

-----------------------------------------------------------------------------
(* What reaches the RTP sender are rates of the native width and a         *)
(* preference it knows, in as many encodings as it has, whatever sizes the *)
(* application sets the rates to, and whatever else its closures change,   *)
(* for as long as none has made the code write past the end.               *)
THEOREM Typing ==
  ASSUME Typed
  PROVE  Spec => []TypeOK
<1>1. Init => ShapeInv
  BY ShapeInit
<1>2. ShapeInv /\ [Next]_vars => ShapeInv'
  BY ShapeStep
<1>3. ShapeInv => TypeOK
  BY DEF ShapeInv, TypeOK
<1> QED BY <1>1, <1>2, <1>3, PTL DEF Spec

(* The layer the producer has noted is the one the sender is limited to,   *)
(* whatever updates overlap the limit, if no other limit does.             *)
THEOREM LimitLasts ==
  ASSUME Typed, "LimitAlone" \in Rule
  PROVE  Spec => []LimitInForce
<1>1. Init => LimitInv
  <2> SUFFICES ASSUME Init PROVE LimitInv
    OBVIOUS
  <2>1. /\ maxLayer = 0 /\ 0 \notin Spatial
        /\ \A u \in Update : pending[u] = Nil /\ noting[u] = Nil
    BY DEF Init, Spatial
  <2> QED BY <2>1, ShapeInit DEF LimitInv, Limiting, LimitedTo
<1>2. LimitInv /\ [Next]_vars => LimitInv'
  BY LimitStep
<1>3. LimitInv => LimitInForce
  BY DEF LimitInv, LimitInForce, LimitedTo
<1> QED BY <1>1, <1>2, <1>3, PTL DEF Spec

(* However many updates overlap, a change of the sender's parameters is    *)
(* one edit applied to the parameters it replaces.                         *)
THEOREM NoUpdateOverwritten ==
  ASSUME CarriedOut, Representable
  PROVE  Spec => OneEditAtATime
<1>1. Inv /\ [Next]_vars =>
        [native' # native =>
           \E u \in Update :
             pending[u] # Nil /\ native' = Asked(native, pending[u].edit)]_vars
  BY OneEditStep
<1> QED BY <1>1, InvAlways, PTL DEF Spec, OneEditAtATime

(* An update that overlaps no other takes effect.                          *)
THEOREM UpdateTakesEffect ==
  ASSUME CarriedOut
  PROVE  Spec => UndisturbedTakesEffect
<1>1. Inv /\ [Next]_vars =>
        [\A u \in Update :
           /\ pending[u] # Nil /\ pending'[u] = Nil
           /\ \A v \in Update \ {u} : pending[v] = Nil
           /\ last = u
           /\ InRange(Asked(native, pending[u].edit))
           /\ Asked(native, pending[u].edit) \in Parameters
           => native' = Asked(native, pending[u].edit)]_vars
  BY UndisturbedStep
<1> QED BY <1>1, InvAlways, PTL DEF Spec, UndisturbedTakesEffect
=============================================================================
