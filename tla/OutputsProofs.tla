---------------------------- MODULE OutputsProofs ----------------------------
(***************************************************************************)
(* Proofs about the outputs of a Workspace: whatever the names and the     *)
(* outputs tofu returns, the maps op2cd and generateWorkspaceObservation   *)
(* build are well typed.                                                   *)
(***************************************************************************)
EXTENDS Outputs, TLAPS

(* What op2cd and generateWorkspaceObservation return for any Outputs     *)
(* result: the details over the names tofu returned, raw bytes or JSON,   *)
(* and the status over some of those names, JSON only.                    *)
LEMMA BuiltMapsTyped ==
    ASSUME NEW o \in OutputSets
    PROVE  LET c == Op2cd(o)
               a == Observation(o)
           IN  /\ DOMAIN c = DOMAIN o
               /\ DOMAIN o \subseteq Names
               /\ c \in [DOMAIN c -> RawBytes \cup JSONText]
               /\ DOMAIN a \subseteq DOMAIN o
               /\ a \in [DOMAIN a -> JSONText]
<1>1. PICK D \in SUBSET Names : o \in [D -> Output]
  BY DEF OutputSets
<1>2. \A n \in D : o[n].value \in JValues
  BY <1>1 DEF Output
<1>3. \A n \in D : StringValue(o[n]) \in RawBytes /\ JSONValue(o[n]) \in JSONText
  BY <1>2 DEF StringValue, JSONValue, RawBytes, JSONText
<1> QED
  BY <1>1, <1>3 DEF Op2cd, Observation

(* The initial state is well typed.                                       *)
LEMMA InitTypeOK == Init => TypeOK
BY DEF Init, TypeOK, OutputSets

(* Every ReadOutputs step and every stutter keeps the types.               *)
LEMMA NextTypeOK == TypeOK /\ [ReadOutputs]_vars => TypeOK'
<1> SUFFICES ASSUME TypeOK, [ReadOutputs]_vars PROVE TypeOK'
  OBVIOUS
<1>1. CASE ReadOutputs
  <2>1. PICK o \in OutputSets : /\ op' = o
                                /\ atProvider' = Observation(o)
                                /\ cd' = Op2cd(o)
    BY <1>1 DEF ReadOutputs
  <2> QED
    BY <2>1, BuiltMapsTyped DEF TypeOK
<1>2. CASE UNCHANGED vars
  BY <1>2 DEF vars, TypeOK
<1> QED
  BY <1>1, <1>2

(* op2cd and generateWorkspaceObservation always build well-typed maps:   *)
(* raw bytes or JSON in the connection details, JSON in the status, and   *)
(* the status only over outputs that were read.                           *)
THEOREM OutputsTypeCorrect == Spec => []TypeOK
BY InitTypeOK, NextTypeOK, PTL DEF Spec
=============================================================================
