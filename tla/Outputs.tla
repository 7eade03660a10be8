------------------------------- MODULE Outputs -------------------------------
(***************************************************************************)
(* The outputs of a Workspace (workspace.go): Observe and Update read     *)
(* `tofu output`, replace status.atProvider with the observation built by *)
(* generateWorkspaceObservation and return the connection details built   *)
(* by op2cd, which the managed reconciler publishes to the connection     *)
(* secret.                                                                 *)
(*                                                                         *)
(* An output's value is abstracted to a decoded JSON value: the one        *)
(* string "s", a number or null.  The two encodings are kept apart: the   *)
(* raw bytes of a string (StringValue) and the JSON text of a value       *)
(* (JSONValue).  JSONValue marshals a value decoded from JSON and cannot   *)
(* fail, so the `err == nil` branches of the code always take the value.  *)
(***************************************************************************)
CONSTANTS
    Names       \* output names

Types   == {"string", "object"}
JValues == {"s", "n", "null"}

(* An opentofu.Output: name (the key), type, sensitivity and value.       *)
Output == [type : Types, sensitive : BOOLEAN, value : JValues]

(* What one `tofu output -json` can return: a map from names to outputs.  *)
OutputSets == UNION {[D -> Output] : D \in SUBSET Names}

(* Output.StringValue: the string, or "" when the value is not a string.  *)
StringValue(o) == IF o.value = "s" THEN <<"raw", "s">> ELSE <<"raw", "">>

(* Output.JSONValue: the JSON encoding of the value.                       *)
JSONValue(o) == <<"json", o.value>>

(* op2cd: string outputs as their raw bytes, the others as JSON; the       *)
(* sensitivity of an output is not consulted.                              *)
Op2cd(op) ==
    [n \in DOMAIN op |-> IF op[n].type = "string" THEN StringValue(op[n])
                                                 ELSE JSONValue(op[n])]

(* Variant: the status filled with the connection details' bytes.         *)
ObservationOfAll(op) == [n \in DOMAIN op |-> Op2cd(op)[n]]

(* generateWorkspaceObservation: the non-sensitive outputs, as JSON.       *)
Observation(op) ==
    [n \in {m \in DOMAIN op : ~op[m].sensitive} |-> JSONValue(op[n])]

VARIABLES
    op,          \* the outputs last read
    cd,          \* the connection details last returned
    atProvider   \* status.atProvider.outputs

vars == <<op, cd, atProvider>>

(* The bytes of a connection detail, and the JSON of a status output.      *)
RawBytes == {"raw"} \X {"s", ""}
JSONText == {"json"} \X JValues

TypeOK ==
    /\ op \in OutputSets
    /\ DOMAIN cd \subseteq Names
    /\ cd \in [DOMAIN cd -> RawBytes \cup JSONText]
    /\ DOMAIN atProvider \subseteq DOMAIN op
    /\ atProvider \in [DOMAIN atProvider -> JSONText]

Init ==
    /\ op = <<>>
    /\ cd = <<>>
    /\ atProvider = <<>>

(* Observe and Update: Outputs succeeds and both maps are rebuilt from     *)
(* what it returned (a failing Outputs returns an error and changes        *)
(* neither: a stutter).                                                    *)
ReadOutputs ==
    \E o \in OutputSets :
        /\ op' = o
        /\ atProvider' = Observation(o)
        /\ cd' = Op2cd(o)

Spec == Init /\ [][ReadOutputs]_vars

-----------------------------------------------------------------------------
(* Spec 8: a sensitive output appears neither in the connection details   *)
(* nor in the status.                                                      *)
SensitiveWithheld ==
    \A n \in DOMAIN op :
        op[n].sensitive => n \notin DOMAIN cd /\ n \notin DOMAIN atProvider

=============================================================================
