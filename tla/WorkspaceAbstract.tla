-------------------------- MODULE WorkspaceAbstract --------------------------
(***************************************************************************)
(* What the Workspace reconciler promises about the cloud, seen from       *)
(* outside: the objects users create, edit and delete, the cloud           *)
(* resources of each, and whether its tofu workspace (with the state in    *)
(* it) exists.  The reconciler is one atomic step per object that may      *)
(* change that object's resources and workspace, under three promises:     *)
(*   - it touches only objects that exist (created and not yet gone);      *)
(*   - it deletes a tofu workspace only for an object being deleted, as   *)
(*     the state of a live object lives there;                             *)
(*   - it removes the finalizer only when no resource and no workspace    *)
(*     is left.                                                            *)
(***************************************************************************)
EXTENDS Naturals

CONSTANTS
    WS,        \* UIDs of the Workspace objects
    Modules,   \* root-module contents a Workspace may declare
    MaxRes     \* bound on the resources of one workspace

VARIABLES
    obj,       \* lifecycle of the object: absent, live, deleting, gone
    spec,      \* spec.forProvider.module
    infra,     \* cloud resources that exist for the workspace
    wsRecord   \* the tofu workspace of the object exists

vars == <<obj, spec, infra, wsRecord>>

Init ==
    /\ obj = [w \in WS |-> "absent"]
    /\ spec \in [WS -> Modules]
    /\ infra = [w \in WS |-> 0]
    /\ wsRecord = [w \in WS |-> FALSE]

CreateObject(w) ==
    /\ obj[w] = "absent"
    /\ obj' = [obj EXCEPT ![w] = "live"]
    /\ UNCHANGED <<spec, infra, wsRecord>>

EditSpec(w) ==
    /\ obj[w] \in {"live", "deleting"}
    /\ \E m \in Modules \ {spec[w]} : spec' = [spec EXCEPT ![w] = m]
    /\ UNCHANGED <<obj, infra, wsRecord>>

RequestDelete(w) ==
    /\ obj[w] = "live"
    /\ obj' = [obj EXCEPT ![w] = "deleting"]
    /\ UNCHANGED <<spec, infra, wsRecord>>

(* The tofu workspace may be created or kept; it may go only once the     *)
(* object is being deleted.                                                *)
WorkspaceMayBecome(w) ==
    IF obj[w] = "deleting" THEN BOOLEAN ELSE {wsRecord[w], TRUE}

(* A reconcile step of an existing object: any resources, and the tofu    *)
(* workspace as WorkspaceMayBecome allows.                                 *)
Reconcile(w) ==
    /\ obj[w] \in {"live", "deleting"}
    /\ \E n \in 0..MaxRes : infra' = [infra EXCEPT ![w] = n]
    /\ \E b \in WorkspaceMayBecome(w) : wsRecord' = [wsRecord EXCEPT ![w] = b]
    /\ UNCHANGED <<obj, spec>>

(* The finalizer goes when nothing of the object is left.                  *)
Release(w) ==
    /\ obj[w] = "deleting"
    /\ infra[w] = 0
    /\ ~wsRecord[w]
    /\ obj' = [obj EXCEPT ![w] = "gone"]
    /\ UNCHANGED <<spec, infra, wsRecord>>

Next ==
    \E w \in WS :
        \/ CreateObject(w) \/ EditSpec(w) \/ RequestDelete(w)
        \/ Reconcile(w) \/ Release(w)

Spec == Init /\ [][Next]_vars

=============================================================================
