------------------------- MODULE WorkspaceRefinement -------------------------
(***************************************************************************)
(* The reconciler implements WorkspaceAbstract under the identity mapping *)
(* of obj, spec, infra and wsRecord.  The argument rests on IInv:          *)
(*   - a step that changes infra or wsRecord belongs to a pass, and a     *)
(*     pass runs only for an existing object (PassOfExisting);            *)
(*   - Observe drops the tofu workspace only when its copy of the object  *)
(*     carries the deletion timestamp, and then the object is deleting;   *)
(*   - Finalize runs after an observation of nothing tracked and no       *)
(*     workspace (FinalizeIsClean) and the state matches the cloud        *)
(*     (StateMatchesCloud), so no resource is left.                       *)
(***************************************************************************)
EXTENDS WorkspaceProofs

(* A step that leaves the other objects, obj and spec alone, keeps the    *)
(* types, and moves w's tofu workspace as WorkspaceMayBecome allows is an *)
(* abstract Reconcile step of an existing object w.                        *)
LEMMA ReconcileStep ==
    ASSUME TypeOK, TypeOK', NEW w \in WS,
           obj[w] \in {"live", "deleting"},
           UNCHANGED <<obj, spec>>,
           \A v \in WS \ {w} : infra'[v] = infra[v] /\ wsRecord'[v] = wsRecord[v],
           wsRecord'[w] \in Abs!WorkspaceMayBecome(w)
    PROVE  Abs!Reconcile(w)
<1>1. infra'[w] \in 0..MaxRes /\ infra' = [infra EXCEPT ![w] = infra'[w]]
  BY DEF TypeOK
<1>2. wsRecord' = [wsRecord EXCEPT ![w] = wsRecord'[w]]
  BY DEF TypeOK
<1> QED
  BY <1>1, <1>2 DEF Abs!Reconcile

(* The initial states are abstract initial states.                        *)
LEMMA InitRefines == Init => Abs!Init
BY DEF Init, Abs!Init

(* Every step is an abstract step or leaves the abstract state alone.     *)
LEMMA NextRefines ==
    IInv /\ IInv' /\ [Next]_vars => [Abs!Next]_Abs!vars
<1> SUFFICES ASSUME IInv, IInv', [Next]_vars PROVE [Abs!Next]_Abs!vars
  OBVIOUS
<1>0. TypeOK /\ TypeOK'
  BY DEF IInv
<1>1. CASE UNCHANGED vars
  BY <1>1 DEF vars, Abs!vars
<1>2. ASSUME NEW w \in WS, User(w) PROVE [Abs!Next]_Abs!vars
  BY <1>2 DEF User, CreateObject, EditSpec, RequestDelete, Abs!Next,
     Abs!CreateObject, Abs!EditSpec, Abs!RequestDelete
<1>3. ASSUME NEW w \in WS, Connect(w) PROVE [Abs!Next]_Abs!vars
  <2>1. CASE ConnectFailsBeforeModule(w) \/ ConnectFailsAfterModule(w)
                \/ ConnectFailsAfterInit(w)
    BY <2>1 DEF ConnectFailsBeforeModule, ConnectFailsAfterModule,
       ConnectFailsAfterInit, Abs!vars
  <2>2. CASE ConnectSkipsInit(w) \/ ConnectRunsInit(w)
    <3>1. /\ obj[w] \in {"live", "deleting"}
          /\ UNCHANGED <<obj, spec, infra>>
          /\ wsRecord' = [wsRecord EXCEPT ![w] = TRUE]
      BY <2>2 DEF ConnectSkipsInit, ConnectRunsInit, PassMayStart
    <3>2. wsRecord'[w] \in Abs!WorkspaceMayBecome(w)
      BY <1>0, <3>1 DEF TypeOK, Abs!WorkspaceMayBecome
    <3>3. Abs!Reconcile(w)
      BY <1>0, <3>1, <3>2, ReconcileStep DEF TypeOK
    <3> QED
      BY <3>3 DEF Abs!Next
  <2> QED
    BY <1>3, <2>1, <2>2 DEF Connect
<1>4. ASSUME NEW w \in WS, Observe(w) PROVE [Abs!Next]_Abs!vars
  <2>1. CASE ObserveFailsEarly(w)
    BY <2>1 DEF ObserveFailsEarly, Abs!vars
  <2>2. ASSUME pc[w] = "Observe", UNCHANGED <<obj, spec, infra>>,
               wsRecord' = [wsRecord EXCEPT ![w] = @ /\ ~DeletesWorkspace(w)]
        PROVE  [Abs!Next]_Abs!vars
    <3>1. obj[w] \in {"live", "deleting"}
      BY <2>2 DEF IInv, PassOfExisting
    <3>2. DeletesWorkspace(w) => obj[w] = "deleting"
      BY <2>2 DEF IInv, PassOfExisting, DeletesWorkspace
    <3>3. wsRecord'[w] \in Abs!WorkspaceMayBecome(w)
      BY <1>0, <2>2, <3>2 DEF TypeOK, Abs!WorkspaceMayBecome
    <3>4. Abs!Reconcile(w)
      BY <1>0, <2>2, <3>1, <3>3, ReconcileStep DEF TypeOK
    <3> QED
      BY <3>4 DEF Abs!Next
  <2>3. CASE ObserveFailsAtOutputs(w)
    <3>1. wsRecord' = [wsRecord EXCEPT ![w] = @ /\ ~DeletesWorkspace(w)]
      BY <1>0, <2>3 DEF ObserveFailsAtOutputs, TypeOK
    <3> QED
      BY <2>2, <2>3, <3>1 DEF ObserveFailsAtOutputs
  <2>4. CASE ObserveFailsAtChecksum(w) \/ ObserveSucceeds(w)
    BY <2>2, <2>4 DEF ObserveFailsAtChecksum, ObserveSucceeds,
       DropsWorkspaceIfDeleted
  <2> QED
    BY <1>4, <2>1, <2>3, <2>4 DEF Observe
<1>5. ASSUME NEW w \in WS,
             UpdateFails(w) \/ UpdateApplies(w) \/ DeleteFails(w) \/ DeleteDestroys(w)
      PROVE  [Abs!Next]_Abs!vars
  <2>1. /\ pc[w] \in {"Create", "Update", "Delete"}
        /\ UNCHANGED <<obj, spec, wsRecord>>
        /\ \A v \in WS \ {w} : infra'[v] = infra[v]
    BY <1>0, <1>5 DEF UpdateFails, UpdateApplies, DeleteFails, DeleteDestroys,
       TrackedBecome, TypeOK
  <2>2. obj[w] \in {"live", "deleting"}
    BY <2>1 DEF IInv, PassOfExisting
  <2>3. wsRecord'[w] \in Abs!WorkspaceMayBecome(w)
    BY <1>0, <2>1 DEF Abs!WorkspaceMayBecome, TypeOK
  <2>4. Abs!Reconcile(w)
    BY <1>0, <2>1, <2>2, <2>3, ReconcileStep
  <2> QED
    BY <2>4 DEF Abs!Next
<1>6. ASSUME NEW w \in WS, Finalize(w) PROVE [Abs!Next]_Abs!vars
  <2>1. obj[w] = "deleting" /\ infra[w] = 0 /\ ~wsRecord[w]
    BY <1>6 DEF Finalize, IInv, FinalizeIsClean, StateMatchesCloud
  <2>2. Abs!Release(w)
    BY <1>6, <2>1 DEF Finalize, Abs!Release
  <2> QED
    BY <2>2 DEF Abs!Next
<1> QED
  BY <1>1, <1>2, <1>3, <1>4, <1>5, <1>6 DEF Next, Reconcile

(* The Workspace reconciler implements WorkspaceAbstract: it changes the  *)
(* cloud resources and the tofu workspace of existing objects only,        *)
(* deletes a tofu workspace only for an object being deleted, and removes *)
(* the finalizer only when nothing is left; for every set of workspaces,  *)
(* modules and every bound.                                                *)
THEOREM Refinement == Spec => ImplementsAbstract
<1>1. Spec => []IInv
  BY IInvHolds
<1>2. Spec => Abs!Init
  BY InitRefines DEF Spec
<1>3. [][Next]_vars /\ []IInv => [][Abs!Next]_Abs!vars
  BY NextRefines, PTL
<1> QED
  BY <1>1, <1>2, <1>3, PTL DEF Spec, ImplementsAbstract, Abs!Spec
=============================================================================
