--------------------------- MODULE WorkspaceProofs ---------------------------
(***************************************************************************)
(* Proofs about the Workspace reconciler, for every set of workspaces and *)
(* modules and every bound.                                                *)
(*                                                                         *)
(* TypeOK and NoOrphans are not inductive by themselves: apply and        *)
(* destroy change the cloud resources by what the state tracks, so the    *)
(* two must agree, and removing the finalizer needs the observation that  *)
(* led to it (nothing tracked, the tofu workspace dropped) to still hold.  *)
(* IInv adds those facts; it is checked by TLC as an invariant of the      *)
(* safety run before it is proved here.                                    *)
(***************************************************************************)
EXTENDS Workspace, TLAPS

(* The state tracks exactly the cloud resources that exist.              *)
StateMatchesCloud == \A w \in WS : infra[w] = tracked[w]

(* A removed object has no pass, nothing tracked and no tofu workspace.  *)
GoneIsClean ==
    \A w \in WS : obj[w] = "gone" =>
        pc[w] = "Idle" /\ tracked[w] = 0 /\ ~wsRecord[w]

(* The finalizer is only removed after an observation of nothing left.   *)
FinalizeIsClean ==
    \A w \in WS : pc[w] = "Finalize" =>
        tracked[w] = 0 /\ ~wsRecord[w] /\ obj[w] = "deleting"

(* A pass runs only for an existing object, and a pass that saw the      *)
(* deletion timestamp runs for a deleted one.                             *)
PassOfExisting ==
    \A w \in WS :
        /\ pc[w] # "Idle" => obj[w] \in {"live", "deleting"}
        /\ pc[w] # "Idle" /\ snapDel[w] => obj[w] = "deleting"

(* A stored checksum is the fingerprint of an initialised directory.     *)
StoredChecksumReady ==
    ChecksumCoversInit =>
        \A w \in WS : checksum[w] = NoChecksum \/ \E m \in Modules : checksum[w] = <<m, m>>

IInv ==
    /\ TypeOK
    /\ StateMatchesCloud
    /\ GoneIsClean
    /\ FinalizeIsClean
    /\ PassOfExisting
    /\ StoredChecksumReady

-----------------------------------------------------------------------------
(* What an interrupted apply leaves stays within the bound.              *)
LEMMA BetweenBound ==
    ASSUME NEW a \in 0..MaxRes, NEW b \in 0..MaxRes
    PROVE  Between(a, b) \subseteq 0..MaxRes
BY WorkspaceAssumption DEF Between

(* The directory as Connect writes it, and after `tofu init`.            *)
LEMMA MaterializedType ==
    ASSUME TypeOK, NEW w \in WS
    PROVE  /\ Made(w) \in DirState
           /\ Materialized(w) \in DirState
           /\ Initialized(w) \in DirState
           /\ Ready(Initialized(w))
BY WorkspaceAssumption DEF TypeOK, Made, Materialized, Initialized, DirState, Contents, Ready

-----------------------------------------------------------------------------
LEMMA InitIInv == Init => IInv
BY WorkspaceAssumption
   DEF Init, IInv, TypeOK, StateMatchesCloud, GoneIsClean, FinalizeIsClean,
       PassOfExisting, StoredChecksumReady, DirState, Contents, Fingerprints,
       OutCounts, ObjStates, Steps

(* The pieces of IInv other than the type, for a step that changes no     *)
(* variable they mention.                                                  *)
LEMMA RestUnchanged ==
    ASSUME IInv,
           UNCHANGED <<obj, pc, snapDel, wsRecord, infra, tracked, checksum>>
    PROVE  (StateMatchesCloud /\ GoneIsClean /\ FinalizeIsClean
            /\ PassOfExisting /\ StoredChecksumReady)'
BY DEF IInv, StateMatchesCloud, GoneIsClean, FinalizeIsClean, PassOfExisting,
       StoredChecksumReady

LEMMA NextIInv == IInv /\ [Next]_vars => IInv'
<1> SUFFICES ASSUME IInv, [Next]_vars PROVE IInv'
  OBVIOUS
<1> USE WorkspaceAssumption
<1>0. TypeOK
  BY DEF IInv
<1>1. CASE UNCHANGED vars
  BY <1>1 DEF IInv, vars, TypeOK, StateMatchesCloud, GoneIsClean,
     FinalizeIsClean, PassOfExisting, StoredChecksumReady
<1>2. ASSUME NEW w \in WS, User(w) PROVE IInv'
  BY <1>2 DEF User, CreateObject, EditSpec, RequestDelete,
     IInv, TypeOK, StateMatchesCloud, GoneIsClean, FinalizeIsClean,
     PassOfExisting, StoredChecksumReady, ObjStates
<1>3. ASSUME NEW w \in WS, Connect(w) PROVE IInv'
  <2>1. /\ Made(w) \in DirState
        /\ Materialized(w) \in DirState
        /\ Initialized(w) \in DirState
    BY <1>0, MaterializedType
  <2>2. CASE ConnectFailsBeforeModule(w) \/ ConnectFailsAfterModule(w)
                \/ ConnectFailsAfterInit(w)
    <3>1. UNCHANGED <<obj, spec, pc, snapDel, checksum, wsRecord, infra, tracked, outs>>
      BY <2>2 DEF ConnectFailsBeforeModule, ConnectFailsAfterModule,
         ConnectFailsAfterInit
    <3>2. dir' \in [WS -> DirState]
      BY <1>0, <2>1, <2>2 DEF ConnectFailsBeforeModule, ConnectFailsAfterModule,
         ConnectFailsAfterInit, TypeOK
    <3>3. TypeOK'
      BY <1>0, <3>1, <3>2 DEF TypeOK
    <3>4. QED
      BY <3>1, <3>3, RestUnchanged DEF IInv
  <2>3. CASE ConnectSkipsInit(w) \/ ConnectRunsInit(w)
    <3>1. /\ PassMayStart(w)
          /\ dir' \in [WS -> DirState]
          /\ wsRecord' = [wsRecord EXCEPT ![w] = TRUE]
          /\ pc' = [pc EXCEPT ![w] = "Observe"]
          /\ snapDel' = [snapDel EXCEPT ![w] = (obj[w] = "deleting")]
          /\ UNCHANGED <<obj, spec, checksum, infra, tracked, outs>>
      BY <1>0, <2>1, <2>3 DEF ConnectSkipsInit, ConnectRunsInit, TypeOK
    <3>2. TypeOK'
      BY <1>0, <3>1 DEF TypeOK, Steps
    <3>3. StateMatchesCloud' /\ StoredChecksumReady'
      BY <3>1 DEF IInv, StateMatchesCloud, StoredChecksumReady
    <3>4. GoneIsClean'
      BY <1>0, <3>1 DEF PassMayStart, TypeOK, IInv, GoneIsClean
    <3>5. FinalizeIsClean'
      BY <1>0, <3>1 DEF TypeOK, IInv, FinalizeIsClean
    <3>6. PassOfExisting'
      BY <1>0, <3>1 DEF PassMayStart, TypeOK, IInv, PassOfExisting
    <3>7. QED
      BY <3>2, <3>3, <3>4, <3>5, <3>6 DEF IInv
  <2>4. QED
    BY <1>3, <2>2, <2>3 DEF Connect
<1>4. ASSUME NEW w \in WS, Observe(w) PROVE IInv'
  <2>1. CASE ObserveFailsEarly(w)
    BY <2>1 DEF ObserveFailsEarly,
       IInv, TypeOK, StateMatchesCloud, GoneIsClean, FinalizeIsClean,
       PassOfExisting, StoredChecksumReady, Steps
  <2>2. CASE ObserveFailsAtOutputs(w)
    BY <2>2 DEF ObserveFailsAtOutputs, DeletesWorkspace,
       IInv, TypeOK, StateMatchesCloud, GoneIsClean, FinalizeIsClean,
       PassOfExisting, StoredChecksumReady, Steps, OutCounts
  <2>3. CASE ObserveFailsAtChecksum(w) \/ ObserveSucceeds(w)
    <3> DEFINE step == NextStep(snapDel[w], tracked[w] + outs'[w] > 0, CheckDiff(w))
    <3>1. /\ pc[w] = "Observe"
          /\ Ready(dir[w])
          /\ DropsWorkspaceIfDeleted(w)
          /\ \/ checksum' = [checksum EXCEPT ![w] = NoChecksum]
                /\ pc' = [pc EXCEPT ![w] = "Idle"]
             \/ checksum' = [checksum EXCEPT ![w] = Fingerprint(dir[w])]
                /\ pc' = [pc EXCEPT ![w] = step]
          /\ UNCHANGED <<obj, spec, snapDel, dir, infra>>
      BY <2>3 DEF ObserveFailsAtChecksum, ObserveSucceeds, step
    <3>2. pc' \in [WS -> Steps]
      <4>1. step \in Steps
        BY DEF step, NextStep, Steps
      <4>2. QED
        BY <1>0, <3>1, <4>1 DEF TypeOK, Steps
    <3>3. ASSUME DeletesWorkspace(w)
          PROVE /\ wsRecord' \in [WS -> BOOLEAN]
                 /\ tracked' \in [WS -> 0..MaxRes]
                 /\ outs' \in [WS -> OutCounts]
                 /\ (StateMatchesCloud /\ GoneIsClean /\ FinalizeIsClean
                     /\ PassOfExisting)'
      <4>1. /\ wsRecord' = [wsRecord EXCEPT ![w] = FALSE]
            /\ tracked' = [tracked EXCEPT ![w] = 0]
            /\ outs' = [outs EXCEPT ![w] = 0]
        BY <1>0, <3>1, <3>3 DEF DropsWorkspaceIfDeleted, TypeOK
      <4>2. tracked[w] = 0 /\ snapDel[w]
        BY <3>3 DEF DeletesWorkspace
      <4>3. step = "Finalize"
        <5>1. outs'[w] = 0
          BY <1>0, <4>1 DEF TypeOK
        <5>2. QED
          BY <4>2, <5>1 DEF step, NextStep
      <4>4. /\ wsRecord' \in [WS -> BOOLEAN]
            /\ tracked' \in [WS -> 0..MaxRes]
            /\ outs' \in [WS -> OutCounts]
        BY <1>0, <4>1 DEF TypeOK, OutCounts
      <4>5. StateMatchesCloud' /\ GoneIsClean'
        BY <1>0, <3>1, <4>1, <4>2 DEF IInv, TypeOK, StateMatchesCloud, GoneIsClean
      <4>6. FinalizeIsClean' /\ PassOfExisting'
        BY <1>0, <3>1, <4>1, <4>2, <4>3 DEF IInv, TypeOK, FinalizeIsClean,
           PassOfExisting
      <4>7. QED
        BY <4>4, <4>5, <4>6
    <3>4. ASSUME ~DeletesWorkspace(w)
          PROVE /\ wsRecord' \in [WS -> BOOLEAN]
                 /\ tracked' \in [WS -> 0..MaxRes]
                 /\ outs' \in [WS -> OutCounts]
                 /\ (StateMatchesCloud /\ GoneIsClean /\ FinalizeIsClean
                     /\ PassOfExisting)'
      <4>1. UNCHANGED <<wsRecord, tracked, outs>>
        BY <1>0, <3>1, <3>4 DEF DropsWorkspaceIfDeleted, TypeOK
      <4>2. step # "Finalize"
        <5>1. tracked[w] \in Nat /\ outs'[w] \in Nat
          BY <1>0, <4>1 DEF TypeOK, OutCounts
        <5>2. snapDel[w] => tracked[w] + outs'[w] > 0
          BY <3>4, <5>1 DEF DeletesWorkspace
        <5>3. QED
          BY <5>2 DEF step, NextStep
      <4>3. (StateMatchesCloud /\ GoneIsClean /\ FinalizeIsClean /\ PassOfExisting)'
        BY <1>0, <3>1, <4>1, <4>2 DEF IInv, TypeOK, StateMatchesCloud,
           GoneIsClean, FinalizeIsClean, PassOfExisting
      <4>4. QED
        BY <1>0, <4>1, <4>3 DEF TypeOK
    <3>10. /\ wsRecord' \in [WS -> BOOLEAN]
           /\ tracked' \in [WS -> 0..MaxRes]
           /\ outs' \in [WS -> OutCounts]
           /\ (StateMatchesCloud /\ GoneIsClean /\ FinalizeIsClean /\ PassOfExisting)'
      BY <3>3, <3>4
    <3>5. Fingerprint(dir[w]) \in Fingerprints
      <4>1. dir[w] \in DirState
        BY <1>0 DEF TypeOK
      <4>2. QED
        BY <4>1 DEF Fingerprint, Fingerprints, DirState, Contents
    <3>6. StoredChecksumReady'
      <4>1. ChecksumCoversInit => \E m \in Modules : Fingerprint(dir[w]) = <<m, m>>
        BY <1>0, <3>1 DEF Fingerprint, Ready, TypeOK, DirState, Contents
      <4>2. QED
        BY <1>0, <3>1, <4>1 DEF IInv, StoredChecksumReady, TypeOK
    <3>7. TypeOK'
      <4>1. checksum' \in [WS -> Fingerprints \cup {NoChecksum}]
        BY <1>0, <3>1, <3>5 DEF TypeOK
      <4>2. QED
        BY <1>0, <3>1, <3>2, <3>10, <4>1 DEF TypeOK
    <3>8. QED
      BY <3>10, <3>6, <3>7 DEF IInv
  <2>4. QED
    BY <1>4, <2>1, <2>2, <2>3 DEF Observe
<1>5. ASSUME NEW w \in WS, UpdateFails(w) PROVE IInv'
  <2>1. CASE UNCHANGED <<infra, tracked>>
    BY <1>5, <2>1 DEF UpdateFails,
       IInv, TypeOK, StateMatchesCloud, GoneIsClean, FinalizeIsClean,
       PassOfExisting, StoredChecksumReady, Steps
  <2>2. CASE /\ Ready(dir[w])
             /\ \E k \in Between(tracked[w], ModRes[dir[w].cfg]) : TrackedBecome(w, k)
    <3>1. dir[w].cfg \in Modules
      BY <1>0, <2>2 DEF Ready, TypeOK, DirState, Contents
    <3>2. Between(tracked[w], ModRes[dir[w].cfg]) \subseteq 0..MaxRes
      BY <1>0, <3>1, BetweenBound DEF TypeOK
    <3>3. PICK k \in 0..MaxRes : TrackedBecome(w, k)
      BY <2>2, <3>2
    <3>4. QED
      BY <1>5, <3>3 DEF UpdateFails, TrackedBecome,
         IInv, TypeOK, StateMatchesCloud, GoneIsClean, FinalizeIsClean,
         PassOfExisting, StoredChecksumReady, Steps
  <2>3. QED
    BY <1>5, <2>1, <2>2 DEF UpdateFails
<1>6. ASSUME NEW w \in WS, UpdateApplies(w) PROVE IInv'
  <2>1. dir[w].cfg \in Modules
    BY <1>0, <1>6 DEF UpdateApplies, Ready, TypeOK, DirState, Contents
  <2>2. ModRes[dir[w].cfg] \in 0..MaxRes /\ ModOut[dir[w].cfg] \in OutCounts
    BY <2>1 DEF OutCounts
  <2>3. checksum' \in [WS -> Fingerprints \cup {NoChecksum}]
    BY <1>0, <1>6 DEF UpdateApplies, TypeOK
  <2>4. StoredChecksumReady'
    BY <1>0, <1>6 DEF UpdateApplies, IInv, StoredChecksumReady, TypeOK
  <2>5. /\ pc[w] \in {"Create", "Update"}
        /\ infra' = [infra EXCEPT ![w] = ModRes[dir[w].cfg]]
        /\ tracked' = [tracked EXCEPT ![w] = ModRes[dir[w].cfg]]
        /\ outs' = [outs EXCEPT ![w] = ModOut[dir[w].cfg]]
        /\ pc' = [pc EXCEPT ![w] = "Idle"]
        /\ UNCHANGED <<obj, spec, snapDel, dir, wsRecord>>
    <3>1. infra[w] = tracked[w] /\ tracked[w] \in Nat
      BY <1>0 DEF IInv, StateMatchesCloud, TypeOK
    <3>2. infra[w] - tracked[w] + ModRes[dir[w].cfg] = ModRes[dir[w].cfg]
      BY <2>2, <3>1
    <3>3. QED
      BY <1>6, <3>2 DEF UpdateApplies, TrackedBecome
  <2>6. TypeOK'
    BY <1>0, <2>2, <2>3, <2>5 DEF TypeOK, Steps
  <2>7. (StateMatchesCloud /\ GoneIsClean /\ FinalizeIsClean /\ PassOfExisting)'
    BY <1>0, <2>5 DEF TypeOK, IInv, StateMatchesCloud, GoneIsClean,
       FinalizeIsClean, PassOfExisting
  <2>8. QED
    BY <2>4, <2>6, <2>7 DEF IInv
<1>7. ASSUME NEW w \in WS, DeleteFails(w) \/ DeleteDestroys(w) PROVE IInv'
  BY <1>0, <1>7 DEF DeleteFails, DeleteDestroys, TrackedBecome,
     IInv, TypeOK, StateMatchesCloud, GoneIsClean, FinalizeIsClean,
     PassOfExisting, StoredChecksumReady, Steps, OutCounts
<1>8. ASSUME NEW w \in WS, Finalize(w) PROVE IInv'
  BY <1>0, <1>8 DEF Finalize,
     IInv, TypeOK, StateMatchesCloud, GoneIsClean, FinalizeIsClean,
     PassOfExisting, StoredChecksumReady, Steps, ObjStates
<1>9. QED
  BY <1>1, <1>2, <1>3, <1>4, <1>5, <1>6, <1>7, <1>8 DEF Next, Reconcile

-----------------------------------------------------------------------------
(* IInv holds in every reachable state.                                  *)
THEOREM IInvHolds == Spec => []IInv
BY InitIInv, NextIInv, PTL DEF Spec

(* The reconciler keeps every variable within its type.                  *)
THEOREM TypeCorrect == Spec => []TypeOK
BY IInvHolds, PTL DEF IInv

(* Deletion leaves nothing behind: once a Workspace object is gone, no   *)
(* cloud resource of it exists and its tofu workspace has been deleted   *)
(* (Observe's DeleteCurrentWorkspace guard and the ResourceExists test). *)
THEOREM NoOrphansHolds == Spec => []NoOrphans
<1>1. IInv => NoOrphans
  BY DEF IInv, NoOrphans, GoneIsClean, StateMatchesCloud
<1>2. QED
  BY <1>1, IInvHolds, PTL

(* When the checksum covers what `tofu init` wrote, skipping init on a   *)
(* matching checksum never runs tofu in an uninitialised directory.     *)
THEOREM ChecksumSoundHolds == ChecksumCoversInit => (Spec => []ChecksumSound)
<1> SUFFICES ASSUME ChecksumCoversInit PROVE Spec => []ChecksumSound
  OBVIOUS
<1>1. IInv => ChecksumSound
  <2> SUFFICES ASSUME IInv, NEW w \in WS, ChecksumMatches(w, Materialized(w))
               PROVE  Ready(Materialized(w))
    BY DEF ChecksumSound
  <2>1. PICK m \in Modules : checksum[w] = <<m, m>>
    BY DEF IInv, StoredChecksumReady, ChecksumMatches
  <2>2. Fingerprint(Materialized(w)) = <<spec[w], dir[w].init>>
    BY DEF Fingerprint, Materialized
  <2>3. <<m, m>> = <<spec[w], dir[w].init>>
    BY <2>1, <2>2 DEF ChecksumMatches
  <2>4. spec[w] = m /\ dir[w].init = m
    BY <2>3
  <2>5. QED
    BY <2>4, WorkspaceAssumption DEF Ready, Materialized
<1>2. QED
  BY <1>1, IInvHolds, PTL
=============================================================================
