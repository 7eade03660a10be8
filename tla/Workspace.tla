------------------------------ MODULE Workspace ------------------------------
(***************************************************************************)
(* The Workspace reconciler of provider-opentofu                           *)
(* (internal/controller/namespaced/workspace/workspace.go).                *)
(*                                                                         *)
(* One reconcile pass per Workspace object at a time (the framework's      *)
(* single-flight per identity): Connect materialises the module into the   *)
(* working directory /tofu/<UID>, decides by the stored checksum whether   *)
(* `tofu init` may be skipped, and selects the tofu workspace; Observe     *)
(* plans, lists resources, deletes the tofu workspace of a deleted object  *)
(* with no resources left, and stores outputs and a fresh checksum;        *)
(* Create/Update apply; Delete destroys.  The framework (crossplane's      *)
(* managed reconciler) chooses the step after Observe and removes the      *)
(* finalizer.  Every tofu call may fail; a failed step ends the pass and   *)
(* the framework retries from Connect on the next pass.                    *)
(*                                                                         *)
(* Data is abstracted: a module is a model value with a number of cloud    *)
(* resources and outputs it declares; the tofu state of the workspace is   *)
(* the number of resources it tracks and the number of outputs it holds;  *)
(* a checksum is the fingerprint of the directory contents it hashes.     *)
(***************************************************************************)
EXTENDS Naturals

CONSTANTS
    WS,                 \* UIDs of the Workspace objects
    Modules,            \* root-module contents a Workspace may declare
    ModRes,             \* ModRes[m]: cloud resources module m declares
    ModOut,             \* ModOut[m]: outputs module m declares
    MaxRes,             \* bound on the resources of one workspace
    NoModule,           \* no main.tf written / `tofu init` never ran
    NoChecksum,         \* status.atProvider.checksum = ""
    ChecksumCoversInit, \* the fingerprint also hashes what `tofu init` wrote
    PlanFailsOnceDeleted \* `tofu plan` fails in every pass that sees the deletion

ASSUME WorkspaceAssumption ==
    /\ NoModule \notin Modules
    /\ MaxRes \in Nat
    /\ ModRes \in [Modules -> 0..MaxRes]
    /\ ModOut \in [Modules -> Nat]
    /\ ChecksumCoversInit \in BOOLEAN
    /\ PlanFailsOnceDeleted \in BOOLEAN

VARIABLES
    obj,       \* lifecycle of the Workspace object in the API server
    spec,      \* spec.forProvider.module of the object
    pc,        \* step of the object's reconcile pass
    snapDel,   \* the pass's copy of the object has a deletion timestamp
    dir,       \* contents of the working directory /tofu/<UID>
    checksum,  \* status.atProvider.checksum
    wsRecord,  \* the tofu workspace named by the external name exists
    infra,     \* cloud resources that exist for the workspace
    tracked,   \* resources the tofu state tracks (`tofu state list`)
    outs       \* outputs the tofu state holds

vars == <<obj, spec, pc, snapDel, dir, checksum, wsRecord, infra, tracked, outs>>

ObjStates == {"absent", "live", "deleting", "gone"}
Steps     == {"Idle", "Observe", "Create", "Update", "Delete", "Finalize"}
Contents  == Modules \cup {NoModule}
DirState  == [present : BOOLEAN, cfg : Contents, init : Contents]
OutCounts == {0} \cup {ModOut[m] : m \in Modules}

(***************************************************************************)
(* GenerateChecksum: a content fingerprint of the working directory (an   *)
(* injective hash).  Whether it covers the files `tofu init` writes       *)
(* (.terraform) is the harness's choice, so it is a constant here.        *)
(***************************************************************************)
(* Variant: the init artifacts never hashed.                              *)
FingerprintOfConfig(d) == <<d.cfg, NoModule>>

Fingerprint(d) == IF ChecksumCoversInit THEN <<d.cfg, d.init>>
                                        ELSE <<d.cfg, NoModule>>

Fingerprints == Contents \X Contents

(* The directory was initialised for the module it holds: the tofu        *)
(* commands other than init succeed only then.                             *)
Ready(d) == d.cfg # NoModule /\ d.init = d.cfg

(* Values an interrupted apply or destroy leaves between its two ends.    *)
Between(a, b) == IF a <= b THEN a..b ELSE b..a

TypeOK ==
    /\ obj \in [WS -> ObjStates]
    /\ spec \in [WS -> Modules]
    /\ pc \in [WS -> Steps]
    /\ snapDel \in [WS -> BOOLEAN]
    /\ dir \in [WS -> DirState]
    /\ checksum \in [WS -> Fingerprints \cup {NoChecksum}]
    /\ wsRecord \in [WS -> BOOLEAN]
    /\ infra \in [WS -> 0..MaxRes]
    /\ tracked \in [WS -> 0..MaxRes]
    /\ outs \in [WS -> OutCounts]

Init ==
    /\ obj = [w \in WS |-> "absent"]
    /\ spec \in [WS -> Modules]
    /\ pc = [w \in WS |-> "Idle"]
    /\ snapDel = [w \in WS |-> FALSE]
    /\ dir = [w \in WS |-> [present |-> FALSE, cfg |-> NoModule, init |-> NoModule]]
    /\ checksum = [w \in WS |-> NoChecksum]
    /\ wsRecord = [w \in WS |-> FALSE]
    /\ infra = [w \in WS |-> 0]
    /\ tracked = [w \in WS |-> 0]
    /\ outs = [w \in WS |-> 0]

-----------------------------------------------------------------------------
(***************************************************************************)
(* Users and the API server.                                               *)
(***************************************************************************)
CreateObject(w) ==
    /\ obj[w] = "absent"
    /\ obj' = [obj EXCEPT ![w] = "live"]
    /\ UNCHANGED <<spec, pc, snapDel, dir, checksum, wsRecord, infra, tracked, outs>>

EditSpec(w) ==
    /\ obj[w] \in {"live", "deleting"}
    /\ \E m \in Modules \ {spec[w]} : spec' = [spec EXCEPT ![w] = m]
    /\ UNCHANGED <<obj, pc, snapDel, dir, checksum, wsRecord, infra, tracked, outs>>

RequestDelete(w) ==
    /\ obj[w] = "live"
    /\ obj' = [obj EXCEPT ![w] = "deleting"]
    /\ UNCHANGED <<spec, pc, snapDel, dir, checksum, wsRecord, infra, tracked, outs>>

-----------------------------------------------------------------------------
(***************************************************************************)
(* Connect.  A pass starts when the object exists; its copy of the object *)
(* is read once, so the module it writes and whether it sees a deletion   *)
(* timestamp are fixed at Connect.                                         *)
(***************************************************************************)
PassMayStart(w) == pc[w] = "Idle" /\ obj[w] \in {"live", "deleting"}

(* MkdirAll of /tofu/<UID>.                                                *)
Made(w) == [present |-> TRUE, cfg |-> dir[w].cfg, init |-> dir[w].init]

(* ... then the module fetched or main.tf written.                        *)
Materialized(w) == [present |-> TRUE, cfg |-> spec[w], init |-> dir[w].init]

(* ... and `tofu init` run on it.                                          *)
Initialized(w) == [present |-> TRUE, cfg |-> spec[w], init |-> spec[w]]

(* Variant: any stored checksum skips init (the comparison dropped).      *)
ChecksumSet(w, d) == checksum[w] # NoChecksum

(* The stored checksum equals the fingerprint of the directory.           *)
ChecksumMatches(w, d) == checksum[w] # NoChecksum /\ checksum[w] = Fingerprint(d)

(* An error before the module is in place: mkdir, ProviderConfig,         *)
(* git credentials, remote fetch, or writing main.tf.                      *)
ConnectFailsBeforeModule(w) ==
    /\ PassMayStart(w)
    /\ dir' \in {dir, [dir EXCEPT ![w] = Made(w)]}
    /\ UNCHANGED <<obj, spec, pc, snapDel, checksum, wsRecord, infra, tracked, outs>>

(* Variant: the checksum Connect computed is recorded before init runs.  *)
ConnectFailsAfterModuleStoringChecksum(w) ==
    /\ PassMayStart(w)
    /\ dir' = [dir EXCEPT ![w] = Materialized(w)]
    /\ checksum' = [checksum EXCEPT ![w] = Fingerprint(Materialized(w))]
    /\ UNCHANGED <<obj, spec, pc, snapDel, wsRecord, infra, tracked, outs>>

(* An error after the module is written: credentials, configuration or    *)
(* backend files, env resolution, GenerateChecksum, `tofu init`, or the   *)
(* workspace selection after a checksum match.                            *)
ConnectFailsAfterModule(w) ==
    /\ PassMayStart(w)
    /\ dir' = [dir EXCEPT ![w] = Materialized(w)]
    /\ UNCHANGED <<obj, spec, pc, snapDel, checksum, wsRecord, infra, tracked, outs>>

(* `tofu init` succeeded and selecting the workspace failed.              *)
ConnectFailsAfterInit(w) ==
    /\ PassMayStart(w)
    /\ ~ChecksumMatches(w, Materialized(w))
    /\ dir' = [dir EXCEPT ![w] = Initialized(w)]
    /\ UNCHANGED <<obj, spec, pc, snapDel, checksum, wsRecord, infra, tracked, outs>>

(* The checksums match: init is skipped, the workspace is selected.       *)
ConnectSkipsInit(w) ==
    /\ PassMayStart(w)
    /\ ChecksumMatches(w, Materialized(w))
    /\ Ready(Materialized(w))
    /\ dir' = [dir EXCEPT ![w] = Materialized(w)]
    /\ wsRecord' = [wsRecord EXCEPT ![w] = TRUE]
    /\ pc' = [pc EXCEPT ![w] = "Observe"]
    /\ snapDel' = [snapDel EXCEPT ![w] = (obj[w] = "deleting")]
    /\ UNCHANGED <<obj, spec, checksum, infra, tracked, outs>>

(* No checksum, or a different one: `tofu init`, then the workspace.      *)
ConnectRunsInit(w) ==
    /\ PassMayStart(w)
    /\ ~ChecksumMatches(w, Materialized(w))
    /\ dir' = [dir EXCEPT ![w] = Initialized(w)]
    /\ wsRecord' = [wsRecord EXCEPT ![w] = TRUE]
    /\ pc' = [pc EXCEPT ![w] = "Observe"]
    /\ snapDel' = [snapDel EXCEPT ![w] = (obj[w] = "deleting")]
    /\ UNCHANGED <<obj, spec, checksum, infra, tracked, outs>>

-----------------------------------------------------------------------------
(***************************************************************************)
(* Observe.  checkDiff, Resources, DeleteCurrentWorkspace when the object *)
(* was deleted and no resource is left, Outputs, GenerateChecksum.        *)
(***************************************************************************)
(* `tofu plan` reports a difference between the state and the module.    *)
Differs(w) == tracked[w] # ModRes[dir[w].cfg] \/ outs[w] # ModOut[dir[w].cfg]

(* The plan of this pass fails (on resources already gone, say).           *)
PlanFails(w) == PlanFailsOnceDeleted /\ snapDel[w]

(* Variant: a failed plan always ends the pass.                            *)
PlanFailureNeverIgnored(w) == FALSE

(* checkDiff ignores a failed plan when the object was deleted.           *)
PlanFailureIgnored(w) == snapDel[w]

(* checkDiff returns: plan succeeded, or its failure was ignored.         *)
CheckDiffPasses(w) == ~PlanFails(w) \/ PlanFailureIgnored(w)

(* What checkDiff returns as `differs`.                                    *)
CheckDiff(w) == ~PlanFails(w) /\ Differs(w)

(* Variant: the tofu workspace of a deleted object is always deleted.    *)
DeletesWorkspaceWithResources(w) == snapDel[w]

(* Variant: the deletion timestamp not consulted.                         *)
DeletesWorkspaceIfEmpty(w) == tracked[w] = 0

(* The object was deleted and `tofu state list` is empty.                 *)
DeletesWorkspace(w) == snapDel[w] /\ tracked[w] = 0

(* DeleteCurrentWorkspace, when it runs, drops the tofu workspace with    *)
(* its state; the Outputs read after it come from the default workspace.   *)
DropsWorkspaceIfDeleted(w) ==
    /\ wsRecord' = [wsRecord EXCEPT ![w] = @ /\ ~DeletesWorkspace(w)]
    /\ tracked' = [tracked EXCEPT ![w] = IF DeletesWorkspace(w) THEN 0 ELSE @]
    /\ outs' = [outs EXCEPT ![w] = IF DeletesWorkspace(w) THEN 0 ELSE @]

(* The framework's next step from the observation.                        *)
NextStep(del, exists, differs) ==
    IF del THEN IF exists THEN "Delete" ELSE "Finalize"
    ELSE IF ~exists THEN "Create"
    ELSE IF differs THEN "Update"
    ELSE "Idle"

(* Options, plan (its failure ignored once deleted), Resources or         *)
(* DeleteCurrentWorkspace fail: nothing changed.  A pass whose plan fails  *)
(* and is not ignored ends here and nowhere else.                          *)
ObserveFailsEarly(w) ==
    /\ pc[w] = "Observe"
    /\ pc' = [pc EXCEPT ![w] = "Idle"]
    /\ UNCHANGED <<obj, spec, snapDel, dir, checksum, wsRecord, infra, tracked, outs>>

(* The tofu workspace was deleted, then Outputs failed.                   *)
ObserveFailsAtOutputs(w) ==
    /\ pc[w] = "Observe"
    /\ CheckDiffPasses(w)
    /\ Ready(dir[w])
    /\ DeletesWorkspace(w)
    /\ wsRecord' = [wsRecord EXCEPT ![w] = FALSE]
    /\ tracked' = [tracked EXCEPT ![w] = 0]
    /\ outs' = [outs EXCEPT ![w] = 0]
    /\ pc' = [pc EXCEPT ![w] = "Idle"]
    /\ UNCHANGED <<obj, spec, snapDel, dir, checksum, infra>>

(* Outputs were stored, which resets status.atProvider, and               *)
(* GenerateChecksum failed; the framework persists that status.           *)
ObserveFailsAtChecksum(w) ==
    /\ pc[w] = "Observe"
    /\ CheckDiffPasses(w)
    /\ Ready(dir[w])
    /\ DropsWorkspaceIfDeleted(w)
    /\ checksum' = [checksum EXCEPT ![w] = NoChecksum]
    /\ pc' = [pc EXCEPT ![w] = "Idle"]
    /\ UNCHANGED <<obj, spec, snapDel, dir, infra>>

ObserveSucceeds(w) ==
    /\ pc[w] = "Observe"
    /\ CheckDiffPasses(w)
    /\ Ready(dir[w])
    /\ DropsWorkspaceIfDeleted(w)
    /\ checksum' = [checksum EXCEPT ![w] = Fingerprint(dir[w])]
    /\ pc' = [pc EXCEPT ![w] =
                  NextStep(snapDel[w], tracked[w] + outs'[w] > 0, CheckDiff(w))]
    /\ UNCHANGED <<obj, spec, snapDel, dir, infra>>

-----------------------------------------------------------------------------
(***************************************************************************)
(* Create (= Update), Delete, and the framework's finalizer removal.      *)
(***************************************************************************)
(* Variant: the resources already tracked are counted again.            *)
TrackedBecomeCountedTwice(w, k) ==
    /\ infra' = [infra EXCEPT ![w] = infra[w] + k]
    /\ tracked' = [tracked EXCEPT ![w] = k]

(* Apply or destroy takes the tracked resources to k: resources the state *)
(* does not track are left alone.                                          *)
TrackedBecome(w, k) ==
    /\ infra' = [infra EXCEPT ![w] = infra[w] - tracked[w] + k]
    /\ tracked' = [tracked EXCEPT ![w] = k]

(* Options fail, or apply fails part way (tofu records in the state what  *)
(* it did).                                                                *)
UpdateFails(w) ==
    /\ pc[w] \in {"Create", "Update"}
    /\ \/ UNCHANGED <<infra, tracked>>
       \/ /\ Ready(dir[w])
          /\ \E k \in Between(tracked[w], ModRes[dir[w].cfg]) : TrackedBecome(w, k)
    /\ pc' = [pc EXCEPT ![w] = "Idle"]
    /\ UNCHANGED <<obj, spec, snapDel, dir, checksum, wsRecord, outs>>

(* Apply succeeded; Outputs then fails, or succeeds and replaces          *)
(* status.atProvider, which drops the checksum.                           *)
UpdateApplies(w) ==
    /\ pc[w] \in {"Create", "Update"}
    /\ Ready(dir[w])
    /\ TrackedBecome(w, ModRes[dir[w].cfg])
    /\ outs' = [outs EXCEPT ![w] = ModOut[dir[w].cfg]]
    /\ checksum' \in {checksum, [checksum EXCEPT ![w] = NoChecksum]}
    /\ pc' = [pc EXCEPT ![w] = "Idle"]
    /\ UNCHANGED <<obj, spec, snapDel, dir, wsRecord>>

(* Options fail, or destroy fails after removing some resources.          *)
DeleteFails(w) ==
    /\ pc[w] = "Delete"
    /\ \/ UNCHANGED <<infra, tracked>>
       \/ /\ Ready(dir[w])
          /\ \E k \in 0..tracked[w] : TrackedBecome(w, k)
    /\ pc' = [pc EXCEPT ![w] = "Idle"]
    /\ UNCHANGED <<obj, spec, snapDel, dir, checksum, wsRecord, outs>>

DeleteDestroys(w) ==
    /\ pc[w] = "Delete"
    /\ Ready(dir[w])
    /\ TrackedBecome(w, 0)
    /\ outs' = [outs EXCEPT ![w] = 0]
    /\ pc' = [pc EXCEPT ![w] = "Idle"]
    /\ UNCHANGED <<obj, spec, snapDel, dir, checksum, wsRecord>>

(* Deleted and no longer existing: the finalizer is removed.              *)
Finalize(w) ==
    /\ pc[w] = "Finalize"
    /\ obj' = [obj EXCEPT ![w] = "gone"]
    /\ pc' = [pc EXCEPT ![w] = "Idle"]
    /\ UNCHANGED <<spec, snapDel, dir, checksum, wsRecord, infra, tracked, outs>>

-----------------------------------------------------------------------------
Connect(w) ==
    \/ ConnectFailsBeforeModule(w)
    \/ ConnectFailsAfterModule(w)
    \/ ConnectFailsAfterInit(w)
    \/ ConnectSkipsInit(w)
    \/ ConnectRunsInit(w)

Observe(w) ==
    \/ ObserveFailsEarly(w)
    \/ ObserveFailsAtOutputs(w)
    \/ ObserveFailsAtChecksum(w)
    \/ ObserveSucceeds(w)

User(w) == CreateObject(w) \/ EditSpec(w) \/ RequestDelete(w)

Reconcile(w) ==
    \/ Connect(w)
    \/ Observe(w)
    \/ UpdateFails(w) \/ UpdateApplies(w)
    \/ DeleteFails(w) \/ DeleteDestroys(w)
    \/ Finalize(w)

Next == \E w \in WS : User(w) \/ Reconcile(w)

(***************************************************************************)
(* The framework re-runs a pass for every object forever (poll interval   *)
(* and requeue on error); a tofu call that keeps being retried eventually *)
(* succeeds.  Both are strong fairness on the successful outcomes, which  *)
(* are enabled only intermittently.                                        *)
(***************************************************************************)
Fairness ==
    \A w \in WS :
        /\ SF_vars(ConnectSkipsInit(w) \/ ConnectRunsInit(w))
        /\ SF_vars(ObserveSucceeds(w))
        /\ SF_vars(UpdateApplies(w))
        /\ SF_vars(DeleteDestroys(w))
        /\ WF_vars(Finalize(w))

Spec == Init /\ [][Next]_vars

FairSpec == Spec /\ Fairness

-----------------------------------------------------------------------------
(***************************************************************************)
(* Properties.                                                             *)
(***************************************************************************)

(* Deletion leaves nothing behind: once the finalizer is removed and the  *)
(* object is gone, no cloud resource of the workspace exists and its tofu *)
(* workspace has been deleted (Observe's DeleteCurrentWorkspace and the   *)
(* ResourceExists = resources + outputs > 0 test).                        *)
NoOrphans ==
    \A w \in WS : obj[w] = "gone" => infra[w] = 0 /\ ~wsRecord[w]

(* The checksum short-circuit is safe: whenever the stored checksum       *)
(* equals the fingerprint of the directory as Connect would materialise   *)
(* it now, so that Connect would skip `tofu init`, that directory is      *)
(* initialised for the module it holds.                                   *)
ChecksumSound ==
    \A w \in WS : ChecksumMatches(w, Materialized(w)) => Ready(Materialized(w))

(* Every deleted Workspace is eventually gone (its finalizer removed).    *)
DeletionCompletes ==
    \A w \in WS : obj[w] = "deleting" ~> obj[w] = "gone"


-----------------------------------------------------------------------------
(***************************************************************************)
(* Refinement.  The abstract variables are the object, its module, its    *)
(* cloud resources and its tofu workspace, mapped by name; every other    *)
(* variable is internal to the reconciler.                                 *)
(***************************************************************************)
Abs == INSTANCE WorkspaceAbstract

(* The reconciler implements WorkspaceAbstract: every step changes the    *)
(* resources or the tofu workspace of an existing object only, deletes a  *)
(* tofu workspace only for an object being deleted (Observe's             *)
(* DeleteCurrentWorkspace), and removes the finalizer only when nothing   *)
(* is left (the framework's Finalize after ResourceExists = false).        *)
ImplementsAbstract == Abs!Spec

=============================================================================
