------------------------------ MODULE WorkDirGC ------------------------------
(***************************************************************************)
(* The working-directory garbage collector (internal/workdir/workdir.go)  *)
(* running beside the Workspace reconciler that creates the directories.   *)
(*                                                                         *)
(* One collect pass lists the Workspaces, then reads the parent directory, *)
(* then removes, one entry at a time, every UUID-named directory whose     *)
(* Workspace it did not list.  Meanwhile Workspaces are created, connected *)
(* (MkdirAll of /tofu/<UID>), applied (a local backend keeps the tofu      *)
(* state, and with it the only record of the cloud resources, in that      *)
(* directory) and deleted.  The reconciler's own steps are those of the    *)
(* Workspace module, reduced to their effect on the directory, the state   *)
(* file and the cloud.                                                     *)
(***************************************************************************)
EXTENDS FiniteSets

CONSTANTS
    UIDs,     \* UIDs of Workspace objects (names that parse as UUIDs)
    Junk      \* other entries of the parent directory (not UUIDs)

ASSUME GCAssumption == UIDs \cap Junk = {}

VARIABLES
    obj,      \* lifecycle of each Workspace object
    dirs,     \* entries of the parent directory
    tfstate,  \* directories holding a local tofu state that tracks resources
    infra,    \* Workspaces whose cloud resources exist
    gcPc,     \* step of the collector: Idle, Listed, Removing
    exists,   \* the UIDs the List returned (the map `exists`)
    fis,      \* entries read by ReadDir and not yet visited
    failed    \* some RemoveAll of this pass failed

vars == <<obj, dirs, tfstate, infra, gcPc, exists, fis, failed>>

Entries == UIDs \cup Junk

TypeOK ==
    /\ obj \in [UIDs -> {"absent", "live", "gone"}]
    /\ dirs \subseteq Entries
    /\ tfstate \subseteq UIDs
    /\ infra \subseteq UIDs
    /\ gcPc \in {"Idle", "Listed", "Removing"}
    /\ exists \subseteq UIDs
    /\ fis \subseteq Entries
    /\ failed \in BOOLEAN

Init ==
    /\ obj = [u \in UIDs |-> "absent"]
    /\ dirs = Junk
    /\ tfstate = {}
    /\ infra = {}
    /\ gcPc = "Idle"
    /\ exists = {}
    /\ fis = {}
    /\ failed = FALSE

-----------------------------------------------------------------------------
(***************************************************************************)
(* The reconciler, reduced to what it does to the directory tree.          *)
(***************************************************************************)
CreateObject(u) ==
    /\ obj[u] = "absent"
    /\ obj' = [obj EXCEPT ![u] = "live"]
    /\ UNCHANGED <<dirs, tfstate, infra, gcPc, exists, fis, failed>>

(* Connect: MkdirAll(/tofu/<UID>), at the start of every pass.            *)
Connect(u) ==
    /\ obj[u] = "live"
    /\ dirs' = dirs \cup {u}
    /\ UNCHANGED <<obj, tfstate, infra, gcPc, exists, fis, failed>>

(* Update: `tofu apply` in the directory creates the resources and        *)
(* records them in the state file there.                                   *)
Apply(u) ==
    /\ obj[u] = "live"
    /\ u \in dirs
    /\ tfstate' = tfstate \cup {u}
    /\ infra' = infra \cup {u}
    /\ UNCHANGED <<obj, dirs, gcPc, exists, fis, failed>>

(* Deletion: Connect recreates the directory, Delete destroys what the    *)
(* state tracks, Observe finds no resource left and the finalizer goes.    *)
(* Resources the state no longer tracks are not destroyed.                 *)
DeleteObject(u) ==
    /\ obj[u] = "live"
    /\ obj' = [obj EXCEPT ![u] = "gone"]
    /\ dirs' = dirs \cup {u}
    /\ infra' = IF u \in tfstate THEN infra \ {u} ELSE infra
    /\ tfstate' = tfstate \ {u}
    /\ UNCHANGED <<gcPc, exists, fis, failed>>

-----------------------------------------------------------------------------
(***************************************************************************)
(* collect.                                                                 *)
(***************************************************************************)
(* A tick: List the Workspaces into `exists`.  (A failed List ends the    *)
(* pass before any change: it is a tick that did not happen.)              *)
List ==
    /\ gcPc = "Idle"
    /\ exists' = {u \in UIDs : obj[u] = "live"}
    /\ gcPc' = "Listed"
    /\ UNCHANGED <<obj, dirs, tfstate, infra, fis, failed>>

(* ReadDir of the parent; a failure ends the pass.                         *)
ReadDir ==
    /\ gcPc = "Listed"
    /\ \/ /\ fis' = dirs
          /\ failed' = FALSE
          /\ gcPc' = "Removing"
       \/ /\ gcPc' = "Idle"
          /\ UNCHANGED <<fis, failed>>
    /\ UNCHANGED <<obj, dirs, tfstate, infra, exists>>

(* Variant: the `!` of the UUID test dropped.                             *)
CollectableIfNotUUID(e) == e \notin UIDs /\ e \notin exists

(* A directory entry is removed when it is a UUID and was not listed.      *)
Collectable(e) == e \in UIDs /\ e \notin exists

(* One iteration of the loop: skip, or RemoveAll.  A RemoveAll that fails *)
(* may already have removed some files, the state file among them.         *)
Visit(e) ==
    /\ gcPc = "Removing"
    /\ e \in fis
    /\ fis' = fis \ {e}
    /\ \/ /\ ~Collectable(e)
          /\ UNCHANGED <<dirs, tfstate, failed>>
       \/ /\ Collectable(e)
          /\ dirs' = dirs \ {e}
          /\ tfstate' = tfstate \ {e}
          /\ UNCHANGED failed
       \/ /\ Collectable(e)
          /\ failed' = TRUE
          /\ tfstate' \in {tfstate, tfstate \ {e}}
          /\ UNCHANGED dirs
    /\ UNCHANGED <<obj, infra, gcPc, exists>>

(* The loop is over; the aggregate error (if any) is logged by Run.        *)
Finish ==
    /\ gcPc = "Removing"
    /\ fis = {}
    /\ gcPc' = "Idle"
    /\ UNCHANGED <<obj, dirs, tfstate, infra, exists, fis, failed>>

-----------------------------------------------------------------------------
Next ==
    \/ \E u \in UIDs : CreateObject(u) \/ Connect(u) \/ Apply(u) \/ DeleteObject(u)
    \/ List \/ ReadDir \/ Finish
    \/ \E e \in Entries : Visit(e)

(***************************************************************************)
(* Run ticks forever (the ticker of Run); a List, a ReadDir or a RemoveAll *)
(* that is retried on every tick eventually succeeds; the loop itself      *)
(* runs on.                                                                *)
(***************************************************************************)
ReadDirSucceeds == ReadDir /\ gcPc' = "Removing"
Removes(e) == Visit(e) /\ e \notin dirs'

Fairness ==
    /\ WF_vars(List)
    /\ SF_vars(ReadDirSucceeds)
    /\ \A e \in Entries : WF_vars(Visit(e)) /\ SF_vars(Removes(e))
    /\ WF_vars(Finish)

Spec == Init /\ [][Next]_vars

FairSpec == Spec /\ Fairness

-----------------------------------------------------------------------------
(* The directory of every deleted Workspace is eventually removed by the  *)
(* collector (collect's List / ReadDir / RemoveAll loop, retried by Run).  *)
OrphanDirsCollected ==
    \A u \in UIDs : (obj[u] = "gone" /\ u \in dirs) ~> u \notin dirs

(* Deleting a Workspace leaves no cloud resource behind: the collector    *)
(* never removes the state of a Workspace that still has resources.        *)
NoOrphanInfra == \A u \in UIDs : obj[u] = "gone" => u \notin infra

=============================================================================
