--------------------------- MODULE WorkspaceFaults ---------------------------
(***************************************************************************)
(* The reconcile timeout as a fault of the Workspace reconciler.  Setup   *)
(* gives the managed reconciler managed.WithTimeout(timeout)              *)
(* (workspace.go:132), the --timeout flag is "how long tofu processes may *)
(* run before they are killed" (cmd/provider/main.go:63), and the tofu    *)
(* harness runs its process under that context.  A tofu apply killed part *)
(* way has created cloud resources it never recorded in the state: they   *)
(* exist, and no later plan, apply or destroy knows of them.               *)
(*                                                                         *)
(* A restart of the provider process, as a second fault: every pass in    *)
(* flight ends, and the working directories under /tofu are lost unless   *)
(* they are kept on a volume; the status (and its checksum) is kept by    *)
(* the API server and the tofu state by its backend.                       *)
(***************************************************************************)
EXTENDS Workspace

(* Apply is killed by the timeout: the state tracks k resources, and      *)
(* `lost` more were created and not recorded.  The resources of one       *)
(* workspace stay within MaxRes.                                           *)
UpdateKilled(w) ==
    /\ pc[w] \in {"Create", "Update"}
    /\ Ready(dir[w])
    /\ \E k \in Between(tracked[w], ModRes[dir[w].cfg]) :
       \E lost \in 1..(ModRes[dir[w].cfg] - k) :
          /\ infra[w] - tracked[w] + k + lost <= MaxRes
          /\ infra' = [infra EXCEPT ![w] = infra[w] - tracked[w] + k + lost]
          /\ tracked' = [tracked EXCEPT ![w] = k]
    /\ pc' = [pc EXCEPT ![w] = "Idle"]
    /\ UNCHANGED <<obj, spec, snapDel, dir, checksum, wsRecord, outs>>

(* A directory that does not exist.                                       *)
Wiped == [present |-> FALSE, cfg |-> NoModule, init |-> NoModule]

(* The process restarts: every pass in flight ends, and /tofu may be     *)
(* lost.  A pass ended between two steps is one that failed at the later  *)
(* step, which Next already has.                                          *)
Restart ==
    /\ pc' = [w \in WS |-> "Idle"]
    /\ dir' \in {dir, [w \in WS |-> Wiped]}
    /\ UNCHANGED <<obj, spec, snapDel, checksum, wsRecord, infra, tracked, outs>>

TimeoutNext == Next \/ \E w \in WS : UpdateKilled(w)

TimeoutSpec == Init /\ [][TimeoutNext]_vars

(* A restart may also land inside a tofu apply, which kills the process *)
(* as the timeout does: that pass ends as UpdateKilled, the others with    *)
(* Restart.                                                                *)
RestartNext == Next \/ Restart \/ \E w \in WS : UpdateKilled(w)

RestartSpec == Init /\ [][RestartNext]_vars

=============================================================================
