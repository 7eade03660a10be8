------------------------ MODULE WorkspaceFaultProofs --------------------------
(***************************************************************************)
(* The checksum short-circuit under the two faults, for every instance:   *)
(* the reconcile timeout killing an apply, and a restart of the provider  *)
(* (which ends every pass, may wipe /tofu, and kills an apply in flight   *)
(* as the timeout does).  Under either fault IInv fails: the state no     *)
(* longer tracks what exists, and an apply after a killed one can take    *)
(* the cloud beyond MaxRes.  What remains is TimeoutInv: the module and   *)
(* the directory keep their types and the counts are natural numbers.     *)
(* The short-circuit does not depend on the bookkeeping of resources: a   *)
(* killed apply and a restart change no checksum, so the stored checksums *)
(* stay fingerprints of initialised directories (ChecksumInv), whatever  *)
(* happened to the directories themselves.                                *)
(***************************************************************************)
EXTENDS WorkspaceFaults, WorkspaceProofs

(* The types the argument needs, and the state tracking no more than      *)
(* exists.                                                                 *)
TimeoutInv ==
    /\ spec \in [WS -> Modules]
    /\ dir \in [WS -> DirState]
    /\ infra \in [WS -> Nat]
    /\ tracked \in [WS -> Nat]
    /\ \A w \in WS : tracked[w] <= infra[w]

LEMMA TimeoutInitInv == Init => TimeoutInv
BY WorkspaceAssumption DEF Init, TimeoutInv, DirState, Contents

(* A step that leaves the module, the directory and the counts alone.     *)
LEMMA CountsUnchanged ==
    ASSUME TimeoutInv, UNCHANGED <<spec, dir, infra, tracked>>
    PROVE  TimeoutInv'
BY DEF TimeoutInv

(* A step that takes the tracked resources of w to k and adds `lost`      *)
(* untracked ones.                                                          *)
LEMMA CountsMove ==
    ASSUME TimeoutInv, NEW w \in WS, NEW k \in Nat, NEW lost \in Nat,
           infra' = [infra EXCEPT ![w] = infra[w] - tracked[w] + k + lost],
           tracked' = [tracked EXCEPT ![w] = k],
           UNCHANGED <<spec, dir>>
    PROVE  TimeoutInv'
BY DEF TimeoutInv

(* Apply or destroy takes the tracked resources of w to k.                *)
LEMMA TrackedMove ==
    ASSUME TimeoutInv, NEW w \in WS, NEW k \in Nat, TrackedBecome(w, k),
           UNCHANGED <<spec, dir>>
    PROVE  TimeoutInv'
BY DEF TrackedBecome, TimeoutInv

(* The directory w applies or destroys in holds a module.                  *)
LEMMA ReadyModule ==
    ASSUME TimeoutInv, NEW w \in WS, Ready(dir[w])
    PROVE  dir[w].cfg \in Modules /\ ModRes[dir[w].cfg] \in Nat
BY WorkspaceAssumption DEF TimeoutInv, Ready, DirState, Contents

LEMMA TimeoutStep ==
    TimeoutInv /\ [TimeoutNext]_vars => TimeoutInv'
<1> SUFFICES ASSUME TimeoutInv, [TimeoutNext]_vars
             PROVE  TimeoutInv'
  OBVIOUS
<1>1. CASE UNCHANGED vars
  BY <1>1, CountsUnchanged DEF vars
<1>2. ASSUME NEW w \in WS, User(w) PROVE TimeoutInv'
  <2>1. CASE EditSpec(w)
    BY <2>1 DEF EditSpec, TimeoutInv
  <2>2. CASE CreateObject(w) \/ RequestDelete(w)
    BY <2>2, CountsUnchanged DEF CreateObject, RequestDelete
  <2> QED
    BY <1>2, <2>1, <2>2 DEF User
<1>3. ASSUME NEW w \in WS, Connect(w) PROVE TimeoutInv'
  <2>1. /\ Made(w) \in DirState
        /\ Materialized(w) \in DirState
        /\ Initialized(w) \in DirState
    BY DEF TimeoutInv, Made, Materialized, Initialized, DirState, Contents
  <2>2. /\ dir' \in [WS -> DirState]
        /\ UNCHANGED <<spec, infra, tracked>>
    BY <1>3, <2>1 DEF Connect, ConnectFailsBeforeModule, ConnectFailsAfterModule,
       ConnectFailsAfterInit, ConnectSkipsInit, ConnectRunsInit, TimeoutInv
  <2> QED
    BY <2>2 DEF TimeoutInv
<1>4. ASSUME NEW w \in WS, Observe(w) PROVE TimeoutInv'
  <2>1. CASE ObserveFailsEarly(w)
    BY <2>1, CountsUnchanged DEF ObserveFailsEarly
  <2>2. CASE ObserveFailsAtOutputs(w) \/ ObserveFailsAtChecksum(w) \/ ObserveSucceeds(w)
    <3>1. /\ tracked' = [tracked EXCEPT ![w] = IF DeletesWorkspace(w) THEN 0 ELSE @]
          /\ UNCHANGED <<spec, dir, infra>>
      BY <2>2 DEF ObserveFailsAtOutputs, ObserveFailsAtChecksum, ObserveSucceeds,
         DropsWorkspaceIfDeleted
    <3>2. UNCHANGED tracked
      BY <3>1 DEF DeletesWorkspace, TimeoutInv
    <3> QED
      BY <3>1, <3>2, CountsUnchanged
  <2> QED
    BY <1>4, <2>1, <2>2 DEF Observe
<1>5. ASSUME NEW w \in WS, UpdateFails(w) \/ UpdateApplies(w)
      PROVE  TimeoutInv'
  <2>1. CASE UNCHANGED <<infra, tracked>>
    BY <1>5, <2>1, CountsUnchanged DEF UpdateFails, UpdateApplies
  <2>2. CASE ~UNCHANGED <<infra, tracked>>
    <3>1. /\ Ready(dir[w])
          /\ \E k \in Between(tracked[w], ModRes[dir[w].cfg]) \cup {ModRes[dir[w].cfg]} :
                TrackedBecome(w, k)
          /\ UNCHANGED <<spec, dir>>
      BY <1>5, <2>2 DEF UpdateFails, UpdateApplies
    <3>2. Between(tracked[w], ModRes[dir[w].cfg]) \cup {ModRes[dir[w].cfg]} \subseteq Nat
      BY <3>1, ReadyModule DEF Between, TimeoutInv
    <3>3. PICK k \in Nat : TrackedBecome(w, k)
      BY <3>1, <3>2
    <3> QED
      BY <3>1, <3>3, TrackedMove
  <2> QED
    BY <2>1, <2>2
<1>6. ASSUME NEW w \in WS, DeleteFails(w) \/ DeleteDestroys(w)
      PROVE  TimeoutInv'
  <2>1. CASE UNCHANGED <<infra, tracked>>
    BY <1>6, <2>1, CountsUnchanged DEF DeleteFails, DeleteDestroys
  <2>2. CASE ~UNCHANGED <<infra, tracked>>
    <3>1. /\ \E k \in 0..tracked[w] : TrackedBecome(w, k)
          /\ UNCHANGED <<spec, dir>>
      BY <1>6, <2>2 DEF DeleteFails, DeleteDestroys, TimeoutInv
    <3>2. PICK k \in Nat : TrackedBecome(w, k)
      BY <3>1 DEF TimeoutInv
    <3> QED
      BY <3>1, <3>2, TrackedMove
  <2> QED
    BY <2>1, <2>2
<1>7. ASSUME NEW w \in WS, Finalize(w) PROVE TimeoutInv'
  BY <1>7, CountsUnchanged DEF Finalize
<1>8. ASSUME NEW w \in WS, UpdateKilled(w) PROVE TimeoutInv'
  <2>1. Between(tracked[w], ModRes[dir[w].cfg]) \subseteq Nat
    BY <1>8, ReadyModule DEF UpdateKilled, Between, TimeoutInv
  <2>2. PICK k \in Between(tracked[w], ModRes[dir[w].cfg]) :
          \E lost \in 1..(ModRes[dir[w].cfg] - k) :
             /\ infra' = [infra EXCEPT ![w] = infra[w] - tracked[w] + k + lost]
             /\ tracked' = [tracked EXCEPT ![w] = k]
    BY <1>8 DEF UpdateKilled
  <2>3. PICK lost \in 1..(ModRes[dir[w].cfg] - k) :
             /\ infra' = [infra EXCEPT ![w] = infra[w] - tracked[w] + k + lost]
             /\ tracked' = [tracked EXCEPT ![w] = k]
    BY <2>2
  <2>4. k \in Nat /\ lost \in Nat
    BY <2>1
  <2>5. UNCHANGED <<spec, dir>>
    BY <1>8 DEF UpdateKilled
  <2> QED
    BY <2>3, <2>4, <2>5, CountsMove
<1> QED
  BY <1>1, <1>2, <1>3, <1>4, <1>5, <1>6, <1>7, <1>8 DEF TimeoutNext, Next, Reconcile

-----------------------------------------------------------------------------
(* The checksum is typed and, when it covers the init artifacts, a stored *)
(* checksum is the fingerprint of an initialised directory.                *)
ChecksumInv ==
    /\ checksum \in [WS -> Fingerprints \cup {NoChecksum}]
    /\ StoredChecksumReady

LEMMA TimeoutInitChecksum == Init => ChecksumInv
BY DEF Init, ChecksumInv, StoredChecksumReady

(* The only steps that write the checksum store NoChecksum or the         *)
(* fingerprint of a directory that is ready.                               *)
LEMMA TimeoutChecksumStep ==
    TimeoutInv /\ ChecksumInv /\ [TimeoutNext]_vars => ChecksumInv'
<1> SUFFICES ASSUME TimeoutInv, ChecksumInv, [TimeoutNext]_vars
             PROVE  ChecksumInv'
  OBVIOUS
<1>1. ASSUME NEW w \in WS, ObserveFailsAtChecksum(w) \/ UpdateApplies(w)
      PROVE  ChecksumInv'
  <2>1. checksum' \in {checksum, [checksum EXCEPT ![w] = NoChecksum]}
    BY <1>1 DEF ObserveFailsAtChecksum, UpdateApplies
  <2> QED
    BY <2>1 DEF ChecksumInv, StoredChecksumReady
<1>2. ASSUME NEW w \in WS, ObserveSucceeds(w) PROVE ChecksumInv'
  <2>1. Ready(dir[w]) /\ checksum' = [checksum EXCEPT ![w] = Fingerprint(dir[w])]
    BY <1>2 DEF ObserveSucceeds
  <2>2. dir[w] \in DirState
    BY DEF TimeoutInv
  <2>3. Fingerprint(dir[w]) \in Fingerprints
    BY <2>2 DEF Fingerprint, Fingerprints, DirState, Contents
  <2>4. ChecksumCoversInit => \E m \in Modules : Fingerprint(dir[w]) = <<m, m>>
    BY <2>1, <2>2 DEF Fingerprint, Ready, DirState, Contents
  <2> QED
    BY <2>1, <2>3, <2>4 DEF ChecksumInv, StoredChecksumReady
<1>3. ASSUME UNCHANGED checksum PROVE ChecksumInv'
  BY <1>3 DEF ChecksumInv, StoredChecksumReady
<1>4. ASSUME NEW w \in WS,
             \/ User(w) \/ Connect(w)
             \/ ObserveFailsEarly(w) \/ ObserveFailsAtOutputs(w)
             \/ UpdateFails(w) \/ DeleteFails(w) \/ DeleteDestroys(w)
             \/ Finalize(w) \/ UpdateKilled(w)
      PROVE  UNCHANGED checksum
  BY <1>4 DEF User, CreateObject, EditSpec, RequestDelete, Connect,
     ConnectFailsBeforeModule, ConnectFailsAfterModule, ConnectFailsAfterInit,
     ConnectSkipsInit, ConnectRunsInit, ObserveFailsEarly, ObserveFailsAtOutputs,
     UpdateFails, DeleteFails, DeleteDestroys, Finalize, UpdateKilled
<1> QED
  BY <1>1, <1>2, <1>3, <1>4 DEF TimeoutNext, Next, Reconcile, Observe, vars

(* A stored checksum of an initialised directory never matches a         *)
(* directory that is not: the checksum names the module and its init.     *)
LEMMA StoredChecksumSound ==
    ASSUME ChecksumCoversInit, TimeoutInv, ChecksumInv PROVE ChecksumSound
<1> SUFFICES ASSUME NEW w \in WS, ChecksumMatches(w, Materialized(w))
             PROVE  Ready(Materialized(w))
  BY DEF ChecksumSound
<1>1. PICK m \in Modules : checksum[w] = <<m, m>>
  BY DEF ChecksumInv, StoredChecksumReady, ChecksumMatches
<1>2. <<m, m>> = <<spec[w], dir[w].init>>
  BY <1>1 DEF ChecksumMatches, Fingerprint, Materialized
<1> QED
  BY <1>2, WorkspaceAssumption DEF Ready, Materialized

(* When the checksum covers what `tofu init` wrote, an apply killed by the *)
(* timeout never lets Connect skip init on a stale checksum: the checksum  *)
(* short-circuit is as safe as without the fault.                          *)
THEOREM TimeoutChecksumSound ==
    ChecksumCoversInit => (TimeoutSpec => []ChecksumSound)
<1> SUFFICES ASSUME ChecksumCoversInit PROVE TimeoutSpec => []ChecksumSound
  OBVIOUS
<1>1. TimeoutSpec => [](TimeoutInv /\ ChecksumInv)
  BY TimeoutInitInv, TimeoutInitChecksum, TimeoutStep, TimeoutChecksumStep, PTL
     DEF TimeoutSpec
<1> QED
  BY <1>1, StoredChecksumSound, PTL

-----------------------------------------------------------------------------
(* A restart keeps TimeoutInv and ChecksumInv: it writes no checksum and  *)
(* leaves each directory as it was or wiped.                               *)
LEMMA RestartKeeps ==
    ASSUME TimeoutInv, ChecksumInv, Restart
    PROVE  TimeoutInv' /\ ChecksumInv'
<1>1. Wiped \in DirState
  BY DEF Wiped, DirState, Contents
<1>2. TimeoutInv'
  BY <1>1 DEF Restart, TimeoutInv
<1>3. ChecksumInv'
  BY DEF Restart, ChecksumInv, StoredChecksumReady
<1> QED
  BY <1>2, <1>3

(* Every step of the reconciler with restarts keeps both invariants.      *)
LEMMA RestartStep ==
    TimeoutInv /\ ChecksumInv /\ [RestartNext]_vars => TimeoutInv' /\ ChecksumInv'
<1> SUFFICES ASSUME TimeoutInv, ChecksumInv, [RestartNext]_vars
             PROVE  TimeoutInv' /\ ChecksumInv'
  OBVIOUS
<1>1. CASE [TimeoutNext]_vars
  BY <1>1, TimeoutStep, TimeoutChecksumStep
<1>2. CASE Restart
  BY <1>2, RestartKeeps
<1> QED
  BY <1>1, <1>2 DEF RestartNext, TimeoutNext

(* When the checksum covers what `tofu init` wrote, a restart of the      *)
(* provider never lets Connect skip init on the checksum the status kept  *)
(* (workspace.go:319-329 after MkdirAll at 189 rebuilt a wiped /tofu),     *)
(* even when the restart lands inside an apply.                            *)
THEOREM RestartChecksumSound ==
    ChecksumCoversInit => (RestartSpec => []ChecksumSound)
<1> SUFFICES ASSUME ChecksumCoversInit PROVE RestartSpec => []ChecksumSound
  OBVIOUS
<1>1. RestartSpec => [](TimeoutInv /\ ChecksumInv)
  BY TimeoutInitInv, TimeoutInitChecksum, RestartStep, PTL DEF RestartSpec
<1> QED
  BY <1>1, StoredChecksumSound, PTL
=============================================================================
