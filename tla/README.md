# TLA+ models of provider-opentofu

This directory holds TLA+ models of the Crossplane provider in `src/`. The
models are checked with TLC on small instances. The most important safety
properties are also proved with TLAPS for every instance.

## The system

The provider reconciles `Workspace` objects. Each object names an OpenTofu root
module, and the provider keeps the cloud resources that module declares in
existence for as long as the object lives.

Its parts, and how they interact:

| Part | Source | State it changes |
|---|---|---|
| Workspace reconciler: Connect, Observe, Create/Update, Delete | `internal/controller/namespaced/workspace/workspace.go` | the working directory `/tofu/<UID>`; files under `/tmp/tofu/<UID>`; `GIT_CRED_DIR`; the tofu state and tofu workspace (through the harness); `status.atProvider` (outputs, checksum) |
| crossplane managed reconciler (framework, not in this tree) | called from `Setup`, lines 106-157 | chooses Create/Update/Delete from Observe's result; removes the finalizer; retries failed passes; one pass per object at a time |
| Working-directory GC, two instances (for `/tofu` and `/tmp/tofu`) | `internal/workdir/workdir.go`, started at `workspace.go:110-114` | removes every UID-named subdirectory whose Workspace it did not list |
| Options builder (not modelled) | `workspace.go:472-515` | none; it builds the `-var` / `-var-file` argument list for plan, apply and destroy |
| Outputs | `op2cd`, `generateWorkspaceObservation` (`workspace.go:517-545`) | the connection secret and the status outputs |
| OpenTofu harness (not in this tree; only its test is) | `internal/opentofu/opentofu_test.go`, spec §4.5 | runs `tofu`; `GenerateChecksum` fingerprints the directory |
| ProviderConfig controller | `internal/controller/namespaced/config/config.go` | none of its own; it is crossplane's usage tracker |
| main | `cmd/provider/main.go` | starts the cluster-scoped and the namespaced controllers (each starts two GCs) |

What makes the system hard:

- A pass is split over five calls into the provider, and any tofu call can fail.
  A failed pass ends, and the next pass starts again at Connect. Partial
  effects stay behind: an apply that creates some resources and then fails, a
  tofu workspace deleted before Outputs fails, a directory initialised for a
  module that has since been edited.
- Connect skips `tofu init` when the checksum stored in status by an earlier
  Observe equals the fingerprint of the rebuilt directory. That stored value
  is state from an earlier pass, and it is used after the directory has changed.
- Passes of different objects run concurrently. Two things are shared between
  them: the process environment (`GIT_CRED_DIR`, `workspace.go:218`) and the
  directory roots, which both GC instances and both controllers use. The GC
  runs concurrently with every pass.

## Modules

| Module | Models | Status |
|---|---|---|
| `Workspace` | the reconciler of one or more objects, the framework's step choice and finalizer, the API-server edits, the harness's effects on the directory and the tofu state | done |
| `MCWorkspace` | the instance for TLC (two workspaces, two modules, symmetry over workspaces) | done |
| `WorkspaceProofs` | the inductive invariant and the TLAPS proofs | done |
| `WorkspaceAbstract` | what the reconciler promises about each object's cloud resources, tofu workspace and finalizer | done |
| `WorkspaceRefinement` | the TLAPS proof that `Workspace` implements `WorkspaceAbstract` | done |
| `WorkspaceFaults` | `Workspace` with two faults: an apply killed by the reconcile timeout, and a restart of the provider | done |
| `MCWorkspaceFaults` | the `MCWorkspace` instance for the fault specifications | done |
| `WorkspaceFaultProofs` | the TLAPS proofs that `ChecksumSound` holds under the timeout and under restarts | done |
| `WorkDirGC` | `collect` and `Run` of the GC, composed with the reconciler's effect on the directory tree | done |
| `MCWorkDirGC` | the instance for TLC (two Workspaces, one non-UUID entry) | done |
| `Entrypoint` | the entrypoint sanitiser and `filepath.Join` (`workspace.go:252-255`) | done |
| `MCEntrypoint` | every entrypoint of up to six characters | done |
| `GitCredEnv` | the git-credentials loop of Connect and the remote module fetch (`workspace.go:201-240`), for concurrent Connects | done |
| `MCGitCredEnv` | two Workspaces with git credentials, one without | done |
| `Outputs` | `op2cd` and `generateWorkspaceObservation` (`workspace.go:517-545`) applied to one `Outputs` result in Observe and Update | done |
| `MCOutputs` | two output names, every type, sensitivity and value | done |
| `OutputsProofs` | the TLAPS proof of `TypeOK` | done |

### Workspace: state and actions

The variables:

| Variable | Models |
|---|---|
| `obj[w]` | the object in the API server: absent, live, deleting (deletion timestamp set), or gone (finalizer removed) |
| `spec[w]` | `spec.forProvider.module`, as a model value from `Modules` |
| `pc[w]` | where the object's current pass is: Idle, or Observe / Create / Update / Delete / Finalize, the step the framework takes next |
| `snapDel[w]` | whether the copy of the object read at the start of the pass had the deletion timestamp (`meta.WasDeleted(cr)`) |
| `dir[w]` | `/tofu/<UID>`: whether it exists, the module written there (`cfg`) and the module `tofu init` last ran for (`init`) |
| `checksum[w]` | `status.atProvider.checksum`, either a fingerprint or `NoChecksum` (the empty string) |
| `wsRecord[w]` | whether the tofu workspace named by the external name exists |
| `tracked[w]`, `outs[w]` | the resources in the tofu state and the outputs it holds |
| `infra[w]` | the cloud resources that really exist |

Each action is a whole call into the provider, ending at one of its exits:

- **Connect** (`workspace.go:176-340`) has five outcomes:
  - `ConnectFailsBeforeModule`: an error at mkdir, at ProviderConfig
    resolution, on the git credentials, or while fetching or writing the module.
  - `ConnectFailsAfterModule`: an error writing the credentials or the
    configuration files, during env resolution, in `GenerateChecksum`, in
    `init`, or while selecting the workspace after a checksum match.
  - `ConnectFailsAfterInit`: init succeeded and selecting the workspace failed.
  - `ConnectSkipsInit`: the checksums match.
  - `ConnectRunsInit`: init and workspace selection both succeeded.
- **Observe** (`workspace.go:348-413`) has four outcomes:
  - `ObserveFailsEarly`: options, plan, `Resources` or `DeleteCurrentWorkspace`
    failed, and nothing changed.
  - The other three outcomes need `CheckDiffPasses`: the plan succeeded, or
    it failed and `checkDiff` ignored the failure because the object was
    deleted (`PlanFailureIgnored`, lines 357-362). The constant
    `PlanFailsOnceDeleted` makes the plan fail in every pass that sees the
    deletion, the case the code's comment names; `CheckDiff` then reports no
    difference.
  - `ObserveFailsAtOutputs`: the tofu workspace was deleted, then `Outputs` failed.
  - `ObserveFailsAtChecksum`: `status.atProvider` was replaced by the outputs,
    which cleared the checksum, then `GenerateChecksum` failed. The framework
    persists that status.
  - `ObserveSucceeds`: it stores a fresh checksum. The framework's next step
    (`NextStep`) comes from `ResourceExists = len(r)+len(op) > 0` and
    `ResourceUpToDate = !differs`. The choice itself (deletion first, then
    Create, then Update) is crossplane-runtime's managed reconciler, which is
    not in this tree, so `NextStep` is modelled from the spec.
- **Create/Update** (`workspace.go:415-450`):
  - `UpdateFails`: the options failed, or apply failed part way and the state
    records what apply did.
  - `UpdateApplies`: apply succeeded. `Outputs` may then fail, or succeed and
    replace `status.atProvider`, which drops the checksum.
- **Delete** (`workspace.go:452-465`): `DeleteFails` (part way) and
  `DeleteDestroys`.
- **Finalize**: the framework removes the finalizer after an Observe that
  found nothing for a deleted object.
- **User actions**: `CreateObject`, `EditSpec` and `RequestDelete`. The API
  server accepts a spec edit while the deletion timestamp is set, so `EditSpec`
  is enabled for a deleting object too.

Data is abstracted to what the properties distinguish:

- A module is a model value. `ModRes[m]` is the number of resources it
  declares and `ModOut[m]` the number of outputs.
- A tofu state is a count of resources and a count of outputs.
- `GenerateChecksum` is an injective `Fingerprint` of the directory's contents.
  Whether that fingerprint covers the files `tofu init` writes is the constant
  `ChecksumCoversInit`. The harness is not in this tree, and the spec only says
  "a post-materialisation fingerprint".

### WorkspaceAbstract and the refinement

The abstract specification keeps four variables of `Workspace`: `obj`, `spec`,
`infra` and `wsRecord`. The reconciler becomes one atomic `Reconcile(w)` step
per object, which may set the object's resources to any count and move its
tofu workspace. It carries three promises:

- `Reconcile` is enabled only for an object that exists, live or deleting.
- A tofu workspace may be deleted only for an object being deleted
  (`WorkspaceMayBecome`). The state of a live object lives in that workspace.
- `Release` removes the finalizer only when no resource and no tofu workspace
  is left.

`Workspace` defines `Abs == INSTANCE WorkspaceAbstract`, which maps the
variables by name, and `ImplementsAbstract == Abs!Spec`. The variables `pc`,
`snapDel`, `dir`, `checksum`, `tracked` and `outs` are internal to the
reconciler. Steps that change only them are abstract stutters.

### WorkspaceFaults

- `UpdateKilled(w)` models the reconcile timeout. `Setup` passes
  `managed.WithTimeout` (`workspace.go:132`), and the `--timeout` flag is "how
  long tofu processes may run before they are killed" (`main.go:63`).
  - A killed apply leaves the state tracking `k` resources, as a failed apply
    does.
  - It also leaves `lost >= 1` resources that it created and never recorded.
  - The workspace's resources stay within `MaxRes`, which bounds how many
    kills can pile up.
- `Restart` models a restart of the provider process.
  - Every pass in flight ends. A pass ended between two steps is one that
    failed at the later step, and those outcomes are already actions of
    `Workspace`. A pass ended inside apply kills the tofu process, as the
    timeout does, so `RestartNext` has `UpdateKilled` too.
  - The directories under `/tofu` may all be wiped: they live in the
    container's filesystem unless a volume keeps them, so both outcomes are
    allowed.
  - The status, with its checksum, is kept by the API server.
  - The tofu state is kept by its backend. A local state under `/tofu` would
    be lost too, which is the case `WorkDirGC` shows for a removed directory.
- `TimeoutSpec` adds `UpdateKilled` to `Next`; `RestartSpec` adds `Restart`
  and `UpdateKilled`. Neither keeps `NoOrphans`: a killed apply leaks
  resources the state never recorded (`ws_apply_timeout`).

### WorkDirGC: state and actions

The GC's state:

- `exists`: the set built from `List`.
- `fis`: the entries `ReadDir` returned that the loop has not visited yet.
- `failed`: whether some `RemoveAll` of this pass failed.
- `gcPc`: Idle, Listed or Removing.

The tree and the objects:

- `dirs`: the entries of the parent directory.
- `tfstate`: the directories holding a local tofu state that tracks resources.
- `infra`: the cloud resources.
- `obj`: the Workspace objects.

The actions:

- `List` (`workdir.go:101-119`). A failed List changes nothing, so it is just
  a tick that did not happen.
- `ReadDir` (120-123), which can fail.
- `Visit(e)`, one iteration of the loop (125-137). It either skips a non-UUID
  or listed entry, removes the directory, or fails. A failed `RemoveAll` may
  already have deleted the state file.
- `Finish` (139-143).

The reconciler appears through its effects on the tree:

- `Connect` runs MkdirAll.
- `Apply` writes the local state.
- `DeleteObject` destroys what the state tracks and removes the finalizer.

### Entrypoint

- A string is a sequence of one-character strings over `.`, `/` and one
  letter. Those are the only characters that matter to the sanitiser and to
  path cleaning.
- `DropDotDotSlash` is `strings.ReplaceAll(e, "../", "")`. It scans from the
  left, and what a removal brings together is not scanned again.
- `Join` is `filepath.Join` with its lexical `Clean` on a rooted path:
  - empty and `.` components are dropped;
  - `..` removes the last name;
  - `..` is dropped at the root.
- `Connect` computes the directory once from an initial entrypoint chosen
  among all of them.

The module uses RECURSIVE operators and is checked by TLC only.

### Outputs

- An output is a record: its type (string or object), its sensitivity, and
  its value. The value is a decoded JSON value: one string, a number, or null.
- `StringValue` and `JSONValue` are the harness's two encodings, kept apart as
  raw bytes and JSON text. The harness is not under `src/`, so they are
  modelled from the spec. Marshalling a value decoded from JSON cannot fail,
  so the code's `err == nil` branches always keep the value.
- `ReadOutputs` is the tail of Observe (`workspace.go:387-411`) and of Update
  (`437-449`). Both rebuild `status.atProvider` with
  `generateWorkspaceObservation`, and the connection details with `op2cd`,
  from the same result. A failing `Outputs` changes neither, so it is a
  stutter.

## Runs

| Run | Cfg | Checks | Result |
|---|---|---|---|
| `ws_safety` | `MCWorkspace.cfg` | `TypeOK`, `NoOrphans`, `ChecksumSound`, `ImplementsAbstract` | pass (about 297k distinct states) |
| `ws_liveness` | `MCWorkspaceLiveness.cfg` | `DeletionCompletes` under `FairSpec`, with `PlanFailsOnceDeleted = TRUE` | pass (770 distinct states) |
| `ws_config_only_checksum` | `MCWorkspaceConfigOnlyChecksum.cfg` | `ChecksumSound` with `ChecksumCoversInit = FALSE` | violation (expected) |
| `gc_liveness` | `MCWorkDirGCLiveness.cfg` | `OrphanDirsCollected` under `FairSpec` | pass |
| `gc_list_then_readdir` | `MCWorkDirGCRace.cfg` | `NoOrphanInfra` | violation (expected) |
| `entrypoint_escape` | `MCEntrypoint.cfg` | `EntrypointConfined` | violation (expected) |
| `gitcred_shared_env` | `MCGitCredEnv.cfg` | `OwnCredentials` | violation (expected) |
| `outputs_typed` | `MCOutputs.cfg` | `TypeOK` | pass (169 distinct states) |
| `ws_restart` | `MCWorkspaceRestart.cfg` | `ChecksumSound` under `RestartSpec`, one workspace | pass (3,622 distinct states) |
| `ws_apply_timeout` | `MCWorkspaceTimeout.cfg` | `NoOrphans` under `TimeoutSpec` | violation (expected) |
| `outputs_sensitive` | `MCOutputsSensitive.cfg` | `SensitiveWithheld` | violation (expected) |

The properties:

- **NoOrphans**: once an object is gone, no cloud resource of it exists and its
  tofu workspace has been deleted. To break it takes a delete, a partial
  destroy, a workspace deletion with resources still listed, or a finalizer
  removed on an outdated observation.
- **ChecksumSound**: whenever Connect would skip init because the stored
  checksum matches, the directory is initialised for the module it holds.
- **DeletionCompletes**: every deleted object is eventually gone.
- **DeletionCompletes**, as checked, holds even when `tofu plan` fails in
  every pass that sees the deletion. Its mutant drops the exception at
  `workspace.go:357` (`PlanFailureNeverIgnored`): every such pass then ends
  at `ObserveFailsEarly`, and the deletion never completes. One workspace is
  enough, because objects share nothing the property reads.

The violation run prints this trace:

1. Observe stores the checksum for module A.
2. The user edits the module to B.
3. Connect runs init for B, and the pass then fails.
4. The user reverts the module to A.
5. Connect rebuilds the directory with A's configuration and B's init
   artifacts. The checksum matches, so init is skipped, and every later tofu
   call fails.

Under the liveness run with the same constant, the deletion of such an object
never completes. This is recorded as a spec gap: the skip is safe only if the
fingerprint covers the init artifacts.

**The refinement and fault runs.**

- `ws_safety` also checks `Abs!Spec`, as the temporal property
  `ImplementsAbstract`. Its mutant is a `DeletesWorkspace` that ignores the deletion
  timestamp. TLC then finds the tofu workspace of a live object deleted, which
  is an abstract step that `WorkspaceAbstract` forbids.
- `ws_restart` checks `ChecksumSound` alone. A restart that kills an apply
  leaks resources just as the timeout does, so `NoOrphans` and the refinement
  fail under `RestartSpec` for the reason `ws_apply_timeout` shows, and are not
  claimed. A wiped directory has no init artifacts, so its fingerprint
  differs from the kept checksum and init runs again. Only the checksum is
  shared between a workspace and a restart, so one workspace is enough.
  - With the fingerprint over the configuration alone (the mutant
    `FingerprintOfConfig`), a restart breaks `ChecksumSound` in a few
    steps: create, connect, observe, restart, and Connect skips init. This is a shorter path to the spec gap that
    `ws_config_only_checksum` shows.
- `ws_apply_timeout` is violated in this trace:
  1. A Workspace is created, connected, observed with no resources, and then
     deleted.
  2. The Create step's apply is killed after creating one resource it never
     recorded.
  3. The next pass observes an empty state, deletes the tofu workspace, and
     removes the finalizer.
  4. The resource is left in the cloud.

  The spec requires the kill (§5, Cancellation) and promises safe teardown, but says
  nothing of what a killed apply leaves behind. This is recorded as a spec
  gap.

**The Outputs runs.**

- `TypeOK` states that the status holds JSON, and only for outputs that
  were read, while the connection details hold raw bytes or JSON. Its
  mutant fills the status from `op2cd`, so a string output's raw bytes
  reach the status.
- `SensitiveWithheld` is violated in one step, because `op2cd` never reads
  `Sensitive`. The unit tests expect this behaviour (`workspace_test.go:1051`,
  `1069`). It is recorded as a spec–code divergence: the connection secret is
  where a managed resource usually publishes secrets, so the spec's wording
  may be what is wrong.

**The GC runs.** `OrphanDirsCollected` says that every deleted Workspace's
directory is eventually removed. It holds through List/ReadDir failures and
partial `RemoveAll` failures, under these assumptions:

- Run ticks forever, so `List` gets weak fairness.
- A `ReadDir` or a `RemoveAll` retried on every tick eventually succeeds, so
  they get strong fairness.

The race run finds this trace in nine states:

1. The GC lists the Workspaces.
2. A new Workspace is created.
3. Its Connect creates `/tofu/<UID>`.
4. Its apply writes a local state there.
5. The GC reads the directory and removes the new entry, which was absent
   from its list.
6. The deletion of the Workspace destroys nothing and leaves its resources
   behind.

This is a code bug whenever the backend is local, which is tofu's default. A
remote backend keeps the state, and only the pass fails. Reading the directory
before listing closes the window, because a directory only exists for an
object created before it.

**The entrypoint run.** Spec §8 says that an entrypoint containing `../`
never resolves outside the working directory. TLC's shortest counterexample
is `..../`:

1. The single removal pass leaves `..`.
2. The join resolves `..` to `/tofu`, the root shared by every Workspace.
3. Connect writes the ProviderConfig credentials there.

`....//` leaves `../`, with the same effect. A plain `..` also escapes, although
the spec's sentence does not cover it. Six characters is enough: every
escaping shape needs at most five.

**The git-credentials run.** Each Connect of a Workspace with a remote
module takes these steps: `Start`, `SetEnv` (MkdirAll and `os.Setenv`),
`WriteFile` and `Fetch`. Only a Workspace whose ProviderConfig has a
`.git-credentials` entry takes the middle two. The fetch uses the file in the
directory that `GIT_CRED_DIR` names at that moment.

The shortest violation needs no concurrency. Workspace `a` connects with
credentials. Workspace `c`, whose ProviderConfig has none, then fetches with
`a`'s credentials, because the variable is never unset.

With concurrency, two Workspaces with credentials swap them: one sets the
variable between the other's set and fetch. Three Workspaces (two with
credentials, one without) show both.

**Bounds.** The instance has two workspaces, because the properties are about
one object and the second checks that nothing is shared by accident. It has
two modules, one declaring 2 resources (so a partial apply and a partial
destroy leave an intermediate count) and one declaring none (so outputs alone
make a resource "exist"). `MaxRes = 2`. The state space is finite without
further caps, because every counter is bounded by the modules.

**Deadlock.** The safety run uses `CHECK_DEADLOCK FALSE`. Once every object is
gone the reconciler has nothing to do, and that is the only terminal state.

**Fairness.** The framework re-runs a pass for every object forever, on the
poll interval and through requeue on error. A tofu call that is retried forever
eventually succeeds. The successful outcomes of Connect, Observe, apply and
destroy are enabled only intermittently, because a failed pass returns the
object to Idle. They therefore get strong fairness. Finalize gets weak fairness.
No fairness is assumed for the user actions.
A tofu plan that always fails for a deleted object is not a failure that
retrying cures, so the liveness run does not assume it away: with
`PlanFailsOnceDeleted = TRUE`, `ObserveSucceeds` of a deleting object is
enabled only because `checkDiff` ignores the plan's error, and the fairness on
it is fairness on the other calls of Observe.

## Proofs

The theorems hold for every set of workspaces and modules and every bound:

- `TypeCorrect`: `Spec => []TypeOK`.
- `NoOrphansHolds`: `Spec => []NoOrphans`.
- `ChecksumSoundHolds`: `ChecksumCoversInit => (Spec => []ChecksumSound)`.
- `IInvHolds`: `Spec => []IInv`, which the three theorems above rest on.

The invariants are not inductive as they stand, so `IInv` strengthens them with
these conjuncts:

- `StateMatchesCloud`: apply and destroy move `infra` by the tracked count, so
  `TypeOK` needs `infra = tracked`.
- `GoneIsClean` and `FinalizeIsClean`: finalizer removal must act on an
  observation that is still true.
- `PassOfExisting`: a pass exists only for a live or deleting object, and one
  that saw the deletion acts for a deleting object.
- `StoredChecksumReady`: a stored checksum is the fingerprint of an initialised
  directory. This holds because Observe runs only after a successful init or a
  skip of init.

`IInv` was checked with TLC on the `ws_safety` instance before it was proved.
The proof of `NextIInv` has one step per action, and one step per conjunct
wherever the action changes a variable that conjunct mentions. The temporal
theorems follow by `PTL`.

The assumptions used are only those in `WorkspaceAssumption`:

- `NoModule` is not a module.
- `MaxRes` is a natural number.
- `ModRes` maps into `0..MaxRes` and `ModOut` into `Nat`.
- `ChecksumCoversInit` and `PlanFailsOnceDeleted` are Booleans.

`OutputsProofs` proves `OutputsTypeCorrect: Spec => []TypeOK` for every set
of output names. The lemma `BuiltMapsTyped` states what the two builders
return for any `Outputs` result; each step rebuilds both maps from one
result, so `TypeOK` is inductive as it stands.

`WorkspaceRefinement` proves `Refinement: Spec => ImplementsAbstract` in the
way two-phase refinement proofs are laid out:

- `InitRefines`: `Init => Abs!Init`.
- `NextRefines`: `IInv /\ IInv' /\ [Next]_vars => [Abs!Next]_Abs!vars`,
  with one step per group of actions.
- `ReconcileStep` is the lemma that a step of one existing object, which keeps
  the types and moves its tofu workspace as allowed, is an abstract
  `Reconcile`.
- It reuses `IInv`:
  - `PassOfExisting` says that every step changing `infra` or `wsRecord`
    belongs to a pass of an existing object, and that a pass which saw the
    deletion belongs to a deleting one.
  - `FinalizeIsClean` and `StateMatchesCloud` give `infra = 0` and no tofu
    workspace at `Finalize`.

`WorkspaceFaultProofs` proves that the checksum short-circuit stays sound
under both faults:

- `TimeoutChecksumSound`: `ChecksumCoversInit => (TimeoutSpec => []ChecksumSound)`.
- `RestartChecksumSound`: `ChecksumCoversInit => (RestartSpec => []ChecksumSound)`,
  where `RestartSpec` includes a restart that kills an apply.

`IInv` does not hold under either fault:

- `StateMatchesCloud` fails by design once an apply is killed.
- `TypeOK` fails too: an apply after a killed one can take `infra` beyond
  `MaxRes` (TLC shows this on the timeout instance).

So both proofs use two weaker invariants:

- `TimeoutInv`: the module and directory types, natural counts, and
  `tracked <= infra`. Every step either leaves the counts alone or changes
  `infra` and `tracked` by the same amount; `UpdateKilled` adds `lost >= 1`
  to `infra` alone.
- `ChecksumInv`: the checksum's type and `StoredChecksumReady`. It is
  inductive with `TimeoutInv` because `UpdateKilled` writes neither the
  directory nor the checksum.
- The lemma `StoredChecksumSound` derives `ChecksumSound` from the two under
  `ChecksumCoversInit`.
- The lemma `RestartKeeps` shows that `Restart` keeps both: the wiped
  directory is a `DirState`, no pass is left, and the kept checksums are
  still fingerprints of initialised directories. `RestartStep` combines it
  with `TimeoutStep`, since `RestartNext` is `TimeoutNext` plus `Restart`.

The checksum's soundness thus does not rest on the state matching the cloud,
which both faults break.

**Only model-checked:** `DeletionCompletes` and `OrphanDirsCollected`,
because liveness under fairness is beyond TLAPS.

## Not modelled yet, and why

- Cluster-scoped controller: its source is not in this tree.
- ProviderConfig controller and main: wiring only.
- The options builder (`workspace.go:472-515`): it only appends `-var` and
  `-var-file` arguments in a fixed order; the property of interest, which
  value tofu uses, is tofu's behaviour and not in this tree.
- API types: declarations only.
- The harness's error classification: it is formatting, and its source is not
  in this tree.
- A remote backend's state lock left by a killed tofu process: it depends on
  the backend and on how the harness stops tofu. Neither is in this tree.
- A local tofu state lost with a wiped `/tofu` on restart: where the state
  lives is the ProviderConfig's backend choice. The harmful effect of a local
  state being removed is what `WorkDirGC`'s race run shows.

## Plan for the next modules

Each module below will have an MC module, a cfg, mutants and map entries.

1. **WorkDirGC, continued**:
   - An abstract "removes only directories of deleted objects" spec, with a
     refinement from the GC with the order fixed.
   - The two GC instances and the cluster-scoped lister over one root.
2. **Entrypoint**: done. A fixed sanitiser (remove `..` components after
   cleaning) could be checked by the same run.
3. **Options**: not modelled. The argument list is passed to tofu as is,
   and what tofu makes of it is outside this tree.
4. **GitCredEnv**: done.
5. **Outputs**: done, and proved.
6. **Restart and timeout**: done, in `WorkspaceFaults`. Both leak resources
   (the timeout run is a violation), and the checksum is proved sound under
   both.
7. **Refinement of the reconciler**: done, and proved.
8. **Proofs** still open: the GC's safety under a fixed ordering, and a
   refinement of the GC to an abstract collector.
