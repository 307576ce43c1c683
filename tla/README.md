# Cabure in TLA+

Cabure is a GitOps operator: it watches `GitApplication` resources, checks out
a Git repository, renders manifests, applies them with server-side apply, and
prunes what Git no longer has by means of an inventory kept in the status of
the application. This directory holds TLA+ models of its code (`api/`, `cmd/`
and `internal/` under `src/`), TLC instances of them, and proofs of their main
properties that TLAPS checks.

    tlc -workers 2 -config Solo.cfg MCGitApplicationController.tla
    tlc -workers 2 -config Cache.cfg MCRepository.tla
    tlc -workers 2 -config Handover.cfg MCOperator.tla
    tlc -workers 2 -config Manifests.cfg MCManifests.tla
    tlapm GitApplicationController_proofs.tla

`PROJECT.json` lists every run with its properties, a mutant of the code for
each property, the source lines behind each definition, the hazards of the code
and the disagreements found.

## 1. The system

| Component | State it keeps | Operations |
|---|---|---|
| Reconcile loop, `internal/controller` | None of its own; a local copy of the application during a reconcile | `Reconcile`, `prune`, `updateSuccess`, `fail`, `updateSuspended`, `loadCredentials`, `validateSpec` |
| Apply, `internal/apply` | None; reads a REST mapper | `NormalizeAndValidate`, `Apply` |
| Inventory, `internal/inventory` | None; works on `status.inventory` | `Diff`, `Normalize`, `Equal` (not called) |
| Git cache, `internal/git` | Mirrors, checkouts, lock files and key files on a volume | `Checkout`, `ensureMirror`, `resolveRevision`, `withLock`, `prepareAuth` |
| Renderers, `internal/render` | None | YAML and Helm `Render`, `deepMerge`, `ResolveWithinRoot` |
| Operator and queue, `cmd/main.go` | Informer, rate-limited work queue, readiness flag | event handlers, `runWorker`, `run` |
| Leader election, `cmd/main.go` | A lease | `runWithLeaderElection` |
| API types, `api/v1alpha1` | `GitApplication`: spec, status, conditions | `Key`, deep copies |
| Servers, chart, CRD, RBAC | Static | |

Who meets whom: users and the API server change applications; the informer's
events put their names into the queue; one to N workers (two by default) take
names from it, never the same name at once, and call `Reconcile`; every
reconcile reads its application once, uses the Git cache (shared by all workers
through files and `flock`), and then reads and writes cluster objects (shared
by all applications, and by everybody else) and finally its own status. Nothing
is transactional: no write of the operator carries a UID or a resource version.

What is hard, and what makes each part correct:

- *Reconcile.* Edits, deletions and other reconciles fall between any two of its
  calls; calls fail, or succeed with their answer lost; the operator dies
  anywhere. The status must not claim what was not done; prune must delete its
  own stale objects, nothing else, and forget none; and in the end the cluster
  must be what Git says.
- *Git cache.* Workers share one mirror that each of them reconfigures and may
  rebuild; commands run partly with and partly without the lock; a killed
  process leaves anything behind. A directory handed out must be complete, and
  a broken cache must repair itself.
- *Queue and operator.* A reconcile's own status patch is an event. Applications
  must be served, at their interval, and shutdown must not strand work.
- *Leader election.* The lease is released while workers may still be running.
- *REST mapper.* Discovery is cached for ever, kinds come and go, and change
  their scope. Policy decides by what the mapper believes.
- *Rendering and order.* A commit is refused as a whole or applied in an order
  that works; what validation accepts must be what rendering resolves.

`PROJECT.json` ("hazards") lists the places in the code one by one.

## 2. Modules

| Module | What it is |
|---|---|
| `GitApplicationController` | The reconcile loop with apply, prune and status, and everybody who acts on the cluster beside it |
| `MCGitApplicationController` | Manifests, specs and orders for its instances |
| `GitApplicationController_proofs` | Theorems about it |
| `Status_proofs`, `Orphan_proofs` | Two more, each with its own invariant |
| `Ledger` | The abstract specification of the loop: who holds which objects, and what is on record |
| `Ledger_proofs` | The loop implements it |
| `Operator` | Informer, work queue, workers and leader election, in several processes |
| `MCOperator`, `Operator_proofs` | Its instance, and theorems about it |
| `Rendering` | The renderers, values and paths: from the files of a commit to documents. No state |
| `Manifests` | Policy, order and discovery: from documents to objects. Extends `Rendering` |
| `MCManifests`, `Manifests_proofs` | Seven commits for it, and theorems about it |
| `Rendering_proofs` | Lemmas about what they compute, for every path and every two values files |
| `Repository` | The Git cache |
| `Snapshots` | The abstract specification of the cache: what `Checkout` promises to its callers |
| `MCRepository` | Its instances |
| `Repository_proofs` | Theorems about it, and that it implements `Snapshots` |

Operators named as mutants are not part of the system: each stands before the
definition it is a faulty version of, and `PROJECT.json` ("mutants") says which
property notices.

### GitApplicationController

State of the cluster: `app[a]` (the `GitApplication`, `None` if there is none;
spec, generation, status, deletion mark, UID), `live[o]` (the objects: UID
annotation, managed-by label, source revision, and whether another field
manager contests a field), `head` (the commit of the branch). State of the
operator, which is exactly the local variables of `Reconcile`: `pc[a]` (the
next call), `copy[a]` (the application as read, then as changed locally),
`sha[a]`, `todo[a]` (what the loop of `Apply` or `prune` has left), `stalled[a]`
(the flag `fail` gets).

| Actions | Code |
|---|---|
| `BeginSuspended`, `BeginInvalid`, `BeginValid`, `ReadNothing` | The read of the application, and the returns before the first external call |
| `UpdateSuspended` | `updateSuspended` |
| `Checkout`, `CheckoutFails` | `loadCredentials`, `Repo.Checkout`, `app.Status.AttemptedRevision = sha` |
| `Render`, `RenderFails` | `render` and `NormalizeAndValidate` |
| `ApplyObject`, `ApplyConflict`, `ApplyFails`, `ApplyDone` | One patch of the loop in `Apply`, its end, and `inventory.Diff` |
| `PassOver`, `Condemn`, `PruneReadFails` | The read and the check of the marks in `prune` |
| `DeleteObject`, `DeleteNotFound`, `DeleteFails`, `PruneDone` | `deleteObject` |
| `UpdateSuccess`, `UpdateSuccessNotFound`, `UpdateSuccessFails` | `updateSuccess`, and `fail` being called with the copy it changed |
| `Fail`, `StatusLost` | `fail`, and a last patch that does not arrive |
| `Crash` | The process ends |
| `Create`, `EditSpec`, `MarkDeleted`, `Remove`, `Push`, `Meddle` | Users and the API server (external) |

A step is one call to the API server or to git with the local work around it.
`MergePatch` is what `client.MergeFrom` sends: only fields that differ between
the two local copies, and conditions always, since each carries a new time.

`Init` has no applications and no objects. The three modules around it
take the things it leaves to a constant or to fairness: how a commit becomes
`Manifest` (`Manifests`), where a commit comes from (`Repository`), and who calls
`Reconcile` when (`Operator`).

### Ledger

What the loop is for, in four functions of the applications: `held`,
`recorded`, and for a pass under way its `basis` (the record it started from)
and its `aim`. A pass takes what it aims at, releases what its basis has beyond
the aim, and may `Report` only when it holds all of its aim and nothing it drops;
it may `GiveUp` at any time, with the record as it was, and with all other
passes of its process if that crashes. The refinement mapping
stands at the end of `GitApplicationController`:

| Ledger | Loop |
|---|---|
| `held` | The objects that carry the marks of any incarnation of the application |
| `recorded` | The objects in `status.inventory` on the server |
| `basis` | The inventory in the local copy, until the reconcile reports or fails |
| `aim` | What was rendered, from the first apply to the report |

Most actions of the loop are stutters of the ledger. A status patch whose answer
is lost is a report to the ledger and a failure to the reconcile: `Report` ends
the pass in either case. Each condition of the refinement excludes a behaviour
the code has: no second incarnation (its status may be written by a reconcile of the
first), applications that prune (others drop objects from the record and keep
them), nobody else who changes objects, and one of two:

- one worker, and no application that moves an object to another API version
  (`VersionBump`); applications may take objects from each other;
- any number of workers, and no object that two applications render, or one in two
  versions (two workers can delete what the other has just taken: `MoveRace`).

### Operator

State of process `p`: `phase[p]` (where `main` is), `since[p]` (time since it
renewed the lease), `synced[p]` (the informer has listed, workers run), `events[p]`,
`queue[p]` (the line, the dirty set and the delays of client-go's workqueue),
`jobs[p]` (what each worker has, and how far it is). Shared: the `lease`, and which
applications are `there` and `unread` since their last change.

| Actions | Code |
|---|---|
| `Start`, `Terminate`, `Exit`, `Crash` | `main`, its signal handler, its return without a wait for the workers |
| `Acquire`, `Renew`, `Tick`, `GiveUp`, `Release`, `Cancel` | `runWithLeaderElection` with 15, 10 and 2 seconds and `ReleaseOnCancel` |
| `List`, `Enqueue` | `run`: the informer, cache sync, `enqueueObject` |
| `Get`, `Read`, `ReadFails`, `Patch`, `Return`, `Abandon`, `Fire` | `runWorker`, with `AddAfter`, `AddRateLimited`, the recovered panic, and the deferred `Done` |
| `CreateOrEdit`, `Delete` | Users |

`Added`, `Done` and `Delayed` are the queue's own rules (external): a name that is
dirty is not added again, and one that a worker has joins the line when it is
`Done`. A reconcile is reduced to its read of the application and its patch of
the status, which is an event like any other. A process that is cancelled goes
on with what it has: `OnlyLeaverOverlaps` says exactly when two processes overlap.

### Rendering and Manifests

One application and one worker, but all of the way from files to objects:

| Definitions | Code |
|---|---|
| `ReadHelmValues`, `DeepMerge`, `MergeNode` | `helm.go`, with the type `chartutil.Values` that a merged map gets |
| `Decode`, `RenderYAML`, `Templates`, `RenderHelm` | The two renderers: blank documents, documents of comments, symbolic links, CRDs first, notes |
| `ValidateRelPath`, `ValidateValuesFilePath`, `ResolveWithinRoot` | The checks of paths against their resolution, over `Clean` |
| `Admitted`, `AllAdmitted`, `RefOf`, `ApplyPriority`, `NextToApply` | `NormalizeAndValidate`; objects of one priority are taken in any order |
| `Discover`, `BeginPartial`, `DiscoveryFails`, `Restart` | The cached discovery client: asked once, the answer kept, whole or partial, until the process ends |
| `Refuse`, `Begin`, `ApplyObject`, `ApplyFails`, `ApplyDone`, `PassOver`, `DeleteObject`, `PruneFails`, `UpdateSuccess` | `Reconcile`, `Apply`, `prune` |
| `Establish`, `Install`, `Uninstall`, `Push` | The API server and users (external) |

The first three rows are `Rendering`, functions of the files; the others are
`Manifests`. The mapper's view `known` and the truth `served` are two variables, so a kind may
be missing from one, or have another scope in it. A request goes to the path
that the believed scope gives; it finds the kind only if that scope is served.

### Repository

One repository URL: `mirror` (HEAD file, config, remote, objects), `checkouts`
(the tree in each final directory), the lock files, and `call[w]` with the step
each worker is at. One action per git command, in the order of the code:
`InitMirror`, `RemoveRemote` (its error ignored), `AddRemote` ("already exists"
let pass), `Fetch`, all under the mirror's lock and each with the one recovery
of `ensureMirrorAttempt`; `Resolve` without a lock; `LockCheckout` with the
second look at the directory; `Clone`, `CheckoutTree`, `Rename`. `LockTimeout`
is the end of the 30 seconds of `withLock`. `Damage`, `Crash`, `CommandFails`
and `Push` are the world's.

`Snapshots` says what all of this is to a caller: it asks, what it asks for is
made out in one instant, and it gets the snapshot of that commit or nothing;
snapshots that were given stay.

| Snapshots | Cache |
|---|---|
| `head` | The branch |
| `kept` | The final directories that hold the tree of the commit they are named after |
| `asks[w]`, `means[w]` | The revision of a call, and its commit once it is resolved |
| `has[w]` | `Checkout` has returned, the worker renders |
| `Ask`, `MakeOut`, `Give` | `Begin`; `Resolve`; `Rename`, or the second look of `LockCheckout` |
| `End`, of one or of several | `Return`, an error, `Crash` |

Every command on the mirror and its recovery are stutters. Where another branch
has the same name after a slash this fails, at `Resolve` (`Namesake`).
`GitApplicationController!Checkout` stands for a whole call, which yields
the head of the branch at one moment of it, or an error: that this is all one
need know of the cache is this refinement.

## 3. What TLC checks

Runs that pass (`CHECK_DEADLOCK` stays on in all of them):

| Run | Question | Bounds |
|---|---|---|
| `Solo` | Does the status ever claim too much, and does pruning ever forget an object that is still marked? | 1 application, 2 objects, 5 specs (plain, suspended, other path with takeover, no prune, invalid), 3 generations, 1 push, 2 faults, 1 foreign change |
| `Disjoint` | With two workers on two applications: is success true, is only their own pruned, is the inventory complete, and does what is in sync stay so? | 3 objects, 2 incarnations, 1 push, no faults |
| `SerialMove` | With one worker and an object that moves between applications: is success true, does prune delete only its own, and is the ledger kept? | 2 applications, 2 pushes, 1 fault |
| `LiveSolo` | Does it converge, and does suspend settle? | 1 application, the 5 specs, 2 incarnations, 2 generations, 1 push, 1 fault, 1 foreign change |
| `Cache` | Is a checkout complete, does the lock protect the remote and is it given back, is the cache to its callers what `Snapshots` says, does every step bring a call nearer its end, do calls return, does the cache heal? | 2 workers, 2 commits, 1 push, 2 faults |
| `Handover` | Does the queue keep workers apart and forget neither an application nor an edit, across crashes and changes of the leader? | 2 pods with 1 application, or 1 pod with 2 applications; 2 workers each, 1 edit, 2 faults, a lease of 3 ticks |
| `Manifests` | Does everything stay where it may be, is a commit taken whole and in order, does the application settle, and does a restart heal what discovery got wrong? | 7 commits, 3 pushes or changes of the cluster, 2 faults; all paths of up to 3 parts |

`ReadyMeansCurrentSpec`: a status that is Ready for the current generation
belongs to a reconcile of the current spec. It takes an edit inside a reconcile,
a failed patch, or both, to break it. `NothingForgotten`: the inventory is the
only thing that finds objects to prune, so a reconcile that prunes may not drop
a reference to an object that still carries its marks. `SuccessMeansApplied`:
no prune, of this or another reconcile, undid what was applied before success is
reported. `NoOrphan`: a marked object is in the inventory (without
failures: with one it is not, which is run `Orphan`). `PruneDeletesOnlyOwn` is what the
documentation promises about deletes; its other promise, `PruneSparesDesired`, says something
only where an object changes its API version, and is violated there (`VersionBump`). `StaysInSync`: an application that is in sync is reconciled over and over,
and none of these reconciles, or of the others' meanwhile, deletes an object to apply
it anew or reports anything else. `Converges` and `SuspendSettles` say where it all ends.
`HandedOutIsComplete`, `FetchHasOrigin`, `CallsReturn` and `HealsAlone` are
explained in `Repository`. `NoLockIsLeaked`: every way out of `withLock`, among them the
errors of a recovery in the middle of it, gives the lock back. `NoCallGoesInCircles`: no
step of a call but its recovery, of which there is one, leads back. `KeepsLedger` and `ServesSnapshots` are the refinements above.

`OneWorkerPerName`: the status patch, an edit and the end of a delay may all ask
for an application that a worker has. `OnlyLeaverOverlaps`: two processes have
the same application only while one of them leaves; that they can then is the
code's choice (the lease is released first, and `main` does not wait).
`NoneForgotten`: there is no resync, so an application that is in no set, line or
worker of a running process would never be looked at again. `EditStaysPending` is
stronger where an edit is unread: a worker that read the application before the
edit does not count, so the event has to survive in the dirty set although that
worker has the name. `EditsAreRead` and `Recurs` are what follows in the long run.

`StaysInside` compares with the scope that is served, while the code decides by
the scope it remembers. `WholeOrNothing` and `ContainerFirst` say what refusal and
order are for. `TwoFilesMerge` is about the merge of values; it would fail with a
third file, which replaces a map that was merged before. `PathsResolve`: whatever
validation accepts resolves below the root, to what its clean parts name.
`Settles` says where a reconcile ends once users and faults are used up: in sync for
good, or not Ready for good with one of the conditions of `Workable` unmet. So a Ready
that has become untrue does not last, be it by a prune that took what was just applied along
with its namespace or by a user. `RestartHeals` leaves the mapper out of the
conditions: its answer may be partial or older than a kind, but only until the process ends.
From a process that has not asked yet, it is enough that the API server has
the kinds of the commit and the inventory, and keeps what the commit takes. Both would
fail with less: without a restart the mapper is a reason of its own for not being Ready, and
if the inventory names a kind that is served no more, every prune fails after the
restart, for ever.

Why the bounds are enough to be of use: two commits suffice for an object to
appear, disappear or move; two applications and two workers for every race of
two reconciles; one fault for each failed call and two for a failure in the
handling of a failure; three generations for an edit before, in and after a
reconcile. Objects are two or three because a loop over two already has a
middle, where it can fail. `Handover` needs two pods for the lease to change
hands and two applications for a queue to have an order; the two do not
influence each other, so each has an instance of its own. Its three times are the
smallest that keep the order of the code's 15, 10 and 2 seconds; the proofs hold for
all of them. The seven commits of `Manifests` are one per way a commit can go.

Disagreements between code and documentation, each shown by a run that TLC finds
violated:

| Run | What happens |
|---|---|
| `AttemptedNotRecorded` | `status.attemptedRevision` is never written: it is set before the base of the merge patch is copied |
| `VersionBump` | A commit that moves an object to another API version: the object is applied, then deleted as stale, because `Key()` has the version in it |
| `MoveRace` | With two workers, prune deletes an object that another application has taken over since its marks were checked |
| `Orphan` | A reconcile fails after applying an object which the next commit no longer has: nobody ever prunes it |
| `Namesake` | `ls-remote` also lists `feature/main` for `main`, and the first line is taken |

### Fairness

`GitApplicationController`: `WF(Advance(a))`, since a worker runs its reconcile to
the end and every call returns; `SF(ReadApp(a))`, since the queue re-adds an
application after a success (`AddAfter`), after a failure (`AddRateLimited`) and on
every event, and hands names out first come, first served, so that an
application is reached again and again although workers are sometimes all
busy. Users, failures and crashes have none. `Repository`: `WF(Advance(w))`, since
each command ends and `withLock` gives up in time; nothing forces a call to be
made. `Operator`: time passes, every goroutine that can go on does and every
call returns (`WF` of each kind of step of a process, and of each job), a pod is
restarted, events are handed over and delays end. Users, faults and the release of
a lease have none. It is what the other modules build on: `Recurs` and
`NoneForgotten` are the reason for `SF(ReadApp(a))` in `GitApplicationController`, and
for `WF(Reconcile)` in `Manifests`, which adds that the API server establishes a
definition in the end (`WF(Establish)`).

`HealsAlone` asks that others are quiet, and must: two workers that keep calling
for the same repository can fail for ever, each finding the remote removed by
the other when it resolves its revision without the lock.

## 4. What is proved

For every value of the constants that the named assumptions allow (types of the
tables, an order of references in which different ones differ, bounds that are
natural numbers, `None` different from everything else):

- `TypeCorrect`: `Spec => []TypeOK`. `TypeInv` adds to it what a reconcile has at each of its
  steps (`LocalsOK`: a copy, a commit) and that a UID names its application
  (`UidsOK`).
- `PruneForgetsNothing`: `Spec => NothingForgotten`. The invariant `PrunedInv` says that, while
  a reconcile is under way, the inventory on the server is the one it has read
  (or empty, for a new incarnation), and that every stale reference is still to
  come or has lost its marks. It needs that only an application's own reconcile
  can give an object its marks, hence `UidsOK`. `InventoryStep` then shows that only
  the success patch of that reconcile changes an inventory.
- `SuccessIsTrue`: `Spec => []SuccessMeansApplied` if applications render disjoint objects, never
  one object in two versions (`Disjoint`), and nobody else changes them. `PlacedInv`
  keeps specs, copies and inventories within the territory of their application
  and every desired object in place from its apply on. Without `Disjoint` the
  theorem is false: `VersionBump` and `MoveRace` are the counterexamples.
- `OneWorkerSuccessIsTrue`: the same with one worker for applications that may render the
  same objects, if none moves an object to another API version. `FinishedInv`: what the one
  reconcile under way has applied is in place. That it stays so takes `OwnInv` (the others
  rest) and `StaleInv` (what is pruned is no object of the commit).
- `InSyncStays`: `Spec => StaysInSync` under `Disjoint`, any failures and changes by hand before.
  In a settled application desired, wanted and recorded are the same set: nothing is
  left to prune (`StaleInv`), no apply conflicts, the merge patch of the success says what the status
  says, and what others write is not in its territory.
- `OneWorkerPrunesOnlyOwn`: `Spec => []PruneDeletesOnlyOwn` with one worker and nobody else at the objects,
  whatever the manifests share. `OwnInv`: one reconcile at a time, so nothing
  happens between the check of the marks and the delete. With two workers it is
  false (`MoveRace`), unless they share no object:
- `DisjointPrunesOnlyOwn`: `Spec => [](PruneDeletesOnlyOwn /\ PruneSparesDesired)` under `Disjoint` and with nobody
  else at the objects, for any number of workers. `OwnedInv`, on top of `PlacedInv`: marks that
  were read stay until the delete, since the only reconcile that writes this object is
  the one that deletes it.
- `PruneIsOfStale`: `Spec => []PruneSparesDesired` with no condition but that no application moves an
  object to another API version (`SteadyVersions`): any workers, shared objects, failures, changes
  by hand. `StaleInv`: specs and inventories stay within the territory of their
  application, also in a copy that is long out of date, and prune works on what is
  in the inventory and not desired. `VersionBump` is what happens otherwise.
- `RepositoryTypeCorrect`, `CheckoutIsComplete`, `FetchIsConfigured`: from one invariant, `CacheInv`: final directories
  are absent or complete, a call within `ensureMirror` holds the mirror's lock,
  and a call knows its commit from `Resolve` on.
- `LocksAreGivenBack` and `CallsAreShort`: `Spec => []NoLockIsLeaked` and `Spec => NoCallGoesInCircles`, with no condition. The second is
  the part of `CallsReturn` that a safety proof can give: a call that is served returns, since
  `StepsLeft` goes down with each of its steps and starts at fifteen, whatever others do.
- `BranchIsResolved`: `Spec => RequestedIsResolved` if there is no namesake: the one condition that `Namesake` violates.
- `CacheServesSnapshots`: `Spec => ServesSnapshots` if there is no namesake, for any workers and commits, any
  crashes, failed commands and damages. `RequestInv` adds to `CacheInv` that a call has a
  revision exactly while it is under way, and a commit exactly from `Resolve` on: from outside, most
  of its steps are stutters. `CacheInv` gives that a directory, once complete, is never
  touched, and that a call returns only when its own is.
- `ReconcileKeepsLedger` and `WorkersKeepLedger`: `Spec => KeepsLedger` under the two sets of conditions above (`Orderly`, `Apart`), with
  any number of applications, objects, commits, edits, failed calls and crashes. What
  the ledger needs of a state is `HoldsInv`: a reconcile deletes only what is on record,
  its own and not desired, and reports only when all it desires is its own. With one
  worker it follows from `LedgerInv`, which joins `TypeInv`, `PrunedInv`, `OwnInv` and `StaleInv` to
  `TakenInv`: what of the aim is no longer to come is marked as the application's own, and
  stays so until the report, since no one else is under way. With several it follows from
  `PlacedInv` and `OwnedInv`. `LedgerStep` then maps each action to an action of the ledger or a
  stutter, once for both.
- `ReadyIsTrue`: `Spec => []ReadyMeansCurrentSpec` for applications that are not created twice. The merge
  patch of a success leaves out what has not changed since the read, so the proof has to
  know that the server still has it (`SameStatus` in `CurrentInv`), and that the spec
  read is the current one if the generation is (`Earlier`).
- `NothingIsOrphaned`: `Spec => []NoOrphan` under `Disjoint`, for applications that prune and no failed calls. `OrphanInv`: every
  marked object is in the inventory, or the reconcile under way has it in its
  aim and will record it. One failed call breaks it (`Orphan`). `OneWorkerOrphansNone` is the same with
  one worker instead of `Disjoint`, from the same invariant: either keeps others
  from what a prune is about to delete (`Apart`).
- `OperatorTypeCorrect`, `QueueSerializesNames` (`LineInv`: what is in line is there once, is dirty and is with no worker),
  `LeaseKeepsApart` (`LeaseInv`: a leader is the holder and its clock is that of the lease, so
  it gives up before the lease can be taken, by `RetryPeriod + RenewDeadline <
  LeaseDuration`), `QueueForgetsNone` (`KeptInv`: besides `NoneForgotten`, that an application which a
  worker found gone and which has come back has an event or is dirty), `QueueKeepsEdits` (`PendingInv`:
  what is there and unread has an event, is dirty or delayed, or is with a worker that is yet to
  read it or has failed to; it is inductive together with `LeaseInv`).
- `ManifestsTypeCorrect`, `NothingLeavesDestination`, `CommitsAreTakenWhole`, `ContainersComeFirst`: for any repository, whatever
  `Rendered` is. `AdmittedInv`: what a reconcile has to apply was admitted, all of it, by
  the mapper it applies it with, which does not change meanwhile. `ScopeInv`: only `Custom` changes
  its scope, of other kinds the mapper is right. `NothingLeavesDestination` then rests on two facts
  about the API server: a request under a wrong scope finds nothing, and a
  definition takes its objects along before its kind can come back with another scope.
  `FirstInv`: the namespace of a commit, once applied, stays until the apply is over.

- `AcceptedPathsResolve`: what `validateRelPath` or `validateValuesFilePath` accepts resolves to the root followed by its
  clean parts, for paths of any length and any root. `Descends`: once a relative path has gone above
  where it began, its clean form begins with two dots for good (`OnceUpAlwaysUp`), which validation
  refuses; until then cleaning it behind the root is cleaning it, behind the root.
- `ValuesFilesMerge`: the second of any two values files takes nothing from the first that it does not
  set. Assumed is what a decoder gives: parts of a path have no slash and are not empty,
  a checkout has a clean path (`PathAssumption`), and values are leaves and maps, never
  yet a `chartutil.Values` (`ValuesAssumption`).

Some of these state what it takes for a disagreement of section 3 not to
happen: `PruneIsOfStale` (`VersionBump`), `DisjointPrunesOnlyOwn` and `OneWorkerPrunesOnlyOwn` (`MoveRace`), `NothingIsOrphaned`
and `OneWorkerOrphansNone` (`Orphan`), `BranchIsResolved` (`Namesake`).

The two recursive functions of `Rendering` are proved about by induction over sets: the library's
induction theorems take a predicate as an operator, which the provers cannot
instantiate, but the set of the numbers that satisfy it is a constant like any other,
and of the numbers outside of it there is a least (`Induction` in `Rendering_proofs`).

Each proof has one step per action; `...Frame`, `...Others` and `...Done` lemmas say once
what a step of one reconcile, call or process leaves alone.

Only model-checked: the liveness properties (`Converges`, `SuspendSettles`, `CallsReturn`, `HealsAlone`,
`EditsAreRead`, `Recurs`, `Settles`, `RestartHeals`), which this prover cannot do. Every invariant, action property and refinement
that a passing run checks is a theorem too. What the renderers return for whole
commits (`Rendered`) is evaluated on the seven of `MCManifests`; the proofs about `Manifests` hold
whatever it is.

## 5. What is not modelled

- Strings: URLs, allowed prefixes, DNS labels and credentials are accepted or
  not. YAML syntax and the template language: a file is a list of documents, a
  template has at most one condition.
- Finalizers of workloads, and several fields per object: an object is deleted
  at once, and a contested field is one bit.
- Git commands that are killed half-way: whether git leaves `config.lock` behind is
  up to git, and nothing in this code reacts to it. Directories that a killed
  process leaves and the disk filling up: nothing in the code bounds them, so there
  is no promise to check.
- Times: intervals, back-off and the 30 seconds of `withLock` are nondeterministic;
  only the lease has a clock. How often the status patch brings an application
  back at once is not counted.
- Processes that freeze for longer than the lease.
- The metrics and probe servers (static handlers, one flag), and the
  deployment manifests.
- The modules are not composed into one: `Operator` reduces a reconcile to a
  read and a patch, `GitApplicationController` a checkout to a commit and a commit to a
  constant. Each module names what it takes from the next one.

## 6. What could come next

The plan of this directory is done: loop and Git cache first, then queue and
leader election (as one module, `Operator`, since the overlap of two leaders is
about both), the ledger and its refinement, discovery with the algorithms of
rendering and order (`Manifests`), the abstract cache (`Snapshots`), and the proofs of what the runs
check. Left over:

1. A refinement of `Manifests` and `GitApplicationController` to a common loop, with the order of
   keys in prune, so that the prune of a namespace meets other applications in it.
2. Several repositories and the files of `prepareAuth` in `Repository`.
