# Verification of ceph-csi-operator

TLA+ models of the operator's controllers, the TLC runs that check them on small instances, and
TLAPS proofs for every instance. Paths are relative to the repository (`src/`).

## The system

The operator (`cmd/main.go`) runs four controllers in one process. Each has a workqueue of names and
one worker that takes a name and reconciles it: it reads objects from an informer cache, which may be
behind the API server, and writes them with optimistic concurrency (an `Update` made from an outdated
copy is a conflict). An error puts the name back on the queue. Watches put names on the queue, each
filtered by its predicates. Everything the controllers know between two iterations is in the API server.

| Component | State | Operations | Correct when |
|---|---|---|---|
| ClientProfile controller, `internal/controller/clientprofile_controller.go` | `config.json` in the ConfigMap `ceph-csi-config`, owner references on the ConfigMap and on the CephConnection, the profile's finalizer and status | load profile, connection and the Ready replication; add the finalizer; toggle the references; write or remove the entry; release the finalizer; write the status | an entry always has a profile bound to remove it; one entry for a cluster; nobody else's data is lost; a release leaves nothing behind; profiles settle |
| ClientProfileReplication controller, `clientprofilereplication_controller.go` | the status (Ready, Rejected) of each replication | load the replication and its profile, elect the oldest of the list, write the status | the oldest one, and only one, is Ready; decisions follow the profiles there are |
| ClientProfileMapping controller, `clientprofilemapping_controller.go` | `cluster-mapping.json` in the same ConfigMap | list all mappings, build the list, write it | no duplicates; nobody else's data is lost; the list follows the mappings |
| Driver controller, `driver_controller.go` | the cluster-wide CSIDriver (its annotation names the owner), and in the Driver's namespace a Deployment, two DaemonSets, two NetworkPolicies, a Service and a ConfigMap for log rotation | validate the claim of the name, merge defaults, run nine reconcilers concurrently (`utils.RunConcurrently`), each a create-or-update or a delete | one owner of a name; a recreated Driver takes its predecessor's objects over and never loses them to it; no error is lost; the composed objects fit together |
| CephConnection, OperatorConfig | specs only, no controller | read and watched by the above | |
| `internal/utils` | none | owner references, merges by key, concurrency, predicates, volumes, mounts, ports | as part of the controllers |

The controllers meet in the ConfigMap (three of them write it: entries, mappings, an owner reference), in the replications (one decides their
status, another reads it and refuses to release a profile they name), and in the ClientProfiles (whose
creation and deletion the replication controller watches). Users, the garbage collector, which follows
owner references, and crashes of the operator act at any time.

What is hard here: reads from caches of different age inside one iteration; a create-or-update that makes
no call because an outdated copy already looks right, so that nothing conflicts; a crash or a deletion
between two writes; predicates that drop events (a ConfigMap has no generation, so
`GenerationChangedPredicate` drops all its updates); claims checked on one read and written on another;
goroutines of which one fails. `PROJECT.json` lists these hazards with their lines and properties.

## The modules

- **VersionLog** (external: API server and informer). An object is the sequence of its versions from the
  cached to the stored one. `Put` stores a version, at most `lag` events are under way, a copy is accepted
  by an update iff it is the stored version, `Relist` is what an informer does when the operator starts.
- **ClientProfile**. One action for each client call of an iteration, in the order of the code:
  `StartReconcile`, `LoadClientProfile`, `LoadCephConnection`, `AddConnOwner`, `LoadReplication`,
  `EnsureFinalizer`, `ReconcileCephConnection`, `ReconcileReplication`, `ReadConfigMap`, `WriteConfigMap`,
  `ReleaseFinalizer`, `UpdateStatus`. The worker `w` is the struct `ClientProfileReconcile`: the copies of
  the objects, and for each whether its resourceVersion is still the stored one. `left.faults` lets a call
  fail without effect. The check of an empty `cephConnectionRef` is left out: the CRD's validation refuses one. The environment creates, edits and deletes every object, writes the other
  controllers' part of the ConfigMap, collects garbage, resyncs and restarts.
- **ClientProfileReplication**. All replications are one log of snapshots, as one informer delivers their
  events in order, with no bound on the delay. Names are numbers because the sort compares them; creation
  times have the resolution of a second, so two may be equal. A failing Get or List is written
  to the status as Pending and retried (`FailPhases`).
- **ClientProfileMapping**. The list is taken in any order. `BuildMappings` is the code's loop as
  a function: the pairs where they were first seen, with the pools of all entries of the pair (`SkipSeen` keeps
  what `FirstSeen` finds, `InOrder` of its positions; `PoolsOf` strings the pools together). `missed`
  is a history variable: the last iteration made no call, on an outdated copy.
- **CsiConfigMap** (abstract). The ConfigMap `ceph-csi-config` as its writers promise it to each other: each
  entry or key is the part of one owner; `Write(o)` changes the part and the reference of one owner, in one
  step and on top of what the others wrote; anyone may `Delete` it, the garbage collector drops references
  (`Collect`). ClientProfile, ClientProfileMapping and Driver each instantiate it with the parts they know
  (entries of `config.json` by profile, `cluster-mapping.json`, and one part that stands for the others) and
  are shown to implement it (`SharesConfigMap`).
- **Driver**. Drivers of one name in several namespaces, one CSIDriver, and the ConfigMap of each namespace.
  Loading is three steps; then one task for each object, whose steps (get, write; for the CSIDriver also
  delete and create) interleave. `Return` joins the errors. Objects are abstracted to the effective spec they were composed from.
  `SetControllerReference` compares the name of the controlling Driver and not its uid, so a Driver that is
  deleted and created again adopts the objects that are left, in a race with the garbage collector; only a
  Driver of another name is refused, which the names of the objects rule out. The real
  reconcilers overwrite whole specs, fields the API server defaulted included, so some of their updates
  have no effect; these are modelled as no call.
- **RunConcurrently**. `utils.RunConcurrently` and the loop that consumes its channel: the caller, a goroutine
  for each function, the one that closes, the counter of the WaitGroup and the channel, which has no buffer.
- **FanOut** (abstract). What `reconcile` relies on: each function reports once, in any order, and the
  iteration ends with an error iff one reported one. RunConcurrently is shown to implement it (`FansOut`).
- **DriverPods**. What is composed: containers with images, arguments, variables, mounts and ports, volumes
  with their sources, replicas, policies, Service and ConfigMap as functions of the driver type, the merged
  spec, the image set and the number of nodes. Arguments are those that name a socket, a path, a log file, a
  variable or a feature that another object must match. An iteration is one step: by FanOut every reconciler
  runs whatever becomes of the others, each writes an object of its own, and all go by what was loaded at the
  start, so that their order shows in no object; any of their calls may fail. Users edit the spec, the
  defaults and the image set, nodes come and go.
- **MC...** modules give the constants of the runs; **..._proofs** modules hold the theorems. Definitions
  marked `Fault:` are plausible mistakes in the definition that follows them, each of which makes one of
  the properties fail; no specification uses them.

How the modules fit together: a model of one controller has the other writers of the ConfigMap in its
environment (`ForeignWrite` in ClientProfile and ClientProfileMapping, `DisturbCsiConfig` in Driver). Such a
step is a `Write` of CsiConfigMap on behalf of the owner `Others`. Each model shows that every step, those of
the controller among them, is one of CsiConfigMap: a step that touches what belongs to the owner at hand
touches nothing else. So what a controller assumes of the other writers is what the others guarantee, and the
three run together as CsiConfigMap says. RunConcurrently
likewise discharges what Driver (`Return`, `FinishReconcile`) and DriverPods (`Completed`) assume.

Left out of the objects: JSON text, status messages (except whom a rejection names), labels, resources,
timeouts, verbosity and affinity. A missing ClientProfile or Driver is an error in the code, retried with
growing delays; the models retry it as well.

## The runs

Passing runs:

| Run | Instance | Shows |
|---|---|---|
| `client_profile` | two profiles (symmetric), one connection, one replication; connection and ConfigMap caches one event late; 4 operations, 1 crash, 1 failing call; each name created twice | `TypeOK`, `UniqueIds`, `SharesConfigMap` |
| `client_profile_live` | one profile, two connections with two specs, two replications; every cache but the ConfigMap's one event late; 3 operations, 1 crash | `RecordHasFinalizer`, `ReleaseIsClean`, `DeletionProtection`, `Converges` |
| `replication` | two replications, two profiles, any delay, 3 operations, 1 crash, 1 failing call | `TypeOK`, `OldestReady`, `EventuallyAgrees` |
| `mapping` | two mappings with overlapping specs, caches one event late, 3 operations, 1 crash, 1 failing call | `TypeOK`, `NoDuplicates`, `SharesConfigMap`, `Converges` |
| `driver` | one namespace, one optional object, the CSIDriver and the ConfigMap; the caches of either the namespaced objects or the cluster-wide ones one event late; Driver created twice, 3 operations, 1 crash or failing call | `TypeOK`, `SuccessorsTakeOver`, `SharesConfigMap`, `Converges` |
| `driver_pods` | the four driver types, four specs (plain, everything on, on the host network, rejected twice), defaults or none, one or two nodes, an image set with or without the optional key; 2 edits, 1 failing call | `TypeOK`, `MountsHaveVolumes`, `PortsOpen`, `Companions`, `SocketsServed`, `LogsApart`, `Runnable`, `Follows` |
| `run_concurrently` | five functions, each with or without an error | `TypeOK`, `NoSendOnClosed`, `FansOut` |

Runs that show a disagreement (`findings` in `PROJECT.json` quotes the line each contradicts):

| Run | Property that fails | What happens |
|---|---|---|
| `stale_config_map` | `RecordHasFinalizer` | a profile is deleted before the cache shows the ConfigMap with its entry: nothing to remove, no conflict, the finalizer goes and the entry stays |
| `owner_before_finalizer` | `OwnersAlive` | a profile is deleted after its owner reference and before its finalizer was written: the garbage collector deletes the user's CephConnection |
| `cleanup_order` | `DeletionCompletes` | the quick start deletes the CephConnection first; the profile cannot be cleaned up without it |
| `election` | `OnlyOldestReady` | the list changes (a replication edited to name the profile, the Ready one deleted) and those whose rank changed are not looked at again: two stay Ready, or none is |
| `driver_claim` | `ClaimKept` | two Drivers of one name pass the check; the second overwrites the annotation |

**Bounds.** Every bound is a constant: operations of users, other controllers and resyncs (`MaxOps`),
crashes, failing calls, creations of a name (`MaxUid`), events under way (`Lag`; in Driver `Lags`, of which a
behaviour has one, and `MaxFaults` bounds crashes and failing calls together). One late event is enough
for a cached read to disagree with the store, two creations for a name to be reused, two profiles for one
to hit the other's entry, one crash for each place to crash at. Three or four operations cover the
create, edit, delete and recreate sequences the hazards are about; the worker's own steps, watch deliveries
and garbage collections are not counted. The theorems hold for every bound. `CHECK_DEADLOCK FALSE` is set because
a cluster where everything is done and every bound is used up stops.

**Fairness.** The worker goes on with an iteration (`WF` of its steps), watches deliver (`WF`), and the
workqueue is first in, first out, so that a name that keeps being queued is served although others come
between (`SF` of `StartReconcile`). The garbage collector is fair in Driver only, where it races with a
recreated Driver. Nothing is assumed of users, crashes or resyncs: what converges does so without waiting for
the informers' resync, about every ten hours. DriverPods is the exception: nodes and image sets are read but
not watched, and a failing List of the nodes is not retried, so `Follows` needs the resync (`WF`) and shows
that the objects are right with the next one at the latest. In RunConcurrently some goroutine that can go on
does (`WF` of all steps together), as Go's scheduler provides; the functions are client calls and return.

**What limits the passing runs.**
- `client_profile_live` keeps the ConfigMap's cache in step, since `stale_config_map` shows what happens
  otherwise; `client_profile` lets it lag.
- `DeletionProtection` is about replications that the operator's cache shows before the deletion of the
  profile is requested. One that comes later, or is delivered later, may miss the check
  (`clientprofile_controller.go:380`) and does not block the release (line 240), although
  `docs/design/replication.md:45-48` and `246-249` promise the block for every referencing CR. The API
  offers no way to check and release in one step.
- `Converges` of the mapping controller excepts an iteration that made no call on an outdated copy, and the
  last mapping deleted while the operator was down: the code notices neither.
- `driver` has one namespace; with two, the Drivers may fight over the claim (`driver_claim`).
- `PortsOpen`, `Companions` and `SocketsServed` speak of Drivers whose last iteration succeeded; one with
  a rejected spec retries for ever with part of its objects written. `Follows` says that the other objects
  are as they should be also then.
- The ports of `PortsOpen` are those the containers declare. `liveness-prometheus` declares none: the port it
  is told to serve metrics on (`--metricsport`) is not opened by the policy of the controller plugin, and on a
  host network it is the same for both plugins of a driver on one node. `Companions` says that the metrics
  Service has that port as its target; the Service has no selector, so it has no endpoints of its own.
- `Companions` relates topology in one direction only: with `topology: {domainLabels: []}`, which the CRD
  accepts, the provisioner goes by topology and the node plugin is given no `--domainlabels`.
- `LogsApart` counts one pod of each workload on a node, as the default anti-affinity provides. With an
  affinity of the user's own (`driver_controller.go:1835-1837`) two replicas of the controller plugin may run
  on one node and write the same file.
- `Runnable` takes a key of the image set as an image, an empty value included, and allows the
  optional key `ex-snapshotter` at all times: its container is composed when the key was there, and the stored
  Deployment may be from before the key was removed.
- `DriverPods` follows `mergeDriverSpecs` in that HostNetwork, DeploymentStrategy and Topology of the
  defaults have no effect on a Driver with a plugin spec of its own, although its comment says "fill in any
  unset fields".

## The proofs

All safety properties of the passing runs are proved: invariants, action properties and refinements, for all
values of the constants within these named assumptions. `Lag` (in Driver each of `Lags`) and the bounds are
natural numbers; specs are in the shape the types give them. `NoObj` (in DriverPods `Absent`) stands for a
missing object and is none of the objects, nor one of the views of the shared ConfigMap (`NoObjAssumption`,
`SharedAssumption`, `AbsentAssumption`): TLA+ does not say so of an arbitrary value. The names of mappings are
finitely many (`NamesAssumption`), since the code lists them. No controlled object is called `csiDriver` or
`csiConfig` (`OwnedAssumption`), the names of the two other tasks.

- **VersionLog_proofs**: `Put`, `Tail` and `Relist` of a non-empty log of values are such a log, what is
  stored afterwards, and what is known of every version of the new log.
- **ClientProfile_proofs**: `TypeCorrect` (`Spec => []TypeOK`) and `ClusterIdsUnique` (`Spec => []UniqueIds`).
  `TypeOK` is not inductive: a step that uses the worker's copy of the profile must know that it was loaded.
  `Loaded` says which copies are there at which step. `UniqueIds` is about the stored list only, but a write
  is made from a copy, and an older version may still be read: `AllUnique` says that every version under way
  and the worker's copy have unique IDs. `Inv` is the conjunction; the list lemmas are that `Upsert` and
  `SwapRemove` preserve uniqueness.
  `SharesCsiConfigMap` (`Spec => SharesConfigMap`) is the refinement of CsiConfigMap. It needs `Copies`, that a
  copy whose resourceVersion is the stored one is the stored object, and `OneRef`, one reference for a name
  in the stored ConfigMap. `OthersEffect` is all that the environment and the watches may do to the stored
  objects and to the worker's copies, proved once (`OthersWatch`, `OthersEnvironment`); `WorkerConfigMap` says
  that the worker's write is `MutateConfigMap` of what is stored, not of what it read; `UpsertEntries` and
  `SwapRemoveEntries` say that overwriting, appending and the unordered delete leave what the list says of every
  other profile as it was.
- **ClientProfileFinalizer_proofs**: `RecordsAreBacked`, under the assumption `Lag["configMap"] = 0`: every
  entry's profile exists with the finalizer, with any lag of the other caches. The invariant
  `FinInv` has two halves. `ProfileInv`: a version under way that is kept (finalizer on, no deletion
  requested) means that the stored profile still has a finalizer (`KeptStays`), the same of the worker's copy
  (`WorkerKept`); a copy marked current is the stored profile (`WorkerCopy`); past the finalizer step the copy
  is being deleted or has the finalizer (`PastFinalizer`). `ConfigInv`: the ConfigMap's cache is in step; since
  only the worker adds entries, its copy has its entry if the stored ConfigMap does (`ConfigCopy`); at the
  release the entry is gone (`Cleaned`); and the property itself. It is needed because a write is made for
  a copy of the profile that may be long outdated: the invariant says why the stored one has the finalizer
  all the same.
  `ReleasesAreClean`, under the same assumption, is the action property `ReleaseIsClean`. A step that lets a
  profile with the finalizer go is the worker's release of its own profile (`ReleasedByWorker`), and `CleanInv`
  says what is true then: up to `reconcileCephConnection` the copy of the CephConnection has the reference
  (`OwnRef`), so that the toggle is a real update and an outdated copy a conflict; afterwards the stored one
  lacks it (`ConnReleased`); the copy of the ConfigMap has the reference if the stored one does (`RefRead`), so
  that at the release the stored one has none (`RefReleased`). The CephConnection's cache may lag: the code adds
  the reference just to take it off again, and that is what makes the check sound.
  `ReplicationsProtect` (`Spec => DeletionProtection`) has no assumption on any lag. `Held` is what lasts while
  the replication names the profile: the profile has the finalizer, every version of the replication from the
  cached to the stored one names it (`Known`), and no iteration for a profile being deleted is past the check
  (`Releasing`). It holds at first, since a current copy of a profile whose deletion is not requested is not
  being cleaned up; a step keeps it or ends the naming, since the check finds the replication in the cache
  (`ReleasingNext`) and only a release takes the finalizer off (`FinalizerNext`). The last step is temporal.
- **ClientProfileReplication_proofs**: `ElectionSafe` (`Spec => [](TypeOK /\ OldestReady)`) and with it
  `TypeCorrect`, for any number
  of replications and any delay. Nothing was created later than now (`Past`). A stored replication that was
  never edited is in every snapshot as it was created, or is no older than anything in the snapshot (`Ages`):
  a list that lacks it cannot have missed an older rival. While the worker's copy is current every snapshot
  shows it (`CopyCurrent`), and a winner about to be marked Ready has no older rival, however long ago its
  list was read (`ElectionStands`).
- **ClientProfileMapping_proofs**: `BuildMappingsCorrect`, about the pure algorithm: for every list of entries
  the result has one record for a pair, each pool pair once, and says the same. It rests on what `InOrder`,
  `SkipSeen` and `FlattenSeq` return for every sequence. These need induction; the proofs take a least
  counterexample (`LeastNatural`) instead of an induction rule. Then `TypeCorrect` with `Loaded` (what is about
  to be written was mutated from the copy that was read, and a current copy is the stored version),
  `NeverDuplicates` and the refinement `SharesCsiConfigMap`, both from `StoredStep`, which lists what a step may
  make of the stored ConfigMap.
- **Driver_proofs**: `TypeCorrect` with `Loaded` (an iteration has a namespace, past the last read a uid, and a
  goroutine's copy is of its own kind of object); `CopiesAreCurrent`, that a copy which counts as current is the
  stored object although up to nine goroutines and everybody else write; from it `TakesOver`
  (`Spec => []SuccessorsTakeOver`, with `SuccInv`: the versions of a Driver have ever
  later uids, a reference is to none later than a Driver the cache may still show or the iteration loaded, and a
  copy names none later than is stored) and `SharesCsiConfigMap`, the refinement of CsiConfigMap in every namespace.
- **DriverPods_proofs**: what is stored was composed from one merged spec, maybe an earlier one, that the
  reconciler did not reject, and all from the same once an iteration had no error (`Composed`,
  `ComposedTogether`). With that the invariants are facts about the composing functions: `AlwaysRunnable`,
  `CompanionsTogether`, `PortsAreOpen` for every spec; `MountsAlwaysHaveVolumes` for specs in which users'
  mounts name volumes (`UsersMountVolumes`); `LogsStayApart` and `SocketsAreServed` for specs that leave the
  directories of logs and sockets alone (`UsersKeepDirs`). The API server or the operator checks neither, so a
  spec that breaks them breaks the property; the specs of the run satisfy both, which `MCDriverPods` assumes
  (`UsersAssumption`) and TLC checks.
- **RunConcurrently_proofs**: for any number of functions `TypeCorrect` (the WaitGroup's counter never gets
  negative), `ClosedAfterLastSend` (`Spec => []NoSendOnClosed`) and `ImplementsFanOut` (initial states and
  steps of RunConcurrently are those of FanOut, or stutter). `NoSendOnClosed` is not inductive: the close goes
  by the counter. `IInv` says that the counter is the number of goroutines started and not done (`Counted`),
  that functions are started in order (`InOrder`), that the closer starts when all are and closes at zero
  (`Closing`), and that what was received is what was sent (`Sent`), which the refinement mapping needs.

Only model-checked, as liveness under fairness is outside the prover's reach: `Converges` of the three
controllers that have it, `EventuallyAgrees`, `Follows`, and the fairness of FanOut in `FansOut`. The
properties of the runs that expect a violation are false and stay with TLC.

## Not modelled

`cmd/main.go`: wiring of the manager, flags, certificates and leader election, no state of its own; one active
instance with one worker for each controller is assumed, as it sets them up. Generated code, charts and
manifests. In the Driver controller affinity, labels, selectors, resources, security contexts, update
strategies of the DaemonSets, extra arguments, leader election settings and timeouts: values copied from the
spec into one place, with nothing that depends on them. The log level in OperatorConfig. Two drivers on one
node: the CSI-Addons ports of an nvmeof and an rbd driver on a host network are the same.

## Plan

Done: the survey, the four controllers, the composition of the Driver's objects with its arguments, images and
replicas, the shared ConfigMap and the fan-out as abstract specifications with refinements, the findings, and
theorems for every safety property of the passing runs. Next:

1. The conditions under which the properties of the violation runs do hold, as theorems: `OwnersAlive` when no
   profile is deleted before it has its finalizer, `ClaimKept` with Drivers of one name in one namespace only.
2. What CsiConfigMap itself guarantees to an owner over many steps, so that it can be used without the
   controllers' modules.
