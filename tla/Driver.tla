-------------------------------- MODULE Driver --------------------------------
(***************************************************************************)
(* The Driver controller, for the Driver resources of one name in several  *)
(* namespaces.  All of them ask for the same cluster-wide CSIDriver        *)
(* object; the annotation on it says whose it is.  One worker loads the    *)
(* desired state step by step and then runs the reconcilers of the         *)
(* driver's objects concurrently (utils.RunConcurrently), each of which    *)
(* reads its object from the cache and writes it.                          *)
(*                                                                         *)
(* Owned stands for the objects a Driver controls in its namespace (the    *)
(* Deployment, the DaemonSets and the NetworkPolicies, whose reconcilers   *)
(* have the same shape and whose edits a watch reports); what a desired    *)
(* object says is the effective spec it was composed from (DriverPods.tla  *)
(* is about that).  The ConfigMap ceph-csi-config of the namespace is not  *)
(* a Driver's own: it adds its owner reference to what others keep in it.  *)
(***************************************************************************)
EXTENDS VersionLog

CONSTANTS
    Namespaces,   \* the namespaces with a Driver of the name
    Owned,        \* the objects a Driver controls
    Optional,     \* those that are deleted unless the spec asks for them
    Specs,        \* specs of Drivers and driver defaults of the OperatorConfig
    NoObj,        \* an object, an annotation or defaults that do not exist
    Unset,        \* a field of a spec that is not set
    Lags,         \* each: kind -> how many events its watch may be behind
    MaxUid,       \* bound: how often each Driver is created
    MaxOps,       \* bound: operations of users, and resyncs
    MaxFaults     \* bound: crashes of the operator, and client calls the API
                  \* server fails without effect

Kinds == {"driver", "opConfig", "csiDriver", "csiConfig", "owned"}
Fields == {"attach", "optional"}

ASSUME LagsAssumption == Lags \subseteq [Kinds -> Nat]
ASSUME BoundsAssumption == MaxUid \in Nat /\ MaxOps \in Nat /\ MaxFaults \in Nat
ASSUME OptionalAssumption == Optional \subseteq Owned
ASSUME SpecsAssumption == Specs \subseteq [Fields -> BOOLEAN \cup {Unset}]

VARIABLES
    driver,      \* namespace -> versions of the Driver
    opConfig,    \* versions of the driver defaults of the OperatorConfig
    csiDriver,   \* versions of the CSIDriver
    csiConfig,   \* namespace -> versions of ceph-csi-config
    owned,       \* namespace -> object -> versions
    uids,        \* namespace -> how many Drivers were created in it
    queue,       \* the workqueue: namespaces of Drivers to reconcile
    w,           \* the worker's reconcile iteration (driverReconcile)
    left         \* what remains of the bounds, and the lags of this behaviour

vars == <<driver, opConfig, csiDriver, csiConfig, owned, uids, queue, w, left>>

-----------------------------------------------------------------------------
(* Objects *)

Effective == [Fields -> BOOLEAN]
DriverObj == [uid: Nat \ {0}, spec: Specs]
\* attach is .spec.attachRequired, which the API server keeps immutable.
CsiDriverObj == [owner: Namespaces \cup {NoObj}, attach: BOOLEAN]
OwnedObj == [uid: Nat \ {0}, spec: Effective]
\* ceph-csi-config: owners has the uids in the references to Drivers of the name,
\* foreign stands for what everyone else keeps in it (0: nothing).
CsiConfigObj == [owners: SUBSET (Nat \ {0}), foreign: 0..2]

ASSUME NoObjAssumption == NoObj \notin Namespaces \cup Specs \cup DriverObj \cup CsiDriverObj \cup OwnedObj
                                  \cup CsiConfigObj

Option(S) == S \cup {NoObj}
Versions(S) == Seq(Option(S)) \ {<<>>}

\* mergeDriverSpecs: unset fields are filled in from the driver defaults.
Merge(spec, defaults) ==
    [f \in Fields |-> IF spec[f] = Unset /\ defaults # NoObj THEN defaults[f] ELSE spec[f]]

\* What the reconcilers make of a field that is still unset (Resolve).
BuiltIn == [f \in Fields |-> f = "attach"]

\* Fault: a field that is still unset is passed on.
ResolveRaw(spec) == spec

Resolve(spec) == [f \in Fields |-> IF spec[f] = Unset THEN BuiltIn[f] ELSE spec[f]]

-----------------------------------------------------------------------------
(* The worker *)

Tasks == Owned \cup {"csiDriver", "csiConfig"}
ASSUME OwnedAssumption == "csiDriver" \notin Owned /\ "csiConfig" \notin Owned
TaskSteps == {"get", "write", "delete", "create", "done"}

\* A goroutine of RunConcurrently: its next client call, the copy it read, and
\* whether that copy is still the stored version.
Task == [step: TaskSteps, copy: Option(CsiDriverObj \cup OwnedObj \cup CsiConfigObj), current: BOOLEAN]
NewTask == [step |-> "get", copy |-> NoObj, current |-> FALSE]

Worker == [pc: {"idle", "claim", "opConfig", "driver", "run"}, ns: Option(Namespaces),
           defaults: Option(Specs), uid: Nat, spec: Effective,
           task: [Tasks -> Task], err: BOOLEAN]

IdleWorker == [pc |-> "idle", ns |-> NoObj, defaults |-> NoObj, uid |-> 0, spec |-> BuiltIn,
               task |-> [t \in Tasks |-> NewTask], err |-> FALSE]

-----------------------------------------------------------------------------
(* Watches: the requests that the delivery of an event adds to the queue *)

\* enqueueFromOwnerRefAnnotation, for the old and the new object
CsiDriverRequests(old, new) == {v.owner : v \in {old, new} \ {NoObj}} \ {NoObj}

\* enqueueAllDrivers: the Drivers the cache has, when the defaults changed
OpConfigRequests == {n \in Namespaces : Cached(driver[n]) # NoObj}

PutDriver(n, v) ==
    /\ driver' = [driver EXCEPT ![n] = Put(@, left.lag["driver"], v)]
    /\ queue' = queue \cup IF Delivers(driver[n], left.lag["driver"]) THEN {n} ELSE {}

PutOpConfig(v) ==
    /\ opConfig' = Put(opConfig, left.lag["opConfig"], v)
    /\ queue' = queue \cup IF Delivers(opConfig, left.lag["opConfig"]) THEN OpConfigRequests ELSE {}

PutCsiDriver(v) ==
    LET log == Put(csiDriver, left.lag["csiDriver"], v)
    IN  /\ csiDriver' = log
        /\ queue' = queue \cup IF Delivers(csiDriver, left.lag["csiDriver"])
                               THEN CsiDriverRequests(Cached(csiDriver), Cached(log)) ELSE {}

\* Owns with EventTypePredicate and MatchEveryOwner: only a deletion passes.
CsiConfigRequests(n, old, new) == IF new = NoObj /\ old # NoObj /\ old.owners # {} THEN {n} ELSE {}

PutCsiConfig(n, v) ==
    LET log == Put(csiConfig[n], left.lag["csiConfig"], v)
    IN  /\ csiConfig' = [csiConfig EXCEPT ![n] = log]
        /\ queue' = queue \cup IF Delivers(csiConfig[n], left.lag["csiConfig"])
                               THEN CsiConfigRequests(n, Cached(csiConfig[n]), Cached(log)) ELSE {}

PutOwned(n, o, v) ==
    /\ owned' = [owned EXCEPT ![n][o] = Put(@, left.lag["owned"], v)]
    /\ queue' = queue \cup IF Delivers(owned[n][o], left.lag["owned"]) THEN {n} ELSE {}

-----------------------------------------------------------------------------
(* LoadAndValidateDesiredState *)

Abandon == w' = IdleWorker /\ queue' = queue \cup {w.ns}

cluster == <<driver, opConfig, csiDriver, csiConfig, owned, uids>>

StartReconcile(n) ==
    /\ w.pc = "idle" /\ n \in queue
    /\ queue' = queue \ {n}
    /\ w' = [IdleWorker EXCEPT !.pc = "claim", !.ns = n]
    /\ UNCHANGED <<cluster, left>>

\* A CSIDriver that is not annotated, or with another Driver's name, is an error.
CheckClaim ==
    /\ w.pc = "claim"
    /\ LET v == Cached(csiDriver)
       IN  IF v # NoObj /\ v.owner # w.ns THEN Abandon
           ELSE w' = [w EXCEPT !.pc = "opConfig"] /\ UNCHANGED queue
    /\ UNCHANGED <<cluster, left>>

LoadOperatorConfig ==
    /\ w.pc = "opConfig"
    /\ w' = [w EXCEPT !.pc = "driver", !.defaults = Cached(opConfig)]
    /\ UNCHANGED <<cluster, queue, left>>

\* A Driver that is not found is an error like any other.
LoadDriver ==
    /\ w.pc = "driver"
    /\ LET v == Cached(driver[w.ns])
       IN  IF v = NoObj THEN Abandon
           ELSE /\ w' = [w EXCEPT !.pc = "run", !.uid = v.uid,
                                  !.spec = Resolve(Merge(v.spec, w.defaults))]
                /\ UNCHANGED queue
    /\ UNCHANGED <<cluster, left>>

-----------------------------------------------------------------------------
(* RunConcurrently: any goroutine that is not done takes the next step *)

Accepted(cur) == cur /\ UNCHANGED left
Refused(cur) == \/ ~cur /\ UNCHANGED left
                \/ left.faults > 0 /\ left' = [left EXCEPT !.faults = @ - 1]

At(t, step) == w.pc = "run" /\ w.task[t].step = step

\* Fault: only the error of the goroutine that returns last is reported.
ReturnLast(t, failed) == w' = [w EXCEPT !.task[t].step = "done", !.err = failed]

\* The goroutine returns; errors.Join reports any error there was.
Return(t, failed) == w' = [w EXCEPT !.task[t].step = "done", !.err = @ \/ failed]

GoOn(t, step) == w' = [w EXCEPT !.task[t].step = step]

\* The object is not wanted: Delete it, whatever version is stored.
DeleteUnwanted(o) ==
    /\ o \in Optional /\ ~w.spec["optional"]
    /\ At(o, "get")
    /\ \/ /\ UNCHANGED left
          /\ IF Stored(owned[w.ns][o]) = NoObj THEN UNCHANGED <<owned, queue>>
             ELSE PutOwned(w.ns, o, NoObj)
          /\ Return(o, FALSE)
       \/ /\ Refused(TRUE)
          /\ Return(o, TRUE)
          /\ UNCHANGED <<owned, queue>>
    /\ UNCHANGED <<driver, opConfig, csiDriver, csiConfig, uids>>

\* CreateOrUpdate: the Get.
ReadOwned(o) ==
    /\ o \in Optional => w.spec["optional"]
    /\ At(o, "get")
    /\ w' = [w EXCEPT !.task[o] = [step |-> "write", copy |-> Cached(owned[w.ns][o]),
                                   current |-> InSync(owned[w.ns][o])]]
    /\ UNCHANGED <<cluster, queue, left>>

\* Fault: a reference to a Driver of the name is left as it is.
SetControllerReferenceOnce(copy) == IF copy = NoObj THEN w.uid ELSE copy.uid

\* SetControllerReference compares the group, kind and name of the controller and
\* not its uid: the reference to a deleted Driver of the name is overwritten.
SetControllerReference(copy) == w.uid

\* CreateOrUpdate: an object that is as desired is left alone, one that a deleted
\* Driver of the name left behind is adopted.
WriteOwned(o) ==
    /\ At(o, "write")
    /\ LET copy == w.task[o].copy
           v == [uid |-> SetControllerReference(copy), spec |-> w.spec]
           cur == IF copy = NoObj THEN Stored(owned[w.ns][o]) = NoObj ELSE w.task[o].current
       IN  \/ /\ copy = v
              /\ Return(o, FALSE)
              /\ UNCHANGED <<owned, queue, left>>
           \/ /\ copy # v
              /\ Accepted(cur)
              /\ PutOwned(w.ns, o, v)
              /\ Return(o, FALSE)
           \/ /\ copy # v
              /\ Refused(cur)
              /\ Return(o, TRUE)
              /\ UNCHANGED <<owned, queue>>
    /\ UNCHANGED <<driver, opConfig, csiDriver, csiConfig, uids>>

ReadCsiDriver ==
    /\ At("csiDriver", "get")
    /\ w' = [w EXCEPT !.task["csiDriver"] = [step |-> "write", copy |-> Cached(csiDriver),
                                             current |-> InSync(csiDriver)]]
    /\ UNCHANGED <<cluster, queue, left>>

Claim == [owner |-> w.ns, attach |-> w.spec["attach"]]

\* CreateOrUpdate of the CSIDriver.  The annotation is overwritten whatever it
\* says.  A new value of the immutable field is answered with Invalid.
WriteCsiDriver ==
    /\ At("csiDriver", "write")
    /\ LET copy == w.task["csiDriver"].copy
           cur == IF copy = NoObj THEN Stored(csiDriver) = NoObj ELSE w.task["csiDriver"].current
           invalid == copy # NoObj /\ copy.attach # Claim.attach
       IN  \/ /\ copy = Claim
              /\ Return("csiDriver", FALSE)
              /\ UNCHANGED <<csiDriver, queue, left>>
           \/ /\ copy # Claim /\ ~invalid
              /\ Accepted(cur)
              /\ PutCsiDriver(Claim)
              /\ Return("csiDriver", FALSE)
           \/ /\ invalid
              /\ Accepted(cur)
              /\ GoOn("csiDriver", "delete")
              /\ UNCHANGED <<csiDriver, queue>>
           \/ /\ copy # Claim
              /\ Refused(cur)
              /\ Return("csiDriver", TRUE)
              /\ UNCHANGED <<csiDriver, queue>>
    /\ UNCHANGED <<driver, opConfig, csiConfig, owned, uids>>

\* The Delete names no version: it hits whatever is stored by now.
DeleteCsiDriver ==
    /\ At("csiDriver", "delete")
    /\ \/ /\ Accepted(Stored(csiDriver) # NoObj)
          /\ PutCsiDriver(NoObj)
          /\ GoOn("csiDriver", "create")
       \/ /\ Refused(Stored(csiDriver) # NoObj)
          /\ Return("csiDriver", TRUE)
          /\ UNCHANGED <<csiDriver, queue>>
    /\ UNCHANGED <<driver, opConfig, csiConfig, owned, uids>>

CreateCsiDriver ==
    /\ At("csiDriver", "create")
    /\ \/ /\ Accepted(Stored(csiDriver) = NoObj)
          /\ PutCsiDriver(Claim)
          /\ Return("csiDriver", FALSE)
       \/ /\ Refused(Stored(csiDriver) = NoObj)
          /\ Return("csiDriver", TRUE)
          /\ UNCHANGED <<csiDriver, queue>>
    /\ UNCHANGED <<driver, opConfig, csiConfig, owned, uids>>

ReadCsiConfig ==
    /\ At("csiConfig", "get")
    /\ w' = [w EXCEPT !.task["csiConfig"] = [step |-> "write", copy |-> Cached(csiConfig[w.ns]),
                                             current |-> InSync(csiConfig[w.ns])]]
    /\ UNCHANGED <<cluster, queue, left>>

\* Fault: references to earlier Drivers of the name stay.
AddOwnerKeeping(owners) == owners \cup {w.uid}

\* ToggleOwnerReference: the reference to an earlier Driver of the name is overwritten.
AddOwner(owners) == {w.uid}

NewCsiConfig == [owners |-> {}, foreign |-> 0]

\* reconcileCsiConfigMap: CreateOrUpdate with the Driver's owner reference added.
WriteCsiConfig ==
    /\ At("csiConfig", "write")
    /\ LET copy == w.task["csiConfig"].copy
           v == [(IF copy = NoObj THEN NewCsiConfig ELSE copy) EXCEPT !.owners = AddOwner(@)]
           cur == IF copy = NoObj THEN Stored(csiConfig[w.ns]) = NoObj ELSE w.task["csiConfig"].current
       IN  \/ /\ copy = v
              /\ Return("csiConfig", FALSE)
              /\ UNCHANGED <<csiConfig, queue, left>>
           \/ /\ copy # v
              /\ Accepted(cur)
              /\ PutCsiConfig(w.ns, v)
              /\ Return("csiConfig", FALSE)
           \/ /\ copy # v
              /\ Refused(cur)
              /\ Return("csiConfig", TRUE)
              /\ UNCHANGED <<csiConfig, queue>>
    /\ UNCHANGED <<driver, opConfig, csiDriver, owned, uids>>

\* reconcile: the channel is closed once every goroutine returned.
FinishReconcile ==
    /\ w.pc = "run" /\ \A t \in Tasks : w.task[t].step = "done"
    /\ w' = IdleWorker
    /\ queue' = queue \cup IF w.err THEN {w.ns} ELSE {}
    /\ UNCHANGED <<cluster, left>>

ReconcileStep == CheckClaim \/ LoadOperatorConfig \/ LoadDriver
                 \/ (\E o \in Owned : DeleteUnwanted(o) \/ ReadOwned(o) \/ WriteOwned(o))
                 \/ ReadCsiDriver \/ WriteCsiDriver \/ DeleteCsiDriver \/ CreateCsiDriver
                 \/ ReadCsiConfig \/ WriteCsiConfig
                 \/ FinishReconcile

-----------------------------------------------------------------------------
(* The watches *)

DeliverDriver(n) ==
    /\ ~InSync(driver[n])
    /\ driver' = [driver EXCEPT ![n] = Tail(@)]
    /\ queue' = queue \cup {n}
    /\ UNCHANGED <<opConfig, csiDriver, csiConfig, owned, uids, w, left>>

DeliverOpConfig ==
    /\ ~InSync(opConfig)
    /\ opConfig' = Tail(opConfig)
    /\ queue' = queue \cup OpConfigRequests
    /\ UNCHANGED <<driver, csiDriver, csiConfig, owned, uids, w, left>>

DeliverCsiDriver ==
    /\ ~InSync(csiDriver)
    /\ csiDriver' = Tail(csiDriver)
    /\ queue' = queue \cup CsiDriverRequests(csiDriver[1], csiDriver[2])
    /\ UNCHANGED <<driver, opConfig, csiConfig, owned, uids, w, left>>

DeliverCsiConfig(n) ==
    /\ ~InSync(csiConfig[n])
    /\ csiConfig' = [csiConfig EXCEPT ![n] = Tail(@)]
    /\ queue' = queue \cup CsiConfigRequests(n, csiConfig[n][1], csiConfig[n][2])
    /\ UNCHANGED <<driver, opConfig, csiDriver, owned, uids, w, left>>

DeliverOwned(n, o) ==
    /\ ~InSync(owned[n][o])
    /\ owned' = [owned EXCEPT ![n][o] = Tail(@)]
    /\ queue' = queue \cup {n}
    /\ UNCHANGED <<driver, opConfig, csiDriver, csiConfig, uids, w, left>>

-----------------------------------------------------------------------------
(* Users, the garbage collector, crashes *)

Operation == left.ops > 0 /\ left' = [left EXCEPT !.ops = @ - 1]

\* Copies in the goroutines' memory are outdated by someone else's write.
Outdated(t) == w' = [w EXCEPT !.task[t].current = FALSE]
OwnedOutdated(n, o) == IF w.ns = n THEN Outdated(o) ELSE UNCHANGED w

\* A Driver is created, or its spec is edited.
ApplyDriver(n, s) ==
    /\ Operation
    /\ LET v == Stored(driver[n])
       IN  IF v = NoObj
           THEN /\ uids[n] < MaxUid
                /\ uids' = [uids EXCEPT ![n] = @ + 1]
                /\ PutDriver(n, [uid |-> uids[n] + 1, spec |-> s])
           ELSE /\ s # v.spec
                /\ PutDriver(n, [v EXCEPT !.spec = s])
                /\ UNCHANGED uids
    /\ UNCHANGED <<opConfig, csiDriver, csiConfig, owned, w>>

\* There is no finalizer on a Driver: it is gone at once.
DeleteDriver(n) ==
    /\ Operation
    /\ Stored(driver[n]) # NoObj
    /\ PutDriver(n, NoObj)
    /\ UNCHANGED <<opConfig, csiDriver, csiConfig, owned, uids, w>>

ApplyOpConfig(s) ==
    /\ Operation
    /\ s # Stored(opConfig)
    /\ PutOpConfig(s)
    /\ UNCHANGED <<driver, csiDriver, csiConfig, owned, uids, w>>

\* Someone deletes the CSIDriver, or creates one of the name without the annotation.
DisturbCsiDriver ==
    /\ Operation
    /\ PutCsiDriver(IF Stored(csiDriver) = NoObj THEN [owner |-> NoObj, attach |-> TRUE] ELSE NoObj)
    /\ Outdated("csiDriver")
    /\ UNCHANGED <<driver, opConfig, csiConfig, owned, uids>>

\* Someone deletes or edits an object of a Driver.
DisturbOwned(n, o, s) ==
    /\ Operation
    /\ LET v == Stored(owned[n][o])
       IN  /\ v # NoObj /\ v.spec # s
           /\ PutOwned(n, o, IF s = NoObj THEN NoObj ELSE [v EXCEPT !.spec = s])
    /\ OwnedOutdated(n, o)
    /\ UNCHANGED <<driver, opConfig, csiDriver, csiConfig, uids>>

CsiConfigOutdated(n) == IF w.ns = n THEN Outdated("csiConfig") ELSE UNCHANGED w

\* Another controller writes its part of ceph-csi-config, or someone deletes it.
DisturbCsiConfig(n) ==
    /\ Operation
    /\ LET v == Stored(csiConfig[n])
       IN  \/ PutCsiConfig(n, [(IF v = NoObj THEN NewCsiConfig ELSE v) EXCEPT
                                 !.foreign = IF @ = 1 THEN 2 ELSE 1])
           \/ v # NoObj /\ PutCsiConfig(n, NoObj)
    /\ CsiConfigOutdated(n)
    /\ UNCHANGED <<driver, opConfig, csiDriver, owned, uids>>

\* The reference to a Driver that is gone is dropped, with the object when it was
\* the last one.
CollectCsiConfig(n) ==
    /\ LET v == Stored(csiConfig[n])
           d == Stored(driver[n])
           gone == {u \in v.owners : d = NoObj \/ d.uid # u}
       IN  /\ v # NoObj /\ gone # {}
           /\ PutCsiConfig(n, IF v.foreign = 0 /\ gone = v.owners THEN NoObj
                              ELSE [v EXCEPT !.owners = @ \ gone])
    /\ CsiConfigOutdated(n)
    /\ UNCHANGED <<driver, opConfig, csiDriver, owned, uids, left>>

\* The garbage collector deletes what a deleted Driver controlled; the CSIDriver
\* is not among it.
CollectOwned(n, o) ==
    /\ LET v == Stored(owned[n][o])
           d == Stored(driver[n])
       IN  /\ v # NoObj
           /\ d # NoObj => d.uid # v.uid
    /\ PutOwned(n, o, NoObj)
    /\ OwnedOutdated(n, o)
    /\ UNCHANGED <<driver, opConfig, csiDriver, csiConfig, uids, left>>

\* The informers' periodic resync: an update event without a change.  No predicate
\* filters the events of Drivers and CSIDrivers.
Resync(n) ==
    /\ Operation
    /\ Cached(driver[n]) # NoObj \/ n \in CsiDriverRequests(NoObj, Cached(csiDriver))
    /\ queue' = queue \cup {n}
    /\ UNCHANGED <<cluster, w>>

\* The operator starts anew: everything listed is a create event.
Restart ==
    /\ left.faults > 0 /\ left' = [left EXCEPT !.faults = @ - 1]
    /\ w' = IdleWorker
    /\ driver' = [n \in Namespaces |-> Relist(driver[n])]
    /\ opConfig' = Relist(opConfig)
    /\ csiDriver' = Relist(csiDriver)
    /\ csiConfig' = [n \in Namespaces |-> Relist(csiConfig[n])]
    /\ owned' = [n \in Namespaces |-> [o \in Owned |-> Relist(owned[n][o])]]
    /\ queue' = {n \in Namespaces :
                   \/ Stored(driver[n]) # NoObj
                   \/ \E o \in Owned : Stored(owned[n][o]) # NoObj
                   \/ Stored(csiDriver) # NoObj /\ Stored(csiDriver).owner = n}
    /\ UNCHANGED uids

-----------------------------------------------------------------------------
(* The specification *)

Init ==
    /\ driver = [n \in Namespaces |-> <<NoObj>>]
    /\ opConfig = <<NoObj>>
    /\ csiDriver = <<NoObj>>
    /\ csiConfig = [n \in Namespaces |-> <<NoObj>>]
    /\ owned = [n \in Namespaces |-> [o \in Owned |-> <<NoObj>>]]
    /\ uids = [n \in Namespaces |-> 0]
    /\ queue = {}
    /\ w = IdleWorker
    /\ left \in [ops: {MaxOps}, faults: {MaxFaults}, lag: Lags]

Watch ==
    \/ \E n \in Namespaces : DeliverDriver(n) \/ DeliverCsiConfig(n)
    \/ DeliverOpConfig \/ DeliverCsiDriver
    \/ \E n \in Namespaces, o \in Owned : DeliverOwned(n, o)

Environment ==
    \/ \E n \in Namespaces, s \in Specs : ApplyDriver(n, s)
    \/ \E n \in Namespaces : DeleteDriver(n) \/ Resync(n)
    \/ \E n \in Namespaces : DisturbCsiConfig(n) \/ CollectCsiConfig(n)
    \/ \E s \in Option(Specs) : ApplyOpConfig(s)
    \/ DisturbCsiDriver
    \/ \E n \in Namespaces, o \in Owned : CollectOwned(n, o)
    \/ \E n \in Namespaces, o \in Owned, s \in Option({Resolve(x) : x \in Specs}) : DisturbOwned(n, o, s)
    \/ Restart

Next ==
    \/ \E n \in Namespaces : StartReconcile(n)
    \/ ReconcileStep
    \/ Watch
    \/ Environment

Spec == Init /\ [][Next]_vars

\* The watches deliver, the goroutines go on, the workqueue is first in, first out
\* and the garbage collector gets to what it has to delete.
Fairness ==
    /\ WF_vars(ReconcileStep)
    /\ \A n \in Namespaces : SF_vars(StartReconcile(n)) /\ WF_vars(DeliverDriver(n))
    /\ \A n \in Namespaces : WF_vars(DeliverCsiConfig(n))
    /\ WF_vars(DeliverOpConfig) /\ WF_vars(DeliverCsiDriver)
    /\ \A n \in Namespaces, o \in Owned : WF_vars(DeliverOwned(n, o)) /\ WF_vars(CollectOwned(n, o))

FairSpec == Spec /\ Fairness

-----------------------------------------------------------------------------
(* Properties *)

\* Every variable holds what the code's types allow.
TypeOK ==
    /\ driver \in [Namespaces -> Versions(DriverObj)]
    /\ opConfig \in Versions(Specs)
    /\ csiDriver \in Versions(CsiDriverObj)
    /\ csiConfig \in [Namespaces -> Versions(CsiConfigObj)]
    /\ owned \in [Namespaces -> [Owned -> Versions(OwnedObj)]]
    /\ uids \in [Namespaces -> Nat]
    /\ queue \in SUBSET Namespaces
    /\ w \in Worker
    /\ left \in [ops: Nat, faults: Nat, lag: Lags]

\* A CSIDriver annotated for the Driver of one namespace is never re-annotated for
\* that of another (LoadAndValidateDesiredState, reconcileK8sCsiDriver).
ClaimKept ==
    [][ LET old == Stored(csiDriver)
            new == Stored(csiDriver')
        IN  (old # NoObj /\ new # NoObj) => old.owner = NoObj \/ new.owner = old.owner
      ]_vars

\* The Drivers that the owner references of a stored object name.
Owners(n, o) == IF Stored(owned[n][o]) = NoObj THEN {} ELSE {Stored(owned[n][o]).uid}
ConfigOwners(n) == IF Stored(csiConfig[n]) = NoObj THEN {} ELSE Stored(csiConfig[n]).owners

\* A Driver that is deleted and created again takes over what its predecessor left
\* behind, and never the other way round: no iteration finds an object that a later
\* Driver than the one it loaded has already, so none hands it back to a Driver
\* that is gone, for the garbage collector to delete; and a goroutine that returns
\* without an error leaves no reference to a predecessor, although it, the garbage
\* collector and users write the object at the same time and the copies of the
\* Driver and of the object may be outdated (SetControllerReference and
\* CreateOrUpdate in the reconcilers, ToggleOwnerReference in reconcileCsiConfigMap).
SuccessorsTakeOver ==
    w.pc = "run" =>
        /\ \A o \in Owned : \A u \in Owners(w.ns, o) :
              u <= w.uid /\ (w.task[o].step = "done" /\ ~w.err => u = w.uid)
        /\ \A u \in ConfigOwners(w.ns) :
              u <= w.uid /\ (w.task["csiConfig"].step = "done" /\ ~w.err => u = w.uid)

\* ceph-csi-config of a namespace as its writers share it (CsiConfigMap.tla): the
\* Driver has a reference in it and no part.
SharedObj(n) == [part: [none: {{}}, others: 0..2], refs: [{n, NoObj} -> SUBSET (Nat \ {0})]]
ASSUME SharedAssumption == \A n \in Namespaces : NoObj \notin SharedObj(n)

SharedConfigMap(n) ==
    LET v == Stored(csiConfig[n])
    IN  IF v = NoObj THEN NoObj
        ELSE [part |-> [none |-> {}, others |-> v.foreign],
              refs |-> [x \in {n, NoObj} |-> IF x = n THEN v.owners ELSE {}]]

Shared(n) == INSTANCE CsiConfigMap WITH
                 PartOf <- [x \in {n, NoObj} |-> IF x = n THEN "none" ELSE "others"],
                 NoPart <- [none |-> {}, others |-> 0],
                 Others <- NoObj,
                 cm <- SharedConfigMap(n),
                 turn <- w.ns

\* The controller implements the shared ConfigMap of every namespace: it adds or
\* replaces its own reference and loses nothing the other controllers wrote since
\* its copy was read (CreateOrUpdate of reconcileCsiConfigMap).
SharesConfigMap ==
    (\A n \in Namespaces : Shared(n)!Init) /\ [][\A n \in Namespaces : Shared(n)!Step]_vars

desired(n) == Resolve(Merge(Stored(driver[n]).spec, Stored(opConfig)))

\* The Driver that holds the claim has the objects its spec, the driver defaults
\* and the built-in defaults ask for, and no others; a name nobody uses is claimed.
InPlace(n) ==
    Stored(driver[n]) # NoObj =>
        /\ Stored(csiDriver) # NoObj
        /\ Stored(csiDriver).owner = n =>
              /\ Stored(csiConfig[n]) # NoObj /\ Stored(csiConfig[n]).owners = {Stored(driver[n]).uid}
              /\ Stored(csiDriver).attach = desired(n)["attach"]
              /\ \A o \in Owned :
                    Stored(owned[n][o]) =
                        IF o \in Optional /\ ~desired(n)["optional"] THEN NoObj
                        ELSE [uid |-> Stored(driver[n]).uid, spec |-> desired(n)]

\* Once users and faults leave the cluster alone every Driver gets in place for
\* good: no change of a spec, of the defaults or of an object during an iteration
\* and no error of one goroutine among others is lost (reconcile, SetupWithManager).
Converges == \A n \in Namespaces : <>[]InPlace(n)
=============================================================================
