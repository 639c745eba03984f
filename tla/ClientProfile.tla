---------------------------- MODULE ClientProfile ----------------------------
(***************************************************************************)
(* The ClientProfile controller: one worker that reconciles one            *)
(* ClientProfile at a time against its CephConnection, the                 *)
(* ClientProfileReplications that name it and the ceph-csi-config          *)
(* ConfigMap.  Every step of the worker is one call of the Kubernetes      *)
(* client; between two steps users, the other controllers, the garbage     *)
(* collector, the watches and a crash of the operator may act.             *)
(***************************************************************************)
EXTENDS VersionLog, FiniteSets

CONSTANTS
    Profiles,       \* names of ClientProfiles; also the cluster IDs in config.json
    Conns,          \* names of CephConnections
    Replications,   \* names of ClientProfileReplications
    Specs,          \* what a ClientProfile's spec contributes to its record
    Monitors,       \* what a CephConnection's spec contributes to a record
    Dests,          \* what a ClientProfileReplication's spec contributes
    NoObj,          \* a resource (or a key of the ConfigMap) that does not exist
    Lag,            \* kind -> how many events its watch may be behind
    MaxUid,         \* bound: how often each ClientProfile name is created
    MaxOps,         \* bound: operations of users and other controllers, and resyncs
    MaxCrashes,     \* bound: crashes of the operator
    MaxFaults       \* bound: client calls the API server fails without effect

Kinds == {"profile", "conn", "replication", "configMap"}

ASSUME LagAssumption == Lag \in [Kinds -> Nat]
ASSUME BoundsAssumption == MaxUid \in Nat /\ MaxOps \in Nat /\ MaxCrashes \in Nat /\ MaxFaults \in Nat

VARIABLES
    profile,      \* name -> versions of the ClientProfile
    cephConn,     \* name -> versions of the CephConnection
    replication,  \* name -> versions of the ClientProfileReplication
    configMap,    \* versions of ceph-csi-config
    uids,         \* name -> how many ClientProfiles of that name were created
    queue,        \* the workqueue: names of profiles to reconcile
    w,            \* the worker's reconcile iteration (ClientProfileReconcile)
    left          \* what remains of the bounds

vars == <<profile, cephConn, replication, configMap, uids, queue, w, left>>

-----------------------------------------------------------------------------
(* Objects *)

Phases == {"None", "Pending", "Ready", "Failed"}
Uid == Profiles \X (Nat \ {0})

ProfileObj == [uid: Nat \ {0}, deleting: BOOLEAN, finalizer: BOOLEAN,
               conn: Conns, spec: Specs, phase: Phases]
ConnObj == [monitors: Monitors, owners: SUBSET Uid]
ReplicationObj == [local: Profiles, dest: Dests, ready: BOOLEAN]
\* csiClusterInfoRecord: what the properties tell apart of a cluster's entry.
ClusterInfo == [id: Profiles, spec: Specs, monitors: Monitors, dest: Dests \cup {NoObj}]
\* ceph-csi-config: config is the list under config.json, foreign stands for
\* what the Driver and ClientProfileMapping controllers keep in it (0: nothing).
ConfigMapObj == [owners: SUBSET Uid, config: Seq(ClusterInfo) \cup {NoObj}, foreign: 0..2]

\* NoObj is none of these.
ASSUME NoObjAssumption ==
    /\ NoObj \notin Profiles \cup Dests
    /\ NoObj \notin ProfileObj \cup ConnObj \cup ReplicationObj \cup ConfigMapObj
    /\ NoObj \notin Seq(ClusterInfo)

Option(S) == S \cup {NoObj}
Versions(S) == Seq(Option(S)) \ {<<>>}

\* Fault: a reference once added is never taken off.
ToggleOwnerReferenceSticky(on, owners, u) == owners \cup {u}

\* utils.ToggleOwnerReference, on the owner references of an object.  A reference
\* to an earlier object of the name is overwritten.
ToggleOwnerReference(on, owners, u) ==
    IF on THEN {o \in owners : o[1] # u[1]} \cup {u} ELSE owners \ {u}

\* The names in the owner references of a version, for EnqueueRequestForOwner.
OwnerNames(v) == IF v = NoObj THEN {} ELSE {u[1] : u \in v.owners}

\* Fault: only replications in phase Ready are looked for.
ListReadyReplications(p) == {r \in Replications : /\ Cached(replication[r]) # NoObj
                                                  /\ Cached(replication[r]).local = p
                                                  /\ Cached(replication[r]).ready}

\* List by the field index .spec.localClientProfile, as the cache has it.
ListReplications(p) == {r \in Replications : /\ Cached(replication[r]) # NoObj
                                             /\ Cached(replication[r]).local = p}

-----------------------------------------------------------------------------
(* The worker *)

Steps == {"idle", "getProfile", "getConn", "addOwner", "listReady", "finalizer", "conn",
          "replication", "readConfigMap", "writeConfigMap", "release", "status"}

\* prof, conn and cm are the objects in the worker's memory; profCur, connCur
\* and cmCur say that their resourceVersion is still the stored one.
Worker == [pc: Steps, name: Option(Profiles),
           prof: Option(ProfileObj), profCur: BOOLEAN,
           conn: Option(ConnObj), connCur: BOOLEAN,
           dest: Option(Dests),
           cm: Option(ConfigMapObj), cmCur: BOOLEAN,
           phase: Phases, err: BOOLEAN]

IdleWorker == [pc |-> "idle", name |-> NoObj, prof |-> NoObj, profCur |-> FALSE,
               conn |-> NoObj, connCur |-> FALSE, dest |-> NoObj,
               cm |-> NoObj, cmCur |-> FALSE, phase |-> "None", err |-> FALSE]

cleanUp == w.prof.deleting
me == <<w.name, w.prof.uid>>

-----------------------------------------------------------------------------
(* Watches: the requests that the delivery of an event adds to the queue *)

\* CephConnection: owned by every profile it refers to, updates filtered by
\* GenerationChangedPredicate (only a spec change passes).
ConnRequests(old, new) ==
    IF old # NoObj /\ new # NoObj /\ old.monitors = new.monitors
    THEN {} ELSE OwnerNames(old) \cup OwnerNames(new)

\* Fault: the predicate drops delete events too.
ConfigMapRequestsDropped(old, new) == IF old = NoObj THEN OwnerNames(new) ELSE {}

\* ConfigMap: the same, but a ConfigMap has no generation: no update passes.
ConfigMapRequests(old, new) ==
    IF old # NoObj /\ new # NoObj
    THEN {} ELSE OwnerNames(old) \cup OwnerNames(new)

\* ClientProfileReplication: created, updated or deleted, the profile it names.
ReplicationRequests(old, new) == {v.local : v \in {old, new} \ {NoObj}}

PutProfile(p, v) == profile' = [profile EXCEPT ![p] = Put(@, Lag["profile"], v)]
ProfileEvents(p) == IF Delivers(profile[p], Lag["profile"]) THEN {p} ELSE {}

PutConn(c, v) ==
    LET log == Put(cephConn[c], Lag["conn"], v)
    IN  /\ cephConn' = [cephConn EXCEPT ![c] = log]
        /\ queue' = queue \cup IF Delivers(cephConn[c], Lag["conn"])
                               THEN ConnRequests(Cached(cephConn[c]), Cached(log)) ELSE {}

PutConfigMap(v) ==
    LET log == Put(configMap, Lag["configMap"], v)
    IN  /\ configMap' = log
        /\ queue' = queue \cup IF Delivers(configMap, Lag["configMap"])
                               THEN ConfigMapRequests(Cached(configMap), Cached(log)) ELSE {}

PutReplication(r, v) ==
    LET log == Put(replication[r], Lag["replication"], v)
    IN  /\ replication' = [replication EXCEPT ![r] = log]
        /\ queue' = queue \cup IF Delivers(replication[r], Lag["replication"])
                               THEN ReplicationRequests(Cached(replication[r]), Cached(log)) ELSE {}

-----------------------------------------------------------------------------
(* config.json *)

\* Fault: the entry is named after the CephConnection.
ComposeRecordByConn(p, prof, conn, dest) ==
    [id |-> prof.conn, spec |-> prof.spec, monitors |-> conn.monitors, dest |-> dest]

\* composeCsiClusterInfoRecord
ComposeRecord(p, prof, conn, dest) ==
    [id |-> p, spec |-> prof.spec, monitors |-> conn.monitors, dest |-> dest]

Unique(list) == \A i, j \in 1..Len(list) : list[i].id = list[j].id => i = j

Holds(list, p) == \E i \in 1..Len(list) : list[i].id = p

\* slices.IndexFunc: the first entry of the profile
IndexOf(list, p) == CHOOSE i \in 1..Len(list) :
                        /\ list[i].id = p
                        /\ \A j \in 1..(i - 1) : list[j].id # p

\* Fault: the entry is appended without looking for an older one.
UpsertAppend(list, record) == Append(list, record)

Upsert(list, record) ==
    IF Holds(list, record.id) THEN [list EXCEPT ![IndexOf(list, record.id)] = record]
                              ELSE Append(list, record)

\* "An O(1) unordered in-place delete of a record"
SwapRemove(list, p) ==
    IF Holds(list, p)
    THEN SubSeq([list EXCEPT ![IndexOf(list, p)] = list[Len(list)]], 1, Len(list) - 1)
    ELSE list

EmptyConfigMap == [owners |-> {}, config |-> NoObj, foreign |-> 0]

\* The mutate function reconcileCephCsiClusterInfo gives to CreateOrUpdate.
MutateConfigMap(cm) ==
    LET list == IF cm.config = NoObj THEN <<>> ELSE cm.config
    IN  [cm EXCEPT !.owners = ToggleOwnerReference(~cleanUp, @, me),
                   !.config = IF cleanUp
                              THEN SwapRemove(list, w.name)
                              ELSE Upsert(list, ComposeRecord(w.name, w.prof, w.conn, w.dest))]

-----------------------------------------------------------------------------
(* Outcomes of a step of the worker *)

\* Fault: the write is unconditional.
AcceptedBlindly(cur) == UNCHANGED left

\* A call of the client that changes an object: it is accepted when the copy
\* it was made from is the stored version, else it is a conflict (or the object
\* is gone); it may also fail for a reason of its own.
Accepted(cur) == cur /\ UNCHANGED left
Refused(cur) == \/ ~cur /\ UNCHANGED left
                \/ left.faults > 0 /\ left' = [left EXCEPT !.faults = @ - 1]

GoTo(pc) == w' = [w EXCEPT !.pc = pc]

\* loadAndValidate failed: no status update, the request is retried.
AbandonLoad == w' = IdleWorker /\ queue' = queue \cup {w.name}

\* reconcilePhases failed: the status is still updated.
FailPhase(phase) == w' = [w EXCEPT !.pc = "status", !.phase = phase, !.err = TRUE]

cluster == <<profile, cephConn, replication, configMap, uids>>

-----------------------------------------------------------------------------
(* One reconcile iteration *)

\* The workqueue hands a request to the worker.
StartReconcile(p) ==
    /\ w.pc = "idle" /\ p \in queue
    /\ queue' = queue \ {p}
    /\ w' = [IdleWorker EXCEPT !.pc = "getProfile", !.name = p]
    /\ UNCHANGED <<cluster, left>>

\* loadAndValidate: Get the ClientProfile; NotFound is an error like any other.
\* The check of an empty reference cannot fail: the CRD's validation refuses one.
LoadClientProfile ==
    /\ w.pc = "getProfile"
    /\ LET v == Cached(profile[w.name])
       IN  IF v = NoObj
           THEN AbandonLoad
           ELSE /\ w' = [w EXCEPT !.pc = "getConn", !.prof = v,
                                  !.profCur = InSync(profile[w.name])]
                /\ UNCHANGED queue
    /\ UNCHANGED <<cluster, left>>

\* loadAndValidate: Get the CephConnection the profile refers to.
LoadCephConnection ==
    /\ w.pc = "getConn"
    /\ LET v == Cached(cephConn[w.prof.conn])
       IN  IF v = NoObj
           THEN AbandonLoad
           ELSE /\ w' = [w EXCEPT !.pc = IF me \in v.owners THEN "listReady" ELSE "addOwner",
                                  !.conn = v, !.connCur = InSync(cephConn[w.prof.conn])]
                /\ UNCHANGED queue
    /\ UNCHANGED <<cluster, left>>

\* loadAndValidate: the CephConnection lacks the owner reference, cleanUp or not.
AddConnOwner ==
    /\ w.pc = "addOwner"
    /\ \/ LET v == [w.conn EXCEPT !.owners = ToggleOwnerReference(TRUE, @, me)]
          IN  /\ Accepted(w.connCur)
              /\ PutConn(w.prof.conn, v)
              /\ w' = [w EXCEPT !.pc = "listReady", !.conn = v]
              /\ UNCHANGED <<profile, replication, configMap, uids>>
       \/ /\ Refused(w.connCur)
          /\ AbandonLoad
          /\ UNCHANGED cluster

\* loadAndValidate: at most one Ready ClientProfileReplication names the profile.
LoadReplication ==
    /\ w.pc = "listReady"
    /\ LET ready == {r \in ListReplications(w.name) : Cached(replication[r]).ready}
       IN  IF Cardinality(ready) > 1
           THEN AbandonLoad
           ELSE /\ w' = [w EXCEPT !.pc = "finalizer", !.phase = "Pending",
                                  !.dest = IF ready = {} THEN NoObj
                                           ELSE Cached(replication[CHOOSE r \in ready : TRUE]).dest]
                /\ UNCHANGED queue
    /\ UNCHANGED <<cluster, left>>

\* Fault: the profile goes on without a finalizer.
EnsureFinalizerSkipped ==
    /\ w.pc = "finalizer"
    /\ GoTo("conn")
    /\ UNCHANGED <<cluster, queue, left>>

\* reconcilePhases: the finalizer is on the profile before anything of it is in
\* the ConfigMap.
EnsureFinalizer ==
    /\ w.pc = "finalizer"
    /\ \/ /\ cleanUp \/ w.prof.finalizer
          /\ GoTo("conn")
          /\ UNCHANGED <<cluster, queue, left>>
       \/ /\ ~cleanUp /\ ~w.prof.finalizer
          /\ \/ LET v == [w.prof EXCEPT !.finalizer = TRUE]
                IN  /\ Accepted(w.profCur)
                    /\ PutProfile(w.name, v)
                    /\ queue' = queue \cup ProfileEvents(w.name)
                    /\ w' = [w EXCEPT !.pc = "conn", !.prof = v]
                    /\ UNCHANGED <<cephConn, replication, configMap, uids>>
             \/ /\ Refused(w.profCur)
                /\ FailPhase("Pending")
                /\ UNCHANGED <<cluster, queue>>

\* reconcileCephConnection: ToggleOwnerReference(!cleanUp) and Update if it changed.
ReconcileCephConnection ==
    /\ w.pc = "conn"
    /\ LET v == [w.conn EXCEPT !.owners = ToggleOwnerReference(~cleanUp, @, me)]
       IN  \/ /\ v = w.conn
              /\ GoTo("replication")
              /\ UNCHANGED <<cluster, queue, left>>
           \/ /\ v # w.conn
              /\ Accepted(w.connCur)
              /\ PutConn(w.prof.conn, v)
              /\ w' = [w EXCEPT !.pc = "replication", !.conn = v]
              /\ UNCHANGED <<profile, replication, configMap, uids>>
           \/ /\ v # w.conn
              /\ Refused(w.connCur)
              /\ FailPhase("Failed")
              /\ UNCHANGED <<cluster, queue>>

\* reconcileClientProfileReplication.  The owner reference is put on the copy of
\* the replication, but the object updated is the CephConnection, unchanged: the
\* copy read next time lacks the reference again, so the toggle asks for the
\* update whenever the profile is kept and never when it is cleaned up.
ReconcileReplication ==
    /\ w.pc = "replication"
    /\ \/ /\ cleanUp
          /\ IF ListReplications(w.name) = {} THEN GoTo("readConfigMap") ELSE FailPhase("Failed")
          /\ UNCHANGED left
       \/ /\ ~cleanUp /\ w.dest = NoObj
          /\ GoTo("readConfigMap")
          /\ UNCHANGED left
       \/ /\ ~cleanUp /\ w.dest # NoObj
          /\ \/ Accepted(w.connCur) /\ GoTo("readConfigMap")
             \/ Refused(w.connCur) /\ FailPhase("Failed")
    /\ UNCHANGED <<cluster, queue>>

\* reconcileCephCsiClusterInfo: the Get of CreateOrUpdate, under the lock.
ReadConfigMap ==
    /\ w.pc = "readConfigMap"
    /\ w' = [w EXCEPT !.pc = "writeConfigMap", !.cm = Cached(configMap), !.cmCur = InSync(configMap)]
    /\ UNCHANGED <<cluster, queue, left>>

\* CreateOrUpdate: no call is made when the mutated copy equals the copy read.
WriteConfigMap ==
    /\ w.pc = "writeConfigMap"
    /\ LET absent == w.cm = NoObj
           v == MutateConfigMap(IF absent THEN EmptyConfigMap ELSE w.cm)
           cur == IF absent THEN Stored(configMap) = NoObj ELSE w.cmCur
       IN  \/ /\ v = w.cm
              /\ GoTo("release")
              /\ UNCHANGED <<cluster, queue, left>>
           \/ /\ v # w.cm
              /\ Accepted(cur)
              /\ PutConfigMap(v)
              /\ GoTo("release")
              /\ UNCHANGED <<profile, cephConn, replication, uids>>
           \/ /\ v # w.cm
              /\ Refused(cur)
              /\ FailPhase("Failed")
              /\ UNCHANGED <<cluster, queue>>

\* reconcilePhases: after the clean up the finalizer is removed, and with it the
\* object; a profile that stays is Ready.
ReleaseFinalizer ==
    /\ w.pc = "release"
    /\ \/ /\ ~cleanUp
          /\ w' = [w EXCEPT !.pc = "status", !.phase = "Ready"]
          /\ UNCHANGED <<cluster, queue, left>>
       \/ /\ cleanUp
          /\ Accepted(w.profCur)
          /\ PutProfile(w.name, NoObj)
          /\ queue' = queue \cup ProfileEvents(w.name)
          /\ w' = [w EXCEPT !.pc = "status", !.profCur = FALSE]
          /\ UNCHANGED <<cephConn, replication, configMap, uids>>
       \/ /\ cleanUp
          /\ Refused(w.profCur)
          /\ FailPhase("Failed")
          /\ UNCHANGED <<cluster, queue>>

\* reconcile: the status is updated whatever reconcilePhases returned.  A status
\* that does not change makes no new version.  An error of either requeues.
UpdateStatus ==
    /\ w.pc = "status"
    /\ w' = IdleWorker
    /\ LET retry == IF w.err THEN {w.name} ELSE {}
           v == [w.prof EXCEPT !.phase = w.phase]
       IN  \/ /\ Accepted(w.profCur)
              /\ v = w.prof
              /\ queue' = queue \cup retry
              /\ UNCHANGED cluster
           \/ /\ Accepted(w.profCur)
              /\ v # w.prof
              /\ PutProfile(w.name, v)
              /\ queue' = queue \cup retry \cup ProfileEvents(w.name)
              /\ UNCHANGED <<cephConn, replication, configMap, uids>>
           \/ /\ Refused(w.profCur)
              /\ queue' = queue \cup {w.name}
              /\ UNCHANGED cluster

ReconcileStep == LoadClientProfile \/ LoadCephConnection \/ AddConnOwner \/ LoadReplication
                 \/ EnsureFinalizer \/ ReconcileCephConnection \/ ReconcileReplication
                 \/ ReadConfigMap \/ WriteConfigMap \/ ReleaseFinalizer \/ UpdateStatus

-----------------------------------------------------------------------------
(* The watches *)

DeliverProfile(p) ==
    /\ ~InSync(profile[p])
    /\ profile' = [profile EXCEPT ![p] = Tail(@)]
    /\ queue' = queue \cup {p}
    /\ UNCHANGED <<cephConn, replication, configMap, uids, w, left>>

DeliverConn(c) ==
    /\ ~InSync(cephConn[c])
    /\ cephConn' = [cephConn EXCEPT ![c] = Tail(@)]
    /\ queue' = queue \cup ConnRequests(cephConn[c][1], cephConn[c][2])
    /\ UNCHANGED <<profile, replication, configMap, uids, w, left>>

DeliverReplication(r) ==
    /\ ~InSync(replication[r])
    /\ replication' = [replication EXCEPT ![r] = Tail(@)]
    /\ queue' = queue \cup ReplicationRequests(replication[r][1], replication[r][2])
    /\ UNCHANGED <<profile, cephConn, configMap, uids, w, left>>

DeliverConfigMap ==
    /\ ~InSync(configMap)
    /\ configMap' = Tail(configMap)
    /\ queue' = queue \cup ConfigMapRequests(configMap[1], configMap[2])
    /\ UNCHANGED <<profile, cephConn, replication, uids, w, left>>

-----------------------------------------------------------------------------
(* The environment: users, the other controllers, the garbage collector *)

Operation == left.ops > 0 /\ left' = [left EXCEPT !.ops = @ - 1]

\* A copy in the worker's memory is outdated by someone else's write.
ProfileOutdated(p) == w' = [w EXCEPT !.profCur = @ /\ w.name # p]
ConnOutdated(c) == w' = [w EXCEPT !.connCur = @ /\ w.prof.conn # c]
ConfigMapOutdated == w' = [w EXCEPT !.cmCur = FALSE]

CreateProfile(p, c, s) ==
    /\ Operation
    /\ Stored(profile[p]) = NoObj /\ uids[p] < MaxUid
    /\ uids' = [uids EXCEPT ![p] = @ + 1]
    /\ PutProfile(p, [uid |-> uids[p] + 1, deleting |-> FALSE, finalizer |-> FALSE,
                      conn |-> c, spec |-> s, phase |-> "None"])
    /\ queue' = queue \cup ProfileEvents(p)
    /\ ProfileOutdated(p)
    /\ UNCHANGED <<cephConn, replication, configMap>>

\* kubectl delete: a profile without the finalizer is gone at once.
DeleteProfile(p) ==
    /\ Operation
    /\ Stored(profile[p]) # NoObj /\ ~Stored(profile[p]).deleting
    /\ PutProfile(p, IF Stored(profile[p]).finalizer
                     THEN [Stored(profile[p]) EXCEPT !.deleting = TRUE] ELSE NoObj)
    /\ queue' = queue \cup ProfileEvents(p)
    /\ ProfileOutdated(p)
    /\ UNCHANGED <<cephConn, replication, configMap, uids>>

\* .spec.cephConnectionRef is not immutable.
EditProfile(p, c, s) ==
    /\ Operation
    /\ Stored(profile[p]) # NoObj
    /\ LET v == [Stored(profile[p]) EXCEPT !.conn = c, !.spec = s]
       IN  v # Stored(profile[p]) /\ PutProfile(p, v)
    /\ queue' = queue \cup ProfileEvents(p)
    /\ ProfileOutdated(p)
    /\ UNCHANGED <<cephConn, replication, configMap, uids>>

\* A CephConnection is created, or its spec is edited.
ApplyConn(c, m) ==
    /\ Operation
    /\ LET v == Stored(cephConn[c])
       IN  IF v = NoObj THEN PutConn(c, [monitors |-> m, owners |-> {}])
                        ELSE m # v.monitors /\ PutConn(c, [v EXCEPT !.monitors = m])
    /\ ConnOutdated(c)
    /\ UNCHANGED <<profile, replication, configMap, uids>>

DeleteConn(c) ==
    /\ Operation
    /\ Stored(cephConn[c]) # NoObj
    /\ PutConn(c, NoObj)
    /\ ConnOutdated(c)
    /\ UNCHANGED <<profile, replication, configMap, uids>>

\* A replication is created or edited, or its controller changes its status
\* (ClientProfileReplication.tla is about when it does).
ApplyReplication(r, p, d, ready) ==
    /\ Operation
    /\ LET v == [local |-> p, dest |-> d, ready |-> ready]
       IN  v # Stored(replication[r]) /\ PutReplication(r, v)
    /\ UNCHANGED <<profile, cephConn, configMap, uids, w>>

DeleteReplication(r) ==
    /\ Operation
    /\ Stored(replication[r]) # NoObj
    /\ PutReplication(r, NoObj)
    /\ UNCHANGED <<profile, cephConn, configMap, uids, w>>

\* The Driver or the ClientProfileMapping controller writes its part.
ForeignWrite ==
    /\ Operation
    /\ LET v == IF Stored(configMap) = NoObj THEN EmptyConfigMap ELSE Stored(configMap)
       IN  PutConfigMap([v EXCEPT !.foreign = IF @ = 1 THEN 2 ELSE 1])
    /\ ConfigMapOutdated
    /\ UNCHANGED <<profile, cephConn, replication, uids>>

DeleteConfigMap ==
    /\ Operation
    /\ Stored(configMap) # NoObj
    /\ PutConfigMap(NoObj)
    /\ ConfigMapOutdated
    /\ UNCHANGED <<profile, cephConn, replication, uids>>

Alive(u) == Stored(profile[u[1]]) # NoObj /\ Stored(profile[u[1]]).uid = u[2]
Dangling(owners) == {u \in owners : ~Alive(u)}

\* The garbage collector deletes an object none of whose owners exists, and
\* drops the references to missing owners otherwise.
CollectConn(c) ==
    /\ Stored(cephConn[c]) # NoObj
    /\ LET v == Stored(cephConn[c])
       IN  /\ Dangling(v.owners) # {}
           /\ PutConn(c, IF Dangling(v.owners) = v.owners THEN NoObj
                         ELSE [v EXCEPT !.owners = @ \ Dangling(@)])
    /\ ConnOutdated(c)
    /\ UNCHANGED <<profile, replication, configMap, uids, left>>

\* The other controllers' owner references keep the ConfigMap.
CollectConfigMap ==
    /\ Stored(configMap) # NoObj
    /\ LET v == Stored(configMap)
       IN  /\ Dangling(v.owners) # {}
           /\ PutConfigMap(IF v.foreign = 0 /\ Dangling(v.owners) = v.owners THEN NoObj
                           ELSE [v EXCEPT !.owners = @ \ Dangling(@)])
    /\ ConfigMapOutdated
    /\ UNCHANGED <<profile, cephConn, replication, uids, left>>

\* The informers' periodic resync: an update event without a change.  The
\* predicates let it pass for profiles and replications only.
Resync(p) ==
    /\ Operation
    /\ Cached(profile[p]) # NoObj \/ ListReplications(p) # {}
    /\ queue' = queue \cup {p}
    /\ UNCHANGED <<cluster, w>>

\* The operator crashes and is started again: the worker's memory is lost, the
\* informers list everything, and each object listed is a create event.
Restart ==
    /\ left.crashes > 0 /\ left' = [left EXCEPT !.crashes = @ - 1]
    /\ w' = IdleWorker
    /\ profile' = [p \in Profiles |-> Relist(profile[p])]
    /\ cephConn' = [c \in Conns |-> Relist(cephConn[c])]
    /\ replication' = [r \in Replications |-> Relist(replication[r])]
    /\ configMap' = Relist(configMap)
    /\ queue' = {p \in Profiles :
                   \/ Stored(profile[p]) # NoObj
                   \/ \E c \in Conns : p \in OwnerNames(Stored(cephConn[c]))
                   \/ \E r \in Replications : /\ Stored(replication[r]) # NoObj
                                              /\ p = Stored(replication[r]).local
                   \/ p \in OwnerNames(Stored(configMap))}
    /\ UNCHANGED uids

Environment ==
    \/ \E p \in Profiles : DeleteProfile(p) \/ Resync(p)
    \/ \E p \in Profiles, c \in Conns, s \in Specs : CreateProfile(p, c, s) \/ EditProfile(p, c, s)
    \/ \E c \in Conns : DeleteConn(c) \/ CollectConn(c)
    \/ \E c \in Conns, m \in Monitors : ApplyConn(c, m)
    \/ \E r \in Replications : DeleteReplication(r)
    \/ \E r \in Replications, p \in Profiles, d \in Dests, ready \in BOOLEAN :
          ApplyReplication(r, p, d, ready)
    \/ ForeignWrite \/ DeleteConfigMap \/ CollectConfigMap
    \/ Restart

Watch ==
    \/ \E p \in Profiles : DeliverProfile(p)
    \/ \E c \in Conns : DeliverConn(c)
    \/ \E r \in Replications : DeliverReplication(r)
    \/ DeliverConfigMap

-----------------------------------------------------------------------------
(* The specification *)

\* The CephConnections exist, nothing else does.
Init ==
    /\ profile = [p \in Profiles |-> <<NoObj>>]
    /\ \E m \in Monitors : cephConn = [c \in Conns |-> <<[monitors |-> m, owners |-> {}]>>]
    /\ replication = [r \in Replications |-> <<NoObj>>]
    /\ configMap = <<NoObj>>
    /\ uids = [p \in Profiles |-> 0]
    /\ queue = {}
    /\ w = IdleWorker
    /\ left = [ops |-> MaxOps, crashes |-> MaxCrashes, faults |-> MaxFaults]

Next ==
    \/ \E p \in Profiles : StartReconcile(p)
    \/ ReconcileStep
    \/ Watch
    \/ Environment

Spec == Init /\ [][Next]_vars

\* The watches deliver, the worker goes on, and the workqueue is first in, first
\* out: a request that keeps being at hand is served.  Nothing is assumed of
\* users, of the garbage collector or of crashes.
Fairness ==
    /\ WF_vars(ReconcileStep)
    /\ \A p \in Profiles : SF_vars(StartReconcile(p)) /\ WF_vars(DeliverProfile(p))
    /\ \A c \in Conns : WF_vars(DeliverConn(c))
    /\ \A r \in Replications : WF_vars(DeliverReplication(r))
    /\ WF_vars(DeliverConfigMap)

FairSpec == Spec /\ Fairness

-----------------------------------------------------------------------------
(* Properties *)

\* Every variable holds what the code's types allow.
TypeOK ==
    /\ profile \in [Profiles -> Versions(ProfileObj)]
    /\ cephConn \in [Conns -> Versions(ConnObj)]
    /\ replication \in [Replications -> Versions(ReplicationObj)]
    /\ configMap \in Versions(ConfigMapObj)
    /\ uids \in [Profiles -> Nat]
    /\ queue \in SUBSET Profiles
    /\ w \in Worker
    /\ left \in [ops: Nat, crashes: Nat, faults: Nat]

\* The list a version of the ConfigMap holds under config.json.
ConfigOf(cm) == IF cm = NoObj THEN <<>> ELSE IF cm.config = NoObj THEN <<>> ELSE cm.config
StoredConfig == ConfigOf(Stored(configMap))

\* A cluster's entry is in config.json only while its ClientProfile exists and
\* holds the clean-up finalizer: whatever a crash, a conflict or a deletion
\* interrupts, someone is still bound to remove the entry
\* (clientprofile_controller.go, reconcilePhases).
RecordHasFinalizer ==
    \A p \in Profiles : Holds(StoredConfig, p) =>
        Stored(profile[p]) # NoObj /\ Stored(profile[p]).finalizer

\* config.json has at most one entry for a cluster ID, whatever the order of
\* overwrites, appends and unordered deletes (reconcileCephCsiClusterInfo).
UniqueIds == Unique(StoredConfig)

\* What a list says of a profile, wherever in the list that is.
EntriesOf(list, p) ==
    LET at == {i \in 1..Len(list) : list[i].id = p}
    IN  [entries |-> {list[i] : i \in at}, twice |-> \E i, j \in at : i # j]
NoEntries == [entries |-> {}, twice |-> FALSE]

\* The stored ConfigMap as its writers share it (CsiConfigMap.tla): the entries of
\* each profile, and the owner references of each.
SharedConfigMap ==
    LET v == Stored(configMap)
    IN  IF v = NoObj THEN NoObj
        ELSE [part |-> [x \in Profiles \cup {NoObj} |->
                          IF x = NoObj THEN v.foreign ELSE EntriesOf(StoredConfig, x)],
              refs |-> [x \in Profiles \cup {NoObj} |-> {u \in v.owners : u[1] = x}]]

\* NoObj is none of these either.
SharedObj == [part: [Profiles \cup {NoObj} -> (0..2) \cup [entries: SUBSET ClusterInfo, twice: BOOLEAN]],
              refs: [Profiles \cup {NoObj} -> SUBSET Uid]]
ASSUME SharedAssumption == NoObj \notin SharedObj

Shared == INSTANCE CsiConfigMap WITH
              PartOf <- [x \in Profiles \cup {NoObj} |-> x],
              NoPart <- [x \in Profiles \cup {NoObj} |-> IF x = NoObj THEN 0 ELSE NoEntries],
              Others <- NoObj,
              cm <- SharedConfigMap,
              turn <- w.name

\* The controller implements the shared ConfigMap: a write for a profile changes
\* that profile's entry and reference only, on top of everything written since the
\* copy was read (CreateOrUpdate of reconcileCephCsiClusterInfo, its overwrite,
\* append and unordered delete).
SharesConfigMap == Shared!Spec

\* When the controller lets a deleted profile go, the CephConnection the profile
\* refers to has lost the owner reference (the garbage collector would follow it)
\* and the ConfigMap has lost the entry and the reference: the clean up was done
\* on the stored objects, not on outdated copies (reconcilePhases).
ReleaseIsClean ==
    [][ \A p \in Profiles :
          (Stored(profile[p]) # NoObj /\ Stored(profile[p]).finalizer /\ Stored(profile'[p]) = NoObj) =>
            LET gone == Stored(profile[p])
                conn == Stored(cephConn[gone.conn])
            IN  /\ conn = NoObj \/ <<p, gone.uid>> \notin conn.owners
                /\ Stored(configMap) = NoObj \/ <<p, gone.uid>> \notin Stored(configMap).owners
                /\ ~Holds(StoredConfig, p)
      ]_vars

\* No CephConnection refers to an owner that does not exist: the garbage
\* collector never has a reason to delete a user's CephConnection
\* (loadAndValidate, reconcileCephConnection).
OwnersAlive ==
    \A c \in Conns : Stored(cephConn[c]) # NoObj => Dangling(Stored(cephConn[c]).owners) = {}

Refers(v, p) == v # NoObj /\ v.local = p
Referring(p) == {r \in Replications : Refers(Stored(replication[r]), p)}
ReadyFor(p) == {r \in Referring(p) : Stored(replication[r]).ready}

\* What the profile asks for is what is stored: a kept profile is Ready with the
\* entry composed of the newest specs, a deleted one is gone unless its
\* CephConnection is missing or a replication names it.
Settled(p) ==
    LET prof == Stored(profile[p])
        conn == Stored(cephConn[prof.conn])
    IN  prof # NoObj => \/ conn = NoObj
                        \/ prof.deleting /\ Referring(p) # {}
                        \/ ~prof.deleting /\ Cardinality(ReadyFor(p)) > 1
                        \/ /\ ~prof.deleting /\ prof.phase = "Ready"
                           /\ \E i \in 1..Len(StoredConfig) :
                                StoredConfig[i] = ComposeRecord(p, prof, conn,
                                    IF ReadyFor(p) = {} THEN NoObj
                                    ELSE Stored(replication[CHOOSE r \in ReadyFor(p) : TRUE]).dest)

\* Once users and faults leave the cluster alone every profile settles for good,
\* whatever happened before, the ConfigMap deleted under the operator included
\* (SetupWithManager's watches, reconcile's retries).
Converges == \A p \in Profiles : <>[]Settled(p)

\* The operator's cache shows that r names p, and what is under way to it says so too.
Known(r, p) == \A i \in 1..Len(replication[r]) : Refers(replication[r][i], p)

\* p has the finalizer, nobody asked for its deletion yet, and r is known to name it.
Protected(p, r) ==
    /\ Stored(profile[p]) # NoObj /\ Stored(profile[p]).finalizer /\ ~Stored(profile[p]).deleting
    /\ Known(r, p)

Exists(p) == Stored(profile[p]) # NoObj

Names(r, p) == Refers(Stored(replication[r]), p)

\* A replication of any phase, known by the time the deletion of its profile is
\* requested, keeps the profile for as long as it names it: through lagging watches,
\* edits, conflicts and a crash no iteration comes to release the profile
\* (reconcileClientProfileReplication checks, reconcilePhases releases four calls
\* later).  A release under a replication that users then leave alone violates it;
\* nothing is said of a replication the cache gets to know later.
DeletionProtection ==
    \A p \in Profiles, r \in Replications :
        [](Protected(p, r) => <>~Names(r, p) \/ []Exists(p))

\* A profile whose deletion was requested goes away unless a replication names it.
DeletionCompletes ==
    \A p \in Profiles :
        (Stored(profile[p]) # NoObj /\ Stored(profile[p]).deleting)
            ~> (Stored(profile[p]) = NoObj \/ Referring(p) # {})
=============================================================================
