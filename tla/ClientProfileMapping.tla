------------------------- MODULE ClientProfileMapping -------------------------
(***************************************************************************)
(* The ClientProfileMapping controller.  Mappings overlap, so an iteration *)
(* ignores which resource it was asked for: it lists all mappings of the   *)
(* namespace and builds cluster-mapping.json of the ConfigMap anew.  The   *)
(* cache lists in no particular order.  The ConfigMap is shared with the   *)
(* ClientProfile and Driver controllers; mappings have no finalizer.       *)
(***************************************************************************)
EXTENDS VersionLog, SequencesExt

CONSTANTS
    Names,        \* names of ClientProfileMappings in the namespace
    Pairs,        \* pairs of a local and a remote client profile
    Pools,        \* pairs of a local and a remote block pool ID
    Specs,        \* the .spec.mappings users write
    NoObj,        \* an object or a key that does not exist
    Lag,          \* kind -> how many events its watch may be behind
    MaxUid,       \* bound: how often each mapping is created
    MaxOps,       \* bound: operations of users, and resyncs
    MaxCrashes,   \* bound: crashes of the operator
    MaxFaults     \* bound: client calls the API server fails without effect

Entry == [pair: Pairs, pools: Seq(Pools)]
MappingObj == [uid: Nat \ {0}, maps: Specs]
\* data is the list under cluster-mapping.json, foreign stands for the parts of
\* the other controllers (0: none, not even an owner reference).
ConfigMapObj == [owners: SUBSET (Names \X (Nat \ {0})), data: Seq(Entry) \cup {NoObj}, foreign: 0..2]

ASSUME NamesAssumption == IsFiniteSet(Names)
ASSUME LagAssumption == Lag \in [{"mapping", "configMap"} -> Nat]
ASSUME BoundsAssumption == MaxUid \in Nat /\ MaxOps \in Nat /\ MaxCrashes \in Nat /\ MaxFaults \in Nat
ASSUME SpecsAssumption == \A s \in Specs : s \in Seq(Entry)
ASSUME NoObjAssumption == NoObj \notin Names \cup MappingObj \cup ConfigMapObj /\ NoObj \notin Seq(Entry)

VARIABLES
    mapping,     \* name -> versions of the ClientProfileMapping
    configMap,   \* versions of the ConfigMap
    uids,        \* name -> how many mappings of the name were created
    queue,       \* the workqueue: names of mappings to reconcile
    w,           \* the worker's iteration (ClientProfileMappingReconcile)
    missed,      \* history: the last iteration made no call, and its copy was outdated
    left         \* what remains of the bounds

vars == <<mapping, configMap, uids, queue, w, missed, left>>
cluster == <<mapping, configMap, uids>>

Option(S) == S \cup {NoObj}
Versions(S) == Seq(Option(S)) \ {<<>>}

-----------------------------------------------------------------------------
(* cluster-mapping.json *)

\* Fault: nothing that was already seen is skipped.
FirstSeenAll(s) == DOMAIN s

\* indexByPair, alreadySeen: the positions of what was not seen before.
FirstSeen(s) == {i \in DOMAIN s : \A j \in 1..(i - 1) : s[j] # s[i]}

\* A set of positions in increasing order.
InOrder(S) == CHOOSE f \in [1..Cardinality(S) -> S] : \A i, j \in DOMAIN f : i < j => f[i] < f[j]

SkipSeen(s) == LET order == InOrder(FirstSeen(s)) IN [k \in DOMAIN order |-> s[order[k]]]

\* The pool pairs of all entries for a pair of profiles.
PoolsOf(entries, pair) ==
    FlattenSeq([i \in DOMAIN entries |-> IF entries[i].pair = pair THEN entries[i].pools ELSE <<>>])

\* The list built of the entries in the order they were listed: a record for each
\* pair of profiles, where it was seen first, with its pool pairs.
BuildMappings(entries) ==
    LET pairs == SkipSeen([i \in DOMAIN entries |-> entries[i].pair])
        pools == [pair \in {entries[i].pair : i \in DOMAIN entries} |-> SkipSeen(PoolsOf(entries, pair))]
    IN  [k \in DOMAIN pairs |-> [pair |-> pairs[k], pools |-> pools[pairs[k]]]]

-----------------------------------------------------------------------------
(* The worker *)

\* Of clientProfileMappingList the iteration uses the entries, mapping by mapping,
\* and the uid of the mapping it was asked for (0 once that is deleted).  cm is the
\* copy of the ConfigMap CreateOrUpdate read, cmCur whether that is still the
\* stored version, new the mutated copy.
Worker == [pc: {"idle", "list", "read", "write"}, name: Option(Names),
           entries: Seq(Entry), uid: Nat,
           cm: Option(ConfigMapObj), cmCur: BOOLEAN, new: Option(ConfigMapObj)]

IdleWorker == [pc |-> "idle", name |-> NoObj, entries |-> <<>>, uid |-> 0,
               cm |-> NoObj, cmCur |-> FALSE, new |-> NoObj]

EmptyConfigMap == [owners |-> {}, data |-> NoObj, foreign |-> 0]

\* Fault: nothing is done for a mapping that is gone.
MutateConfigMapOwned(cm) ==
    IF w.uid = 0 THEN cm
    ELSE [cm EXCEPT !.owners = {o \in @ : o[1] # w.name} \cup {<<w.name, w.uid>>},
                    !.data = BuildMappings(w.entries)]

\* Fault: a mapping that is gone is made an owner.
MutateConfigMapAlways(cm) ==
    [cm EXCEPT !.owners = {o \in @ : o[1] # w.name} \cup {<<w.name, w.uid>>},
               !.data = BuildMappings(w.entries)]

\* The mutate function of reconcileCephCsiBlockPoolMapping; a reference to an
\* earlier mapping of the name is overwritten.
MutateConfigMap(cm) ==
    [cm EXCEPT !.owners = IF w.uid = 0 THEN @
                          ELSE {o \in @ : o[1] # w.name} \cup {<<w.name, w.uid>>},
               !.data = BuildMappings(w.entries)]

-----------------------------------------------------------------------------
(* Watches *)

OwnerNames(v) == IF v = NoObj THEN {} ELSE {u[1] : u \in v.owners}

\* Owns(ConfigMap) with GenerationChangedPredicate: a ConfigMap has no generation,
\* so no update passes.
ConfigMapRequests(old, new) ==
    IF old # NoObj /\ new # NoObj THEN {} ELSE OwnerNames(old) \cup OwnerNames(new)

PutMapping(n, v) ==
    /\ mapping' = [mapping EXCEPT ![n] = Put(@, Lag["mapping"], v)]
    /\ queue' = queue \cup IF Delivers(mapping[n], Lag["mapping"]) THEN {n} ELSE {}

PutConfigMap(v) ==
    LET log == Put(configMap, Lag["configMap"], v)
    IN  /\ configMap' = log
        /\ queue' = queue \cup IF Delivers(configMap, Lag["configMap"])
                               THEN ConfigMapRequests(Cached(configMap), Cached(log)) ELSE {}

DeliverMapping(n) ==
    /\ ~InSync(mapping[n])
    /\ mapping' = [mapping EXCEPT ![n] = Tail(@)]
    /\ queue' = queue \cup {n}
    /\ UNCHANGED <<configMap, uids, w, missed, left>>

DeliverConfigMap ==
    /\ ~InSync(configMap)
    /\ configMap' = Tail(configMap)
    /\ queue' = queue \cup ConfigMapRequests(configMap[1], configMap[2])
    /\ UNCHANGED <<mapping, uids, w, missed, left>>

-----------------------------------------------------------------------------
(* One reconcile iteration *)

StartReconcile(n) ==
    /\ w.pc = "idle" /\ n \in queue
    /\ queue' = queue \ {n}
    /\ w' = [IdleWorker EXCEPT !.pc = "list", !.name = n]
    /\ UNCHANGED <<cluster, missed, left>>

Listed == {n \in Names : Cached(mapping[n]) # NoObj}

\* reconcile: the List.
ListMappings ==
    /\ w.pc = "list"
    /\ \E order \in SetToSeqs(Listed) :
          w' = [w EXCEPT !.pc = "read",
                         !.entries = FlattenSeq([i \in DOMAIN order |-> Cached(mapping[order[i]]).maps]),
                         !.uid = IF w.name \in Listed THEN Cached(mapping[w.name]).uid ELSE 0]
    /\ UNCHANGED <<cluster, queue, missed, left>>

\* CreateOrUpdate: the Get and the mutate function.
ReadConfigMap ==
    /\ w.pc = "read"
    /\ LET cm == Cached(configMap)
       IN  w' = [w EXCEPT !.pc = "write", !.cm = cm, !.cmCur = InSync(configMap),
                          !.new = MutateConfigMap(IF cm = NoObj THEN EmptyConfigMap ELSE cm)]
    /\ UNCHANGED <<cluster, queue, missed, left>>

\* Fault: the write is unconditional.
AcceptedBlindly(cur) == UNCHANGED left

\* A call is accepted when the copy it was made from is the stored version, else
\* it is a conflict; it may also fail for a reason of its own.
Accepted(cur) == cur /\ UNCHANGED left
Refused(cur) == \/ ~cur /\ UNCHANGED left
                \/ left.faults > 0 /\ left' = [left EXCEPT !.faults = @ - 1]

\* CreateOrUpdate: no call when the mutated copy equals the copy read; an error
\* requeues the request.
WriteConfigMap ==
    /\ w.pc = "write"
    /\ w' = IdleWorker
    /\ missed' = (w.new = w.cm /\ ~w.cmCur)
    /\ LET cur == IF w.cm = NoObj THEN Stored(configMap) = NoObj ELSE w.cmCur
       IN  \/ /\ w.new = w.cm
              /\ UNCHANGED <<configMap, queue, left>>
           \/ /\ w.new # w.cm
              /\ Accepted(cur)
              /\ PutConfigMap(w.new)
           \/ /\ w.new # w.cm
              /\ Refused(cur)
              /\ queue' = queue \cup {w.name}
              /\ UNCHANGED configMap
    /\ UNCHANGED <<mapping, uids>>

ReconcileStep == ListMappings \/ ReadConfigMap \/ WriteConfigMap

-----------------------------------------------------------------------------
(* Users, the other controllers, the garbage collector, crashes *)

Operation == left.ops > 0 /\ left' = [left EXCEPT !.ops = @ - 1]
ConfigMapOutdated == w' = [w EXCEPT !.cmCur = FALSE]

\* A mapping is created, or its spec is edited.
ApplyMapping(n, s) ==
    /\ Operation
    /\ LET v == Stored(mapping[n])
       IN  IF v = NoObj
           THEN /\ uids[n] < MaxUid
                /\ uids' = [uids EXCEPT ![n] = @ + 1]
                /\ PutMapping(n, [uid |-> uids[n] + 1, maps |-> s])
           ELSE /\ s # v.maps
                /\ PutMapping(n, [v EXCEPT !.maps = s])
                /\ UNCHANGED uids
    /\ UNCHANGED <<configMap, w, missed>>

DeleteMapping(n) ==
    /\ Operation
    /\ Stored(mapping[n]) # NoObj
    /\ PutMapping(n, NoObj)
    /\ UNCHANGED <<configMap, uids, w, missed>>

\* The Driver or the ClientProfile controller writes its part.
ForeignWrite ==
    /\ Operation
    /\ LET v == IF Stored(configMap) = NoObj THEN EmptyConfigMap ELSE Stored(configMap)
       IN  PutConfigMap([v EXCEPT !.foreign = IF @ = 1 THEN 2 ELSE 1])
    /\ ConfigMapOutdated
    /\ UNCHANGED <<mapping, uids, missed>>

DeleteConfigMap ==
    /\ Operation
    /\ Stored(configMap) # NoObj
    /\ PutConfigMap(NoObj)
    /\ ConfigMapOutdated
    /\ UNCHANGED <<mapping, uids, missed>>

Dangling(refs) == {u \in refs : Stored(mapping[u[1]]) = NoObj \/ Stored(mapping[u[1]]).uid # u[2]}

\* References to missing owners are dropped, the last one with the object; the
\* other controllers' references keep it.
CollectConfigMap ==
    /\ Stored(configMap) # NoObj
    /\ LET v == Stored(configMap)
       IN  /\ Dangling(v.owners) # {}
           /\ PutConfigMap(IF v.foreign = 0 /\ Dangling(v.owners) = v.owners THEN NoObj
                           ELSE [v EXCEPT !.owners = @ \ Dangling(@)])
    /\ ConfigMapOutdated
    /\ UNCHANGED <<mapping, uids, missed, left>>

\* The informers' periodic resync: an update event without a change, which the
\* predicates of the ConfigMap do not let pass.
Resync(n) ==
    /\ Operation
    /\ n \in Listed
    /\ queue' = queue \cup {n}
    /\ UNCHANGED <<cluster, w, missed>>

\* The operator starts anew: everything listed is a create event.
Restart ==
    /\ left.crashes > 0 /\ left' = [left EXCEPT !.crashes = @ - 1]
    /\ w' = IdleWorker
    /\ mapping' = [n \in Names |-> Relist(mapping[n])]
    /\ configMap' = Relist(configMap)
    /\ queue' = {n \in Names : Stored(mapping[n]) # NoObj} \cup OwnerNames(Stored(configMap))
    /\ missed' = FALSE
    /\ UNCHANGED uids

-----------------------------------------------------------------------------
(* The specification *)

Init ==
    /\ mapping = [n \in Names |-> <<NoObj>>]
    /\ configMap = <<NoObj>>
    /\ uids = [n \in Names |-> 0]
    /\ queue = {}
    /\ w = IdleWorker
    /\ missed = FALSE
    /\ left = [ops |-> MaxOps, crashes |-> MaxCrashes, faults |-> MaxFaults]

Watch == (\E n \in Names : DeliverMapping(n)) \/ DeliverConfigMap

Environment ==
    \/ \E n \in Names, s \in Specs : ApplyMapping(n, s)
    \/ \E n \in Names : DeleteMapping(n) \/ Resync(n)
    \/ ForeignWrite \/ DeleteConfigMap \/ CollectConfigMap
    \/ Restart

Next ==
    \/ \E n \in Names : StartReconcile(n)
    \/ ReconcileStep
    \/ Watch
    \/ Environment

Spec == Init /\ [][Next]_vars

\* As for the other controllers: the worker goes on, the watches deliver, the
\* workqueue is first in, first out; nothing is assumed of anyone else.
Fairness ==
    /\ WF_vars(ReconcileStep)
    /\ \A n \in Names : SF_vars(StartReconcile(n)) /\ WF_vars(DeliverMapping(n))
    /\ WF_vars(DeliverConfigMap)

FairSpec == Spec /\ Fairness

-----------------------------------------------------------------------------
(* Properties *)

\* Every variable holds what the code's types allow.
TypeOK ==
    /\ mapping \in [Names -> Versions(MappingObj)]
    /\ configMap \in Versions(ConfigMapObj)
    /\ uids \in [Names -> Nat]
    /\ queue \in SUBSET Names
    /\ w \in Worker
    /\ missed \in BOOLEAN
    /\ left \in [ops: Nat, crashes: Nat, faults: Nat]

StoredData == IF Stored(configMap) = NoObj \/ Stored(configMap).data = NoObj THEN <<>>
              ELSE Stored(configMap).data

\* Whatever overlapping mappings are listed in whatever order, a pair of client
\* profiles has one record and a pool pair appears in it once (indexByPair and
\* alreadySeen of reconcileCephCsiBlockPoolMapping).
NoDuplicates ==
    /\ IsInjective([i \in DOMAIN StoredData |-> StoredData[i].pair])
    /\ \A i \in DOMAIN StoredData : IsInjective(StoredData[i].pools)

\* The stored ConfigMap as its writers share it (CsiConfigMap.tla): one part for
\* all mappings, an owner reference for each.
SharedObj == [part: [mappings: Seq(Entry), others: 0..2],
              refs: [Names \cup {NoObj} -> SUBSET (Names \X (Nat \ {0}))]]
ASSUME SharedAssumption == NoObj \notin SharedObj

SharedConfigMap ==
    LET v == Stored(configMap)
    IN  IF v = NoObj THEN NoObj
        ELSE [part |-> [mappings |-> StoredData, others |-> v.foreign],
              refs |-> [x \in Names \cup {NoObj} |-> {u \in v.owners : u[1] = x}]]

Shared == INSTANCE CsiConfigMap WITH
              PartOf <- [x \in Names \cup {NoObj} |-> IF x = NoObj THEN "others" ELSE "mappings"],
              NoPart <- [mappings |-> <<>>, others |-> 0],
              Others <- NoObj,
              cm <- SharedConfigMap,
              turn <- w.name

\* The controller implements the shared ConfigMap: a write for a mapping changes
\* the list and that mapping's reference only, on top of everything written since
\* the copy was read (CreateOrUpdate of reconcileCephCsiBlockPoolMapping).
SharesConfigMap == Shared!Spec

\* What a list of entries says, whatever its order: the pairs of profiles, and
\* the pool pairs of each.
Says(list) == {<<e.pair>> : e \in ToSet(list)}
              \cup UNION {{<<e.pair, p>> : p \in ToSet(e.pools)} : e \in ToSet(list)}

Present == {n \in Names : Stored(mapping[n]) # NoObj}

\* cluster-mapping.json says what the mappings together say, and each of them
\* keeps the ConfigMap.  Without a finalizer, the deletion of the last mapping is
\* lost on an operator that is started after it.
InPlace ==
    (Present # {} \/ left.crashes = MaxCrashes) =>
        /\ Says(StoredData) = UNION {Says(Stored(mapping[n]).maps) : n \in Present}
        /\ \A n \in Present : <<n, Stored(mapping[n]).uid>> \in Stored(configMap).owners

\* Once users and faults leave the cluster alone the ConfigMap gets in place for
\* good, mappings deleted and ConfigMaps removed under the operator included.  The
\* one exception: the last iteration took an outdated copy of the ConfigMap for
\* what it wanted and made no call (reconcile, SetupWithManager).
Converges == <>[](InPlace \/ missed)
=============================================================================
