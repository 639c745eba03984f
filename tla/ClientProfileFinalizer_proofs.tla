-------------------- MODULE ClientProfileFinalizer_proofs --------------------
(***************************************************************************)
(* What the clean up of a ClientProfile guarantees.  An entry of           *)
(* config.json is backed by a profile that holds the clean-up finalizer,   *)
(* and a profile is let go with nothing of it left, whenever the operator  *)
(* reads its own writes of the ConfigMap (run stale_config_map shows what  *)
(* happens when it does not).  A replication the operator knows of keeps   *)
(* its profile, whatever the lag.                                          *)
(***************************************************************************)
EXTENDS ClientProfile_proofs

HasFinalizer(v) == v # NoObj /\ v.finalizer
Kept(v) == v # NoObj /\ v.finalizer /\ ~v.deleting

\* A profile the cache shows, or is about to show, with the finalizer and not
\* being deleted still has the finalizer: it cannot have been let go before the
\* controller saw its deletion.
KeptStays ==
    \A p \in Profiles : \A i \in 1..Len(profile[p]) :
        Kept(profile[p][i]) => HasFinalizer(Stored(profile[p]))

\* A copy with the stored resourceVersion is the stored profile; when it is being
\* deleted nothing newer or older is under way.
WorkerCopy ==
    HasProfile /\ w.profCur => /\ w.prof = Stored(profile[w.name])
                               /\ w.prof.deleting => InSync(profile[w.name])

WorkerKept == HasProfile /\ Kept(w.prof) => HasFinalizer(Stored(profile[w.name]))

PastFinalizer ==
    w.pc \in {"conn", "replication", "readConfigMap", "writeConfigMap", "release"}
        => w.prof.deleting \/ w.prof.finalizer

\* Only the worker adds entries: the copy it read has its entry if the stored
\* ConfigMap has it.
ConfigCopy ==
    w.pc = "writeConfigMap" => /\ Holds(StoredConfig, w.name) => Holds(ConfigOf(w.cm), w.name)
                               /\ w.cmCur => w.cm = Stored(configMap)

Cleaned == w.pc = "release" /\ w.prof.deleting => ~Holds(StoredConfig, w.name)

ProfileInv == KeptStays /\ WorkerCopy /\ WorkerKept /\ PastFinalizer
ConfigInv == ConfigCopy /\ Cleaned /\ InSync(configMap) /\ RecordHasFinalizer
FinInv == ProfileInv /\ ConfigInv

\* No step but the release takes the finalizer off a stored profile.
Keeps == \A p \in Profiles : HasFinalizer(Stored(profile[p])) => HasFinalizer(Stored(profile'[p]))

-----------------------------------------------------------------------------
LEMMA ProfileWrite ==
    ASSUME TypeOK, KeptStays, NEW p \in Profiles, NEW v \in Option(ProfileObj), PutProfile(p, v),
           HasFinalizer(Stored(profile[p])) => HasFinalizer(v)
    PROVE  /\ Stored(profile'[p]) = v
           /\ \A q \in Profiles : q # p => profile'[q] = profile[q]
           /\ KeptStays' /\ Keeps
<1> DEFINE log == Put(profile[p], Lag["profile"], v)
<1>1. profile[p] \in Seq(Option(ProfileObj)) \ {<<>>} /\ Lag["profile"] \in Nat
  BY LagAssumption DEF TypeOK, Versions, Kinds
<1>2. /\ Stored(log) = v
      /\ \A i \in 1..Len(log) : log[i] = v \/ \E j \in 1..Len(profile[p]) : log[i] = profile[p][j]
  BY <1>1, PutLog
<1>3. profile'[p] = log /\ \A q \in Profiles : q # p => profile'[q] = profile[q]
  BY DEF PutProfile, TypeOK
<1> HIDE DEF log
<1>4. \A i \in 1..Len(log) : Kept(log[i]) => HasFinalizer(v)
  BY <1>2 DEF KeptStays, Kept, HasFinalizer
<1>5. KeptStays'
  BY <1>2, <1>3, <1>4 DEF KeptStays
<1>6. Keeps
  BY <1>2, <1>3 DEF Keeps
<1> QED
  BY <1>2, <1>3, <1>5, <1>6

\* Steps that leave the profiles alone and keep or drop the worker's copy of one.
LEMMA ProfileFrame ==
    ASSUME ProfileInv, profile' = profile,
           w'.pc \in {"idle", "getProfile"}
             \/ /\ HasProfile /\ w'.name = w.name /\ w'.prof = w.prof /\ (w'.profCur => w.profCur)
                /\ PastFinalizer'
    PROVE  ProfileInv'
<1>1. KeptStays'
  BY DEF ProfileInv, KeptStays
<1>2. CASE w'.pc \in {"idle", "getProfile"}
  BY <1>1, <1>2 DEF ProfileInv, WorkerCopy, WorkerKept, PastFinalizer, HasProfile
<1>3. CASE /\ HasProfile /\ w'.name = w.name /\ w'.prof = w.prof /\ (w'.profCur => w.profCur)
           /\ PastFinalizer'
  BY <1>1, <1>3 DEF ProfileInv, WorkerCopy, WorkerKept, HasProfile
<1> QED
  BY <1>2, <1>3

\* Steps that add no entry and take no finalizer off.
LEMMA ConfigFrame ==
    ASSUME ConfigInv, Keeps, InSync(configMap'),
           \A p : Holds(StoredConfig', p) => Holds(StoredConfig, p),
           \/ w'.pc \notin {"writeConfigMap", "release"}
           \/ /\ w'.pc = w.pc /\ w'.name = w.name /\ w'.prof = w.prof /\ w'.cm = w.cm
              /\ w'.cmCur => w.cmCur /\ configMap' = configMap
    PROVE  ConfigInv'
<1>1. RecordHasFinalizer'
  BY DEF ConfigInv, RecordHasFinalizer, Keeps, HasFinalizer
<1>2. ConfigCopy' /\ Cleaned'
  BY DEF ConfigInv, ConfigCopy, Cleaned
<1> QED
  BY <1>1, <1>2 DEF ConfigInv

LEMMA SameProfilesKeep == profile' = profile => Keeps
BY DEF Keeps

LEMMA SameConfig ==
    configMap' = configMap => StoredConfig' = StoredConfig
BY DEF StoredConfig

\* With no lag the written version is the one everybody reads next.
LEMMA FreshPut ==
    ASSUME TypeOK, Lag["configMap"] = 0, InSync(configMap),
           NEW v \in Option(ConfigMapObj), PutConfigMap(v)
    PROVE  InSync(configMap') /\ Stored(configMap') = v
<1>1. configMap \in Seq(Option(ConfigMapObj)) \ {<<>>}
  BY DEF TypeOK, Versions
<1>2. configMap' = Put(configMap, 0, v)
  BY DEF PutConfigMap
<1> QED
  BY <1>1, <1>2, PutLog, FreshPutLog

-----------------------------------------------------------------------------
\* Steps of the worker
LEMMA FinReconcileStep ==
    ASSUME Lag["configMap"] = 0
    PROVE  Inv /\ FinInv /\ ReconcileStep => FinInv'
<1> SUFFICES ASSUME Inv, FinInv, ReconcileStep PROVE FinInv'
  OBVIOUS
<1> USE DEF Inv, FinInv
<1>t. w \in Worker
  BY DEF TypeOK
\* The worker gives up, fails or goes on, with no object written.
<1>q. ASSUME UNCHANGED <<profile, configMap>>,
             \/ w' = IdleWorker
             \/ \E ph : HasProfile /\ FailPhase(ph)
             \/ \E pc : /\ HasProfile /\ GoTo(pc) /\ pc \notin {"writeConfigMap", "release"}
                        /\ PastFinalizer'
      PROVE  FinInv'
  <2>1. /\ w'.pc \notin {"writeConfigMap", "release"}
        /\ \/ w'.pc \in {"idle", "getProfile"}
           \/ /\ HasProfile /\ w'.name = w.name /\ w'.prof = w.prof /\ (w'.profCur => w.profCur)
              /\ PastFinalizer'
    <3>1. CASE w' = IdleWorker
      BY <3>1, IdleFacts
    <3>2. ASSUME NEW ph, HasProfile, FailPhase(ph)
          PROVE  /\ w'.pc = "status" /\ w'.name = w.name /\ w'.prof = w.prof /\ (w'.profCur => w.profCur)
                 /\ PastFinalizer'
      BY <1>t, <3>2 DEF FailPhase, Worker, PastFinalizer
    <3>3. ASSUME NEW pc, GoTo(pc), pc \notin {"writeConfigMap", "release"}
          PROVE  /\ w'.pc = pc /\ w'.name = w.name /\ w'.prof = w.prof /\ (w'.profCur => w.profCur)
      BY <1>t, <3>3 DEF GoTo, Worker
    <3> QED
      BY <1>q, <3>1, <3>2, <3>3
  <2>2. ProfileInv'
    BY <1>q, <2>1, ProfileFrame
  <2>3. ConfigInv'
    BY <1>q, <2>1, ConfigFrame, SameProfilesKeep, SameConfig DEF ConfigInv
  <2> QED
    BY <2>2, <2>3
<1>1. CASE LoadClientProfile
  <2> DEFINE v == Cached(profile[w.name])
  <2>0. UNCHANGED <<profile, configMap>> /\ w.name \in Profiles
    BY <1>1 DEF LoadClientProfile, cluster, Loaded
  <2>1. CASE v = NoObj
    BY <1>1, <1>q, <2>0, <2>1 DEF LoadClientProfile, AbandonLoad
  <2>2. CASE v # NoObj
    <3>1. w' = [w EXCEPT !.pc = "getConn", !.prof = v, !.profCur = InSync(profile[w.name])]
      BY <1>1, <2>2 DEF LoadClientProfile
    <3>2. w'.pc = "getConn" /\ w'.name = w.name /\ w'.prof = v /\ w'.profCur = InSync(profile[w.name])
      BY <1>t, <3>1 DEF Worker
    <3>3. profile[w.name] \in Seq(Option(ProfileObj)) \ {<<>>} /\ 1 \in 1..Len(profile[w.name])
      BY <2>0, LogElements DEF TypeOK, Versions
    <3>4. KeptStays'
      BY <2>0 DEF ProfileInv, KeptStays
    <3>5. WorkerCopy'
      BY <2>0, <3>2 DEF WorkerCopy, HasProfile, InSync, Cached, Stored
    <3>6. WorkerKept'
      BY <2>0, <3>2, <3>3 DEF ProfileInv, KeptStays, WorkerKept, Cached
    <3>7. PastFinalizer'
      BY <3>2 DEF PastFinalizer
    <3>8. ConfigInv'
      BY <2>0, <3>2, ConfigFrame, SameProfilesKeep, SameConfig DEF ConfigInv
    <3> QED
      BY <3>4, <3>5, <3>6, <3>7, <3>8 DEF ProfileInv
  <2> QED
    BY <2>1, <2>2
<1>2. CASE LoadCephConnection
  <2>0. UNCHANGED <<profile, configMap>> /\ HasProfile
    BY <1>2 DEF LoadCephConnection, cluster, HasProfile
  <2>1. CASE AbandonLoad
    BY <1>q, <2>0, <2>1 DEF AbandonLoad
  <2>2. CASE ~AbandonLoad
    <3>1. /\ w'.pc \in {"listReady", "addOwner"} /\ w'.name = w.name /\ w'.prof = w.prof
          /\ w'.profCur = w.profCur
      BY <1>2, <1>t, <2>2 DEF LoadCephConnection, Worker
    <3>2. ProfileInv'
      BY <2>0, <3>1, ProfileFrame DEF PastFinalizer
    <3>3. ConfigInv'
      BY <2>0, <3>1, ConfigFrame, SameProfilesKeep, SameConfig DEF ConfigInv
    <3> QED
      BY <3>2, <3>3
  <2> QED
    BY <2>1, <2>2
<1>3. CASE AddConnOwner
  <2>0. UNCHANGED <<profile, configMap>> /\ HasProfile
    BY <1>3 DEF AddConnOwner, cluster, HasProfile
  <2>1. CASE AbandonLoad
    BY <1>q, <2>0, <2>1 DEF AbandonLoad
  <2>2. CASE ~AbandonLoad
    <3>1. w'.pc = "listReady" /\ w'.name = w.name /\ w'.prof = w.prof /\ w'.profCur = w.profCur
      BY <1>3, <1>t, <2>2 DEF AddConnOwner, Worker
    <3>2. ProfileInv'
      BY <2>0, <3>1, ProfileFrame DEF PastFinalizer
    <3>3. ConfigInv'
      BY <2>0, <3>1, ConfigFrame, SameProfilesKeep, SameConfig DEF ConfigInv
    <3> QED
      BY <3>2, <3>3
  <2> QED
    BY <2>1, <2>2
<1>4. CASE LoadReplication
  <2>0. UNCHANGED <<profile, configMap>> /\ HasProfile
    BY <1>4 DEF LoadReplication, cluster, HasProfile
  <2>1. CASE AbandonLoad
    BY <1>q, <2>0, <2>1 DEF AbandonLoad
  <2>2. CASE ~AbandonLoad
    <3>1. w'.pc = "finalizer" /\ w'.name = w.name /\ w'.prof = w.prof /\ w'.profCur = w.profCur
      BY <1>4, <1>t, <2>2 DEF LoadReplication, Worker
    <3>2. ProfileInv'
      BY <2>0, <3>1, ProfileFrame DEF PastFinalizer
    <3>3. ConfigInv'
      BY <2>0, <3>1, ConfigFrame, SameProfilesKeep, SameConfig DEF ConfigInv
    <3> QED
      BY <3>2, <3>3
  <2> QED
    BY <2>1, <2>2
<1>5. CASE EnsureFinalizer
  <2>0. w.pc = "finalizer" /\ HasProfile /\ configMap' = configMap
        /\ w.name \in Profiles /\ w.prof \in ProfileObj
    BY <1>5 DEF EnsureFinalizer, cluster, HasProfile, Loaded
  <2>1. CASE FailPhase("Pending") /\ UNCHANGED cluster
    BY <1>q, <2>0, <2>1 DEF cluster
  <2>2. CASE (cleanUp \/ w.prof.finalizer) /\ GoTo("conn") /\ UNCHANGED cluster
    <3>1. PastFinalizer'
      BY <1>t, <2>2 DEF PastFinalizer, GoTo, Worker, cleanUp
    <3> QED
      BY <1>q, <2>0, <2>2, <3>1 DEF cluster
  <2> DEFINE v == [w.prof EXCEPT !.finalizer = TRUE]
  <2>3. CASE /\ ~cleanUp /\ Accepted(w.profCur) /\ PutProfile(w.name, v)
             /\ w' = [w EXCEPT !.pc = "conn", !.prof = v]
    <3>1. v \in Option(ProfileObj) /\ v.finalizer /\ ~v.deleting /\ v # NoObj
      BY <2>0, <2>3, NoObjAssumption DEF ProfileObj, Option, cleanUp
    <3> HIDE DEF v
    <3>2. Stored(profile'[w.name]) = v /\ KeptStays' /\ Keeps
      BY <2>0, <2>3, <3>1, ProfileWrite DEF HasFinalizer, ProfileInv
    <3>3. w'.pc = "conn" /\ w'.name = w.name /\ w'.prof = v
      BY <1>t, <2>3 DEF Worker
    <3>4. WorkerCopy' /\ WorkerKept' /\ PastFinalizer'
      BY <3>1, <3>2, <3>3 DEF WorkerCopy, WorkerKept, PastFinalizer, HasFinalizer
    <3>5. ConfigInv'
      BY <2>0, <3>2, <3>3, ConfigFrame, SameConfig DEF ConfigInv
    <3> QED
      BY <3>2, <3>4, <3>5 DEF ProfileInv
  <2> QED
    BY <1>5, <2>1, <2>2, <2>3 DEF EnsureFinalizer
<1>6. CASE ReconcileCephConnection
  <2>0. UNCHANGED <<profile, configMap>> /\ HasProfile /\ w.pc = "conn"
    BY <1>6 DEF ReconcileCephConnection, cluster, HasProfile
  <2>1. CASE FailPhase("Failed")
    BY <1>q, <2>0, <2>1
  <2>2. CASE ~FailPhase("Failed")
    <3>1. w'.pc = "replication" /\ w'.name = w.name /\ w'.prof = w.prof /\ w'.profCur = w.profCur
      BY <1>6, <1>t, <2>2 DEF ReconcileCephConnection, Worker, GoTo
    <3>2. ProfileInv'
      BY <2>0, <3>1, ProfileFrame DEF PastFinalizer, ProfileInv
    <3>3. ConfigInv'
      BY <2>0, <3>1, ConfigFrame, SameProfilesKeep, SameConfig DEF ConfigInv
    <3> QED
      BY <3>2, <3>3
  <2> QED
    BY <2>1, <2>2
<1>7. CASE ReconcileReplication
  <2>0. UNCHANGED <<profile, configMap>> /\ HasProfile /\ w.pc = "replication"
    BY <1>7 DEF ReconcileReplication, cluster, HasProfile
  <2>1. CASE FailPhase("Failed")
    BY <1>q, <2>0, <2>1
  <2>2. CASE GoTo("readConfigMap")
    <3>1. PastFinalizer'
      BY <1>t, <2>0, <2>2 DEF PastFinalizer, ProfileInv, GoTo, Worker
    <3> QED
      BY <1>q, <2>0, <2>2, <3>1
  <2> QED
    BY <1>7, <2>1, <2>2 DEF ReconcileReplication
<1>8. CASE ReadConfigMap
  <2>0. UNCHANGED <<profile, configMap>> /\ HasProfile /\ w.pc = "readConfigMap"
    BY <1>8 DEF ReadConfigMap, cluster, HasProfile
  <2>1. /\ w'.pc = "writeConfigMap" /\ w'.name = w.name /\ w'.prof = w.prof /\ w'.profCur = w.profCur
        /\ w'.cm = Cached(configMap)
    BY <1>8, <1>t DEF ReadConfigMap, Worker
  <2>2. ProfileInv'
    BY <2>0, <2>1, ProfileFrame DEF PastFinalizer, ProfileInv
  <2>3. Cached(configMap) = Stored(configMap)
    BY DEF ConfigInv, InSync, Cached, Stored
  <2>4. ConfigCopy' /\ Cleaned'
    BY <2>0, <2>1, <2>3 DEF ConfigCopy, Cleaned, StoredConfig
  <2>5. RecordHasFinalizer' /\ InSync(configMap')
    BY <2>0, SameConfig DEF ConfigInv, RecordHasFinalizer
  <2> QED
    BY <2>2, <2>4, <2>5 DEF ConfigInv
<1>9. CASE WriteConfigMap
  <2> DEFINE absent == w.cm = NoObj
             base == IF absent THEN EmptyConfigMap ELSE w.cm
             v == MutateConfigMap(base)
             cur == IF absent THEN Stored(configMap) = NoObj ELSE w.cmCur
  <2>0. /\ w.pc = "writeConfigMap" /\ profile' = profile /\ HasProfile
        /\ w.name \in Profiles /\ w.prof \in ProfileObj
    BY <1>9 DEF WriteConfigMap, cluster, HasProfile, Loaded
  <2>1. base \in ConfigMapObj /\ Unique(ConfigOf(base)) /\ ConfigOf(base) = ConfigOf(w.cm)
    BY <1>t, EmptyConfigMapType, EmptyUnique DEF Worker, Option, AllUnique, ConfigOf
  <2>2. /\ v \in ConfigMapObj /\ Unique(ConfigOf(v))
        /\ cleanUp => /\ ~Holds(ConfigOf(v), w.name)
                      /\ \A q : Holds(ConfigOf(v), q) => Holds(ConfigOf(w.cm), q)
        /\ ~cleanUp => \A q : Holds(ConfigOf(v), q) => q = w.name \/ Holds(ConfigOf(w.cm), q)
    BY <2>0, <2>1, MutateFacts
  <2>3. CASE FailPhase("Failed") /\ UNCHANGED cluster
    BY <1>q, <2>0, <2>3 DEF cluster
  <2>4. CASE GoTo("release")
    <3>1. w'.pc = "release" /\ w'.name = w.name /\ w'.prof = w.prof /\ w'.profCur = w.profCur
      BY <1>t, <2>4 DEF GoTo, Worker
    <3>2. ProfileInv'
      BY <2>0, <3>1, ProfileFrame DEF PastFinalizer, ProfileInv
    <3>3. ConfigCopy'
      BY <3>1 DEF ConfigCopy
    <3>4. CASE v = w.cm /\ configMap' = configMap
      <4>1. cleanUp => ~Holds(StoredConfig, w.name)
        BY <2>0, <2>2, <3>4 DEF ConfigInv, ConfigCopy
      <4>2. Cleaned'
        BY <3>1, <3>4, <4>1, SameConfig DEF Cleaned, cleanUp
      <4>3. RecordHasFinalizer' /\ InSync(configMap')
        BY <2>0, <3>4, SameConfig DEF ConfigInv, RecordHasFinalizer
      <4> QED
        BY <3>2, <3>3, <4>2, <4>3 DEF ConfigInv
    <3>5. CASE cur /\ PutConfigMap(v)
      <4> HIDE DEF v
      <4>1. InSync(configMap') /\ Stored(configMap') = v
        BY <2>2, <3>5, FreshPut DEF ConfigInv, Option
      <4>2. StoredConfig' = ConfigOf(v)
        BY <4>1 DEF StoredConfig, ConfigOf
      <4>3. w.cm = Stored(configMap)
        BY <2>0, <3>5 DEF ConfigInv, ConfigCopy
      <4>4. ConfigOf(w.cm) = StoredConfig
        BY <4>3 DEF StoredConfig
      <4>5. Cleaned'
        BY <2>2, <3>1, <4>2 DEF Cleaned, cleanUp
      <4>6. ~cleanUp => HasFinalizer(Stored(profile[w.name]))
        <5>1. ~cleanUp => Kept(w.prof)
          BY <2>0, NoObjAssumption DEF ProfileInv, PastFinalizer, Kept, cleanUp
        <5> QED
          BY <2>0, <5>1 DEF ProfileInv, WorkerKept
      <4>7. RecordHasFinalizer'
        <5>1. ASSUME NEW q \in Profiles, Holds(StoredConfig', q)
              PROVE  HasFinalizer(Stored(profile[q]))
          <6>1. Holds(StoredConfig, q) => HasFinalizer(Stored(profile[q]))
            BY DEF ConfigInv, RecordHasFinalizer, HasFinalizer
          <6> QED
            BY <2>2, <4>2, <4>4, <4>6, <5>1, <6>1
        <5> QED
          BY <2>0, <5>1 DEF RecordHasFinalizer, HasFinalizer
      <4> QED
        BY <3>2, <3>3, <4>1, <4>5, <4>7 DEF ConfigInv
    <3>6. (v = w.cm /\ configMap' = configMap) \/ (cur /\ PutConfigMap(v)) \/ FailPhase("Failed")
      BY <1>9 DEF WriteConfigMap, cluster, Accepted
    <3>7. ~FailPhase("Failed")
      BY <1>t, <3>1 DEF FailPhase, Worker
    <3> QED
      BY <3>4, <3>5, <3>6, <3>7
  <2> QED
    BY <1>9, <2>3, <2>4 DEF WriteConfigMap
<1>10. CASE ReleaseFinalizer
  <2>0. w.pc = "release" /\ HasProfile /\ configMap' = configMap
        /\ w.name \in Profiles /\ w.prof \in ProfileObj
    BY <1>10 DEF ReleaseFinalizer, cluster, HasProfile, Loaded
  <2>1. CASE FailPhase("Failed") /\ UNCHANGED cluster
    BY <1>q, <2>0, <2>1 DEF cluster
  <2>2. CASE w' = [w EXCEPT !.pc = "status", !.phase = "Ready"] /\ UNCHANGED cluster
    <3>1. w'.pc = "status" /\ w'.name = w.name /\ w'.prof = w.prof /\ w'.profCur = w.profCur
      BY <1>t, <2>2 DEF Worker
    <3>2. ProfileInv'
      BY <2>0, <2>2, <3>1, ProfileFrame DEF PastFinalizer, cluster
    <3>3. ConfigInv'
      BY <2>0, <2>2, <3>1, ConfigFrame, SameProfilesKeep, SameConfig DEF ConfigInv, cluster
    <3> QED
      BY <3>2, <3>3
  <2>3. CASE /\ cleanUp /\ w.profCur /\ PutProfile(w.name, NoObj)
             /\ w' = [w EXCEPT !.pc = "status", !.profCur = FALSE]
    <3>1. w'.pc = "status" /\ w'.name = w.name /\ w'.prof = w.prof /\ ~w'.profCur
      BY <1>t, <2>3 DEF Worker
    <3>2. w.prof.deleting /\ w.prof = Stored(profile[w.name]) /\ InSync(profile[w.name])
      BY <2>0, <2>3 DEF cleanUp, ProfileInv, WorkerCopy
    <3> DEFINE log == Put(profile[w.name], Lag["profile"], NoObj)
    <3>3. \A i \in 1..Len(log) : log[i] = NoObj \/ log[i] = w.prof
      <4>1. profile[w.name] \in Seq(Option(ProfileObj)) \ {<<>>} /\ Lag["profile"] \in Nat
            /\ NoObj \in Option(ProfileObj)
        BY <2>0, LagAssumption DEF TypeOK, Versions, Kinds, Option
      <4>2. \A i \in 1..Len(log) : log[i] = NoObj
                                   \/ \E j \in 1..Len(profile[w.name]) : log[i] = profile[w.name][j]
        BY <4>1, PutLog
      <4>3. \A j \in 1..Len(profile[w.name]) : profile[w.name][j] = w.prof
        BY <3>2 DEF InSync, Stored
      <4> QED
        BY <4>2, <4>3
    <3>4. profile'[w.name] = log /\ \A q \in Profiles : q # w.name => profile'[q] = profile[q]
      BY <2>0, <2>3 DEF PutProfile, TypeOK
    <3> HIDE DEF log
    <3>5. KeptStays'
      BY <3>2, <3>3, <3>4 DEF ProfileInv, KeptStays, Kept
    <3>6. WorkerCopy' /\ WorkerKept' /\ PastFinalizer'
      BY <3>1, <3>2 DEF WorkerCopy, WorkerKept, PastFinalizer, Kept
    <3>7. RecordHasFinalizer'
      <4>1. ~Holds(StoredConfig, w.name)
        BY <2>0, <3>2 DEF ConfigInv, Cleaned
      <4> QED
        BY <2>0, <3>4, <4>1, SameConfig DEF ConfigInv, RecordHasFinalizer
    <3>8. ConfigCopy' /\ Cleaned' /\ InSync(configMap')
      BY <2>0, <3>1 DEF ConfigInv, ConfigCopy, Cleaned
    <3> QED
      BY <3>5, <3>6, <3>7, <3>8 DEF ProfileInv, ConfigInv
  <2> QED
    BY <1>10, <2>1, <2>2, <2>3 DEF ReleaseFinalizer, Accepted, cluster
<1>11. CASE UpdateStatus
  <2> DEFINE v == [w.prof EXCEPT !.phase = w.phase]
  <2>0. /\ HasProfile /\ w' = IdleWorker /\ configMap' = configMap
        /\ w.name \in Profiles /\ w.prof \in ProfileObj
    BY <1>11 DEF UpdateStatus, HasProfile, Loaded, cluster
  <2>1. CASE UNCHANGED cluster
    BY <1>q, <2>0, <2>1 DEF cluster
  <2>2. CASE w.profCur /\ PutProfile(w.name, v)
    <3>1. v \in Option(ProfileObj) /\ v # NoObj /\ v.finalizer = w.prof.finalizer
      BY <1>t, <2>0, NoObjAssumption DEF ProfileObj, Option, Worker
    <3> HIDE DEF v
    <3>2. w.prof = Stored(profile[w.name])
      BY <2>0, <2>2 DEF ProfileInv, WorkerCopy
    <3>3. KeptStays' /\ Keeps
      BY <2>0, <2>2, <3>1, <3>2, ProfileWrite DEF HasFinalizer, ProfileInv
    <3>4. WorkerCopy' /\ WorkerKept' /\ PastFinalizer'
      BY <2>0, IdleFacts DEF WorkerCopy, WorkerKept, PastFinalizer, HasProfile
    <3>5. ConfigInv'
      BY <2>0, <3>3, IdleFacts, ConfigFrame, SameConfig DEF ConfigInv
    <3> QED
      BY <3>3, <3>4, <3>5 DEF ProfileInv
  <2> QED
    BY <1>11, <2>1, <2>2 DEF UpdateStatus, Accepted
<1> QED
  BY <1>1, <1>2, <1>3, <1>4, <1>5, <1>6, <1>7, <1>8, <1>9, <1>10, <1>11 DEF ReconcileStep

-----------------------------------------------------------------------------
\* Steps of the others
LEMMA FinWatch == Inv /\ FinInv /\ Watch => FinInv'
<1> SUFFICES ASSUME Inv, FinInv, Watch PROVE FinInv'
  OBVIOUS
<1> USE DEF Inv, FinInv
<1>1. ASSUME NEW p \in Profiles, DeliverProfile(p) PROVE FinInv'
  <2>1. /\ Stored(Tail(profile[p])) = Stored(profile[p])
        /\ \A i \in 1..Len(Tail(profile[p])) : \E j \in 1..Len(profile[p]) : Tail(profile[p])[i] = profile[p][j]
    BY <1>1, TailLog DEF DeliverProfile, TypeOK, Versions
  <2>2. /\ profile'[p] = Tail(profile[p]) /\ \A q \in Profiles : q # p => profile'[q] = profile[q]
        /\ w' = w /\ configMap' = configMap /\ ~InSync(profile[p])
    BY <1>1 DEF DeliverProfile, TypeOK
  <2>3. \A q \in Profiles : Stored(profile'[q]) = Stored(profile[q])
    BY <2>1, <2>2
  <2>4. KeptStays'
    <3> SUFFICES ASSUME NEW q \in Profiles, NEW i \in 1..Len(profile'[q]), Kept(profile'[q][i])
                 PROVE  HasFinalizer(Stored(profile'[q]))
      BY DEF KeptStays
    <3>1. KeptStays
      BY DEF ProfileInv
    <3>2. CASE q = p
      <4>1. PICK j \in 1..Len(profile[p]) : Tail(profile[p])[i] = profile[p][j]
        BY <2>1, <2>2, <3>2
      <4> QED
        BY <2>2, <2>3, <3>1, <3>2, <4>1 DEF KeptStays
    <3>3. CASE q # p
      BY <2>2, <3>1, <3>3 DEF KeptStays
    <3> QED
      BY <3>2, <3>3
  <2>5. HasProfile => w.name \in Profiles
    BY DEF Loaded, HasProfile
  <2>6. WorkerCopy'
    BY <2>2, <2>3, <2>5 DEF ProfileInv, WorkerCopy, HasProfile
  <2>7. WorkerKept' /\ PastFinalizer'
    BY <2>2, <2>3, <2>5 DEF ProfileInv, WorkerKept, PastFinalizer, HasProfile
  <2>8. Keeps
    BY <2>3 DEF Keeps
  <2>9. ConfigInv'
    BY <2>2, <2>8, ConfigFrame, SameConfig DEF ConfigInv
  <2> QED
    BY <2>4, <2>6, <2>7, <2>9 DEF ProfileInv
<1>2. CASE UNCHANGED <<profile, configMap, w>>
  BY <1>2 DEF ProfileInv, ConfigInv, KeptStays, WorkerCopy, WorkerKept, PastFinalizer, HasProfile,
              ConfigCopy, Cleaned, RecordHasFinalizer, StoredConfig
<1>3. ~DeliverConfigMap
  BY DEF DeliverConfigMap, ConfigInv
<1> QED
  BY <1>1, <1>2, <1>3 DEF Watch, DeliverConn, DeliverReplication

LEMMA FinEnvironment ==
    ASSUME Lag["configMap"] = 0
    PROVE  Inv /\ FinInv /\ Environment => FinInv'
<1> SUFFICES ASSUME Inv, FinInv, Environment PROVE FinInv'
  OBVIOUS
<1> USE DEF Inv, FinInv
<1>n. HasProfile => w.name \in Profiles
  BY DEF Loaded, HasProfile
\* A user writes a profile and keeps its finalizer.
<1>p. ASSUME NEW p \in Profiles, NEW v \in Option(ProfileObj), PutProfile(p, v), ProfileOutdated(p),
             HasFinalizer(Stored(profile[p])) => HasFinalizer(v), configMap' = configMap
      PROVE  FinInv'
  <2>1. /\ KeptStays' /\ Keeps
        /\ \A q \in Profiles : q # p => profile'[q] = profile[q]
    BY <1>p, ProfileWrite DEF ProfileInv
  <2>2. /\ w'.pc = w.pc /\ w'.name = w.name /\ w'.prof = w.prof /\ w'.cm = w.cm
        /\ (w'.profCur => w.profCur) /\ (w'.cmCur => w.cmCur)
    BY <1>p, OutdatedFacts
  <2>3. w'.profCur => w.name # p
    BY <1>p DEF ProfileOutdated, TypeOK, Worker
  <2>4. WorkerCopy'
    BY <1>n, <2>1, <2>2, <2>3 DEF ProfileInv, WorkerCopy, HasProfile
  <2>5. WorkerKept' /\ PastFinalizer'
    BY <1>n, <2>1, <2>2 DEF ProfileInv, WorkerKept, PastFinalizer, HasProfile, Keeps
  <2>6. ConfigInv'
    BY <1>p, <2>1, <2>2, ConfigFrame, SameConfig DEF ConfigInv
  <2> QED
    BY <2>1, <2>4, <2>5, <2>6 DEF ProfileInv
\* Someone writes another object than a profile, and adds no entry.
<1>m. ASSUME NEW x, ConnOutdated(x) \/ ConfigMapOutdated, profile' = profile, InSync(configMap'),
             \A q : Holds(StoredConfig', q) => Holds(StoredConfig, q),
             configMap' = configMap \/ ConfigMapOutdated
      PROVE  FinInv'
  <2>1. /\ w'.pc = w.pc /\ w'.name = w.name /\ w'.prof = w.prof /\ w'.cm = w.cm
        /\ (w'.profCur => w.profCur) /\ (w'.cmCur => w.cmCur)
    BY <1>m, OutdatedFacts
  <2>2. KeptStays'
    BY <1>m DEF ProfileInv, KeptStays
  <2>3. WorkerCopy' /\ WorkerKept' /\ PastFinalizer'
    BY <1>m, <2>1 DEF ProfileInv, WorkerCopy, WorkerKept, PastFinalizer, HasProfile
  <2>4. configMap' = configMap \/ ~w'.cmCur
    BY <1>m DEF ConfigMapOutdated, TypeOK, Worker
  <2>5. ConfigCopy' /\ Cleaned'
    BY <1>m, <2>1, <2>4 DEF ConfigInv, ConfigCopy, Cleaned
  <2>6. RecordHasFinalizer'
    BY <1>m DEF ConfigInv, RecordHasFinalizer
  <2> QED
    BY <1>m, <2>2, <2>3, <2>5, <2>6 DEF ProfileInv, ConfigInv
<1>1. ASSUME NEW p \in Profiles, NEW c \in Conns, NEW s \in Specs, CreateProfile(p, c, s) PROVE FinInv'
  <2>1. [uid |-> uids[p] + 1, deleting |-> FALSE, finalizer |-> FALSE,
         conn |-> c, spec |-> s, phase |-> "None"] \in Option(ProfileObj)
    BY DEF ProfileObj, Option, Phases, TypeOK
  <2> QED
    BY <1>1, <1>p, <2>1 DEF CreateProfile, HasFinalizer
<1>2. ASSUME NEW p \in Profiles, DeleteProfile(p) PROVE FinInv'
  <2> DEFINE v == IF Stored(profile[p]).finalizer
                  THEN [Stored(profile[p]) EXCEPT !.deleting = TRUE] ELSE NoObj
  <2>1. Stored(profile[p]) \in ProfileObj
    BY <1>2, ReadTypes DEF DeleteProfile, Option
  <2>2. v \in Option(ProfileObj) /\ (HasFinalizer(Stored(profile[p])) => HasFinalizer(v))
    BY <2>1, NoObjAssumption DEF Option, ProfileObj, HasFinalizer
  <2> HIDE DEF v
  <2>3. PutProfile(p, v) /\ ProfileOutdated(p) /\ configMap' = configMap
    BY <1>2 DEF DeleteProfile, v
  <2> QED
    BY <1>p, <2>2, <2>3
<1>3. ASSUME NEW p \in Profiles, NEW c \in Conns, NEW s \in Specs, EditProfile(p, c, s) PROVE FinInv'
  <2> DEFINE v == [Stored(profile[p]) EXCEPT !.conn = c, !.spec = s]
  <2>1. Stored(profile[p]) \in ProfileObj
    BY <1>3, ReadTypes DEF EditProfile, Option
  <2>2. v \in Option(ProfileObj) /\ (HasFinalizer(Stored(profile[p])) => HasFinalizer(v))
    BY <2>1, NoObjAssumption DEF Option, ProfileObj, HasFinalizer
  <2> HIDE DEF v
  <2>3. PutProfile(p, v) /\ ProfileOutdated(p) /\ configMap' = configMap
    BY <1>3 DEF EditProfile, v
  <2> QED
    BY <1>p, <2>2, <2>3
<1>4. ASSUME NEW c \in Conns, ConnOutdated(c), UNCHANGED <<profile, configMap>> PROVE FinInv'
  BY <1>4, <1>m, SameConfig DEF ConfigInv
<1>5. CASE UNCHANGED <<profile, configMap, w>>
  BY <1>5 DEF ProfileInv, ConfigInv, KeptStays, WorkerCopy, WorkerKept, PastFinalizer, HasProfile,
              ConfigCopy, Cleaned, RecordHasFinalizer, StoredConfig
<1>6. ASSUME NEW v \in Option(ConfigMapObj), PutConfigMap(v), ConfigMapOutdated, profile' = profile,
             \A q : Holds(ConfigOf(v), q) => Holds(StoredConfig, q)
      PROVE  FinInv'
  <2>1. InSync(configMap') /\ Stored(configMap') = v
    BY <1>6, FreshPut DEF ConfigInv
  <2>2. StoredConfig' = ConfigOf(v)
    BY <2>1 DEF StoredConfig, ConfigOf
  <2> QED
    BY <1>6, <1>m, <2>1, <2>2
<1>7. CASE ForeignWrite
  <2> DEFINE b == IF Stored(configMap) = NoObj THEN EmptyConfigMap ELSE Stored(configMap)
             v == [b EXCEPT !.foreign = IF @ = 1 THEN 2 ELSE 1]
  <2>1. b \in ConfigMapObj /\ ConfigOf(b) = StoredConfig
    BY ReadTypes, EmptyConfigMapType DEF Option, StoredConfig, ConfigOf
  <2> HIDE DEF b
  <2>2. v \in ConfigMapObj /\ v.config = b.config
    BY <2>1 DEF ConfigMapObj
  <2>3. ConfigOf(v) = StoredConfig
    BY <2>1, <2>2, NoObjAssumption DEF ConfigOf
  <2>4. PutConfigMap(v) /\ ConfigMapOutdated /\ profile' = profile
    BY <1>7 DEF ForeignWrite, b
  <2> HIDE DEF v
  <2> QED
    BY <1>6, <2>2, <2>3, <2>4 DEF Option
<1>8. CASE DeleteConfigMap
  <2>1. \A q : ~Holds(ConfigOf(NoObj), q)
    BY EmptyUnique DEF ConfigOf
  <2> QED
    BY <1>6, <1>8, <2>1 DEF DeleteConfigMap, Option
<1>9. CASE CollectConfigMap
  <2> DEFINE s == Stored(configMap)
             u == [s EXCEPT !.owners = @ \ Dangling(@)]
             v == IF s.foreign = 0 /\ Dangling(s.owners) = s.owners THEN NoObj ELSE u
  <2>1. s \in ConfigMapObj
    BY <1>9, ReadTypes DEF CollectConfigMap, Option
  <2>2. u \in ConfigMapObj /\ u.config = s.config
    BY <2>1 DEF ConfigMapObj
  <2>3. v \in Option(ConfigMapObj)
    BY <2>2 DEF Option
  <2>4. \A q : Holds(ConfigOf(v), q) => Holds(StoredConfig, q)
    BY <2>1, <2>2, EmptyUnique, NoObjAssumption DEF ConfigOf, StoredConfig
  <2>5. PutConfigMap(v) /\ ConfigMapOutdated /\ profile' = profile
    BY <1>9 DEF CollectConfigMap
  <2> HIDE DEF v
  <2> QED
    BY <1>6, <2>3, <2>4, <2>5
<1>10. CASE Restart
  <2>1. w'.pc = "idle"
    BY <1>10, IdleFacts DEF Restart
  <2>2. \A p \in Profiles : /\ Stored(profile'[p]) = Stored(profile[p])
                            /\ Len(profile'[p]) = 1
    <3>1. \A p \in Profiles : profile'[p] = Relist(profile[p])
      BY <1>10 DEF Restart
    <3>2. \A p \in Profiles : profile[p] \in Seq(Option(ProfileObj)) \ {<<>>}
      BY DEF TypeOK, Versions
    <3> QED
      BY <3>1, <3>2, LogElements
  <2>3. KeptStays'
    BY <2>2 DEF KeptStays, Kept, HasFinalizer, Stored
  <2>4. WorkerCopy' /\ WorkerKept' /\ PastFinalizer'
    BY <2>1 DEF WorkerCopy, WorkerKept, PastFinalizer, HasProfile
  <2>5. Keeps
    BY <2>2 DEF Keeps
  <2>6. InSync(configMap') /\ Stored(configMap') = Stored(configMap)
    <3>1. configMap' = Relist(configMap) /\ configMap \in Seq(Option(ConfigMapObj)) \ {<<>>}
      BY <1>10 DEF Restart, TypeOK, Versions
    <3> QED
      BY <3>1, LogElements DEF InSync
  <2>7. StoredConfig' = StoredConfig
    BY <2>6 DEF StoredConfig, ConfigOf
  <2>8. ConfigInv'
    BY <2>1, <2>5, <2>6, <2>7, ConfigFrame
  <2> QED
    BY <2>3, <2>4, <2>8 DEF ProfileInv
<1> QED
  BY <1>1, <1>2, <1>3, <1>4, <1>5, <1>7, <1>8, <1>9, <1>10
     DEF Environment, ApplyConn, DeleteConn, CollectConn, ApplyReplication, DeleteReplication,
         Resync, cluster

THEOREM FinInvInit == Init => FinInv
<1> SUFFICES ASSUME Init PROVE FinInv
  OBVIOUS
<1>1. w.pc = "idle" /\ configMap = <<NoObj>> /\ \A p \in Profiles : profile[p] = <<NoObj>>
  BY DEF Init, IdleWorker
<1>2. KeptStays
  BY <1>1 DEF KeptStays, Kept
<1>3. WorkerCopy /\ WorkerKept /\ PastFinalizer /\ ConfigCopy /\ Cleaned
  BY <1>1 DEF WorkerCopy, WorkerKept, PastFinalizer, ConfigCopy, Cleaned, HasProfile
<1>4. InSync(configMap) /\ RecordHasFinalizer
  BY <1>1, EmptyUnique DEF InSync, RecordHasFinalizer, StoredConfig, ConfigOf, Stored
<1> QED
  BY <1>2, <1>3, <1>4 DEF FinInv, ProfileInv, ConfigInv

THEOREM FinInvNext ==
    ASSUME Lag["configMap"] = 0
    PROVE  Inv /\ FinInv /\ [Next]_vars => FinInv'
<1> SUFFICES ASSUME Inv, FinInv, [Next]_vars PROVE FinInv'
  OBVIOUS
<1>1. ASSUME NEW p \in Profiles, StartReconcile(p) PROVE FinInv'
  <2>1. w'.pc = "getProfile" /\ UNCHANGED <<profile, configMap>>
    BY <1>1 DEF StartReconcile, IdleWorker, cluster
  <2>2. ProfileInv'
    BY <2>1, ProfileFrame DEF FinInv
  <2>3. ConfigInv'
    BY <2>1, ConfigFrame, SameProfilesKeep, SameConfig DEF FinInv, ConfigInv
  <2> QED
    BY <2>2, <2>3 DEF FinInv
<1>2. CASE UNCHANGED vars
  BY <1>2 DEF FinInv, ProfileInv, ConfigInv, KeptStays, WorkerCopy, WorkerKept, PastFinalizer, HasProfile,
              ConfigCopy, Cleaned, RecordHasFinalizer, StoredConfig, vars
<1> QED
  BY <1>1, <1>2, FinReconcileStep, FinWatch, FinEnvironment DEF Next

\* When the watch of ConfigMaps does not lag, an entry in config.json always has
\* a profile with the finalizer behind it, whatever the lag of the other watches,
\* the crashes, the conflicts and the recreations (reconcilePhases).
THEOREM RecordsAreBacked ==
    ASSUME Lag["configMap"] = 0
    PROVE  Spec => []RecordHasFinalizer
<1>1. FinInv => RecordHasFinalizer
  BY DEF FinInv, ConfigInv
<1>2. Init => FinInv
  BY FinInvInit
<1>3. Inv /\ FinInv /\ [Next]_vars => FinInv'
  BY FinInvNext
<1> QED
  BY <1>1, <1>2, <1>3, InvInit, InvNext, PTL DEF Spec

-----------------------------------------------------------------------------
(* What has been cleaned up when a profile is let go *)

\* Up to reconcileCephConnection the copy of the CephConnection has the profile's
\* reference: loadAndValidate gave up otherwise.
OwnRef == w.pc \in {"listReady", "finalizer", "conn"} => me \in w.conn.owners

\* After it the stored CephConnection of a deleted profile has lost the reference, and
\* nobody puts it back while the worker is busy.
ConnReleased ==
    w.pc \in {"replication", "readConfigMap", "writeConfigMap", "release"} /\ w.prof.deleting
        => me \notin OwnersOf(Stored(cephConn[w.prof.conn]))

\* The copy of the ConfigMap has the profile's reference if the stored one has.
RefRead == w.pc = "writeConfigMap" /\ me \in OwnersOf(Stored(configMap)) => me \in OwnersOf(w.cm)

RefReleased == w.pc = "release" /\ w.prof.deleting => me \notin OwnersOf(Stored(configMap))

CleanInv == OwnRef /\ ConnReleased /\ RefRead /\ RefReleased

LEMMA CleanElsewhere ==
    w.pc \in {"idle", "getProfile", "getConn", "addOwner", "status"} => CleanInv
BY DEF CleanInv, OwnRef, ConnReleased, RefRead, RefReleased

LEMMA CleanElsewhereNext ==
    w'.pc \in {"idle", "getProfile", "getConn", "addOwner", "status"} => CleanInv'
BY DEF CleanInv, OwnRef, ConnReleased, RefRead, RefReleased

LEMMA CleanOthers == Inv /\ CleanInv /\ OthersEffect => CleanInv'
<1> SUFFICES ASSUME Inv, CleanInv, OthersEffect, w'.pc # "idle" PROVE CleanInv'
  BY CleanElsewhereNext
<1>1. w'.pc = w.pc /\ w'.name = w.name /\ w'.prof = w.prof /\ w'.conn = w.conn /\ w'.cm = w.cm
  BY DEF OthersEffect, OthersWorker
<1>2. me' = me
  BY <1>1 DEF me
<1>3. HasConn => w.prof.conn \in Conns
  BY WorkerWrites DEF Inv
<1>4. OwnRef'
  BY <1>1, <1>2 DEF CleanInv, OwnRef
<1>5. ConnReleased'
  BY <1>1, <1>2, <1>3 DEF CleanInv, ConnReleased, OthersEffect, OthersConns, HasConn
<1>6. OwnersOf(Stored(configMap')) \subseteq OwnersOf(Stored(configMap))
  BY NoObjAssumption DEF OthersEffect, OthersConfigMap, OwnersOf, Base, EmptyConfigMap
<1>7. RefRead' /\ RefReleased'
  BY <1>1, <1>2, <1>6 DEF CleanInv, RefRead, RefReleased
<1> QED
  BY <1>4, <1>5, <1>7 DEF CleanInv

\* What the toggle does to the worker's own reference.
LEMMA ToggleMine ==
    ASSUME NEW owners, NEW u
    PROVE  /\ u \in ToggleOwnerReference(TRUE, owners, u)
           /\ u \notin ToggleOwnerReference(FALSE, owners, u)
BY DEF ToggleOwnerReference

\* What the write of the ConfigMap does to it.
LEMMA MutateMine ==
    ASSUME NEW cm \in ConfigMapObj, cleanUp
    PROVE  me \notin MutateConfigMap(cm).owners
<1>1. MutateConfigMap(cm).owners = ToggleOwnerReference(FALSE, cm.owners, me)
  BY DEF MutateConfigMap, ConfigMapObj
<1> QED
  BY <1>1, ToggleMine

LEMMA CleanReconcileStep ==
    Inv /\ Copies /\ CleanInv /\ InSync(configMap) /\ ReconcileStep => CleanInv'
<1> SUFFICES ASSUME Inv, Copies, CleanInv, InSync(configMap), ReconcileStep PROVE CleanInv'
  OBVIOUS
<1>t. TypeOK /\ Loaded /\ w \in Worker
  BY DEF Inv, TypeOK
<1>i. ASSUME w' = IdleWorker PROVE CleanInv'
  BY <1>i, IdleFacts, CleanElsewhereNext
<1>f. ASSUME NEW ph, FailPhase(ph) PROVE CleanInv'
  <2>1. w'.pc = "status"
    BY <1>t, <1>f DEF FailPhase, Worker
  <2> QED
    BY <2>1, CleanElsewhereNext
<1>1. CASE LoadClientProfile
  <2>1. w' = IdleWorker \/ w'.pc = "getConn"
    BY <1>1, <1>t DEF LoadClientProfile, AbandonLoad, Worker
  <2> QED
    BY <1>i, <2>1, CleanElsewhereNext
<1>2. CASE LoadCephConnection
  <2> DEFINE v == Cached(cephConn[w.prof.conn])
  <2>1. CASE AbandonLoad
    BY <1>i, <2>1 DEF AbandonLoad
  <2>2. CASE ~AbandonLoad
    <3>1. /\ w'.pc = IF me \in v.owners THEN "listReady" ELSE "addOwner"
          /\ w'.name = w.name /\ w'.prof = w.prof /\ w'.conn = v
      BY <1>2, <1>t, <2>2 DEF LoadCephConnection, Worker
    <3>2. me' = me
      BY <3>1 DEF me
    <3> QED
      BY <3>1, <3>2 DEF CleanInv, OwnRef, ConnReleased, RefRead, RefReleased
  <2> QED
    BY <2>1, <2>2
<1>3. CASE AddConnOwner
  <2>1. CASE AbandonLoad
    BY <1>i, <2>1 DEF AbandonLoad
  <2>2. CASE ~AbandonLoad
    <3> DEFINE owners == ToggleOwnerReference(TRUE, w.conn.owners, me)
    <3>1. HasConn
      BY <1>3 DEF AddConnOwner, HasConn
    <3>2. w' = [w EXCEPT !.pc = "listReady", !.conn = [w.conn EXCEPT !.owners = owners]]
      BY <1>3, <2>2 DEF AddConnOwner
    <3>3. me \in owners
      BY ToggleMine
    <3> HIDE DEF owners
    <3>4. w'.pc = "listReady" /\ w'.name = w.name /\ w'.prof = w.prof /\ w'.conn.owners = owners
      BY <1>t, <3>1, <3>2, WorkerWrites DEF Worker, ConnObj
    <3>5. me' = me
      BY <3>4 DEF me
    <3> QED
      BY <3>3, <3>4, <3>5 DEF CleanInv, OwnRef, ConnReleased, RefRead, RefReleased
  <2> QED
    BY <2>1, <2>2
<1>4. CASE LoadReplication
  <2>1. CASE AbandonLoad
    BY <1>i, <2>1 DEF AbandonLoad
  <2>2. CASE ~AbandonLoad
    <3>1. w.pc = "listReady" /\ w'.pc = "finalizer" /\ w'.name = w.name /\ w'.prof = w.prof /\ w'.conn = w.conn
      BY <1>4, <1>t, <2>2 DEF LoadReplication, Worker
    <3>2. me' = me
      BY <3>1 DEF me
    <3> QED
      BY <3>1, <3>2 DEF CleanInv, OwnRef, ConnReleased, RefRead, RefReleased
  <2> QED
    BY <2>1, <2>2
<1>5. CASE EnsureFinalizer
  <2>1. CASE FailPhase("Pending")
    BY <1>f, <2>1
  <2>2. CASE ~FailPhase("Pending")
    <3>0. w.pc = "finalizer" /\ HasConn
      BY <1>5 DEF EnsureFinalizer, HasConn
    <3>1. w'.pc = "conn" /\ w'.name = w.name /\ w'.conn = w.conn
      BY <1>5, <1>t, <2>2 DEF EnsureFinalizer, GoTo, Worker
    <3>2. w'.prof = w.prof \/ w'.prof = [w.prof EXCEPT !.finalizer = TRUE]
      BY <1>5, <1>t, <2>2 DEF EnsureFinalizer, GoTo, Worker
    <3>3. w'.prof.uid = w.prof.uid
      BY <1>t, <3>0, <3>2, WorkerWrites DEF ProfileObj
    <3>4. me' = me
      BY <3>1, <3>3 DEF me
    <3> QED
      BY <3>0, <3>1, <3>4 DEF CleanInv, OwnRef, ConnReleased, RefRead, RefReleased
  <2> QED
    BY <2>1, <2>2
<1>6. CASE ReconcileCephConnection
  <2>1. CASE FailPhase("Failed")
    BY <1>f, <2>1
  <2>2. CASE ~FailPhase("Failed")
    <3> DEFINE v == [w.conn EXCEPT !.owners = ToggleOwnerReference(~cleanUp, @, me)]
    <3>0. w.pc = "conn" /\ HasConn /\ me \in w.conn.owners
      BY <1>6 DEF ReconcileCephConnection, HasConn, CleanInv, OwnRef
    <3>1. w'.pc = "replication" /\ w'.name = w.name /\ w'.prof = w.prof
      BY <1>6, <1>t, <2>2 DEF ReconcileCephConnection, GoTo, Worker
    <3>2. me' = me
      BY <3>1 DEF me
    <3>3. ASSUME cleanUp PROVE me \notin OwnersOf(Stored(cephConn'[w.prof.conn]))
      <4>1. v \in Option(ConnObj) /\ v # NoObj /\ me \notin v.owners
        <5>1. (~cleanUp) = FALSE
          BY <3>3
        <5>2. w.conn \in ConnObj /\ v = [w.conn EXCEPT !.owners = ToggleOwnerReference(FALSE, @, me)]
          BY <1>t, <3>0, <5>1, WorkerWrites
        <5>3. v \in Option(ConnObj) /\ v.owners = ToggleOwnerReference(FALSE, w.conn.owners, me)
          BY <1>t, <3>0, <5>2, WorkerWrites DEF ConnObj
        <5>4. v \in ConnObj
          BY <5>2, <5>3 DEF ConnObj, ToggleOwnerReference
        <5> QED
          BY <5>3, <5>4, ToggleMine, NoObjAssumption
      <4>2. v # w.conn
        BY <3>0, <4>1
      <4>3. PutConn(w.prof.conn, v)
        BY <1>6, <2>2, <4>2 DEF ReconcileCephConnection
      <4> HIDE DEF v
      <4>4. Stored(cephConn'[w.prof.conn]) = v
        BY <1>t, <3>0, <4>1, <4>3, PutStored, WorkerWrites
      <4> QED
        BY <4>1, <4>4 DEF OwnersOf
    <3>4. ConnReleased'
      BY <3>1, <3>2, <3>3 DEF ConnReleased, cleanUp
    <3> QED
      BY <3>1, <3>4 DEF CleanInv, OwnRef, RefRead, RefReleased
  <2> QED
    BY <2>1, <2>2
<1>7. CASE ReconcileReplication
  <2>1. ASSUME GoTo("readConfigMap") PROVE CleanInv'
    <3>1. w.pc = "replication" /\ cephConn' = cephConn
      BY <1>7 DEF ReconcileReplication, cluster
    <3>2. w'.pc = "readConfigMap" /\ w'.name = w.name /\ w'.prof = w.prof
      BY <1>t, <2>1 DEF GoTo, Worker
    <3>3. me' = me
      BY <3>2 DEF me
    <3> QED
      BY <3>1, <3>2, <3>3 DEF CleanInv, OwnRef, ConnReleased, RefRead, RefReleased
  <2> QED
    BY <1>7, <1>f, <2>1 DEF ReconcileReplication
<1>8. CASE ReadConfigMap
  <2>1. /\ w.pc = "readConfigMap" /\ UNCHANGED <<cephConn, configMap>>
        /\ w'.pc = "writeConfigMap" /\ w'.name = w.name /\ w'.prof = w.prof /\ w'.cm = Cached(configMap)
    BY <1>8, <1>t DEF ReadConfigMap, cluster, Worker
  <2>2. me' = me
    BY <2>1 DEF me
  <2>3. Cached(configMap) = Stored(configMap)
    BY DEF InSync, Cached, Stored
  <2> QED
    BY <2>1, <2>2, <2>3 DEF CleanInv, OwnRef, ConnReleased, RefRead, RefReleased
<1>9. CASE WriteConfigMap
  <2>1. CASE FailPhase("Failed")
    BY <1>f, <2>1
  <2>2. CASE ~FailPhase("Failed")
    <3>0. w.pc = "writeConfigMap" /\ cephConn' = cephConn
      BY <1>9 DEF WriteConfigMap, cluster
    <3>1. w'.pc = "release" /\ w'.name = w.name /\ w'.prof = w.prof
      BY <1>9, <1>t, <2>2 DEF WriteConfigMap, GoTo, Worker
    <3>2. me' = me
      BY <3>1 DEF me
    <3> DEFINE base == IF w.cm = NoObj THEN EmptyConfigMap ELSE w.cm
               v == MutateConfigMap(base)
    <3>3. base \in ConfigMapObj /\ Unique(ConfigOf(base))
      BY EmptyConfigMapType, EmptyUnique DEF Inv, TypeOK, Worker, Option, AllUnique
    <3> HIDE DEF base
    <3>4. v \in ConfigMapObj /\ v # NoObj
      BY <1>t, <3>0, <3>3, MutateFacts, NoObjAssumption
    <3>5. cleanUp => me \notin v.owners
      BY <3>3, MutateMine
    <3>6. CASE v = w.cm /\ configMap' = configMap
      <4>1. cleanUp => me \notin OwnersOf(Stored(configMap))
        BY <3>0, <3>4, <3>5, <3>6 DEF CleanInv, RefRead, OwnersOf
      <4> QED
        BY <3>0, <3>1, <3>2, <3>6, <4>1 DEF CleanInv, OwnRef, ConnReleased, RefRead, RefReleased, cleanUp
    <3>7. CASE PutConfigMap(v)
      <4> HIDE DEF v
      <4>1. Stored(configMap') = v
        BY <1>t, <3>4, <3>7, PutStored DEF Option
      <4> QED
        BY <3>0, <3>1, <3>2, <3>4, <3>5, <4>1
           DEF CleanInv, OwnRef, ConnReleased, RefRead, RefReleased, cleanUp, OwnersOf
    <3> QED
      BY <1>9, <2>2, <3>6, <3>7 DEF WriteConfigMap, cluster, base
  <2> QED
    BY <2>1, <2>2
<1>10. CASE ReleaseFinalizer
  <2>1. w'.pc = "status"
    BY <1>10, <1>t DEF ReleaseFinalizer, FailPhase, Worker
  <2> QED
    BY <2>1, CleanElsewhereNext
<1>11. CASE UpdateStatus
  BY <1>11, <1>i DEF UpdateStatus
<1> QED
  BY <1>1, <1>2, <1>3, <1>4, <1>5, <1>6, <1>7, <1>8, <1>9, <1>10, <1>11 DEF ReconcileStep

LEMMA CleanNext == Inv /\ Copies /\ InSync(configMap) /\ CleanInv /\ [Next]_vars => CleanInv'
<1> SUFFICES ASSUME Inv, Copies, InSync(configMap), CleanInv, [Next]_vars PROVE CleanInv'
  OBVIOUS
<1>1. ASSUME NEW p \in Profiles, StartReconcile(p) PROVE CleanInv'
  <2>1. w'.pc = "getProfile"
    BY <1>1 DEF StartReconcile, IdleWorker
  <2> QED
    BY <2>1, CleanElsewhereNext
<1> QED
  BY <1>1, CleanReconcileStep, CleanOthers, OthersWatch, OthersEnvironment, OthersStutter DEF Next

\* The profile a step lets go is the worker's, whose clean up is done.
Released(p) == Stored(profile[p]) # NoObj /\ Stored(profile[p]).finalizer /\ Stored(profile'[p]) = NoObj

LEMMA ReleasedByWorker ==
    ASSUME Inv, Copies, [Next]_vars, NEW p \in Profiles, Released(p)
    PROVE  p = w.name /\ w.pc = "release" /\ w.prof.deleting /\ w.profCur /\ w.prof = Stored(profile[p])
<1>t. TypeOK /\ Loaded /\ w \in Worker
  BY DEF Inv, TypeOK
<1>1. ~OthersEffect
  BY DEF OthersEffect, OthersProfiles, Released
<1>2. profile' # profile
  BY DEF Released
<1>3. ASSUME NEW v \in Option(ProfileObj), PutProfile(w.name, v), w.name \in Profiles PROVE v = NoObj /\ p = w.name
  <2>1. Stored(profile'[p]) = IF p = w.name THEN v ELSE Stored(profile[p])
    BY <1>t, <1>3, PutStored
  <2> QED
    BY <2>1 DEF Released
<1>4. ~EnsureFinalizer
  <2> SUFFICES ASSUME EnsureFinalizer PROVE FALSE
    OBVIOUS
  <2>1. HasConn
    BY DEF EnsureFinalizer, HasConn
  <2> DEFINE v == [w.prof EXCEPT !.finalizer = TRUE]
  <2>2. PutProfile(w.name, v)
    BY <1>2 DEF EnsureFinalizer, cluster
  <2>3. v \in ProfileObj /\ w.name \in Profiles
    BY <1>t, <2>1, WorkerWrites DEF ProfileObj
  <2> HIDE DEF v
  <2> QED
    BY <1>3, <2>2, <2>3, NoObjAssumption DEF Option
<1>5. ~UpdateStatus
  <2> SUFFICES ASSUME UpdateStatus PROVE FALSE
    OBVIOUS
  <2>1. HasConn
    BY DEF UpdateStatus, HasConn
  <2> DEFINE v == [w.prof EXCEPT !.phase = w.phase]
  <2>2. PutProfile(w.name, v)
    BY <1>2 DEF UpdateStatus, cluster
  <2>3. v \in ProfileObj /\ w.name \in Profiles
    BY <1>t, <2>1, WorkerWrites DEF ProfileObj, Worker
  <2> HIDE DEF v
  <2> QED
    BY <1>3, <2>2, <2>3, NoObjAssumption DEF Option
<1>6. ReleaseFinalizer
  BY <1>1, <1>2, <1>4, <1>5, OthersWatch, OthersEnvironment, OthersStutter
     DEF Next, ReconcileStep, StartReconcile, LoadClientProfile, LoadCephConnection, AddConnOwner, LoadReplication,
         ReconcileCephConnection, ReconcileReplication, ReadConfigMap, WriteConfigMap, cluster
<1>7. cleanUp /\ w.profCur /\ PutProfile(w.name, NoObj) /\ w.pc = "release"
  BY <1>2, <1>6 DEF ReleaseFinalizer, Accepted, cluster
<1>8. HasProfile /\ HasConn
  BY <1>7 DEF HasProfile, HasConn
<1>9. p = w.name
  BY <1>t, <1>3, <1>7, <1>8, WorkerWrites DEF Option
<1> QED
  BY <1>7, <1>8, <1>9 DEF Copies, ProfileCurrent, cleanUp

\* When the watch of ConfigMaps does not lag, a deleted profile is let go only with its
\* entry, its reference in the ConfigMap and its reference in the CephConnection gone
\* from the stored objects, whatever the lag of the other watches, the crashes, the
\* conflicts and the edits meanwhile (reconcilePhases).
THEOREM ReleasesAreClean ==
    ASSUME Lag["configMap"] = 0
    PROVE  Spec => ReleaseIsClean
<1> DEFINE IInv == Inv /\ Copies /\ FinInv /\ CleanInv
<1>1. Init => IInv
  <2>1. Init => CleanInv
    BY CleanElsewhere DEF Init, IdleWorker
  <2> QED
    BY <2>1, InvInit, CopiesInit, FinInvInit
<1>2. IInv /\ [Next]_vars => IInv'
  <2> SUFFICES ASSUME IInv, [Next]_vars PROVE IInv'
    OBVIOUS
  <2>1. Inv' /\ Copies' /\ FinInv'
    BY InvNext, CopiesNext, FinInvNext
  <2>2. CleanInv'
    BY CleanNext DEF FinInv, ConfigInv
  <2> QED
    BY <2>1, <2>2
<1> DEFINE Step == \A p \in Profiles :
              (Stored(profile[p]) # NoObj /\ Stored(profile[p]).finalizer /\ Stored(profile'[p]) = NoObj) =>
                LET gone == Stored(profile[p])
                    conn == Stored(cephConn[gone.conn])
                IN  /\ conn = NoObj \/ <<p, gone.uid>> \notin conn.owners
                    /\ Stored(configMap) = NoObj \/ <<p, gone.uid>> \notin Stored(configMap).owners
                    /\ ~Holds(StoredConfig, p)
<1>3. IInv /\ [Next]_vars => [Step]_vars
  <2> SUFFICES ASSUME IInv, [Next]_vars, NEW p \in Profiles, Released(p)
               PROVE  /\ \/ Stored(cephConn[Stored(profile[p]).conn]) = NoObj
                         \/ <<p, Stored(profile[p]).uid>> \notin Stored(cephConn[Stored(profile[p]).conn]).owners
                      /\ \/ Stored(configMap) = NoObj
                         \/ <<p, Stored(profile[p]).uid>> \notin Stored(configMap).owners
                      /\ ~Holds(StoredConfig, p)
    BY DEF Released
  <2>1. p = w.name /\ w.pc = "release" /\ w.prof.deleting /\ w.profCur /\ w.prof = Stored(profile[p])
    BY ReleasedByWorker
  <2>2. me = <<p, Stored(profile[p]).uid>>
    BY <2>1 DEF me
  <2>3. me \notin OwnersOf(Stored(cephConn[w.prof.conn])) /\ me \notin OwnersOf(Stored(configMap))
    BY <2>1 DEF CleanInv, ConnReleased, RefReleased
  <2>4. ~Holds(StoredConfig, p)
    BY <2>1 DEF FinInv, ConfigInv, Cleaned
  <2> QED
    BY <2>1, <2>2, <2>3, <2>4 DEF OwnersOf
<1>4. ReleaseIsClean <=> [][Step]_vars
  BY DEF ReleaseIsClean
<1> HIDE DEF IInv, Step
<1> QED
  BY <1>1, <1>2, <1>3, <1>4, PTL DEF Spec

-----------------------------------------------------------------------------
(* Replications the operator knows of keep their profile *)

\* An iteration that found the deletion of p stored has found no replication either,
\* and goes on to release p.
Releasing(p) ==
    /\ w.pc \in {"readConfigMap", "writeConfigMap", "release"}
    /\ w.name = p /\ w.prof.deleting /\ w.profCur

\* What a known replication keeps up until it is deleted or names another profile.
Held(p, r) == HasFinalizer(Stored(profile[p])) /\ Known(r, p) /\ ~Releasing(p)

\* The versions of a replication that are stored or under way to the cache were so
\* before, or there is only the stored one to be added.
LEMMA VersionsNext ==
    ASSUME Inv, [Next]_vars, NEW q \in Replications
    PROVE  \A i \in 1..Len(replication'[q]) :
              \/ replication'[q][i] = Stored(replication'[q])
              \/ \E j \in 1..Len(replication[q]) : replication'[q][i] = replication[q][j]
<1> DEFINE Goal == \A i \in 1..Len(replication'[q]) :
                      \/ replication'[q][i] = Stored(replication'[q])
                      \/ \E j \in 1..Len(replication[q]) : replication'[q][i] = replication[q][j]
<1> SUFFICES Goal
  OBVIOUS
<1>t. /\ replication[q] \in Seq(Option(ReplicationObj)) \ {<<>>}
      /\ replication \in [Replications -> Versions(ReplicationObj)] /\ Lag["replication"] \in Nat
  BY LagAssumption DEF Inv, TypeOK, Versions, Kinds
<1>1. CASE replication'[q] = replication[q]
  BY <1>1
<1>2. ASSUME NEW r \in Replications, NEW v \in Option(ReplicationObj), PutReplication(r, v) PROVE Goal
  <2> DEFINE log == Put(replication[q], Lag["replication"], v)
  <2>1. replication'[q] = IF q = r THEN log ELSE replication[q]
    BY <1>t, <1>2 DEF PutReplication
  <2>2. /\ Stored(log) = v
        /\ \A i \in 1..Len(log) : log[i] = v \/ \E j \in 1..Len(replication[q]) : log[i] = replication[q][j]
    BY <1>t, PutLog
  <2> HIDE DEF log
  <2> QED
    BY <2>1, <2>2
<1>3. ASSUME NEW r \in Replications, NEW p \in Profiles, NEW d \in Dests, NEW ready \in BOOLEAN,
             ApplyReplication(r, p, d, ready)
      PROVE  Goal
  <2>1. [local |-> p, dest |-> d, ready |-> ready] \in Option(ReplicationObj)
    BY DEF Option, ReplicationObj
  <2> QED
    BY <1>2, <1>3, <2>1 DEF ApplyReplication
<1>4. ASSUME NEW r \in Replications, DeleteReplication(r) PROVE Goal
  BY <1>2, <1>4 DEF DeleteReplication, Option
<1>5. CASE Restart
  <2>1. replication'[q] = <<Stored(replication[q])>>
    BY <1>5 DEF Restart, Relist
  <2> QED
    BY <2>1 DEF Stored
<1>6. ASSUME NEW r \in Replications, DeliverReplication(r) PROVE Goal
  <2>1. replication'[q] = IF q = r THEN Tail(replication[q]) ELSE replication[q]
    BY <1>t, <1>6 DEF DeliverReplication
  <2>2. q = r => \A i \in 1..Len(Tail(replication[q])) :
                    \E j \in 1..Len(replication[q]) : Tail(replication[q])[i] = replication[q][j]
    BY <1>t, <1>6, TailLog DEF DeliverReplication
  <2> QED
    BY <2>1, <2>2
<1> HIDE DEF Goal
<1>7. ReconcileStep => replication' = replication
  BY DEF ReconcileStep, LoadClientProfile, LoadCephConnection, AddConnOwner, LoadReplication, EnsureFinalizer,
         ReconcileCephConnection, ReconcileReplication, ReadConfigMap, WriteConfigMap, ReleaseFinalizer,
         UpdateStatus, cluster
<1>8. CASE Watch
  BY <1>1, <1>6, <1>8 DEF Watch, DeliverProfile, DeliverConn, DeliverConfigMap
<1>9. CASE Environment
  BY <1>1, <1>3, <1>4, <1>5, <1>9
     DEF Environment, CreateProfile, DeleteProfile, EditProfile, ApplyConn, DeleteConn, CollectConn,
         ForeignWrite, DeleteConfigMap, CollectConfigMap, Resync, cluster
<1> QED
  BY <1>1, <1>7, <1>8, <1>9 DEF Next, StartReconcile, cluster, vars

LEMMA KnownNext ==
    ASSUME Inv, [Next]_vars, NEW p \in Profiles, NEW r \in Replications, Known(r, p),
           Refers(Stored(replication'[r]), p)
    PROVE  Known(r, p)'
BY VersionsNext DEF Known

\* A worker that the list of known replications stops does not come to release.
LEMMA ReleasingNext ==
    ASSUME Inv, [Next]_vars, NEW p \in Profiles, NEW r \in Replications, Known(r, p), ~Releasing(p)
    PROVE  ~Releasing(p)'
<1>t. w \in Worker
  BY DEF Inv, TypeOK
<1>e. ASSUME w'.pc \notin {"readConfigMap", "writeConfigMap", "release"} PROVE ~Releasing(p)'
  BY <1>e DEF Releasing
<1>i. ASSUME w' = IdleWorker PROVE ~Releasing(p)'
  BY <1>e, <1>i, IdleFacts
<1>f. ASSUME NEW ph, FailPhase(ph) PROVE ~Releasing(p)'
  <2>1. w'.pc = "status"
    BY <1>t, <1>f DEF FailPhase, Worker
  <2> QED
    BY <1>e, <2>1
<1>1. CASE LoadClientProfile \/ LoadCephConnection \/ AddConnOwner \/ LoadReplication
  <2>1. w' = IdleWorker \/ w'.pc \in {"getConn", "listReady", "addOwner", "finalizer"}
    <3>1. CASE LoadClientProfile
      BY <1>t, <3>1 DEF LoadClientProfile, AbandonLoad, Worker
    <3>2. CASE LoadCephConnection
      BY <1>t, <3>2 DEF LoadCephConnection, AbandonLoad, Worker
    <3>3. CASE AddConnOwner
      BY <1>t, <3>3 DEF AddConnOwner, AbandonLoad, Worker
    <3>4. CASE LoadReplication
      BY <1>t, <3>4 DEF LoadReplication, AbandonLoad, Worker
    <3> QED
      BY <1>1, <3>1, <3>2, <3>3, <3>4
  <2> QED
    BY <1>e, <1>i, <2>1
<1>2. CASE EnsureFinalizer \/ ReconcileCephConnection \/ ReleaseFinalizer
  <2>1. w'.pc \in {"conn", "replication", "status"}
    <3>1. CASE EnsureFinalizer
      BY <1>t, <3>1 DEF EnsureFinalizer, GoTo, FailPhase, Worker
    <3>2. CASE ReconcileCephConnection
      BY <1>t, <3>2 DEF ReconcileCephConnection, GoTo, FailPhase, Worker
    <3>3. CASE ReleaseFinalizer
      BY <1>t, <3>3 DEF ReleaseFinalizer, FailPhase, Worker
    <3> QED
      BY <1>2, <3>1, <3>2, <3>3
  <2> QED
    BY <1>e, <2>1
<1>3. CASE ReconcileReplication
  <2>1. ASSUME GoTo("readConfigMap") PROVE ~Releasing(p)'
    <3>1. w'.pc = "readConfigMap" /\ w'.name = w.name /\ w'.prof = w.prof
      BY <1>3, <1>t, <2>1 DEF ReconcileReplication, GoTo, Worker
    <3>2. \A ph : ~FailPhase(ph)
      BY <1>t, <3>1 DEF FailPhase, Worker
    <3>3. w.prof.deleting => ListReplications(w.name) = {}
      BY <1>3, <3>2 DEF ReconcileReplication, cleanUp
    <3>4. Refers(Cached(replication[r]), p)
      <4>1. replication[r] \in Seq(Option(ReplicationObj)) \ {<<>>}
        BY DEF Inv, TypeOK, Versions
      <4>2. 1 \in 1..Len(replication[r])
        BY <4>1
      <4> QED
        BY <4>2 DEF Known, Cached
    <3>5. r \in ListReplications(p)
      BY <3>4 DEF ListReplications, Refers
    <3> QED
      BY <3>1, <3>3, <3>5 DEF Releasing
  <2> QED
    BY <1>3, <1>f, <2>1 DEF ReconcileReplication
<1>4. CASE ReadConfigMap
  BY <1>4, <1>t DEF ReadConfigMap, Releasing, Worker
<1>5. CASE WriteConfigMap
  <2>1. ASSUME GoTo("release") PROVE ~Releasing(p)'
    BY <1>5, <1>t, <2>1 DEF WriteConfigMap, GoTo, Releasing, Worker
  <2> QED
    BY <1>5, <1>f, <2>1 DEF WriteConfigMap
<1>6. CASE UpdateStatus
  BY <1>6, <1>i DEF UpdateStatus
<1>7. CASE ReconcileStep
  BY <1>1, <1>2, <1>3, <1>4, <1>5, <1>6, <1>7 DEF ReconcileStep
<1>8. ASSUME NEW q \in Profiles, StartReconcile(q) PROVE ~Releasing(p)'
  BY <1>8 DEF StartReconcile, IdleWorker, Releasing
<1>9. CASE OthersEffect
  BY <1>9 DEF OthersEffect, OthersWorker, Releasing, HasProfile
<1> QED
  BY <1>7, <1>8, <1>9, OthersWatch, OthersEnvironment, OthersStutter DEF Next

\* Only the release takes the finalizer off.
LEMMA FinalizerNext ==
    ASSUME Inv, Copies, [Next]_vars, NEW p \in Profiles, HasFinalizer(Stored(profile[p])), ~Releasing(p)
    PROVE  HasFinalizer(Stored(profile'[p]))
<1>t. TypeOK /\ Loaded /\ w \in Worker
  BY DEF Inv, TypeOK
<1>1. Stored(profile'[p]) # NoObj
  <2> SUFFICES ASSUME Released(p) PROVE FALSE
    BY DEF Released, HasFinalizer
  <2> QED
    BY ReleasedByWorker DEF Releasing
<1>2. ASSUME NEW v \in Option(ProfileObj), PutProfile(w.name, v), w.name \in Profiles, v.finalizer \/ w.name # p
      PROVE  HasFinalizer(Stored(profile'[p]))
  <2>1. Stored(profile'[p]) = IF p = w.name THEN v ELSE Stored(profile[p])
    BY <1>t, <1>2, PutStored
  <2> QED
    BY <1>1, <1>2, <2>1 DEF HasFinalizer
<1>3. CASE profile' = profile
  BY <1>3
<1>4. CASE EnsureFinalizer
  <2>1. HasConn
    BY <1>4 DEF EnsureFinalizer, HasConn
  <2> DEFINE v == [w.prof EXCEPT !.finalizer = TRUE]
  <2>2. profile' = profile \/ PutProfile(w.name, v)
    BY <1>4 DEF EnsureFinalizer, cluster
  <2>3. v \in ProfileObj /\ w.name \in Profiles /\ v.finalizer
    BY <1>t, <2>1, WorkerWrites DEF ProfileObj
  <2> HIDE DEF v
  <2> QED
    BY <1>2, <1>3, <2>2, <2>3 DEF Option
<1>5. CASE UpdateStatus
  <2>1. HasProfile /\ HasConn
    BY <1>5 DEF UpdateStatus, HasConn, HasProfile
  <2> DEFINE v == [w.prof EXCEPT !.phase = w.phase]
  <2>2. profile' = profile \/ (PutProfile(w.name, v) /\ w.profCur)
    BY <1>5 DEF UpdateStatus, cluster, Accepted
  <2>3. w.prof \in ProfileObj /\ v \in ProfileObj /\ w.name \in Profiles
    BY <1>t, <2>1, WorkerWrites DEF ProfileObj, Worker
  <2>4. v.finalizer = w.prof.finalizer
    BY <2>3 DEF ProfileObj
  <2>5. w.profCur => w.prof = Stored(profile[w.name])
    BY <2>1 DEF Copies, ProfileCurrent
  <2> HIDE DEF v
  <2>6. PutProfile(w.name, v) /\ w.profCur => v.finalizer \/ w.name # p
    BY <2>4, <2>5 DEF HasFinalizer
  <2> QED
    BY <1>2, <1>3, <2>2, <2>3, <2>6 DEF Option
<1>6. CASE ReleaseFinalizer
  <2>1. HasConn
    BY <1>6 DEF ReleaseFinalizer, HasConn
  <2>2. profile' = profile \/ PutProfile(w.name, NoObj)
    BY <1>6 DEF ReleaseFinalizer, cluster
  <2>3. w.name \in Profiles
    BY <1>t, <2>1, WorkerWrites
  <2>4. ASSUME PutProfile(w.name, NoObj) PROVE w.name # p
    <3>1. Stored(profile'[p]) = IF p = w.name THEN NoObj ELSE Stored(profile[p])
      BY <1>t, <2>3, <2>4, PutStored DEF Option
    <3> QED
      BY <1>1, <3>1
  <2> QED
    BY <1>2, <1>3, <2>2, <2>3, <2>4 DEF Option
<1>7. CASE OthersEffect
  BY <1>7 DEF OthersEffect, OthersProfiles, HasFinalizer
<1> QED
  BY <1>3, <1>4, <1>5, <1>6, <1>7, OthersWatch, OthersEnvironment, OthersStutter
     DEF Next, ReconcileStep, StartReconcile, LoadClientProfile, LoadCephConnection, AddConnOwner, LoadReplication,
         ReconcileCephConnection, ReconcileReplication, ReadConfigMap, WriteConfigMap, cluster

\* However far each watch lags, and whenever replications come and go: a profile with
\* the finalizer that a replication in the operator's cache names when its deletion is
\* requested stays for as long as that replication names it
\* (reconcileClientProfileReplication, reconcilePhases).
THEOREM ReplicationsProtect == Spec => DeletionProtection
<1> DEFINE IInv == Inv /\ Copies
<1>1. Spec => []IInv
  BY InvInit, InvNext, CopiesInit, CopiesNext, PTL DEF Spec
<1> SUFFICES ASSUME NEW p \in Profiles, NEW r \in Replications
             PROVE  Spec => [](Protected(p, r) => <>~Names(r, p) \/ []Exists(p))
  BY DEF DeletionProtection
<1>2. IInv /\ Protected(p, r) => Held(p, r)
  <2> SUFFICES ASSUME Copies, Protected(p, r), Releasing(p) PROVE FALSE
    BY DEF Held, HasFinalizer, Protected, IInv
  <2>1. HasProfile
    BY DEF Releasing, HasProfile
  <2> QED
    BY <2>1 DEF Copies, ProfileCurrent, Releasing, Protected
<1>3. IInv /\ Held(p, r) /\ [Next]_vars => Held(p, r)' \/ ~Names(r, p)'
  <2> SUFFICES ASSUME Inv, Copies, Held(p, r), [Next]_vars, Refers(Stored(replication'[r]), p)
               PROVE  Held(p, r)'
    BY DEF Names
  <2>1. Known(r, p)'
    BY KnownNext DEF Held
  <2>2. ~Releasing(p)'
    BY ReleasingNext DEF Held
  <2>3. HasFinalizer(Stored(profile'[p]))
    BY FinalizerNext DEF Held
  <2> QED
    BY <2>1, <2>2, <2>3 DEF Held
<1>4. Held(p, r) => Exists(p)
  BY DEF Held, HasFinalizer, Exists
<1> HIDE DEF IInv
<1> QED
  BY <1>1, <1>2, <1>3, <1>4, PTL DEF Spec
=============================================================================
