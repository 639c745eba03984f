------------------------ MODULE ClientProfile_proofs ------------------------
(***************************************************************************)
(* Proofs about ClientProfile, for every set of profiles, connections and  *)
(* replications, every lag of the watches and every bound.                 *)
(***************************************************************************)
EXTENDS ClientProfile, VersionLog_proofs, TLAPS

-----------------------------------------------------------------------------
(* Type correctness *)

\* TypeOK alone is not inductive: it lets the worker be past a read without the
\* object it read.
Loaded ==
    /\ w.pc # "idle" => w.name \in Profiles
    /\ w.pc \notin {"idle", "getProfile"} => w.prof \in ProfileObj
    /\ w.pc \notin {"idle", "getProfile", "getConn"} => w.conn \in ConnObj

TypeInv == TypeOK /\ Loaded

\* Owner references name profiles: every request a watch adds is for a profile.
LEMMA RequestsType ==
    /\ \A old, new \in Option(ConnObj) : ConnRequests(old, new) \in SUBSET Profiles
    /\ \A old, new \in Option(ConfigMapObj) : ConfigMapRequests(old, new) \in SUBSET Profiles
    /\ \A old, new \in Option(ReplicationObj) : ReplicationRequests(old, new) \in SUBSET Profiles
<1>1. \A v \in Option(ConnObj) \cup Option(ConfigMapObj) : OwnerNames(v) \in SUBSET Profiles
  BY DEF OwnerNames, Option, ConnObj, ConfigMapObj, Uid
<1>2. \A old, new \in Option(ReplicationObj) : ReplicationRequests(old, new) \in SUBSET Profiles
  BY DEF ReplicationRequests, Option, ReplicationObj
<1> QED
  BY <1>1, <1>2 DEF ConnRequests, ConfigMapRequests

\* Storing a well-typed version keeps the log and the queue well typed.
LEMMA PutProfileType ==
    ASSUME TypeOK, NEW p \in Profiles, NEW v \in Option(ProfileObj), PutProfile(p, v)
    PROVE  profile' \in [Profiles -> Versions(ProfileObj)] /\ ProfileEvents(p) \in SUBSET Profiles
<1>1. profile[p] \in Seq(Option(ProfileObj)) \ {<<>>} /\ Lag["profile"] \in Nat
  BY LagAssumption DEF TypeOK, Versions, Kinds
<1>2. Put(profile[p], Lag["profile"], v) \in Versions(ProfileObj)
  BY <1>1, PutLog DEF Versions
<1> QED
  BY <1>2 DEF TypeOK, PutProfile, ProfileEvents

LEMMA PutConnType ==
    ASSUME TypeOK, NEW c \in Conns, NEW v \in Option(ConnObj), PutConn(c, v)
    PROVE  cephConn' \in [Conns -> Versions(ConnObj)] /\ queue' \in SUBSET Profiles
<1> DEFINE log == Put(cephConn[c], Lag["conn"], v)
<1>1. cephConn[c] \in Seq(Option(ConnObj)) \ {<<>>} /\ Lag["conn"] \in Nat
  BY LagAssumption DEF TypeOK, Versions, Kinds
<1>2. log \in Versions(ConnObj) /\ Cached(log) \in Option(ConnObj)
  BY <1>1, PutLog DEF Versions
<1>3. Cached(cephConn[c]) \in Option(ConnObj)
  BY <1>1, LogElements
<1>4. ConnRequests(Cached(cephConn[c]), Cached(log)) \in SUBSET Profiles
  BY <1>2, <1>3, RequestsType
<1> QED
  BY <1>2, <1>4 DEF TypeOK, PutConn

LEMMA PutConfigMapType ==
    ASSUME TypeOK, NEW v \in Option(ConfigMapObj), PutConfigMap(v)
    PROVE  configMap' \in Versions(ConfigMapObj) /\ queue' \in SUBSET Profiles
<1> DEFINE log == Put(configMap, Lag["configMap"], v)
<1>1. configMap \in Seq(Option(ConfigMapObj)) \ {<<>>} /\ Lag["configMap"] \in Nat
  BY LagAssumption DEF TypeOK, Versions, Kinds
<1>2. log \in Versions(ConfigMapObj) /\ Cached(log) \in Option(ConfigMapObj)
  BY <1>1, PutLog DEF Versions
<1>3. Cached(configMap) \in Option(ConfigMapObj)
  BY <1>1, LogElements
<1>4. ConfigMapRequests(Cached(configMap), Cached(log)) \in SUBSET Profiles
  BY <1>2, <1>3, RequestsType
<1> QED
  BY <1>2, <1>4 DEF TypeOK, PutConfigMap

LEMMA PutReplicationType ==
    ASSUME TypeOK, NEW r \in Replications, NEW v \in Option(ReplicationObj), PutReplication(r, v)
    PROVE  replication' \in [Replications -> Versions(ReplicationObj)] /\ queue' \in SUBSET Profiles
<1> DEFINE log == Put(replication[r], Lag["replication"], v)
<1>1. replication[r] \in Seq(Option(ReplicationObj)) \ {<<>>} /\ Lag["replication"] \in Nat
  BY LagAssumption DEF TypeOK, Versions, Kinds
<1>2. log \in Versions(ReplicationObj) /\ Cached(log) \in Option(ReplicationObj)
  BY <1>1, PutLog DEF Versions
<1>3. Cached(replication[r]) \in Option(ReplicationObj)
  BY <1>1, LogElements
<1>4. ReplicationRequests(Cached(replication[r]), Cached(log)) \in SUBSET Profiles
  BY <1>2, <1>3, RequestsType
<1> QED
  BY <1>2, <1>4 DEF TypeOK, PutReplication

\* What reads return.
LEMMA ReadTypes ==
    ASSUME TypeOK
    PROVE  /\ \A p \in Profiles : /\ Stored(profile[p]) \in Option(ProfileObj)
                                  /\ Cached(profile[p]) \in Option(ProfileObj)
           /\ \A c \in Conns : /\ Stored(cephConn[c]) \in Option(ConnObj)
                               /\ Cached(cephConn[c]) \in Option(ConnObj)
           /\ \A r \in Replications : /\ Stored(replication[r]) \in Option(ReplicationObj)
                                      /\ Cached(replication[r]) \in Option(ReplicationObj)
           /\ Stored(configMap) \in Option(ConfigMapObj)
           /\ Cached(configMap) \in Option(ConfigMapObj)
BY LogElements DEF TypeOK, Versions

-----------------------------------------------------------------------------
(* config.json *)

\* In a list without duplicates the entry found first is the only one.
LEMMA IndexOfUnique ==
    ASSUME NEW list \in Seq(ClusterInfo), Unique(list), NEW p, Holds(list, p)
    PROVE  /\ IndexOf(list, p) \in 1..Len(list)
           /\ list[IndexOf(list, p)].id = p
           /\ \A i \in 1..Len(list) : list[i].id = p => i = IndexOf(list, p)
<1>1. PICK i \in 1..Len(list) : list[i].id = p
  BY DEF Holds
<1>2. \A j \in 1..(i - 1) : list[j].id # p
  <2>1. ASSUME NEW j \in 1..(i - 1), list[j].id = p
        PROVE  FALSE
    <3>1. Len(list) \in Nat
      BY LenProperties
    <3>2. j \in 1..Len(list) /\ j # i
      BY <3>1
    <3> QED
      BY <1>1, <2>1, <3>2 DEF Unique
  <2> QED
    BY <2>1
<1>3. IndexOf(list, p) \in 1..Len(list) /\ list[IndexOf(list, p)].id = p
  BY <1>1, <1>2 DEF IndexOf
<1> QED
  BY <1>3 DEF Unique

\* Overwriting or appending a record adds no other cluster ID and no duplicate.
LEMMA UpsertFacts ==
    ASSUME NEW list \in Seq(ClusterInfo), Unique(list), NEW record \in ClusterInfo
    PROVE  /\ Upsert(list, record) \in Seq(ClusterInfo)
           /\ Unique(Upsert(list, record))
           /\ \A q : Holds(Upsert(list, record), q) => q = record.id \/ Holds(list, q)
<1>1. CASE Holds(list, record.id)
  <2> DEFINE k == IndexOf(list, record.id)
             new == [list EXCEPT ![k] = record]
  <2>1. k \in 1..Len(list) /\ list[k].id = record.id
    BY <1>1, IndexOfUnique
  <2>2. Upsert(list, record) = new
    BY <1>1 DEF Upsert
  <2> HIDE DEF k
  <2>3. /\ new \in Seq(ClusterInfo)
        /\ Len(new) = Len(list)
        /\ \A j \in 1..Len(list) : new[j] = IF j = k THEN record ELSE list[j]
    BY <2>1, ExceptSeq
  <2> HIDE DEF new
  <2>4. \A j \in 1..Len(list) : new[j].id = list[j].id
    BY <2>1, <2>3
  <2>5. Unique(new)
    BY <2>3, <2>4 DEF Unique
  <2>6. \A q : Holds(new, q) => Holds(list, q)
    BY <2>3, <2>4 DEF Holds
  <2> QED
    BY <2>2, <2>3, <2>5, <2>6
<1>2. CASE ~Holds(list, record.id)
  <2> DEFINE new == Append(list, record)
  <2>1. Upsert(list, record) = new
    BY <1>2 DEF Upsert
  <2>2. /\ new \in Seq(ClusterInfo)
        /\ Len(new) = Len(list) + 1
        /\ new[Len(list) + 1] = record
        /\ \A j \in 1..Len(list) : new[j] = list[j]
    BY AppendProperties
  <2> HIDE DEF new
  <2>3. \A j \in 1..Len(new) : j = Len(list) + 1 \/ j \in 1..Len(list)
    <3>1. Len(list) \in Nat
      BY LenProperties
    <3> QED
      BY <2>2, <3>1
  <2>4. \A j \in 1..Len(list) : list[j].id # record.id
    BY <1>2 DEF Holds
  <2>5. Unique(new)
    BY <2>2, <2>3, <2>4 DEF Unique
  <2>6. \A q : Holds(new, q) => q = record.id \/ Holds(list, q)
    BY <2>2, <2>3 DEF Holds
  <2> QED
    BY <2>1, <2>2, <2>5, <2>6
<1> QED
  BY <1>1, <1>2

\* The unordered delete takes the profile's only record and no other.
LEMMA SwapRemoveFacts ==
    ASSUME NEW list \in Seq(ClusterInfo), Unique(list), NEW p
    PROVE  /\ SwapRemove(list, p) \in Seq(ClusterInfo)
           /\ Unique(SwapRemove(list, p))
           /\ ~Holds(SwapRemove(list, p), p)
           /\ \A q : Holds(SwapRemove(list, p), q) => Holds(list, q)
<1>1. CASE Holds(list, p)
  <2> DEFINE k == IndexOf(list, p)
             n == Len(list)
             moved == [list EXCEPT ![k] = list[n]]
             new == SubSeq(moved, 1, n - 1)
  <2>1. /\ k \in 1..n /\ list[k].id = p
        /\ \A i \in 1..n : list[i].id = p => i = k
    BY <1>1, IndexOfUnique
  <2>2. SwapRemove(list, p) = new
    BY <1>1 DEF SwapRemove
  <2>3. n \in Nat /\ n # 0
    BY <2>1, LenProperties
  <2>4. n \in 1..n /\ list[n] \in ClusterInfo
    BY <2>3, ElementOfSeq
  <2> HIDE DEF k
  <2>5. /\ moved \in Seq(ClusterInfo)
        /\ Len(moved) = n
        /\ \A j \in 1..n : moved[j] = IF j = k THEN list[n] ELSE list[j]
    BY <2>1, <2>4, ExceptSeq
  <2> HIDE DEF moved
  <2>6. n - 1 \in Nat /\ 1..(n - 1) \subseteq 1..n /\ n \notin 1..(n - 1)
    BY <2>3
  <2>7. /\ new \in Seq(ClusterInfo)
        /\ Len(new) = n - 1
        /\ \A j \in 1..(n - 1) : new[j] = moved[j]
    <3>1. \A j \in 1..(n - 1) : moved[j] \in ClusterInfo
      BY <2>5, <2>6, ElementOfSeq
    <3> HIDE DEF n
    <3>2. /\ SubSeq(moved, 1, n - 1) \in Seq(ClusterInfo)
          /\ Len(SubSeq(moved, 1, n - 1)) = IF 1 <= n - 1 THEN (n - 1) - 1 + 1 ELSE 0
          /\ \A j \in 1..((n - 1) - 1 + 1) : SubSeq(moved, 1, n - 1)[j] = moved[1 + j - 1]
      BY <2>6, <3>1, SubSeqProperties, SMT
    <3> QED
      BY <2>6, <3>2
  <2> HIDE DEF new, n
  <2>8. \A j \in 1..(n - 1) : new[j] = IF j = k THEN list[n] ELSE list[j]
    BY <2>5, <2>6, <2>7
  <2>9. ~Holds(new, p)
    <3>1. ASSUME NEW j \in 1..(n - 1) PROVE new[j].id # p
      <4>1. CASE j = k
        BY <2>1, <2>4, <2>6, <2>8, <4>1
      <4>2. CASE j # k
        BY <2>1, <2>6, <2>8, <4>2
      <4> QED
        BY <4>1, <4>2
    <3> QED
      BY <2>7, <3>1 DEF Holds
  <2>10. \A q : Holds(new, q) => Holds(list, q)
    BY <2>4, <2>6, <2>7, <2>8 DEF Holds, n
  <2>11. Unique(new)
    <3>1. ASSUME NEW i \in 1..(n - 1), NEW j \in 1..(n - 1), new[i].id = new[j].id
          PROVE  i = j
      <4>1. \A a, b \in 1..n : list[a].id = list[b].id => a = b
        BY DEF Unique, n
      <4>2. i \in 1..n /\ j \in 1..n /\ i # n /\ j # n
        BY <2>6
      <4> QED
        BY <2>4, <2>8, <3>1, <4>1, <4>2
    <3> QED
      BY <2>7, <3>1 DEF Unique
  <2> QED
    BY <2>2, <2>7, <2>9, <2>10, <2>11
<1>2. CASE ~Holds(list, p)
  BY <1>2 DEF SwapRemove
<1> QED
  BY <1>1, <1>2

-----------------------------------------------------------------------------
(* The inductive invariant behind type correctness and unique cluster IDs *)

\* No version of the ConfigMap that anyone may still read has a duplicate.
AllUnique ==
    /\ \A i \in 1..Len(configMap) : Unique(ConfigOf(configMap[i]))
    /\ Unique(ConfigOf(w.cm))

Inv == TypeOK /\ Loaded /\ AllUnique

LEMMA ConfigOfType ==
    ASSUME NEW cm \in Option(ConfigMapObj)
    PROVE  ConfigOf(cm) \in Seq(ClusterInfo)
BY NoObjAssumption DEF ConfigOf, Option, ConfigMapObj

LEMMA EmptyUnique == Unique(<<>>) /\ \A p : ~Holds(<<>>, p)
BY DEF Unique, Holds

LEMMA MutateFacts ==
    ASSUME TypeOK, Loaded, w.pc = "writeConfigMap",
           NEW cm \in ConfigMapObj, Unique(ConfigOf(cm))
    PROVE  /\ MutateConfigMap(cm) \in ConfigMapObj
           /\ MutateConfigMap(cm).config \in Seq(ClusterInfo)
           /\ ConfigOf(MutateConfigMap(cm)) = MutateConfigMap(cm).config
           /\ Unique(ConfigOf(MutateConfigMap(cm)))
           /\ cleanUp => /\ ~Holds(ConfigOf(MutateConfigMap(cm)), w.name)
                         /\ \A q : Holds(ConfigOf(MutateConfigMap(cm)), q) => Holds(ConfigOf(cm), q)
           /\ ~cleanUp => \A q : Holds(ConfigOf(MutateConfigMap(cm)), q)
                                   => q = w.name \/ Holds(ConfigOf(cm), q)
<1> DEFINE list == IF cm.config = NoObj THEN <<>> ELSE cm.config
           record == ComposeRecord(w.name, w.prof, w.conn, w.dest)
           new == IF cleanUp THEN SwapRemove(list, w.name) ELSE Upsert(list, record)
           owners == ToggleOwnerReference(~cleanUp, cm.owners, me)
<1>1. cm # NoObj
  BY NoObjAssumption
<1>2. ConfigOf(cm) = list
  BY <1>1 DEF ConfigOf
<1>3. list \in Seq(ClusterInfo) /\ Unique(list)
  BY <1>2, ConfigOfType DEF Option
<1>4. w.name \in Profiles /\ w.prof \in ProfileObj /\ w.conn \in ConnObj /\ w.dest \in Option(Dests)
  BY DEF TypeOK, Loaded, Worker
<1>5. record \in ClusterInfo /\ record.id = w.name
  BY <1>4 DEF ComposeRecord, ClusterInfo, ProfileObj, ConnObj, Option
<1>6. me \in Uid
  BY <1>4 DEF me, Uid, ProfileObj
<1>7. owners \in SUBSET Uid
  BY <1>6 DEF ToggleOwnerReference, ConfigMapObj
<1> HIDE DEF record, list
<1>8. /\ new \in Seq(ClusterInfo) /\ Unique(new)
      /\ cleanUp => ~Holds(new, w.name) /\ \A q : Holds(new, q) => Holds(list, q)
      /\ ~cleanUp => \A q : Holds(new, q) => q = w.name \/ Holds(list, q)
  BY <1>3, <1>5, UpsertFacts, SwapRemoveFacts
<1>9. MutateConfigMap(cm) = [cm EXCEPT !.owners = owners, !.config = new]
  BY DEF MutateConfigMap, list, record
<1> HIDE DEF new, owners
<1>10. /\ MutateConfigMap(cm) \in ConfigMapObj
       /\ MutateConfigMap(cm).config = new
  BY <1>7, <1>8, <1>9 DEF ConfigMapObj
<1>11. ConfigOf(MutateConfigMap(cm)) = new
  BY <1>8, <1>10, NoObjAssumption DEF ConfigOf
<1> QED
  BY <1>2, <1>8, <1>10, <1>11

LEMMA EmptyConfigMapType == EmptyConfigMap \in ConfigMapObj /\ ConfigOf(EmptyConfigMap) = <<>>
<1>1. EmptyConfigMap \in ConfigMapObj
  BY DEF EmptyConfigMap, ConfigMapObj
<1> QED
  BY <1>1, NoObjAssumption DEF EmptyConfigMap, ConfigOf

\* Storing a version without duplicates keeps every readable version so.
LEMMA PutConfigMapUnique ==
    ASSUME TypeOK, AllUnique, NEW v \in Option(ConfigMapObj), Unique(ConfigOf(v)), PutConfigMap(v)
    PROVE  \A i \in 1..Len(configMap') : Unique(ConfigOf(configMap'[i]))
<1>1. configMap \in Seq(Option(ConfigMapObj)) \ {<<>>} /\ Lag["configMap"] \in Nat
  BY LagAssumption DEF TypeOK, Versions, Kinds
<1> DEFINE log == Put(configMap, Lag["configMap"], v)
<1>2. \A i \in 1..Len(log) : log[i] = v \/ \E j \in 1..Len(configMap) : log[i] = configMap[j]
  BY <1>1, PutLog
<1>3. configMap' = log
  BY DEF PutConfigMap
<1> QED
  BY <1>2, <1>3 DEF AllUnique

THEOREM InvInit == Init => Inv
<1> SUFFICES ASSUME Init PROVE Inv
  OBVIOUS
<1>1. \A S : <<NoObj>> \in Versions(S)
  BY DEF Versions, Option
<1>2. cephConn \in [Conns -> Versions(ConnObj)]
  <2>1. PICK m \in Monitors : cephConn = [c \in Conns |-> <<[monitors |-> m, owners |-> {}]>>]
    BY DEF Init
  <2>2. [monitors |-> m, owners |-> {}] \in Option(ConnObj)
    BY DEF ConnObj, Option
  <2>3. <<[monitors |-> m, owners |-> {}]>> \in Versions(ConnObj)
    BY <2>2 DEF Versions
  <2> QED
    BY <2>1, <2>3
<1>3. IdleWorker \in Worker
  BY DEF IdleWorker, Worker, Steps, Phases, Option
<1>4. TypeOK
  BY <1>1, <1>2, <1>3, BoundsAssumption DEF Init, TypeOK
<1>5. Loaded
  BY DEF Init, IdleWorker, Loaded
<1>6. AllUnique
  BY EmptyUnique DEF Init, AllUnique, IdleWorker, ConfigOf
<1> QED
  BY <1>4, <1>5, <1>6 DEF Inv

\* The worker's outcomes that leave no object behind.
LEMMA IdleFacts ==
    IdleWorker \in Worker /\ IdleWorker.pc = "idle" /\ IdleWorker.cm = NoObj
BY DEF IdleWorker, Worker, Steps, Phases, Option

\* Every step of the worker keeps the invariant.
LEMMA InvReconcileStep == Inv /\ ReconcileStep => Inv'
<1> SUFFICES ASSUME Inv, ReconcileStep PROVE Inv'
  OBVIOUS
<1> USE DEF Inv
<1>0. Unique(ConfigOf(NoObj))
  BY EmptyUnique DEF ConfigOf
<1>i. (AbandonLoad /\ w.name \in Profiles /\ UNCHANGED cluster
         /\ left' \in [ops: Nat, crashes: Nat, faults: Nat]) => Inv'
  <2> SUFFICES ASSUME AbandonLoad, w.name \in Profiles, UNCHANGED cluster,
                      left' \in [ops: Nat, crashes: Nat, faults: Nat]
               PROVE  Inv'
    OBVIOUS
  <2>1. TypeOK'
    BY IdleFacts DEF TypeOK, AbandonLoad, cluster
  <2>2. Loaded'
    BY IdleFacts DEF Loaded, AbandonLoad
  <2>3. AllUnique'
    BY <1>0, IdleFacts DEF AllUnique, AbandonLoad, cluster
  <2> QED
    BY <2>1, <2>2, <2>3
<1>a. \A cur : Accepted(cur) \/ Refused(cur) => left' \in [ops: Nat, crashes: Nat, faults: Nat]
  BY DEF TypeOK, Accepted, Refused
<1>f. \A ph \in Phases : (FailPhase(ph) /\ w.pc \notin {"idle", "getProfile", "getConn"}
                          /\ UNCHANGED <<cluster, queue>>
                          /\ left' \in [ops: Nat, crashes: Nat, faults: Nat]) => Inv'
  <2> SUFFICES ASSUME NEW ph \in Phases, FailPhase(ph), w.pc \notin {"idle", "getProfile", "getConn"},
                      UNCHANGED <<cluster, queue>>,
                      left' \in [ops: Nat, crashes: Nat, faults: Nat]
               PROVE  Inv'
    OBVIOUS
  <2>1. TypeOK'
    BY DEF TypeOK, FailPhase, cluster, Worker, Steps
  <2>2. Loaded'
    BY DEF TypeOK, Loaded, FailPhase, Worker
  <2>3. AllUnique'
    BY DEF TypeOK, AllUnique, FailPhase, Worker, cluster
  <2> QED
    BY <2>1, <2>2, <2>3
<1>g. \A pc \in Steps : (GoTo(pc) /\ w.pc \notin {"idle", "getProfile", "getConn"}
                          /\ UNCHANGED <<cluster, queue>>
                          /\ left' \in [ops: Nat, crashes: Nat, faults: Nat]) => Inv'
  <2> SUFFICES ASSUME NEW pc \in Steps, GoTo(pc), w.pc \notin {"idle", "getProfile", "getConn"},
                      UNCHANGED <<cluster, queue>>,
                      left' \in [ops: Nat, crashes: Nat, faults: Nat]
               PROVE  Inv'
    OBVIOUS
  <2>1. TypeOK'
    BY DEF TypeOK, GoTo, cluster, Worker
  <2>2. Loaded'
    BY DEF TypeOK, Loaded, GoTo, Worker
  <2>3. AllUnique'
    BY DEF TypeOK, AllUnique, GoTo, Worker, cluster
  <2> QED
    BY <2>1, <2>2, <2>3
<1>1. CASE LoadClientProfile
  <2> DEFINE v == Cached(profile[w.name])
  <2>0. w.name \in Profiles /\ v \in Option(ProfileObj)
    BY <1>1, ReadTypes DEF LoadClientProfile, Loaded
  <2>1. CASE v = NoObj
    BY <1>1, <1>i, <2>0, <2>1 DEF LoadClientProfile, TypeOK
  <2>2. CASE v # NoObj
    <3>1. w' = [w EXCEPT !.pc = "getConn", !.prof = v, !.profCur = InSync(profile[w.name])]
      BY <1>1, <2>2 DEF LoadClientProfile
    <3>2. UNCHANGED <<cluster, left, queue>>
      BY <1>1, <2>2 DEF LoadClientProfile
    <3>3. TypeOK'
      BY <2>0, <3>1, <3>2 DEF TypeOK, cluster, Worker, Steps, InSync
    <3>4. Loaded'
      BY <2>0, <2>2, <3>1 DEF TypeOK, Loaded, Worker, Option
    <3>5. AllUnique'
      BY <3>1, <3>2 DEF TypeOK, AllUnique, Worker, cluster
    <3> QED
      BY <3>3, <3>4, <3>5
  <2> QED
    BY <2>1, <2>2
<1>2. CASE LoadCephConnection
  <2> DEFINE v == Cached(cephConn[w.prof.conn])
  <2>0. w.name \in Profiles /\ w.prof \in ProfileObj /\ v \in Option(ConnObj)
    <3>1. w.name \in Profiles /\ w.prof \in ProfileObj
      BY <1>2 DEF LoadCephConnection, Loaded
    <3>2. w.prof.conn \in Conns
      BY <3>1 DEF ProfileObj
    <3> QED
      BY <3>1, <3>2, ReadTypes
  <2>1. CASE v = NoObj
    BY <1>2, <1>i, <2>0, <2>1 DEF LoadCephConnection, TypeOK
  <2>2. CASE v # NoObj
    <3>1. w' = [w EXCEPT !.pc = IF me \in v.owners THEN "listReady" ELSE "addOwner",
                         !.conn = v, !.connCur = InSync(cephConn[w.prof.conn])]
      BY <1>2, <2>2 DEF LoadCephConnection
    <3>2. UNCHANGED <<cluster, left, queue>>
      BY <1>2, <2>2 DEF LoadCephConnection
    <3>3. TypeOK'
      BY <2>0, <3>1, <3>2 DEF TypeOK, cluster, Worker, Steps, InSync
    <3>4. Loaded'
      BY <2>0, <2>2, <3>1 DEF TypeOK, Loaded, Worker, Option
    <3>5. AllUnique'
      BY <3>1, <3>2 DEF TypeOK, AllUnique, Worker, cluster
    <3> QED
      BY <3>3, <3>4, <3>5
  <2> QED
    BY <2>1, <2>2
<1>3. CASE AddConnOwner
  <2>0. /\ w.name \in Profiles /\ w.prof \in ProfileObj /\ w.conn \in ConnObj
        /\ w.prof.conn \in Conns /\ me \in Uid
    BY <1>3 DEF AddConnOwner, Loaded, ProfileObj, me, Uid
  <2> DEFINE v == [w.conn EXCEPT !.owners = ToggleOwnerReference(TRUE, @, me)]
  <2>1. v \in ConnObj
    BY <2>0 DEF ConnObj, ToggleOwnerReference
  <2>2. CASE Refused(w.connCur) /\ AbandonLoad /\ UNCHANGED cluster
    BY <1>a, <1>i, <2>0, <2>2
  <2>3. CASE /\ Accepted(w.connCur)
             /\ PutConn(w.prof.conn, v)
             /\ w' = [w EXCEPT !.pc = "listReady", !.conn = v]
             /\ UNCHANGED <<profile, replication, configMap, uids>>
    <3> HIDE DEF v
    <3>1. cephConn' \in [Conns -> Versions(ConnObj)] /\ queue' \in SUBSET Profiles
      BY <2>0, <2>1, <2>3, PutConnType DEF Option
    <3>2. left' \in [ops: Nat, crashes: Nat, faults: Nat]
      BY <1>a, <2>3
    <3>3. TypeOK'
      BY <2>1, <2>3, <3>1, <3>2 DEF TypeOK, Worker, Steps, Option
    <3>4. Loaded'
      BY <2>0, <2>1, <2>3 DEF TypeOK, Loaded, Worker
    <3>5. AllUnique'
      BY <2>3 DEF TypeOK, AllUnique, Worker
    <3> QED
      BY <3>3, <3>4, <3>5
  <2> QED
    BY <1>3, <2>2, <2>3 DEF AddConnOwner
<1>4. CASE LoadReplication
  <2> DEFINE ready == {r \in ListReplications(w.name) : Cached(replication[r]).ready}
             d == IF ready = {} THEN NoObj ELSE Cached(replication[CHOOSE r \in ready : TRUE]).dest
  <2>0. w.name \in Profiles /\ w.prof \in ProfileObj /\ w.conn \in ConnObj
    BY <1>4 DEF LoadReplication, Loaded
  <2>1. d \in Option(Dests)
    <3>1. \A r \in ready : Cached(replication[r]) \in ReplicationObj
      BY ReadTypes DEF ListReplications, Option
    <3> QED
      BY <3>1 DEF ReplicationObj, Option
  <2> HIDE DEF d
  <2>2. CASE Cardinality(ready) > 1
    BY <1>4, <1>i, <2>0, <2>2 DEF LoadReplication, TypeOK
  <2>3. CASE ~(Cardinality(ready) > 1)
    <3>1. w' = [w EXCEPT !.pc = "finalizer", !.phase = "Pending", !.dest = d]
      BY <1>4, <2>3 DEF LoadReplication, d
    <3>2. UNCHANGED <<cluster, left, queue>>
      BY <1>4, <2>3 DEF LoadReplication
    <3>3. TypeOK'
      BY <2>1, <3>1, <3>2 DEF TypeOK, cluster, Worker, Steps, Phases
    <3>4. Loaded'
      BY <2>0, <3>1 DEF TypeOK, Loaded, Worker
    <3>5. AllUnique'
      BY <3>1, <3>2 DEF TypeOK, AllUnique, Worker, cluster
    <3> QED
      BY <3>3, <3>4, <3>5
  <2> QED
    BY <2>2, <2>3
<1>5. CASE EnsureFinalizer
  <2>0. w.name \in Profiles /\ w.prof \in ProfileObj /\ w.conn \in ConnObj
    BY <1>5 DEF EnsureFinalizer, Loaded
  <2> DEFINE v == [w.prof EXCEPT !.finalizer = TRUE]
  <2>1. v \in ProfileObj
    BY <2>0 DEF ProfileObj
  <2>2. CASE GoTo("conn") /\ UNCHANGED <<cluster, queue, left>>
    BY <1>5, <1>g, <2>2 DEF EnsureFinalizer, TypeOK, Steps
  <2>3. CASE Refused(w.profCur) /\ FailPhase("Pending") /\ UNCHANGED <<cluster, queue>>
    BY <1>5, <1>a, <1>f, <2>3 DEF EnsureFinalizer, Phases
  <2>4. CASE /\ Accepted(w.profCur)
             /\ PutProfile(w.name, v)
             /\ queue' = queue \cup ProfileEvents(w.name)
             /\ w' = [w EXCEPT !.pc = "conn", !.prof = v]
             /\ UNCHANGED <<cephConn, replication, configMap, uids>>
    <3> HIDE DEF v
    <3>1. profile' \in [Profiles -> Versions(ProfileObj)] /\ queue' \in SUBSET Profiles
      BY <2>0, <2>1, <2>4, PutProfileType DEF Option, TypeOK
    <3>2. left' \in [ops: Nat, crashes: Nat, faults: Nat]
      BY <1>a, <2>4
    <3>3. TypeOK'
      BY <2>1, <2>4, <3>1, <3>2 DEF TypeOK, Worker, Steps, Option
    <3>4. Loaded'
      BY <2>0, <2>1, <2>4 DEF TypeOK, Loaded, Worker
    <3>5. AllUnique'
      BY <2>4 DEF TypeOK, AllUnique, Worker
    <3> QED
      BY <3>3, <3>4, <3>5
  <2> QED
    BY <1>5, <2>2, <2>3, <2>4 DEF EnsureFinalizer
<1>6. CASE ReconcileCephConnection
  <2>0. /\ w.name \in Profiles /\ w.prof \in ProfileObj /\ w.conn \in ConnObj
        /\ w.prof.conn \in Conns /\ me \in Uid
    BY <1>6 DEF ReconcileCephConnection, Loaded, ProfileObj, me, Uid
  <2> DEFINE v == [w.conn EXCEPT !.owners = ToggleOwnerReference(~cleanUp, @, me)]
  <2>1. v \in ConnObj
    BY <2>0 DEF ConnObj, ToggleOwnerReference
  <2>2. CASE GoTo("replication") /\ UNCHANGED <<cluster, queue, left>>
    BY <1>6, <1>g, <2>2 DEF ReconcileCephConnection, TypeOK, Steps
  <2>3. CASE Refused(w.connCur) /\ FailPhase("Failed") /\ UNCHANGED <<cluster, queue>>
    BY <1>6, <1>a, <1>f, <2>3 DEF ReconcileCephConnection, Phases
  <2>4. CASE /\ Accepted(w.connCur)
             /\ PutConn(w.prof.conn, v)
             /\ w' = [w EXCEPT !.pc = "replication", !.conn = v]
             /\ UNCHANGED <<profile, replication, configMap, uids>>
    <3> HIDE DEF v
    <3>1. cephConn' \in [Conns -> Versions(ConnObj)] /\ queue' \in SUBSET Profiles
      BY <2>0, <2>1, <2>4, PutConnType DEF Option
    <3>2. left' \in [ops: Nat, crashes: Nat, faults: Nat]
      BY <1>a, <2>4
    <3>3. TypeOK'
      BY <2>1, <2>4, <3>1, <3>2 DEF TypeOK, Worker, Steps, Option
    <3>4. Loaded'
      BY <2>0, <2>1, <2>4 DEF TypeOK, Loaded, Worker
    <3>5. AllUnique'
      BY <2>4 DEF TypeOK, AllUnique, Worker
    <3> QED
      BY <3>3, <3>4, <3>5
  <2> QED
    BY <1>6, <2>2, <2>3, <2>4 DEF ReconcileCephConnection
<1>7. CASE ReconcileReplication
  <2>1. UNCHANGED <<cluster, queue>> /\ w.pc = "replication"
    BY <1>7 DEF ReconcileReplication
  <2>2. left' \in [ops: Nat, crashes: Nat, faults: Nat]
    BY <1>7, <1>a DEF ReconcileReplication, TypeOK
  <2>3. GoTo("readConfigMap") \/ FailPhase("Failed")
    BY <1>7 DEF ReconcileReplication
  <2> QED
    BY <1>g, <1>f, <2>1, <2>2, <2>3 DEF Steps, Phases
<1>8. CASE ReadConfigMap
  <2>1. w' = [w EXCEPT !.pc = "writeConfigMap", !.cm = Cached(configMap), !.cmCur = InSync(configMap)]
    BY <1>8 DEF ReadConfigMap
  <2>2. UNCHANGED <<cluster, queue, left>> /\ w.pc = "readConfigMap"
    BY <1>8 DEF ReadConfigMap
  <2>3. Cached(configMap) \in Option(ConfigMapObj) /\ Unique(ConfigOf(Cached(configMap)))
    <3>1. 1 \in 1..Len(configMap)
      BY LogElements DEF TypeOK, Versions
    <3> QED
      BY <3>1, ReadTypes DEF AllUnique, Cached
  <2>4. TypeOK'
    BY <2>1, <2>2, <2>3 DEF TypeOK, cluster, Worker, Steps, InSync
  <2>5. Loaded'
    BY <2>1, <2>2 DEF TypeOK, Loaded, Worker
  <2>6. AllUnique'
    BY <2>1, <2>2, <2>3 DEF TypeOK, AllUnique, Worker, cluster
  <2> QED
    BY <2>4, <2>5, <2>6
<1>9. CASE WriteConfigMap
  <2> DEFINE absent == w.cm = NoObj
             base == IF absent THEN EmptyConfigMap ELSE w.cm
             v == MutateConfigMap(base)
             cur == IF absent THEN Stored(configMap) = NoObj ELSE w.cmCur
  <2>0. base \in ConfigMapObj /\ Unique(ConfigOf(base)) /\ w.pc = "writeConfigMap"
    BY <1>9, EmptyConfigMapType, EmptyUnique DEF WriteConfigMap, TypeOK, Worker, Option, AllUnique
  <2>1. v \in ConfigMapObj /\ Unique(ConfigOf(v))
    BY <2>0, MutateFacts
  <2>2. CASE GoTo("release") /\ UNCHANGED <<cluster, queue, left>>
    BY <1>g, <2>0, <2>2 DEF TypeOK, Steps
  <2>3. CASE Refused(cur) /\ FailPhase("Failed") /\ UNCHANGED <<cluster, queue>>
    BY <1>a, <1>f, <2>0, <2>3 DEF Phases
  <2>4. CASE /\ Accepted(cur)
             /\ PutConfigMap(v)
             /\ GoTo("release")
             /\ UNCHANGED <<profile, cephConn, replication, uids>>
    <3> HIDE DEF v, cur
    <3>1. configMap' \in Versions(ConfigMapObj) /\ queue' \in SUBSET Profiles
      BY <2>1, <2>4, PutConfigMapType DEF Option
    <3>2. left' \in [ops: Nat, crashes: Nat, faults: Nat]
      BY <1>a, <2>4
    <3>3. TypeOK'
      BY <2>4, <3>1, <3>2 DEF TypeOK, Worker, Steps, GoTo
    <3>4. Loaded'
      BY <2>0, <2>4 DEF TypeOK, Loaded, Worker, GoTo
    <3>5. \A i \in 1..Len(configMap') : Unique(ConfigOf(configMap'[i]))
      BY <2>1, <2>4, PutConfigMapUnique DEF Option
    <3>6. AllUnique'
      BY <2>4, <3>5 DEF TypeOK, AllUnique, Worker, GoTo
    <3> QED
      BY <3>3, <3>4, <3>6
  <2> QED
    BY <1>9, <2>2, <2>3, <2>4 DEF WriteConfigMap
<1>10. CASE ReleaseFinalizer
  <2>0. w.name \in Profiles /\ w.prof \in ProfileObj /\ w.conn \in ConnObj /\ w.pc = "release"
    BY <1>10 DEF ReleaseFinalizer, Loaded
  <2>1. CASE /\ w' = [w EXCEPT !.pc = "status", !.phase = "Ready"]
             /\ UNCHANGED <<cluster, queue, left>>
    <3>1. TypeOK'
      BY <2>1 DEF TypeOK, cluster, Worker, Steps, Phases
    <3>2. Loaded'
      BY <2>0, <2>1 DEF TypeOK, Loaded, Worker
    <3>3. AllUnique'
      BY <2>1 DEF TypeOK, AllUnique, Worker, cluster
    <3> QED
      BY <3>1, <3>2, <3>3
  <2>2. CASE Refused(w.profCur) /\ FailPhase("Failed") /\ UNCHANGED <<cluster, queue>>
    BY <1>a, <1>f, <2>0, <2>2 DEF Phases
  <2>3. CASE /\ Accepted(w.profCur)
             /\ PutProfile(w.name, NoObj)
             /\ queue' = queue \cup ProfileEvents(w.name)
             /\ w' = [w EXCEPT !.pc = "status", !.profCur = FALSE]
             /\ UNCHANGED <<cephConn, replication, configMap, uids>>
    <3>1. profile' \in [Profiles -> Versions(ProfileObj)] /\ queue' \in SUBSET Profiles
      BY <2>0, <2>3, PutProfileType DEF Option, TypeOK
    <3>2. left' \in [ops: Nat, crashes: Nat, faults: Nat]
      BY <1>a, <2>3
    <3>3. TypeOK'
      BY <2>3, <3>1, <3>2 DEF TypeOK, Worker, Steps
    <3>4. Loaded'
      BY <2>0, <2>3 DEF TypeOK, Loaded, Worker
    <3>5. AllUnique'
      BY <2>3 DEF TypeOK, AllUnique, Worker
    <3> QED
      BY <3>3, <3>4, <3>5
  <2> QED
    BY <1>10, <2>1, <2>2, <2>3 DEF ReleaseFinalizer
<1>11. CASE UpdateStatus
  <2> DEFINE v == [w.prof EXCEPT !.phase = w.phase]
  <2>0. w.name \in Profiles /\ w.prof \in ProfileObj /\ w' = IdleWorker
    BY <1>11 DEF UpdateStatus, Loaded
  <2>1. v \in ProfileObj
    BY <2>0 DEF ProfileObj, TypeOK, Worker
  <2> HIDE DEF v
  <2>2. profile' \in [Profiles -> Versions(ProfileObj)] /\ queue' \in SUBSET Profiles
    <3>1. CASE PutProfile(w.name, v)
      <4>1. profile' \in [Profiles -> Versions(ProfileObj)] /\ ProfileEvents(w.name) \in SUBSET Profiles
        BY <2>0, <2>1, <3>1, PutProfileType DEF Option
      <4>2. queue' \in SUBSET (queue \cup {w.name} \cup ProfileEvents(w.name))
        BY <1>11 DEF UpdateStatus
      <4> QED
        BY <2>0, <4>1, <4>2 DEF TypeOK
    <3>2. CASE UNCHANGED cluster /\ queue' \in SUBSET (queue \cup {w.name})
      BY <2>0, <3>2 DEF TypeOK, cluster
    <3> QED
      BY <1>11, <3>1, <3>2 DEF UpdateStatus, v
  <2>3. left' \in [ops: Nat, crashes: Nat, faults: Nat]
    BY <1>11, <1>a DEF UpdateStatus
  <2>4. UNCHANGED <<cephConn, replication, configMap, uids>>
    BY <1>11 DEF UpdateStatus, cluster
  <2>5. TypeOK'
    BY <2>0, <2>2, <2>3, <2>4, IdleFacts DEF TypeOK
  <2>6. Loaded'
    BY <2>0, IdleFacts DEF Loaded
  <2>7. AllUnique'
    BY <1>0, <2>0, <2>4, IdleFacts DEF AllUnique
  <2> QED
    BY <2>5, <2>6, <2>7
<1> QED
  BY <1>1, <1>2, <1>3, <1>4, <1>5, <1>6, <1>7, <1>8, <1>9, <1>10, <1>11 DEF ReconcileStep

\* Delivering an event keeps the invariant: the newer versions were readable.
LEMMA InvWatch == Inv /\ Watch => Inv'
<1> SUFFICES ASSUME Inv, Watch PROVE Inv'
  OBVIOUS
<1> USE DEF Inv
<1>1. ASSUME NEW p \in Profiles, DeliverProfile(p) PROVE Inv'
  <2>1. Tail(profile[p]) \in Versions(ProfileObj)
    BY <1>1, TailLog DEF DeliverProfile, TypeOK, Versions
  <2>2. TypeOK'
    BY <1>1, <2>1 DEF DeliverProfile, TypeOK
  <2> QED
    BY <1>1, <2>2 DEF DeliverProfile, Loaded, AllUnique
<1>2. ASSUME NEW c \in Conns, DeliverConn(c) PROVE Inv'
  <2>1. /\ Tail(cephConn[c]) \in Versions(ConnObj)
        /\ cephConn[c][1] \in Option(ConnObj) /\ cephConn[c][2] \in Option(ConnObj)
    BY <1>2, TailLog DEF DeliverConn, TypeOK, Versions
  <2>2. ConnRequests(cephConn[c][1], cephConn[c][2]) \in SUBSET Profiles
    BY <2>1, RequestsType
  <2>3. TypeOK'
    BY <1>2, <2>1, <2>2 DEF DeliverConn, TypeOK
  <2> QED
    BY <1>2, <2>3 DEF DeliverConn, Loaded, AllUnique
<1>3. ASSUME NEW r \in Replications, DeliverReplication(r) PROVE Inv'
  <2>1. /\ Tail(replication[r]) \in Versions(ReplicationObj)
        /\ replication[r][1] \in Option(ReplicationObj) /\ replication[r][2] \in Option(ReplicationObj)
    BY <1>3, TailLog DEF DeliverReplication, TypeOK, Versions
  <2>2. ReplicationRequests(replication[r][1], replication[r][2]) \in SUBSET Profiles
    BY <2>1, RequestsType
  <2>3. TypeOK'
    BY <1>3, <2>1, <2>2 DEF DeliverReplication, TypeOK
  <2> QED
    BY <1>3, <2>3 DEF DeliverReplication, Loaded, AllUnique
<1>4. CASE DeliverConfigMap
  <2>1. /\ Tail(configMap) \in Versions(ConfigMapObj)
        /\ configMap[1] \in Option(ConfigMapObj) /\ configMap[2] \in Option(ConfigMapObj)
        /\ \A i \in 1..Len(Tail(configMap)) : \E j \in 1..Len(configMap) : Tail(configMap)[i] = configMap[j]
    BY <1>4, TailLog DEF DeliverConfigMap, TypeOK, Versions
  <2>2. ConfigMapRequests(configMap[1], configMap[2]) \in SUBSET Profiles
    BY <2>1, RequestsType
  <2>3. TypeOK'
    BY <1>4, <2>1, <2>2 DEF DeliverConfigMap, TypeOK
  <2>4. AllUnique'
    BY <1>4, <2>1 DEF DeliverConfigMap, AllUnique
  <2> QED
    BY <1>4, <2>3, <2>4 DEF DeliverConfigMap, Loaded
<1> QED
  BY <1>1, <1>2, <1>3, <1>4 DEF Watch

\* Someone else's write only outdates the worker's copies.
LEMMA OutdatedFacts ==
    ASSUME TypeOK, Loaded, NEW x, ProfileOutdated(x) \/ ConnOutdated(x) \/ ConfigMapOutdated
    PROVE  /\ w' \in Worker /\ Loaded'
           /\ w'.pc = w.pc /\ w'.name = w.name /\ w'.prof = w.prof /\ w'.cm = w.cm
           /\ w'.profCur => w.profCur
           /\ w'.cmCur => w.cmCur
<1>1. w' = [w EXCEPT !.profCur = w'.profCur, !.connCur = w'.connCur, !.cmCur = w'.cmCur]
      /\ w'.profCur \in BOOLEAN /\ w'.connCur \in BOOLEAN /\ w'.cmCur \in BOOLEAN
  <2>1. CASE ProfileOutdated(x)
    BY <2>1 DEF ProfileOutdated, TypeOK, Worker
  <2>2. CASE ConnOutdated(x)
    BY <2>2 DEF ConnOutdated, TypeOK, Worker
  <2>3. CASE ConfigMapOutdated
    BY <2>3 DEF ConfigMapOutdated, TypeOK, Worker
  <2> QED
    BY <2>1, <2>2, <2>3
<1>2. w' \in Worker
  BY <1>1 DEF TypeOK, Worker
<1>3. /\ w'.pc = w.pc /\ w'.name = w.name /\ w'.prof = w.prof /\ w'.cm = w.cm
      /\ w'.conn = w.conn
  BY <1>1 DEF TypeOK, Worker
<1>4. (w'.profCur => w.profCur) /\ (w'.cmCur => w.cmCur)
  BY DEF ProfileOutdated, ConnOutdated, ConfigMapOutdated, TypeOK, Worker
<1> QED
  BY <1>2, <1>3, <1>4 DEF Loaded

\* Users, the other controllers, the garbage collector and a crash.
LEMMA InvEnvironment == Inv /\ Environment => Inv'
<1> SUFFICES ASSUME Inv, Environment PROVE Inv'
  OBVIOUS
<1> USE DEF Inv
<1>o. Operation => left' \in [ops: Nat, crashes: Nat, faults: Nat]
  BY DEF Operation, TypeOK
<1>p. ASSUME NEW p \in Profiles, NEW v \in Option(ProfileObj), PutProfile(p, v),
             queue' = queue \cup ProfileEvents(p), ProfileOutdated(p), Operation,
             UNCHANGED <<cephConn, replication, configMap>>, uids' \in [Profiles -> Nat]
      PROVE  Inv'
  <2>1. profile' \in [Profiles -> Versions(ProfileObj)] /\ queue' \in SUBSET Profiles
    BY <1>p, PutProfileType DEF TypeOK
  <2>2. w' \in Worker /\ Loaded' /\ w'.cm = w.cm
    BY <1>p, OutdatedFacts
  <2>3. TypeOK'
    BY <1>p, <1>o, <2>1, <2>2 DEF TypeOK
  <2>4. AllUnique'
    BY <1>p, <2>2 DEF AllUnique
  <2> QED
    BY <2>2, <2>3, <2>4
<1>c. ASSUME NEW c \in Conns, NEW v \in Option(ConnObj), PutConn(c, v), ConnOutdated(c),
             left' \in [ops: Nat, crashes: Nat, faults: Nat],
             UNCHANGED <<profile, replication, configMap, uids>>
      PROVE  Inv'
  <2>1. cephConn' \in [Conns -> Versions(ConnObj)] /\ queue' \in SUBSET Profiles
    BY <1>c, PutConnType
  <2>2. w' \in Worker /\ Loaded' /\ w'.cm = w.cm
    BY <1>c, OutdatedFacts
  <2>3. TypeOK'
    BY <1>c, <2>1, <2>2 DEF TypeOK
  <2>4. AllUnique'
    BY <1>c, <2>2 DEF AllUnique
  <2> QED
    BY <2>2, <2>3, <2>4
<1>m. ASSUME NEW v \in Option(ConfigMapObj), Unique(ConfigOf(v)), PutConfigMap(v), ConfigMapOutdated,
             left' \in [ops: Nat, crashes: Nat, faults: Nat],
             UNCHANGED <<profile, cephConn, replication, uids>>
      PROVE  Inv'
  <2>1. configMap' \in Versions(ConfigMapObj) /\ queue' \in SUBSET Profiles
    BY <1>m, PutConfigMapType
  <2>2. w' \in Worker /\ Loaded' /\ w'.cm = w.cm
    BY <1>m, OutdatedFacts
  <2>3. TypeOK'
    BY <1>m, <2>1, <2>2 DEF TypeOK
  <2>4. AllUnique'
    BY <1>m, <2>2, PutConfigMapUnique DEF AllUnique
  <2> QED
    BY <2>2, <2>3, <2>4
<1>r. ASSUME NEW r \in Replications, NEW v \in Option(ReplicationObj), PutReplication(r, v), Operation,
             UNCHANGED <<profile, cephConn, configMap, uids, w>>
      PROVE  Inv'
  <2>1. replication' \in [Replications -> Versions(ReplicationObj)] /\ queue' \in SUBSET Profiles
    BY <1>r, PutReplicationType
  <2>2. TypeOK'
    BY <1>r, <1>o, <2>1 DEF TypeOK
  <2> QED
    BY <1>r, <2>2 DEF Loaded, AllUnique
<1>1. ASSUME NEW p \in Profiles, NEW c \in Conns, NEW s \in Specs, CreateProfile(p, c, s) PROVE Inv'
  <2>1. [uid |-> uids[p] + 1, deleting |-> FALSE, finalizer |-> FALSE,
         conn |-> c, spec |-> s, phase |-> "None"] \in Option(ProfileObj)
    BY DEF ProfileObj, Option, Phases, TypeOK
  <2>2. uids' \in [Profiles -> Nat]
    BY <1>1 DEF CreateProfile, TypeOK
  <2> QED
    BY <1>1, <1>p, <2>1, <2>2 DEF CreateProfile
<1>2. ASSUME NEW p \in Profiles, DeleteProfile(p) PROVE Inv'
  <2> DEFINE v == IF Stored(profile[p]).finalizer
                  THEN [Stored(profile[p]) EXCEPT !.deleting = TRUE] ELSE NoObj
  <2>1. v \in Option(ProfileObj)
    BY <1>2, ReadTypes DEF DeleteProfile, Option, ProfileObj
  <2>2. uids' \in [Profiles -> Nat]
    BY <1>2 DEF DeleteProfile, TypeOK
  <2> QED
    BY <1>2, <1>p, <2>1, <2>2 DEF DeleteProfile
<1>3. ASSUME NEW p \in Profiles, NEW c \in Conns, NEW s \in Specs, EditProfile(p, c, s) PROVE Inv'
  <2> DEFINE v == [Stored(profile[p]) EXCEPT !.conn = c, !.spec = s]
  <2>1. v \in Option(ProfileObj)
    BY <1>3, ReadTypes DEF EditProfile, Option, ProfileObj
  <2>2. uids' \in [Profiles -> Nat]
    BY <1>3 DEF EditProfile, TypeOK
  <2> QED
    BY <1>3, <1>p, <2>1, <2>2 DEF EditProfile
<1>4. ASSUME NEW c \in Conns, NEW m \in Monitors, ApplyConn(c, m) PROVE Inv'
  <2> DEFINE v == IF Stored(cephConn[c]) = NoObj THEN [monitors |-> m, owners |-> {}]
                  ELSE [Stored(cephConn[c]) EXCEPT !.monitors = m]
  <2>1. v \in Option(ConnObj)
    BY ReadTypes DEF Option, ConnObj
  <2>2. PutConn(c, v)
    BY <1>4 DEF ApplyConn
  <2> QED
    BY <1>4, <1>c, <1>o, <2>1, <2>2 DEF ApplyConn
<1>5. ASSUME NEW c \in Conns, DeleteConn(c) PROVE Inv'
  BY <1>5, <1>c, <1>o DEF DeleteConn, Option
<1>6. ASSUME NEW c \in Conns, CollectConn(c) PROVE Inv'
  <2> DEFINE s == Stored(cephConn[c])
             v == IF Dangling(s.owners) = s.owners THEN NoObj
                  ELSE [s EXCEPT !.owners = @ \ Dangling(@)]
  <2>1. v \in Option(ConnObj)
    BY <1>6, ReadTypes DEF CollectConn, Option, ConnObj
  <2>2. PutConn(c, v)
    BY <1>6 DEF CollectConn
  <2>3. left' \in [ops: Nat, crashes: Nat, faults: Nat]
    BY <1>6 DEF CollectConn, TypeOK
  <2> QED
    BY <1>6, <1>c, <2>1, <2>2, <2>3 DEF CollectConn
<1>7. ASSUME NEW r \in Replications, NEW p \in Profiles, NEW d \in Dests, NEW ready \in BOOLEAN,
             ApplyReplication(r, p, d, ready)
      PROVE  Inv'
  <2>1. [local |-> p, dest |-> d, ready |-> ready] \in Option(ReplicationObj)
    BY DEF ReplicationObj, Option
  <2> QED
    BY <1>7, <1>r, <2>1 DEF ApplyReplication
<1>8. ASSUME NEW r \in Replications, DeleteReplication(r) PROVE Inv'
  BY <1>8, <1>r DEF DeleteReplication, Option
<1>9. CASE ForeignWrite
  <2> DEFINE b == IF Stored(configMap) = NoObj THEN EmptyConfigMap ELSE Stored(configMap)
             v == [b EXCEPT !.foreign = IF @ = 1 THEN 2 ELSE 1]
  <2>1. b \in ConfigMapObj /\ Unique(ConfigOf(b))
    <3>1. Unique(ConfigOf(Stored(configMap)))
      BY LogElements DEF TypeOK, Versions, AllUnique, Stored
    <3> QED
      BY <3>1, ReadTypes, EmptyConfigMapType, EmptyUnique DEF Option
  <2> HIDE DEF b
  <2>2. v \in ConfigMapObj /\ v.config = b.config
    BY <2>1 DEF ConfigMapObj
  <2>3. Unique(ConfigOf(v))
    BY <2>1, <2>2, NoObjAssumption DEF ConfigOf
  <2>4. PutConfigMap(v)
    BY <1>9 DEF ForeignWrite, b
  <2> HIDE DEF v
  <2> QED
    BY <1>9, <1>m, <1>o, <2>2, <2>3, <2>4 DEF ForeignWrite, Option
<1>10. CASE DeleteConfigMap
  <2>1. Unique(ConfigOf(NoObj))
    BY EmptyUnique DEF ConfigOf
  <2> QED
    BY <1>10, <1>m, <1>o, <2>1 DEF DeleteConfigMap, Option
<1>11. CASE CollectConfigMap
  <2> DEFINE s == Stored(configMap)
             u == [s EXCEPT !.owners = @ \ Dangling(@)]
             v == IF s.foreign = 0 /\ Dangling(s.owners) = s.owners THEN NoObj ELSE u
  <2>1. s \in ConfigMapObj /\ Unique(ConfigOf(s))
    BY <1>11, ReadTypes, LogElements DEF CollectConfigMap, Option, TypeOK, Versions, AllUnique, Stored
  <2>2. u \in ConfigMapObj /\ u.config = s.config
    BY <2>1 DEF ConfigMapObj
  <2>3. v \in Option(ConfigMapObj)
    BY <2>2 DEF Option
  <2>4. Unique(ConfigOf(v))
    BY <2>1, <2>2, EmptyUnique, NoObjAssumption DEF ConfigOf
  <2>5. PutConfigMap(v) /\ ConfigMapOutdated /\ UNCHANGED <<profile, cephConn, replication, uids>>
    BY <1>11 DEF CollectConfigMap
  <2>6. left' \in [ops: Nat, crashes: Nat, faults: Nat]
    BY <1>11 DEF CollectConfigMap, TypeOK
  <2> HIDE DEF v
  <2> QED
    BY <1>m, <2>3, <2>4, <2>5, <2>6
<1>12. CASE Restart
  <2>1. w' = IdleWorker /\ uids' = uids
    BY <1>12 DEF Restart
  <2>2. profile' \in [Profiles -> Versions(ProfileObj)]
    BY <1>12, LogElements DEF Restart, TypeOK, Versions
  <2>3. cephConn' \in [Conns -> Versions(ConnObj)]
    BY <1>12, LogElements DEF Restart, TypeOK, Versions
  <2>4. replication' \in [Replications -> Versions(ReplicationObj)]
    BY <1>12, LogElements DEF Restart, TypeOK, Versions
  <2>5. configMap' = Relist(configMap) /\ configMap' \in Versions(ConfigMapObj)
    BY <1>12, LogElements DEF Restart, TypeOK, Versions
  <2>6. queue' \in SUBSET Profiles /\ left' \in [ops: Nat, crashes: Nat, faults: Nat]
    BY <1>12 DEF Restart, TypeOK
  <2>7. TypeOK'
    BY <2>1, <2>2, <2>3, <2>4, <2>5, <2>6, IdleFacts DEF TypeOK
  <2>8. Loaded'
    BY <2>1, IdleFacts DEF Loaded
  <2>9. AllUnique'
    <3>1. Unique(ConfigOf(Stored(configMap)))
      BY LogElements DEF TypeOK, Versions, AllUnique, Stored
    <3>2. Len(configMap') = 1 /\ configMap'[1] = Stored(configMap)
      BY <2>5 DEF Relist
    <3>3. Unique(ConfigOf(w'.cm))
      BY <2>1, IdleFacts, EmptyUnique DEF ConfigOf
    <3> QED
      BY <3>1, <3>2, <3>3 DEF AllUnique
  <2> QED
    BY <2>7, <2>8, <2>9
<1>13. ASSUME NEW p \in Profiles, Resync(p) PROVE Inv'
  <2>1. UNCHANGED <<cluster, w>> /\ queue' \in SUBSET Profiles
    BY <1>13 DEF Resync, TypeOK
  <2>2. left' \in [ops: Nat, crashes: Nat, faults: Nat]
    BY <1>13, <1>o DEF Resync
  <2>3. TypeOK'
    BY <2>1, <2>2 DEF TypeOK, cluster
  <2> QED
    BY <2>1, <2>3 DEF Loaded, AllUnique, cluster
<1> QED
  BY <1>1, <1>2, <1>3, <1>4, <1>5, <1>6, <1>7, <1>8, <1>9, <1>10, <1>11, <1>12, <1>13 DEF Environment

THEOREM InvNext == Inv /\ [Next]_vars => Inv'
<1> SUFFICES ASSUME Inv, [Next]_vars PROVE Inv'
  OBVIOUS
<1>1. ASSUME NEW p \in Profiles, StartReconcile(p) PROVE Inv'
  <2>1. w' = [IdleWorker EXCEPT !.pc = "getProfile", !.name = p]
    BY <1>1 DEF StartReconcile
  <2>2. w' \in Worker /\ w'.cm = NoObj /\ w'.pc = "getProfile" /\ w'.name = p
    BY <2>1 DEF IdleWorker, Worker, Steps, Phases, Option
  <2>3. TypeOK'
    BY <1>1, <2>2 DEF StartReconcile, Inv, TypeOK, cluster
  <2>4. Loaded'
    BY <2>2 DEF Loaded
  <2>5. AllUnique'
    BY <1>1, <2>2, EmptyUnique DEF StartReconcile, Inv, AllUnique, ConfigOf, cluster
  <2> QED
    BY <2>3, <2>4, <2>5 DEF Inv
<1>2. CASE UNCHANGED vars
  BY <1>2 DEF Inv, TypeOK, Loaded, AllUnique, vars
<1> QED
  BY <1>1, <1>2, InvReconcileStep, InvWatch, InvEnvironment DEF Next

\* Every variable keeps its type, for all parameters.
THEOREM TypeCorrect == Spec => []TypeOK
<1>1. Inv => TypeOK
  BY DEF Inv
<1> QED
  BY <1>1, InvInit, InvNext, PTL DEF Spec

\* config.json never lists a cluster ID twice, however far the watches lag: an
\* outdated copy is refused, and a copy that is not has no duplicate.
THEOREM ClusterIdsUnique == Spec => []UniqueIds
<1>1. Inv => UniqueIds
  BY LogElements DEF Inv, TypeOK, Versions, AllUnique, UniqueIds, StoredConfig, Stored
<1> QED
  BY <1>1, InvInit, InvNext, PTL DEF Spec

-----------------------------------------------------------------------------
(* The copies in the worker's memory *)

HasProfile == w.pc \notin {"idle", "getProfile"}
HasConn == w.pc \notin {"idle", "getProfile", "getConn"}

\* A copy whose resourceVersion is the stored one is the stored object.
ProfileCurrent == HasProfile /\ w.profCur => w.prof = Stored(profile[w.name])
ConnCurrent == HasConn /\ w.connCur => w.conn = Stored(cephConn[w.prof.conn])
ConfigMapCurrent == w.pc = "writeConfigMap" /\ w.cmCur => w.cm = Stored(configMap)
Copies == ProfileCurrent /\ ConnCurrent /\ ConfigMapCurrent

\* What a step leaves of the copies: each is dropped, or outdated, or as before, and
\* then the object is.
LEMMA CopiesFrame ==
    ASSUME Copies,
           HasProfile' /\ w'.profCur => /\ HasProfile /\ w.profCur
                                        /\ w'.name = w.name /\ w'.prof = w.prof
                                        /\ Stored(profile'[w.name]) = Stored(profile[w.name]),
           HasConn' /\ w'.connCur => /\ HasConn /\ w.connCur
                                     /\ w'.prof.conn = w.prof.conn /\ w'.conn = w.conn
                                     /\ Stored(cephConn'[w.prof.conn]) = Stored(cephConn[w.prof.conn]),
           w'.pc = "writeConfigMap" /\ w'.cmCur => /\ w.pc = "writeConfigMap" /\ w.cmCur /\ w'.cm = w.cm
                                                   /\ Stored(configMap') = Stored(configMap)
    PROVE  Copies'
BY DEF Copies, ProfileCurrent, ConnCurrent, ConfigMapCurrent

\* What a write stores.
LEMMA PutStored ==
    ASSUME TypeOK
    PROVE  /\ \A p \in Profiles, v \in Option(ProfileObj) : PutProfile(p, v) =>
                 \A q \in Profiles : Stored(profile'[q]) = IF q = p THEN v ELSE Stored(profile[q])
           /\ \A c \in Conns, v \in Option(ConnObj) : PutConn(c, v) =>
                 \A d \in Conns : Stored(cephConn'[d]) = IF d = c THEN v ELSE Stored(cephConn[d])
           /\ \A r \in Replications, v \in Option(ReplicationObj) : PutReplication(r, v) =>
                 \A q \in Replications : Stored(replication'[q]) = IF q = r THEN v ELSE Stored(replication[q])
           /\ \A v \in Option(ConfigMapObj) : PutConfigMap(v) => Stored(configMap') = v
<1>0. \A k \in Kinds : Lag[k] \in Nat
  BY LagAssumption
<1>1. ASSUME NEW p \in Profiles, NEW v \in Option(ProfileObj), PutProfile(p, v), NEW q \in Profiles
      PROVE  Stored(profile'[q]) = IF q = p THEN v ELSE Stored(profile[q])
  <2>1. profile[p] \in Seq(Option(ProfileObj)) \ {<<>>} /\ Lag["profile"] \in Nat
    BY <1>0 DEF TypeOK, Versions, Kinds
  <2>2. Stored(Put(profile[p], Lag["profile"], v)) = v
    BY <2>1, PutLog
  <2> QED
    BY <1>1, <2>2 DEF TypeOK, PutProfile
<1>2. ASSUME NEW c \in Conns, NEW v \in Option(ConnObj), PutConn(c, v), NEW d \in Conns
      PROVE  Stored(cephConn'[d]) = IF d = c THEN v ELSE Stored(cephConn[d])
  <2>1. cephConn[c] \in Seq(Option(ConnObj)) \ {<<>>} /\ Lag["conn"] \in Nat
    BY <1>0 DEF TypeOK, Versions, Kinds
  <2>2. Stored(Put(cephConn[c], Lag["conn"], v)) = v
    BY <2>1, PutLog
  <2> QED
    BY <1>2, <2>2 DEF TypeOK, PutConn
<1>3. ASSUME NEW r \in Replications, NEW v \in Option(ReplicationObj), PutReplication(r, v),
             NEW q \in Replications
      PROVE  Stored(replication'[q]) = IF q = r THEN v ELSE Stored(replication[q])
  <2>1. replication[r] \in Seq(Option(ReplicationObj)) \ {<<>>} /\ Lag["replication"] \in Nat
    BY <1>0 DEF TypeOK, Versions, Kinds
  <2>2. Stored(Put(replication[r], Lag["replication"], v)) = v
    BY <2>1, PutLog
  <2> QED
    BY <1>3, <2>2 DEF TypeOK, PutReplication
<1>4. ASSUME NEW v \in Option(ConfigMapObj), PutConfigMap(v)
      PROVE  Stored(configMap') = v
  <2>1. configMap \in Seq(Option(ConfigMapObj)) \ {<<>>} /\ Lag["configMap"] \in Nat
    BY <1>0 DEF TypeOK, Versions, Kinds
  <2> QED
    BY <1>4, <2>1, PutLog DEF PutConfigMap
<1> QED
  BY <1>1, <1>2, <1>3, <1>4

\* What the worker writes.
LEMMA WorkerWrites ==
    ASSUME TypeOK, Loaded, HasConn
    PROVE  /\ w \in Worker /\ w.name \in Profiles /\ w.prof \in ProfileObj /\ w.conn \in ConnObj
           /\ w.prof.conn \in Conns /\ me \in Uid /\ w.conn # NoObj /\ w.prof # NoObj
           /\ \A b \in BOOLEAN : [w.conn EXCEPT !.owners = ToggleOwnerReference(b, @, me)] \in Option(ConnObj)
           /\ [w.prof EXCEPT !.finalizer = TRUE] \in Option(ProfileObj)
           /\ [w.prof EXCEPT !.phase = w.phase] \in Option(ProfileObj)
<1>1. /\ w \in Worker /\ w.name \in Profiles /\ w.prof \in ProfileObj /\ w.conn \in ConnObj
      /\ w.prof.conn \in Conns /\ me \in Uid
  BY DEF HasConn, TypeOK, Loaded, ProfileObj, me, Uid
<1>2. \A b \in BOOLEAN : [w.conn EXCEPT !.owners = ToggleOwnerReference(b, @, me)] \in Option(ConnObj)
  BY <1>1 DEF Option, ConnObj, ToggleOwnerReference
<1>3. [w.prof EXCEPT !.finalizer = TRUE] \in Option(ProfileObj) /\ [w.prof EXCEPT !.phase = w.phase] \in Option(ProfileObj)
  BY <1>1 DEF Option, ProfileObj, Worker
<1> QED
  BY <1>1, <1>2, <1>3, NoObjAssumption

-----------------------------------------------------------------------------
(* What everybody but the worker may do to the stored objects and to its copies *)

OwnersOf(v) == IF v = NoObj THEN {} ELSE v.owners
Base(v) == IF v = NoObj THEN EmptyConfigMap ELSE v

\* A profile with the finalizer neither goes nor loses it.
OthersProfiles ==
    \A p \in Profiles : Stored(profile[p]) # NoObj /\ Stored(profile[p]).finalizer
                           => Stored(profile'[p]) # NoObj /\ Stored(profile'[p]).finalizer

\* No owner reference is added.
OthersConns == \A c \in Conns : OwnersOf(Stored(cephConn'[c])) \subseteq OwnersOf(Stored(cephConn[c]))

\* The profile's part of the ConfigMap is left alone, goes with the ConfigMap, or
\* loses references.
OthersConfigMap ==
    LET old == Stored(configMap)
        new == Stored(configMap')
    IN  \/ new = old \/ new = NoObj
        \/ new \in ConfigMapObj /\ new.owners = Base(old).owners /\ new.config = Base(old).config
        \/ /\ old # NoObj /\ new \in ConfigMapObj /\ new.owners \subseteq old.owners
           /\ new.config = old.config /\ new.foreign = old.foreign

\* The worker's copies are lost, outdated or as before.
OthersWorker ==
    \/ w'.pc = "idle"
    \/ /\ w'.pc = w.pc /\ w'.name = w.name /\ w'.prof = w.prof /\ w'.conn = w.conn /\ w'.cm = w.cm
       /\ HasProfile /\ w'.profCur => w.profCur /\ Stored(profile'[w.name]) = Stored(profile[w.name])
       /\ HasConn /\ w'.connCur => /\ w.connCur
                                   /\ Stored(cephConn'[w.prof.conn]) = Stored(cephConn[w.prof.conn])
       /\ w'.cmCur => w.cmCur /\ Stored(configMap') = Stored(configMap)

OthersEffect == OthersProfiles /\ OthersConns /\ OthersConfigMap /\ OthersWorker

LEMMA SameStored ==
    /\ (\A p \in Profiles : Stored(profile'[p]) = Stored(profile[p])) => OthersProfiles
    /\ (\A c \in Conns : Stored(cephConn'[c]) = Stored(cephConn[c])) => OthersConns
    /\ Stored(configMap') = Stored(configMap) => OthersConfigMap
BY DEF OthersProfiles, OthersConns, OthersConfigMap

LEMMA OutdatedConn ==
    ASSUME TypeOK, NEW x, ProfileOutdated(x) \/ ConnOutdated(x) \/ ConfigMapOutdated
    PROVE  /\ w'.conn = w.conn /\ (w'.connCur => w.connCur)
           /\ ProfileOutdated(x) /\ w'.profCur => w.name # x
           /\ ConnOutdated(x) /\ w'.connCur => w.prof.conn # x
           /\ ConfigMapOutdated => ~w'.cmCur
BY DEF ProfileOutdated, ConnOutdated, ConfigMapOutdated, TypeOK, Worker

LEMMA OthersProfileWrite ==
    ASSUME Inv, NEW p \in Profiles, NEW v \in Option(ProfileObj), PutProfile(p, v), ProfileOutdated(p),
           Stored(profile[p]) # NoObj /\ Stored(profile[p]).finalizer => v # NoObj /\ v.finalizer,
           UNCHANGED <<cephConn, replication, configMap>>
    PROVE  OthersEffect
<1>1. \A q \in Profiles : Stored(profile'[q]) = IF q = p THEN v ELSE Stored(profile[q])
  BY PutStored DEF Inv
<1>2. OthersProfiles
  BY <1>1 DEF OthersProfiles
<1>3. OthersConns /\ OthersConfigMap
  BY SameStored
<1>4. /\ w'.pc = w.pc /\ w'.name = w.name /\ w'.prof = w.prof /\ w'.cm = w.cm /\ w'.conn = w.conn
      /\ w'.profCur => w.profCur /\ w.name # p
      /\ w'.connCur => w.connCur
      /\ w'.cmCur => w.cmCur
  BY OutdatedFacts, OutdatedConn DEF Inv
<1>5. HasProfile => w.name \in Profiles
  BY DEF Inv, Loaded, HasProfile
<1>6. OthersWorker
  BY <1>1, <1>4, <1>5 DEF OthersWorker
<1> QED
  BY <1>2, <1>3, <1>6 DEF OthersEffect

LEMMA OthersConnWrite ==
    ASSUME Inv, NEW c \in Conns, NEW v \in Option(ConnObj), PutConn(c, v), ConnOutdated(c),
           OwnersOf(v) \subseteq OwnersOf(Stored(cephConn[c])),
           UNCHANGED <<profile, replication, configMap>>
    PROVE  OthersEffect
<1>1. \A d \in Conns : Stored(cephConn'[d]) = IF d = c THEN v ELSE Stored(cephConn[d])
  BY PutStored DEF Inv
<1>2. OthersConns
  BY <1>1 DEF OthersConns
<1>3. OthersProfiles /\ OthersConfigMap
  BY SameStored
<1>4. /\ w'.pc = w.pc /\ w'.name = w.name /\ w'.prof = w.prof /\ w'.cm = w.cm /\ w'.conn = w.conn
      /\ w'.profCur => w.profCur
      /\ w'.connCur => w.connCur /\ w.prof.conn # c
      /\ w'.cmCur => w.cmCur
  BY OutdatedFacts, OutdatedConn DEF Inv
<1>5. HasConn => w.prof.conn \in Conns
  BY WorkerWrites DEF Inv
<1>6. OthersWorker
  BY <1>1, <1>4, <1>5 DEF OthersWorker
<1> QED
  BY <1>2, <1>3, <1>6 DEF OthersEffect

LEMMA OthersConfigMapWrite ==
    ASSUME Inv, OthersConfigMap, ConfigMapOutdated, UNCHANGED <<profile, cephConn, replication>>
    PROVE  OthersEffect
<1>1. OthersProfiles /\ OthersConns
  BY SameStored
<1>2. /\ w'.pc = w.pc /\ w'.name = w.name /\ w'.prof = w.prof /\ w'.cm = w.cm /\ w'.conn = w.conn
      /\ w'.profCur => w.profCur
      /\ w'.connCur => w.connCur
      /\ ~w'.cmCur
  BY OutdatedFacts, OutdatedConn DEF Inv
<1>3. OthersWorker
  BY <1>2 DEF OthersWorker
<1> QED
  BY <1>1, <1>3 DEF OthersEffect

\* Nothing but events and lists.
LEMMA OthersRead ==
    ASSUME Inv, w' = w \/ w' = IdleWorker,
           \A p \in Profiles : Stored(profile'[p]) = Stored(profile[p]),
           \A c \in Conns : Stored(cephConn'[c]) = Stored(cephConn[c]),
           Stored(configMap') = Stored(configMap)
    PROVE  OthersEffect
<1>1. OthersProfiles /\ OthersConns /\ OthersConfigMap
  BY SameStored
<1>2. CASE w' = IdleWorker
  BY <1>1, <1>2, IdleFacts DEF OthersEffect, OthersWorker
<1>3. CASE w' = w
  <2>1. (HasProfile => w.name \in Profiles) /\ (HasConn => w.prof.conn \in Conns)
    BY WorkerWrites DEF Inv, Loaded, HasProfile
  <2>2. OthersWorker
    BY <1>3, <2>1 DEF OthersWorker
  <2> QED
    BY <1>1, <2>2 DEF OthersEffect
<1> QED
  BY <1>2, <1>3

LEMMA OthersWatch == Inv /\ Watch => OthersEffect
<1> SUFFICES ASSUME Inv, Watch PROVE OthersEffect
  OBVIOUS
<1>0. w' = w
  BY DEF Watch, DeliverProfile, DeliverConn, DeliverReplication, DeliverConfigMap
<1>1. ASSUME NEW p \in Profiles, DeliverProfile(p) PROVE OthersEffect
  <2>1. Stored(Tail(profile[p])) = Stored(profile[p])
    BY <1>1, TailLog DEF DeliverProfile, Inv, TypeOK, Versions
  <2>2. \A q \in Profiles : Stored(profile'[q]) = Stored(profile[q])
    BY <1>1, <2>1 DEF DeliverProfile, Inv, TypeOK
  <2> QED
    BY <1>0, <1>1, <2>2, OthersRead DEF DeliverProfile
<1>2. ASSUME NEW c \in Conns, DeliverConn(c) PROVE OthersEffect
  <2>1. Stored(Tail(cephConn[c])) = Stored(cephConn[c])
    BY <1>2, TailLog DEF DeliverConn, Inv, TypeOK, Versions
  <2>2. \A d \in Conns : Stored(cephConn'[d]) = Stored(cephConn[d])
    BY <1>2, <2>1 DEF DeliverConn, Inv, TypeOK
  <2> QED
    BY <1>0, <1>2, <2>2, OthersRead DEF DeliverConn
<1>3. ASSUME NEW r \in Replications, DeliverReplication(r) PROVE OthersEffect
  BY <1>0, <1>3, OthersRead DEF DeliverReplication
<1>4. CASE DeliverConfigMap
  <2>1. Stored(Tail(configMap)) = Stored(configMap)
    BY <1>4, TailLog DEF DeliverConfigMap, Inv, TypeOK, Versions
  <2> QED
    BY <1>0, <1>4, <2>1, OthersRead DEF DeliverConfigMap
<1> QED
  BY <1>1, <1>2, <1>3, <1>4 DEF Watch

LEMMA OthersEnvironment == Inv /\ Environment => OthersEffect
<1> SUFFICES ASSUME Inv, Environment PROVE OthersEffect
  OBVIOUS
<1>0. TypeOK /\ Loaded
  BY DEF Inv
<1>1. ASSUME NEW p \in Profiles, NEW c \in Conns, NEW s \in Specs, CreateProfile(p, c, s) PROVE OthersEffect
  <2> DEFINE v == [uid |-> uids[p] + 1, deleting |-> FALSE, finalizer |-> FALSE,
                   conn |-> c, spec |-> s, phase |-> "None"]
  <2>1. v \in Option(ProfileObj)
    BY <1>0 DEF ProfileObj, Option, Phases, TypeOK
  <2>2. /\ PutProfile(p, v) /\ ProfileOutdated(p) /\ UNCHANGED <<cephConn, replication, configMap>>
        /\ Stored(profile[p]) = NoObj
    BY <1>1 DEF CreateProfile
  <2> HIDE DEF v
  <2> QED
    BY <2>1, <2>2, OthersProfileWrite
<1>2. ASSUME NEW p \in Profiles, DeleteProfile(p) PROVE OthersEffect
  <2> DEFINE s == Stored(profile[p])
             v == IF s.finalizer THEN [s EXCEPT !.deleting = TRUE] ELSE NoObj
  <2>1. s \in ProfileObj
    BY <1>0, <1>2, ReadTypes DEF DeleteProfile, Option
  <2>2. v \in Option(ProfileObj) /\ (s.finalizer => v # NoObj /\ v.finalizer)
    BY <2>1, NoObjAssumption DEF Option, ProfileObj
  <2>3. PutProfile(p, v) /\ ProfileOutdated(p) /\ UNCHANGED <<cephConn, replication, configMap>>
    BY <1>2 DEF DeleteProfile
  <2> HIDE DEF v
  <2> QED
    BY <2>2, <2>3, OthersProfileWrite
<1>3. ASSUME NEW p \in Profiles, NEW c \in Conns, NEW s \in Specs, EditProfile(p, c, s) PROVE OthersEffect
  <2> DEFINE v == [Stored(profile[p]) EXCEPT !.conn = c, !.spec = s]
  <2>1. Stored(profile[p]) \in ProfileObj
    BY <1>0, <1>3, ReadTypes DEF EditProfile, Option
  <2>2. v \in Option(ProfileObj) /\ v # NoObj /\ v.finalizer = Stored(profile[p]).finalizer
    BY <2>1, NoObjAssumption DEF Option, ProfileObj
  <2>3. PutProfile(p, v) /\ ProfileOutdated(p) /\ UNCHANGED <<cephConn, replication, configMap>>
    BY <1>3 DEF EditProfile
  <2> HIDE DEF v
  <2> QED
    BY <2>2, <2>3, OthersProfileWrite
<1>4. ASSUME NEW c \in Conns, NEW m \in Monitors, ApplyConn(c, m) PROVE OthersEffect
  <2> DEFINE s == Stored(cephConn[c])
             v == IF s = NoObj THEN [monitors |-> m, owners |-> {}] ELSE [s EXCEPT !.monitors = m]
  <2>1. s \in Option(ConnObj)
    BY <1>0, ReadTypes
  <2>2. v \in Option(ConnObj) /\ OwnersOf(v) \subseteq OwnersOf(s)
    BY <2>1, NoObjAssumption DEF Option, ConnObj, OwnersOf
  <2>3. PutConn(c, v) /\ ConnOutdated(c) /\ UNCHANGED <<profile, replication, configMap>>
    BY <1>4 DEF ApplyConn
  <2> HIDE DEF v
  <2> QED
    BY <2>2, <2>3, OthersConnWrite
<1>5. ASSUME NEW c \in Conns, DeleteConn(c) PROVE OthersEffect
  <2>1. NoObj \in Option(ConnObj) /\ OwnersOf(NoObj) = {}
    BY DEF Option, OwnersOf
  <2>2. PutConn(c, NoObj) /\ ConnOutdated(c) /\ UNCHANGED <<profile, replication, configMap>>
    BY <1>5 DEF DeleteConn
  <2> QED
    BY <2>1, <2>2, OthersConnWrite
<1>6. ASSUME NEW c \in Conns, CollectConn(c) PROVE OthersEffect
  <2> DEFINE s == Stored(cephConn[c])
             u == [s EXCEPT !.owners = @ \ Dangling(@)]
             v == IF Dangling(s.owners) = s.owners THEN NoObj ELSE u
  <2>1. s \in ConnObj /\ s # NoObj
    BY <1>0, <1>6, ReadTypes DEF CollectConn, Option
  <2>2. u \in ConnObj /\ u.owners \subseteq s.owners
    BY <2>1 DEF ConnObj
  <2> HIDE DEF u
  <2>3. v \in Option(ConnObj) /\ OwnersOf(v) \subseteq OwnersOf(s)
    BY <2>1, <2>2 DEF Option, OwnersOf
  <2>4. PutConn(c, v) /\ ConnOutdated(c) /\ UNCHANGED <<profile, replication, configMap>>
    BY <1>6 DEF CollectConn, u
  <2> HIDE DEF v
  <2> QED
    BY <2>3, <2>4, OthersConnWrite
<1>7. ASSUME NEW r \in Replications, NEW p \in Profiles, NEW d \in Dests, NEW ready \in BOOLEAN,
             ApplyReplication(r, p, d, ready)
      PROVE  OthersEffect
  BY <1>7, OthersRead DEF ApplyReplication
<1>8. ASSUME NEW r \in Replications, DeleteReplication(r) PROVE OthersEffect
  BY <1>8, OthersRead DEF DeleteReplication
<1>9. CASE ForeignWrite
  <2> DEFINE b == Base(Stored(configMap))
             v == [b EXCEPT !.foreign = IF @ = 1 THEN 2 ELSE 1]
  <2>1. b \in ConfigMapObj
    BY <1>0, ReadTypes, EmptyConfigMapType DEF Base, Option
  <2>2. PutConfigMap(v) /\ ConfigMapOutdated /\ UNCHANGED <<profile, cephConn, replication>>
    BY <1>9 DEF ForeignWrite, Base
  <2> HIDE DEF b
  <2>3. v \in ConfigMapObj /\ v.owners = b.owners /\ v.config = b.config
    BY <2>1 DEF ConfigMapObj
  <2> HIDE DEF v
  <2>4. Stored(configMap') = v
    BY <1>0, <2>2, <2>3, PutStored DEF Option
  <2>5. OthersConfigMap
    BY <2>3, <2>4 DEF OthersConfigMap, b
  <2> QED
    BY <2>2, <2>5, OthersConfigMapWrite
<1>10. CASE DeleteConfigMap
  <2>1. PutConfigMap(NoObj) /\ ConfigMapOutdated /\ UNCHANGED <<profile, cephConn, replication>>
    BY <1>10 DEF DeleteConfigMap
  <2>2. Stored(configMap') = NoObj
    BY <1>0, <2>1, PutStored DEF Option
  <2>3. OthersConfigMap
    BY <2>2 DEF OthersConfigMap
  <2> QED
    BY <2>1, <2>3, OthersConfigMapWrite
<1>11. CASE CollectConfigMap
  <2> DEFINE s == Stored(configMap)
             u == [s EXCEPT !.owners = @ \ Dangling(@)]
             v == IF s.foreign = 0 /\ Dangling(s.owners) = s.owners THEN NoObj ELSE u
  <2>1. s \in ConfigMapObj /\ s # NoObj
    BY <1>0, <1>11, ReadTypes DEF CollectConfigMap, Option
  <2>2. u \in ConfigMapObj /\ u.owners \subseteq s.owners /\ u.config = s.config /\ u.foreign = s.foreign
    BY <2>1 DEF ConfigMapObj
  <2>3. PutConfigMap(v) /\ ConfigMapOutdated /\ UNCHANGED <<profile, cephConn, replication>>
    BY <1>11 DEF CollectConfigMap
  <2> HIDE DEF u
  <2>4. v \in Option(ConfigMapObj) /\ (v = NoObj \/ v = u)
    BY <2>2 DEF Option
  <2> HIDE DEF v
  <2>5. Stored(configMap') = v
    BY <1>0, <2>3, <2>4, PutStored
  <2>6. OthersConfigMap
    BY <2>1, <2>2, <2>4, <2>5 DEF OthersConfigMap
  <2> QED
    BY <2>3, <2>6, OthersConfigMapWrite
<1>12. CASE Restart
  <2>1. \A p \in Profiles : Stored(profile'[p]) = Stored(profile[p])
    BY <1>0, <1>12, LogElements DEF Restart, TypeOK, Versions
  <2>2. \A c \in Conns : Stored(cephConn'[c]) = Stored(cephConn[c])
    BY <1>0, <1>12, LogElements DEF Restart, TypeOK, Versions
  <2>3. Stored(configMap') = Stored(configMap)
    BY <1>0, <1>12, LogElements DEF Restart, TypeOK, Versions
  <2> QED
    BY <1>12, <2>1, <2>2, <2>3, OthersRead DEF Restart
<1>13. ASSUME NEW p \in Profiles, Resync(p) PROVE OthersEffect
  BY <1>13, OthersRead DEF Resync, cluster
<1> QED
  BY <1>1, <1>2, <1>3, <1>4, <1>5, <1>6, <1>7, <1>8, <1>9, <1>10, <1>11, <1>12, <1>13 DEF Environment

LEMMA OthersCopies == Copies /\ OthersWorker => Copies'
<1> SUFFICES ASSUME Copies, OthersWorker PROVE Copies'
  OBVIOUS
<1>1. CASE w'.pc = "idle"
  BY <1>1 DEF Copies, ProfileCurrent, ConnCurrent, ConfigMapCurrent, HasProfile, HasConn
<1>2. CASE w'.pc # "idle"
  BY <1>2, CopiesFrame DEF OthersWorker, HasProfile, HasConn
<1> QED
  BY <1>1, <1>2

-----------------------------------------------------------------------------
(* What the worker does to its copies and to the ConfigMap *)

\* The ConfigMap is left alone, or written on top of what is stored.
WorkerConfigMap ==
    \/ configMap' = configMap
    \/ /\ w.pc = "writeConfigMap"
       /\ Stored(configMap') = MutateConfigMap(Base(Stored(configMap)))

LEMMA CopiesStart == \A p \in Profiles : StartReconcile(p) => Copies' /\ WorkerConfigMap
<1> SUFFICES ASSUME NEW p \in Profiles, StartReconcile(p) PROVE Copies' /\ WorkerConfigMap
  OBVIOUS
<1>1. w'.pc = "getProfile" /\ configMap' = configMap
  BY DEF StartReconcile, IdleWorker, cluster
<1> QED
  BY <1>1 DEF Copies, ProfileCurrent, ConnCurrent, ConfigMapCurrent, HasProfile, HasConn, WorkerConfigMap

LEMMA CopiesReconcileStep == Inv /\ Copies /\ ReconcileStep => Copies' /\ WorkerConfigMap
<1> SUFFICES ASSUME Inv, Copies, ReconcileStep PROVE Copies' /\ WorkerConfigMap
  OBVIOUS
<1>t. TypeOK /\ Loaded /\ w \in Worker
  BY DEF Inv, TypeOK
<1>i. ASSUME w' = IdleWorker, configMap' = configMap PROVE Copies' /\ WorkerConfigMap
  BY <1>i, IdleFacts DEF Copies, ProfileCurrent, ConnCurrent, ConfigMapCurrent, HasProfile, HasConn, WorkerConfigMap
\* The worker goes on with its copies, with no object written.
<1>q. ASSUME HasConn, UNCHANGED <<profile, cephConn, configMap>>,
             \/ \E ph : FailPhase(ph)
             \/ \E pc : GoTo(pc) /\ pc # "writeConfigMap"
      PROVE  Copies' /\ WorkerConfigMap
  <2>1. /\ w'.pc # "writeConfigMap"
        /\ w'.name = w.name /\ w'.prof = w.prof /\ w'.conn = w.conn
        /\ w'.profCur = w.profCur /\ w'.connCur = w.connCur
    BY <1>t, <1>q DEF FailPhase, GoTo, Worker
  <2>2. HasProfile
    BY <1>q DEF HasConn, HasProfile
  <2> QED
    BY <1>q, <2>1, <2>2, CopiesFrame DEF WorkerConfigMap
<1>1. CASE LoadClientProfile
  <2> DEFINE v == Cached(profile[w.name])
  <2>0. UNCHANGED <<profile, cephConn, configMap>>
    BY <1>1 DEF LoadClientProfile, cluster
  <2>1. CASE v = NoObj
    BY <1>1, <1>i, <2>0, <2>1 DEF LoadClientProfile, AbandonLoad
  <2>2. CASE v # NoObj
    <3>1. w'.pc = "getConn" /\ w'.name = w.name /\ w'.prof = v /\ w'.profCur = InSync(profile[w.name])
      BY <1>1, <1>t, <2>2 DEF LoadClientProfile, Worker
    <3>2. ProfileCurrent'
      BY <2>0, <3>1 DEF ProfileCurrent, InSync, Cached, Stored
    <3> QED
      BY <2>0, <3>1, <3>2 DEF Copies, ConnCurrent, ConfigMapCurrent, HasConn, WorkerConfigMap
  <2> QED
    BY <2>1, <2>2
<1>2. CASE LoadCephConnection
  <2> DEFINE v == Cached(cephConn[w.prof.conn])
  <2>0. UNCHANGED <<profile, cephConn, configMap>> /\ HasProfile
    BY <1>2 DEF LoadCephConnection, cluster, HasProfile
  <2>1. CASE v = NoObj
    BY <1>2, <1>i, <2>0, <2>1 DEF LoadCephConnection, AbandonLoad
  <2>2. CASE v # NoObj
    <3>1. /\ w'.pc \in {"listReady", "addOwner"} /\ w'.name = w.name /\ w'.prof = w.prof
          /\ w'.profCur = w.profCur /\ w'.conn = v /\ w'.connCur = InSync(cephConn[w.prof.conn])
      BY <1>2, <1>t, <2>2 DEF LoadCephConnection, Worker
    <3>2. ProfileCurrent'
      BY <2>0, <3>1 DEF Copies, ProfileCurrent
    <3>3. ConnCurrent'
      BY <2>0, <3>1 DEF ConnCurrent, InSync, Cached, Stored
    <3> QED
      BY <2>0, <3>1, <3>2, <3>3 DEF Copies, ConfigMapCurrent, WorkerConfigMap
  <2> QED
    BY <2>1, <2>2
\* Update of the CephConnection.
<1>c. ASSUME HasConn, NEW v \in Option(ConnObj), NEW pc \in {"listReady", "replication"}, PutConn(w.prof.conn, v),
             w' = [w EXCEPT !.pc = pc, !.conn = v], UNCHANGED <<profile, configMap>>
      PROVE  Copies' /\ WorkerConfigMap
  <2>1. /\ w'.pc = pc /\ w'.name = w.name /\ w'.prof = w.prof /\ w'.profCur = w.profCur
        /\ w'.conn = v /\ w'.connCur = w.connCur
    BY <1>t, <1>c DEF Worker
  <2>2. Stored(cephConn'[w.prof.conn]) = v
    BY <1>t, <1>c, PutStored, WorkerWrites
  <2>3. ProfileCurrent'
    BY <1>c, <2>1 DEF Copies, ProfileCurrent, HasConn, HasProfile
  <2> QED
    BY <1>c, <2>1, <2>2, <2>3 DEF Copies, ConnCurrent, ConfigMapCurrent, WorkerConfigMap
<1>3. CASE AddConnOwner
  <2>0. HasConn /\ UNCHANGED <<profile, configMap>>
    BY <1>3 DEF AddConnOwner, HasConn, cluster
  <2> DEFINE v == [w.conn EXCEPT !.owners = ToggleOwnerReference(TRUE, @, me)]
  <2>1. v \in Option(ConnObj)
    BY <1>t, <2>0, WorkerWrites
  <2>2. CASE AbandonLoad
    BY <1>i, <2>0, <2>2 DEF AbandonLoad
  <2>3. CASE PutConn(w.prof.conn, v) /\ w' = [w EXCEPT !.pc = "listReady", !.conn = v]
    <3> HIDE DEF v
    <3> QED
      BY <1>c, <2>0, <2>1, <2>3
  <2> QED
    BY <1>3, <2>2, <2>3 DEF AddConnOwner
<1>4. CASE LoadReplication
  <2>0. HasConn /\ HasProfile /\ UNCHANGED <<profile, cephConn, configMap>>
    BY <1>4 DEF LoadReplication, HasConn, HasProfile, cluster
  <2>1. CASE AbandonLoad
    BY <1>i, <2>0, <2>1 DEF AbandonLoad
  <2>2. CASE ~AbandonLoad
    <3>1. /\ w'.pc = "finalizer" /\ w'.name = w.name /\ w'.prof = w.prof /\ w'.profCur = w.profCur
          /\ w'.conn = w.conn /\ w'.connCur = w.connCur
      BY <1>4, <1>t, <2>2 DEF LoadReplication, Worker
    <3> QED
      BY <2>0, <3>1, CopiesFrame DEF WorkerConfigMap
  <2> QED
    BY <2>1, <2>2
<1>5. CASE EnsureFinalizer
  <2>0. HasConn /\ HasProfile /\ UNCHANGED <<cephConn, configMap>>
    BY <1>5 DEF EnsureFinalizer, HasConn, HasProfile, cluster
  <2> DEFINE v == [w.prof EXCEPT !.finalizer = TRUE]
  <2>1. CASE UNCHANGED cluster /\ (FailPhase("Pending") \/ GoTo("conn"))
    BY <1>q, <2>0, <2>1 DEF cluster
  <2>2. CASE PutProfile(w.name, v) /\ w' = [w EXCEPT !.pc = "conn", !.prof = v]
    <3>1. v \in Option(ProfileObj) /\ v.conn = w.prof.conn /\ w.name \in Profiles
      BY <1>t, <2>0, WorkerWrites DEF ProfileObj
    <3> HIDE DEF v
    <3>2. /\ w'.pc = "conn" /\ w'.name = w.name /\ w'.prof = v /\ w'.conn = w.conn /\ w'.connCur = w.connCur
      BY <1>t, <2>2 DEF Worker
    <3>3. Stored(profile'[w.name]) = v
      BY <1>t, <2>2, <3>1, PutStored
    <3>4. ProfileCurrent'
      BY <3>2, <3>3 DEF ProfileCurrent
    <3>5. ConnCurrent'
      BY <2>0, <3>1, <3>2 DEF Copies, ConnCurrent
    <3> QED
      BY <2>0, <3>2, <3>4, <3>5 DEF Copies, ConfigMapCurrent, WorkerConfigMap
  <2> QED
    BY <1>5, <2>1, <2>2 DEF EnsureFinalizer
<1>6. CASE ReconcileCephConnection
  <2>0. HasConn /\ UNCHANGED <<profile, configMap>>
    BY <1>6 DEF ReconcileCephConnection, HasConn, cluster
  <2> DEFINE v == [w.conn EXCEPT !.owners = ToggleOwnerReference(~cleanUp, @, me)]
  <2>1. v \in Option(ConnObj)
    <3>1. (~cleanUp) \in BOOLEAN
      OBVIOUS
    <3> QED
      BY <1>t, <2>0, <3>1, WorkerWrites
  <2>2. CASE UNCHANGED cluster /\ (FailPhase("Failed") \/ GoTo("replication"))
    BY <1>q, <2>0, <2>2 DEF cluster
  <2>3. CASE PutConn(w.prof.conn, v) /\ w' = [w EXCEPT !.pc = "replication", !.conn = v]
    <3> HIDE DEF v
    <3> QED
      BY <1>c, <2>0, <2>1, <2>3
  <2> QED
    BY <1>6, <2>2, <2>3 DEF ReconcileCephConnection
<1>7. CASE ReconcileReplication
  <2>0. HasConn /\ UNCHANGED <<profile, cephConn, configMap>>
    BY <1>7 DEF ReconcileReplication, HasConn, cluster
  <2> QED
    BY <1>7, <1>q, <2>0 DEF ReconcileReplication
<1>8. CASE ReadConfigMap
  <2>0. HasConn /\ HasProfile /\ UNCHANGED <<profile, cephConn, configMap>>
    BY <1>8 DEF ReadConfigMap, HasConn, HasProfile, cluster
  <2>1. /\ w'.name = w.name /\ w'.prof = w.prof /\ w'.profCur = w.profCur
        /\ w'.conn = w.conn /\ w'.connCur = w.connCur
        /\ w'.cm = Cached(configMap) /\ w'.cmCur = InSync(configMap)
    BY <1>8, <1>t DEF ReadConfigMap, Worker
  <2>2. ProfileCurrent' /\ ConnCurrent'
    BY <2>0, <2>1 DEF Copies, ProfileCurrent, ConnCurrent
  <2>3. ConfigMapCurrent'
    BY <2>0, <2>1 DEF ConfigMapCurrent, InSync, Cached, Stored
  <2> QED
    BY <2>0, <2>2, <2>3 DEF Copies, WorkerConfigMap
<1>9. CASE WriteConfigMap
  <2> DEFINE base == IF w.cm = NoObj THEN EmptyConfigMap ELSE w.cm
             v == MutateConfigMap(base)
  <2>0. HasConn /\ HasProfile /\ w.pc = "writeConfigMap" /\ UNCHANGED <<profile, cephConn>>
    BY <1>9 DEF WriteConfigMap, HasConn, HasProfile, cluster
  <2>1. CASE UNCHANGED cluster /\ (FailPhase("Failed") \/ GoTo("release"))
    BY <1>q, <2>0, <2>1 DEF cluster
  <2>2. CASE /\ Accepted(IF w.cm = NoObj THEN Stored(configMap) = NoObj ELSE w.cmCur)
             /\ PutConfigMap(v) /\ GoTo("release")
    <3>1. base = Base(Stored(configMap))
      BY <2>0, <2>2 DEF Accepted, Copies, ConfigMapCurrent, Base
    <3>2. v \in Option(ConfigMapObj)
      <4>1. base \in ConfigMapObj /\ Unique(ConfigOf(base))
        BY EmptyConfigMapType, EmptyUnique DEF Inv, TypeOK, Worker, Option, AllUnique
      <4> HIDE DEF base
      <4> QED
        BY <1>t, <2>0, <4>1, MutateFacts DEF Option
    <3> HIDE DEF v, base
    <3>3. Stored(configMap') = v
      BY <1>t, <2>2, <3>2, PutStored
    <3>4. WorkerConfigMap
      BY <2>0, <3>1, <3>3 DEF WorkerConfigMap, v
    <3>5. /\ w'.pc = "release" /\ w'.name = w.name /\ w'.prof = w.prof /\ w'.conn = w.conn
          /\ w'.profCur = w.profCur /\ w'.connCur = w.connCur
      BY <1>t, <2>2 DEF GoTo, Worker
    <3> QED
      BY <2>0, <3>4, <3>5, CopiesFrame
  <2> QED
    BY <1>9, <2>1, <2>2 DEF WriteConfigMap
<1>10. CASE ReleaseFinalizer
  <2>0. HasConn /\ HasProfile /\ UNCHANGED <<cephConn, configMap>>
    BY <1>10 DEF ReleaseFinalizer, HasConn, HasProfile, cluster
  <2>1. /\ w'.pc = "status" /\ w'.name = w.name /\ w'.prof = w.prof /\ w'.conn = w.conn /\ w'.connCur = w.connCur
        /\ w'.profCur => w.profCur /\ profile' = profile
    BY <1>10, <1>t DEF ReleaseFinalizer, FailPhase, Worker, cluster
  <2> QED
    BY <2>0, <2>1, CopiesFrame DEF WorkerConfigMap
<1>11. CASE UpdateStatus
  BY <1>11, <1>i DEF UpdateStatus, cluster
<1> QED
  BY <1>1, <1>2, <1>3, <1>4, <1>5, <1>6, <1>7, <1>8, <1>9, <1>10, <1>11 DEF ReconcileStep

LEMMA CopiesInit == Init => Copies
BY DEF Init, IdleWorker, Copies, ProfileCurrent, ConnCurrent, ConfigMapCurrent, HasProfile, HasConn

LEMMA OthersStutter == Inv /\ UNCHANGED vars => OthersEffect
BY OthersRead DEF vars

LEMMA CopiesNext == Inv /\ Copies /\ [Next]_vars => Copies' /\ (WorkerConfigMap \/ OthersConfigMap)
<1> SUFFICES ASSUME Inv, Copies, [Next]_vars PROVE Copies' /\ (WorkerConfigMap \/ OthersConfigMap)
  OBVIOUS
<1>1. OthersEffect => Copies' /\ OthersConfigMap
  BY OthersCopies DEF OthersEffect
<1> QED
  BY <1>1, CopiesStart, CopiesReconcileStep, OthersWatch, OthersEnvironment, OthersStutter DEF Next

-----------------------------------------------------------------------------
(* The shared ConfigMap *)

\* What two lists without duplicates say of a profile is the same when they have the
\* same records of it, wherever.
LEMMA SameEntries ==
    ASSUME NEW a, NEW b, Unique(a), Unique(b), NEW q,
           \A i \in 1..Len(a) : a[i].id = q => \E j \in 1..Len(b) : b[j] = a[i],
           \A j \in 1..Len(b) : b[j].id = q => \E i \in 1..Len(a) : a[i] = b[j]
    PROVE  EntriesOf(a, q) = EntriesOf(b, q)
<1> DEFINE ata == {i \in 1..Len(a) : a[i].id = q}
           atb == {j \in 1..Len(b) : b[j].id = q}
<1>1. {a[i] : i \in ata} = {b[j] : j \in atb}
  <2>1. ASSUME NEW i \in ata PROVE \E j \in atb : a[i] = b[j]
    OBVIOUS
  <2>2. ASSUME NEW j \in atb PROVE \E i \in ata : b[j] = a[i]
    OBVIOUS
  <2> QED
    BY <2>1, <2>2
<1>2. (\E i, j \in ata : i # j) = FALSE /\ (\E i, j \in atb : i # j) = FALSE
  BY DEF Unique
<1> QED
  BY <1>1, <1>2 DEF EntriesOf

LEMMA UpsertEntries ==
    ASSUME NEW list \in Seq(ClusterInfo), Unique(list), NEW record \in ClusterInfo,
           NEW q, q # record.id
    PROVE  EntriesOf(Upsert(list, record), q) = EntriesOf(list, q)
<1>1. CASE Holds(list, record.id)
  <2> DEFINE k == IndexOf(list, record.id)
             new == [list EXCEPT ![k] = record]
  <2>1. k \in 1..Len(list) /\ list[k].id = record.id
    BY <1>1, IndexOfUnique
  <2>2. Upsert(list, record) = new /\ Unique(new)
    BY <1>1, UpsertFacts DEF Upsert
  <2> HIDE DEF k
  <2>3. /\ Len(new) = Len(list)
        /\ \A j \in 1..Len(list) : new[j] = IF j = k THEN record ELSE list[j]
    BY <2>1, ExceptSeq
  <2> HIDE DEF new
  <2>4. \A j \in 1..Len(list) : (new[j].id = q \/ list[j].id = q) => new[j] = list[j]
    BY <2>1, <2>3
  <2>5. EntriesOf(new, q) = EntriesOf(list, q)
    BY <2>2, <2>3, <2>4, SameEntries
  <2> QED
    BY <2>2, <2>5
<1>2. CASE ~Holds(list, record.id)
  <2> DEFINE new == Append(list, record)
  <2>1. Upsert(list, record) = new /\ Unique(new)
    BY <1>2, UpsertFacts DEF Upsert
  <2>2. /\ Len(new) = Len(list) + 1
        /\ new[Len(list) + 1] = record
        /\ \A j \in 1..Len(list) : new[j] = list[j]
    BY AppendProperties
  <2> HIDE DEF new
  <2>3. /\ \A j \in 1..Len(new) : j = Len(list) + 1 \/ j \in 1..Len(list)
        /\ \A j \in 1..Len(list) : j \in 1..Len(new)
    <3>1. Len(list) \in Nat
      BY LenProperties
    <3> QED
      BY <2>2, <3>1
  <2>4. \A j \in 1..Len(new) : new[j].id = q => \E i \in 1..Len(list) : list[i] = new[j]
    BY <2>2, <2>3
  <2>5. \A i \in 1..Len(list) : list[i].id = q => \E j \in 1..Len(new) : new[j] = list[i]
    BY <2>2, <2>3
  <2>6. EntriesOf(new, q) = EntriesOf(list, q)
    BY <2>1, <2>4, <2>5, SameEntries
  <2> QED
    BY <2>1, <2>6
<1> QED
  BY <1>1, <1>2

LEMMA SwapRemoveEntries ==
    ASSUME NEW list \in Seq(ClusterInfo), Unique(list), NEW p, NEW q, q # p
    PROVE  EntriesOf(SwapRemove(list, p), q) = EntriesOf(list, q)
<1>1. CASE Holds(list, p)
  <2> DEFINE k == IndexOf(list, p)
             n == Len(list)
             moved == [list EXCEPT ![k] = list[n]]
             new == SubSeq(moved, 1, n - 1)
  <2>1. k \in 1..n /\ list[k].id = p
    BY <1>1, IndexOfUnique
  <2>2. SwapRemove(list, p) = new /\ Unique(new)
    BY <1>1, SwapRemoveFacts DEF SwapRemove
  <2>3. n \in Nat /\ n # 0
    BY <2>1, LenProperties
  <2>4. n \in 1..n /\ list[n] \in ClusterInfo
    BY <2>3, ElementOfSeq
  <2> HIDE DEF k
  <2>5. /\ moved \in Seq(ClusterInfo)
        /\ \A j \in 1..n : moved[j] = IF j = k THEN list[n] ELSE list[j]
    BY <2>1, <2>4, ExceptSeq
  <2>5a. Len(moved) = n
    BY <2>1, <2>4, ExceptSeq
  <2> HIDE DEF moved
  <2>6. n - 1 \in Nat /\ 1..(n - 1) \subseteq 1..n /\ \A i \in 1..n : i = n \/ i \in 1..(n - 1)
    BY <2>3
  <2>7. /\ Len(new) = n - 1
        /\ \A j \in 1..(n - 1) : new[j] = moved[j]
    <3>1. \A j \in 1..(n - 1) : moved[j] \in ClusterInfo
      BY <2>5, <2>5a, <2>6, ElementOfSeq
    <3> HIDE DEF n
    <3>2. /\ Len(SubSeq(moved, 1, n - 1)) = IF 1 <= n - 1 THEN (n - 1) - 1 + 1 ELSE 0
          /\ \A j \in 1..((n - 1) - 1 + 1) : SubSeq(moved, 1, n - 1)[j] = moved[1 + j - 1]
      BY <2>6, <3>1, SubSeqProperties, SMT
    <3> QED
      BY <2>6, <3>2
  <2> HIDE DEF new, n
  <2>8. \A j \in 1..(n - 1) : new[j] = IF j = k THEN list[n] ELSE list[j]
    BY <2>5, <2>6, <2>7
  <2>9. \A j \in 1..(n - 1) : \E i \in 1..n : list[i] = new[j]
    BY <2>4, <2>6, <2>8
  <2>10. \A i \in 1..n : list[i].id = q => \E j \in 1..(n - 1) : new[j] = list[i]
    <3> SUFFICES ASSUME NEW i \in 1..n, list[i].id = q PROVE \E j \in 1..(n - 1) : new[j] = list[i]
      OBVIOUS
    <3>1. i # k
      BY <2>1
    <3>2. CASE i = n
      <4>1. k \in 1..(n - 1) /\ new[k] = list[i]
        BY <2>1, <2>6, <2>8, <3>1, <3>2
      <4> QED
        BY <4>1
    <3>3. CASE i # n
      BY <2>6, <2>8, <3>1, <3>3
    <3> QED
      BY <3>2, <3>3
  <2>11. EntriesOf(new, q) = EntriesOf(list, q)
    BY <2>2, <2>7, <2>9, <2>10, SameEntries DEF n
  <2> QED
    BY <2>2, <2>11
<1>2. CASE ~Holds(list, p)
  BY <1>2 DEF SwapRemove
<1> QED
  BY <1>1, <1>2

\* An object of a name has one reference to it, the earlier ones being overwritten.
OneRef(v) == \A s, t \in OwnersOf(v) : s[1] = t[1] => s = t

\* The worker's write leaves the entries and references of the other profiles alone.
LEMMA MutateOthers ==
    ASSUME TypeOK, Loaded, w.pc = "writeConfigMap", NEW cm \in ConfigMapObj, Unique(ConfigOf(cm))
    PROVE  /\ MutateConfigMap(cm).foreign = cm.foreign
           /\ \A q \in Profiles : q # w.name =>
                 EntriesOf(ConfigOf(MutateConfigMap(cm)), q) = EntriesOf(ConfigOf(cm), q)
           /\ \A x : x # w.name => {u \in MutateConfigMap(cm).owners : u[1] = x} = {u \in cm.owners : u[1] = x}
           /\ OneRef(cm) => OneRef(MutateConfigMap(cm))
<1> DEFINE list == IF cm.config = NoObj THEN <<>> ELSE cm.config
           record == ComposeRecord(w.name, w.prof, w.conn, w.dest)
           new == IF cleanUp THEN SwapRemove(list, w.name) ELSE Upsert(list, record)
           owners == ToggleOwnerReference(~cleanUp, cm.owners, me)
<1>1. cm # NoObj
  BY NoObjAssumption
<1>2. ConfigOf(cm) = list
  BY <1>1 DEF ConfigOf
<1>3. list \in Seq(ClusterInfo) /\ Unique(list)
  BY <1>2, ConfigOfType DEF Option
<1>4. w.name \in Profiles /\ w.prof \in ProfileObj /\ w.conn \in ConnObj /\ w.dest \in Option(Dests)
  BY DEF TypeOK, Loaded, Worker
<1>5. record \in ClusterInfo /\ record.id = w.name
  BY <1>4 DEF ComposeRecord, ClusterInfo, ProfileObj, ConnObj, Option
<1>6. me[1] = w.name
  BY DEF me
<1> HIDE DEF record, list
<1>7. \A q \in Profiles : q # w.name => EntriesOf(new, q) = EntriesOf(list, q)
  BY <1>3, <1>5, UpsertEntries, SwapRemoveEntries
<1>8. /\ \A x : x # w.name => {u \in owners : u[1] = x} = {u \in cm.owners : u[1] = x}
      /\ (\A s, t \in cm.owners : s[1] = t[1] => s = t) => \A s, t \in owners : s[1] = t[1] => s = t
  <2> DEFINE mine == me
  <2>1. mine[1] = w.name
    BY <1>6
  <2> HIDE DEF mine
  <2>2. owners = IF ~cleanUp THEN {o \in cm.owners : o[1] # mine[1]} \cup {mine} ELSE cm.owners \ {mine}
    BY DEF ToggleOwnerReference, mine
  <2> HIDE DEF owners
  <2> QED
    BY <2>1, <2>2
<1>9. MutateConfigMap(cm) = [cm EXCEPT !.owners = owners, !.config = new]
  BY DEF MutateConfigMap, list, record
<1> HIDE DEF new, owners
<1>10. /\ MutateConfigMap(cm).owners = owners /\ MutateConfigMap(cm).config = new
       /\ MutateConfigMap(cm).foreign = cm.foreign
  BY <1>9 DEF ConfigMapObj
<1>11. ConfigOf(MutateConfigMap(cm)) = new /\ MutateConfigMap(cm) # NoObj
  BY <1>10, MutateFacts, NoObjAssumption
<1> QED
  BY <1>1, <1>2, <1>7, <1>8, <1>10, <1>11 DEF OneRef, OwnersOf

SharedOwners == Profiles \cup {NoObj}
SharedPartOf == [x \in SharedOwners |-> x]
SharedNoPart == [x \in SharedOwners |-> IF x = NoObj THEN 0 ELSE NoEntries]
PartIn(v, x) == IF x = NoObj THEN v.foreign ELSE EntriesOf(ConfigOf(v), x)
Refs(v, x) == {u \in v.owners : u[1] = x}
View(v) == [part |-> [x \in SharedOwners |-> PartIn(v, x)], refs |-> [x \in SharedOwners |-> Refs(v, x)]]

LEMMA ViewFacts ==
    ASSUME NEW v \in ConfigMapObj
    PROVE  View(v) # NoObj /\ Refs(v, NoObj) = {}
<1>1. v.owners \in SUBSET Uid /\ v.foreign \in 0..2
  BY DEF ConfigMapObj
<1>2. \A x : Refs(v, x) \in SUBSET Uid
  BY <1>1 DEF Refs
<1>3. Refs(v, NoObj) = {}
  <2>1. \A u \in v.owners : u[1] \in Profiles
    BY <1>1 DEF Uid
  <2> QED
    BY <2>1, NoObjAssumption DEF Refs
<1> DEFINE P == (0..2) \cup [entries: SUBSET ClusterInfo, twice: BOOLEAN]
<1>4. \A x \in SharedOwners : PartIn(v, x) \in P
  <2> SUFFICES ASSUME NEW x \in SharedOwners, x # NoObj PROVE PartIn(v, x) \in P
    BY <1>1 DEF PartIn
  <2> DEFINE list == ConfigOf(v)
             at == {i \in 1..Len(list) : list[i].id = x}
             e == {list[i] : i \in at}
             t == \E i, j \in at : i # j
  <2>1. list \in Seq(ClusterInfo)
    BY ConfigOfType DEF Option
  <2>2. PartIn(v, x) = [entries |-> e, twice |-> t]
    BY DEF PartIn, EntriesOf
  <2> HIDE DEF list
  <2>3. e \in SUBSET ClusterInfo
    BY <2>1, ElementOfSeq
  <2>4. t \in BOOLEAN
    OBVIOUS
  <2> HIDE DEF e, t
  <2> QED
    BY <2>2, <2>3, <2>4
<1> HIDE DEF P
<1>5. /\ [x \in SharedOwners |-> PartIn(v, x)] \in [SharedOwners -> P]
      /\ [x \in SharedOwners |-> Refs(v, x)] \in [SharedOwners -> SUBSET Uid]
  BY <1>2, <1>4
<1>6. View(v) \in [part: [SharedOwners -> P], refs: [SharedOwners -> SUBSET Uid]]
  BY <1>5 DEF View
<1> QED
  BY <1>3, <1>6, SharedAssumption DEF SharedObj, P, SharedOwners

LEMMA ViewOf ==
    SharedConfigMap = IF Stored(configMap) = NoObj THEN NoObj ELSE View(Stored(configMap))
BY DEF SharedConfigMap, View, PartIn, Refs, SharedOwners, StoredConfig

LEMMA ViewNext ==
    SharedConfigMap' = IF Stored(configMap') = NoObj THEN NoObj ELSE View(Stored(configMap'))
BY DEF SharedConfigMap, View, PartIn, Refs, SharedOwners, StoredConfig

LEMMA OneRefNext == Inv /\ Copies /\ OneRef(Stored(configMap)) /\ [Next]_vars => OneRef(Stored(configMap'))
<1> SUFFICES ASSUME Inv, Copies, OneRef(Stored(configMap)), [Next]_vars PROVE OneRef(Stored(configMap'))
  OBVIOUS
<1> DEFINE old == Stored(configMap)
           new == Stored(configMap')
<1>1. Base(old) \in ConfigMapObj /\ Unique(ConfigOf(Base(old))) /\ OneRef(Base(old)) /\ Base(old) # NoObj
  <2>1. Unique(ConfigOf(old)) /\ old \in Option(ConfigMapObj)
    BY LogElements DEF Inv, TypeOK, Versions, AllUnique, Stored
  <2>2. CASE old = NoObj
    BY <2>2, EmptyConfigMapType, EmptyUnique, NoObjAssumption DEF Base, OneRef, OwnersOf, EmptyConfigMap
  <2>3. CASE old # NoObj
    BY <2>1, <2>3 DEF Base, Option
  <2> QED
    BY <2>2, <2>3
<1>2. CASE WorkerConfigMap
  BY <1>1, <1>2, MutateOthers DEF WorkerConfigMap, Inv
<1>3. CASE OthersConfigMap
  BY <1>1, <1>3, NoObjAssumption DEF OthersConfigMap, OneRef, OwnersOf
<1> QED
  BY <1>2, <1>3, CopiesNext

\* What each change of the stored object is in the shared ConfigMap.
LEMMA SharedNext == Inv /\ Copies /\ OneRef(Stored(configMap)) /\ [Next]_vars => Shared!Step
<1> SUFFICES ASSUME Inv, Copies, OneRef(Stored(configMap)), [Next]_vars PROVE Shared!Step
  OBVIOUS
<1> DEFINE old == Stored(configMap)
           new == Stored(configMap')
           cm == SharedConfigMap
           cmNew == SharedConfigMap'
           Cur == IF cm = NoObj THEN [part |-> SharedNoPart, refs |-> [x \in DOMAIN SharedPartOf |-> {}]] ELSE cm
<1>1. /\ old \in Option(ConfigMapObj) /\ new \in Option(ConfigMapObj)
      /\ Base(old) \in ConfigMapObj /\ Unique(ConfigOf(Base(old)))
      /\ OneRef(new)
  <2>1. Inv'
    BY InvNext
  <2>2. Unique(ConfigOf(old)) /\ old \in Option(ConfigMapObj) /\ new \in Option(ConfigMapObj)
    BY <2>1, LogElements DEF Inv, TypeOK, Versions, AllUnique, Stored
  <2> QED
    BY <2>2, EmptyConfigMapType, EmptyUnique, OneRefNext DEF Base, Option
<1>2. CASE new = old
  <2>1. cmNew = cm
    BY <1>2, ViewOf, ViewNext
  <2> QED
    BY <2>1 DEF Shared!Step
<1>3. CASE new = NoObj
  <2>1. cmNew = NoObj
    BY <1>3, ViewNext
  <2> QED
    BY <2>1 DEF Shared!Step, Shared!Next, Shared!Delete
<1>4. CASE new # old /\ new # NoObj
  <2>1. new \in ConfigMapObj
    BY <1>1, <1>4 DEF Option
  <2>2. /\ cmNew # NoObj /\ cmNew = View(new)
        /\ \A x \in SharedOwners : cmNew.part[x] = PartIn(new, x) /\ cmNew.refs[x] = Refs(new, x)
        /\ Refs(new, NoObj) = {}
    BY <1>4, <2>1, ViewNext, ViewFacts DEF View
  <2>3. DOMAIN SharedPartOf = SharedOwners /\ DOMAIN SharedNoPart = SharedOwners
        /\ \A x \in SharedOwners : SharedPartOf[x] = x
    BY DEF SharedPartOf, SharedNoPart
  <2>4. \A x \in SharedOwners : Cur.part[x] = PartIn(Base(old), x) /\ Cur.refs[x] = Refs(Base(old), x)
    <3>1. CASE old = NoObj
      <4>1. cm = NoObj /\ Base(old) = EmptyConfigMap
        BY <3>1, ViewOf DEF Base
      <4>2. ASSUME NEW x PROVE EntriesOf(<<>>, x) = NoEntries
        <5> DEFINE at == {i \in 1..Len(<<>>) : <<>>[i].id = x}
        <5>1. at = {}
          OBVIOUS
        <5> HIDE DEF at
        <5>2. {<<>>[i] : i \in at} = {} /\ (\E i, j \in at : i # j) = FALSE
          BY <5>1
        <5> QED
          BY <5>2 DEF EntriesOf, NoEntries, at
      <4> QED
        BY <2>3, <4>1, <4>2, EmptyConfigMapType DEF PartIn, Refs, SharedNoPart, EmptyConfigMap
    <3>2. CASE old # NoObj
      <4>1. cm = View(old) /\ cm # NoObj /\ Base(old) = old
        BY <1>1, <3>2, ViewOf, ViewFacts DEF Base
      <4> QED
        BY <4>1 DEF View
    <3> QED
      BY <3>1, <3>2
  <2> HIDE DEF cm, cmNew, old, new
  <2>5. ASSUME NEW o \in SharedOwners, o \in {w.name, NoObj},
               \A x \in SharedOwners \ {o} : PartIn(new, x) = PartIn(Base(old), x),
               \A x \in SharedOwners \ {o} : Refs(new, x) = Refs(Base(old), x),
               \A a, b \in Refs(new, o) : a = b
        PROVE  Shared!Step
    <3>1. /\ \A x \in SharedOwners \ {SharedPartOf[o]} : cmNew.part[x] = Cur.part[x]
          /\ \A x \in SharedOwners \ {o} : cmNew.refs[x] = Cur.refs[x]
          /\ \A a, b \in cmNew.refs[o] : a = b
      BY <2>2, <2>3, <2>4, <2>5
    <3>2. Shared!Write(o)
      BY <2>2, <2>3, <2>5, <3>1 DEF Shared!Write, Shared!Current, Shared!New, Shared!Owners, Shared!Parts,
                                    cm, cmNew, SharedPartOf, SharedNoPart, SharedOwners
    <3> QED
      BY <3>2 DEF Shared!Step, Shared!Next, Shared!Owners, SharedOwners
  <2>6. CASE w.pc = "writeConfigMap" /\ new = MutateConfigMap(Base(old))
    <3>1. w.name \in Profiles /\ TypeOK /\ Loaded
      BY <2>6 DEF Inv, Loaded
    <3>2. /\ new.foreign = Base(old).foreign
          /\ \A q \in Profiles : q # w.name => EntriesOf(ConfigOf(new), q) = EntriesOf(ConfigOf(Base(old)), q)
          /\ \A x : x # w.name => Refs(new, x) = Refs(Base(old), x)
      BY <1>1, <2>6, <3>1, MutateOthers DEF Refs
    <3>3. \A x \in SharedOwners \ {w.name} : PartIn(new, x) = PartIn(Base(old), x)
      BY <3>2 DEF PartIn, SharedOwners
    <3>4. \A a, b \in Refs(new, w.name) : a = b
      BY <1>1, <1>4 DEF OneRef, OwnersOf, Refs, new
    <3> QED
      BY <2>5, <3>1, <3>2, <3>3, <3>4 DEF SharedOwners
  <2>7. CASE new.owners = Base(old).owners /\ new.config = Base(old).config
    <3>1. ConfigOf(new) = ConfigOf(Base(old))
      BY <1>1, <2>1, <2>7, NoObjAssumption DEF ConfigOf
    <3>2. \A x \in SharedOwners \ {NoObj} : PartIn(new, x) = PartIn(Base(old), x) /\ Refs(new, x) = Refs(Base(old), x)
      BY <2>7, <3>1 DEF PartIn, Refs
    <3> QED
      BY <2>2, <2>5, <3>2 DEF SharedOwners
  <2>8. CASE /\ old # NoObj /\ new.owners \subseteq old.owners
             /\ new.config = old.config /\ new.foreign = old.foreign
    <3>1. cm # NoObj /\ cm = View(old) /\ Base(old) = old
      BY <1>1, <2>8, ViewOf, ViewFacts DEF Base, Option, cm, old
    <3>2. ConfigOf(new) = ConfigOf(old)
      BY <1>4, <2>8 DEF ConfigOf, new
    <3>3. \A x : PartIn(new, x) = PartIn(old, x)
      BY <2>8, <3>2 DEF PartIn
    <3>4. cmNew.part = cm.part
      BY <2>2, <3>1, <3>3 DEF View
    <3>5. \A x \in SharedOwners : cmNew.refs[x] \subseteq cm.refs[x]
      BY <2>2, <2>8, <3>1 DEF View, Refs
    <3>6. Shared!Collect
      BY <2>2, <3>1, <3>4, <3>5 DEF Shared!Collect, Shared!Owners, SharedOwners, cm, cmNew
    <3> QED
      BY <3>6 DEF Shared!Step, Shared!Next
  <2>9. WorkerConfigMap \/ OthersConfigMap
    BY CopiesNext
  <2> QED
    BY <1>4, <2>6, <2>7, <2>8, <2>9 DEF WorkerConfigMap, OthersConfigMap, old, new
<1> QED
  BY <1>2, <1>3, <1>4

\* The controller implements the shared ConfigMap: a write for a profile changes that
\* profile's entry and reference only, on top of everything written since the copy was
\* read, however far the watches lag (CreateOrUpdate of reconcileCephCsiClusterInfo).
THEOREM SharesCsiConfigMap == Spec => SharesConfigMap
<1> DEFINE One == OneRef(Stored(configMap))
<1>1. Init => Shared!Init /\ One
  BY DEF Init, Shared!Init, SharedConfigMap, Stored, OneRef, OwnersOf
<1>2. Inv /\ Copies /\ One /\ [Next]_vars => [Shared!Next]_SharedConfigMap
  BY SharedNext DEF Shared!Step
<1>3. Inv /\ Copies /\ One /\ [Next]_vars => One'
  BY OneRefNext
<1>4. Inv /\ Copies /\ [Next]_vars => Copies'
  BY CopiesNext
<1>5. Inv /\ [Next]_vars => Inv'
  BY InvNext
<1> HIDE DEF One
<1> QED
  BY <1>1, <1>2, <1>3, <1>4, <1>5, InvInit, CopiesInit, PTL DEF Spec, SharesConfigMap, Shared!Spec
=============================================================================
