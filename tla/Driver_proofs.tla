---------------------------- MODULE Driver_proofs ----------------------------
(***************************************************************************)
(* Proofs about Driver, for every set of namespaces, of controlled objects *)
(* and of specs, every lag of the watches and every bound.                 *)
(***************************************************************************)
EXTENDS Driver, VersionLog_proofs, TLAPS

-----------------------------------------------------------------------------
(* Type correctness *)

\* TypeOK alone is not inductive: the worker of an iteration has a namespace, past
\* the last read it has the uid of a Driver, and the copy in a goroutine is of the
\* kind of object that goroutine reconciles.
Loaded ==
    /\ w.pc # "idle" => w.ns \in Namespaces
    /\ w.pc = "run" => w.uid # 0
    /\ \A o \in Owned : w.task[o].copy \in Option(OwnedObj)
    /\ w.task["csiDriver"].copy \in Option(CsiDriverObj)
    /\ w.task["csiConfig"].copy \in Option(CsiConfigObj)

TypeInv == TypeOK /\ Loaded

\* The annotation names a namespace: every request a watch adds is for a Driver.
LEMMA RequestsType ==
    /\ \A old, new \in Option(CsiDriverObj) : CsiDriverRequests(old, new) \in SUBSET Namespaces
    /\ \A n \in Namespaces : \A old, new : CsiConfigRequests(n, old, new) \in SUBSET Namespaces
    /\ OpConfigRequests \in SUBSET Namespaces
BY DEF CsiDriverRequests, CsiConfigRequests, OpConfigRequests, Option, CsiDriverObj

LEMMA LagType == ASSUME TypeOK, NEW k \in Kinds PROVE left.lag[k] \in Nat
BY LagsAssumption DEF TypeOK

\* What reads return.
LEMMA ReadTypes ==
    ASSUME TypeOK
    PROVE  /\ \A n \in Namespaces : /\ Stored(driver[n]) \in Option(DriverObj)
                                    /\ Cached(driver[n]) \in Option(DriverObj)
                                    /\ Stored(csiConfig[n]) \in Option(CsiConfigObj)
                                    /\ Cached(csiConfig[n]) \in Option(CsiConfigObj)
           /\ \A n \in Namespaces, o \in Owned : /\ Stored(owned[n][o]) \in Option(OwnedObj)
                                                 /\ Cached(owned[n][o]) \in Option(OwnedObj)
           /\ Stored(opConfig) \in Option(Specs)
           /\ Cached(opConfig) \in Option(Specs)
           /\ Stored(csiDriver) \in Option(CsiDriverObj)
           /\ Cached(csiDriver) \in Option(CsiDriverObj)
BY LogElements DEF TypeOK, Versions

\* Storing a well-typed version keeps the log and the queue well typed, and
\* changes no other object.
LEMMA PutDriverFacts ==
    ASSUME TypeOK, NEW n \in Namespaces, NEW v \in Option(DriverObj), PutDriver(n, v)
    PROVE  driver' \in [Namespaces -> Versions(DriverObj)] /\ queue' \in SUBSET Namespaces
<1>1. driver[n] \in Seq(Option(DriverObj)) \ {<<>>} /\ left.lag["driver"] \in Nat
  BY LagType DEF TypeOK, Versions, Kinds
<1>2. Put(driver[n], left.lag["driver"], v) \in Versions(DriverObj)
  BY <1>1, PutLog DEF Versions
<1> QED
  BY <1>2 DEF TypeOK, PutDriver

LEMMA PutOpConfigFacts ==
    ASSUME TypeOK, NEW v \in Option(Specs), PutOpConfig(v)
    PROVE  opConfig' \in Versions(Specs) /\ queue' \in SUBSET Namespaces
<1>1. opConfig \in Seq(Option(Specs)) \ {<<>>} /\ left.lag["opConfig"] \in Nat
  BY LagType DEF TypeOK, Versions, Kinds
<1>2. Put(opConfig, left.lag["opConfig"], v) \in Versions(Specs)
  BY <1>1, PutLog DEF Versions
<1> QED
  BY <1>2, RequestsType DEF TypeOK, PutOpConfig

LEMMA PutCsiDriverFacts ==
    ASSUME TypeOK, NEW v \in Option(CsiDriverObj), PutCsiDriver(v)
    PROVE  csiDriver' \in Versions(CsiDriverObj) /\ queue' \in SUBSET Namespaces
<1> DEFINE log == Put(csiDriver, left.lag["csiDriver"], v)
<1>1. csiDriver \in Seq(Option(CsiDriverObj)) \ {<<>>} /\ left.lag["csiDriver"] \in Nat
  BY LagType DEF TypeOK, Versions, Kinds
<1>2. log \in Versions(CsiDriverObj) /\ Cached(log) \in Option(CsiDriverObj)
  BY <1>1, PutLog DEF Versions
<1>3. CsiDriverRequests(Cached(csiDriver), Cached(log)) \in SUBSET Namespaces
  BY <1>2, ReadTypes, RequestsType
<1> QED
  BY <1>2, <1>3 DEF TypeOK, PutCsiDriver

LEMMA PutCsiConfigFacts ==
    ASSUME TypeOK, NEW n \in Namespaces, NEW v \in Option(CsiConfigObj), PutCsiConfig(n, v)
    PROVE  /\ csiConfig' \in [Namespaces -> Versions(CsiConfigObj)]
           /\ queue' \in SUBSET Namespaces
           /\ Stored(csiConfig'[n]) = v
           /\ \A m \in Namespaces \ {n} : csiConfig'[m] = csiConfig[m]
<1> DEFINE log == Put(csiConfig[n], left.lag["csiConfig"], v)
<1>1. csiConfig[n] \in Seq(Option(CsiConfigObj)) \ {<<>>} /\ left.lag["csiConfig"] \in Nat
  BY LagType DEF TypeOK, Versions, Kinds
<1>2. log \in Versions(CsiConfigObj) /\ Stored(log) = v
  BY <1>1, PutLog DEF Versions
<1>3. CsiConfigRequests(n, Cached(csiConfig[n]), Cached(log)) \in SUBSET Namespaces
  BY RequestsType
<1>4. csiConfig' = [csiConfig EXCEPT ![n] = log]
  BY DEF PutCsiConfig
<1>5. queue' \in SUBSET Namespaces
  BY <1>3 DEF TypeOK, PutCsiConfig
<1> HIDE DEF log
<1> QED
  BY <1>2, <1>4, <1>5 DEF TypeOK

LEMMA PutOwnedFacts ==
    ASSUME TypeOK, NEW n \in Namespaces, NEW o \in Owned, NEW v \in Option(OwnedObj), PutOwned(n, o, v)
    PROVE  /\ owned' \in [Namespaces -> [Owned -> Versions(OwnedObj)]]
           /\ queue' \in SUBSET Namespaces
           /\ Stored(owned'[n][o]) = v
           /\ \A m \in Namespaces, x \in Owned : (m # n \/ x # o) => owned'[m][x] = owned[m][x]
<1> DEFINE log == Put(owned[n][o], left.lag["owned"], v)
<1>1. owned[n][o] \in Seq(Option(OwnedObj)) \ {<<>>} /\ left.lag["owned"] \in Nat
  BY LagType DEF TypeOK, Versions, Kinds
<1>2. log \in Versions(OwnedObj) /\ Stored(log) = v
  BY <1>1, PutLog DEF Versions
<1>3. owned' = [owned EXCEPT ![n][o] = log]
  BY DEF PutOwned
<1>4. queue' \in SUBSET Namespaces
  BY DEF TypeOK, PutOwned
<1> HIDE DEF log
<1> QED
  BY <1>2, <1>3, <1>4 DEF TypeOK

-----------------------------------------------------------------------------
(* What a step does to the worker *)

\* A goroutine returns: nothing but its own task and the error change.
LEMMA ReturnMoves ==
    ASSUME w \in Worker, NEW t \in Tasks, NEW failed \in BOOLEAN, Return(t, failed)
    PROVE  /\ w' \in Worker
           /\ w'.pc = w.pc /\ w'.ns = w.ns /\ w'.uid = w.uid /\ w'.spec = w.spec
           /\ w'.task[t].step = "done" /\ w'.task[t].copy = w.task[t].copy
           /\ \A u \in Tasks \ {t} : w'.task[u] = w.task[u]
<1> DEFINE r == [w.task[t] EXCEPT !.step = "done"]
<1>1. r \in Task /\ r.step = "done" /\ r.copy = w.task[t].copy
  BY DEF Worker, Task, TaskSteps
<1>2. PICK b \in BOOLEAN : b = (w.err \/ failed)
  OBVIOUS
<1>3. w' = [w EXCEPT !.task = [@ EXCEPT ![t] = r], !.err = b]
  BY <1>2 DEF Return
<1> HIDE DEF r
<1>4. [w.task EXCEPT ![t] = r] \in [Tasks -> Task]
  BY <1>1 DEF Worker
<1> HIDE DEF Tasks, Task
<1> QED
  BY <1>1, <1>3, <1>4 DEF Worker

\* A goroutine goes on, reads its object, or has its copy outdated.
LEMMA TaskMoves ==
    ASSUME w \in Worker, NEW t \in Tasks, NEW r \in Task,
           w' = [w EXCEPT !.task[t] = r]
    PROVE  /\ w' \in Worker
           /\ w'.pc = w.pc /\ w'.ns = w.ns /\ w'.uid = w.uid /\ w'.spec = w.spec
           /\ w'.task[t] = r
           /\ \A u \in Tasks \ {t} : w'.task[u] = w.task[u]
<1>1. [w.task EXCEPT ![t] = r] \in [Tasks -> Task]
  BY DEF Worker
<1> HIDE DEF Tasks, Task
<1> QED
  BY <1>1 DEF Worker

LEMMA GoOnMoves ==
    ASSUME w \in Worker, NEW t \in Tasks, NEW step \in TaskSteps, GoOn(t, step)
    PROVE  /\ w' \in Worker
           /\ w'.pc = w.pc /\ w'.ns = w.ns /\ w'.uid = w.uid /\ w'.spec = w.spec
           /\ w'.task[t].step = step /\ w'.task[t].copy = w.task[t].copy
           /\ \A u \in Tasks \ {t} : w'.task[u] = w.task[u]
<1> DEFINE r == [w.task[t] EXCEPT !.step = step]
<1>1. r \in Task /\ r.step = step /\ r.copy = w.task[t].copy
  BY DEF Worker, Task, TaskSteps
<1>2. w' = [w EXCEPT !.task[t] = r]
  BY DEF GoOn
<1> HIDE DEF r
<1> QED
  BY <1>1, <1>2, TaskMoves

LEMMA OutdatedMoves ==
    ASSUME w \in Worker, NEW t \in Tasks, Outdated(t)
    PROVE  /\ w' \in Worker
           /\ w'.pc = w.pc /\ w'.ns = w.ns /\ w'.uid = w.uid /\ w'.spec = w.spec
           /\ w'.task[t].copy = w.task[t].copy /\ ~w'.task[t].current
           /\ w'.task[t].step = w.task[t].step
           /\ \A u \in Tasks \ {t} : w'.task[u] = w.task[u]
<1> DEFINE r == [w.task[t] EXCEPT !.current = FALSE]
<1>1. r \in Task /\ ~r.current /\ r.copy = w.task[t].copy /\ r.step = w.task[t].step
  BY DEF Worker, Task
<1>2. w' = [w EXCEPT !.task[t] = r]
  BY DEF Outdated
<1> HIDE DEF r
<1> QED
  BY <1>1, <1>2, TaskMoves

LEMMA ReadMoves ==
    ASSUME w \in Worker, NEW t \in Tasks,
           NEW v \in Option(CsiDriverObj \cup OwnedObj \cup CsiConfigObj), NEW cur \in BOOLEAN,
           w' = [w EXCEPT !.task[t] = [step |-> "write", copy |-> v, current |-> cur]]
    PROVE  /\ w' \in Worker
           /\ w'.pc = w.pc /\ w'.ns = w.ns /\ w'.uid = w.uid /\ w'.spec = w.spec
           /\ w'.task[t].copy = v /\ w'.task[t].current = cur
           /\ \A u \in Tasks \ {t} : w'.task[u] = w.task[u]
<1> DEFINE r == [step |-> "write", copy |-> v, current |-> cur]
<1>1. r \in Task /\ r.current = cur /\ r.copy = v
  BY DEF Task, TaskSteps
<1> HIDE DEF r
<1>2. w' = [w EXCEPT !.task[t] = r]
  BY DEF r
<1> QED
  BY <1>1, <1>2, TaskMoves

\* Whatever a goroutine does, its copy is of its kind.
LEMMA LoadedKept ==
    ASSUME TypeInv, NEW t \in Tasks,
           w'.pc = w.pc, w'.ns = w.ns, w'.uid = w.uid,
           w'.task[t].copy = w.task[t].copy \/ (t \in Owned /\ w'.task[t].copy \in Option(OwnedObj))
             \/ (t = "csiDriver" /\ w'.task[t].copy \in Option(CsiDriverObj))
             \/ (t = "csiConfig" /\ w'.task[t].copy \in Option(CsiConfigObj)),
           \A u \in Tasks \ {t} : w'.task[u] = w.task[u]
    PROVE  Loaded'
<1>1. \A o \in Owned : w'.task[o].copy \in Option(OwnedObj)
  BY OwnedAssumption DEF TypeInv, Loaded, Tasks
<1>2. w'.task["csiDriver"].copy \in Option(CsiDriverObj)
  BY OwnedAssumption DEF TypeInv, Loaded, Tasks
<1>3. w'.task["csiConfig"].copy \in Option(CsiConfigObj)
  BY OwnedAssumption DEF TypeInv, Loaded, Tasks
<1> QED
  BY <1>1, <1>2, <1>3 DEF TypeInv, Loaded

\* An idle worker has read nothing.
LEMMA IdleFacts ==
    /\ IdleWorker \in Worker
    /\ IdleWorker.pc = "idle"
    /\ \A t \in Tasks : IdleWorker.task[t].copy = NoObj /\ IdleWorker.task[t].step = "get"
<1>1. NewTask \in Task
  BY DEF NewTask, Task, TaskSteps, Option
<1>2. [t \in Tasks |-> NewTask] \in [Tasks -> Task]
  BY <1>1
<1>3. BuiltIn \in Effective
  BY DEF BuiltIn, Effective
<1>4. NoObj \in Option(Namespaces) /\ NoObj \in Option(Specs)
  BY DEF Option
<1>5. IdleWorker \in Worker
  BY <1>2, <1>3, <1>4 DEF IdleWorker, Worker
<1> QED
  BY <1>5 DEF IdleWorker, NewTask

LEMMA IdleLoaded == ASSUME w' = IdleWorker PROVE Loaded'
<1>1. NoObj \in Option(OwnedObj) /\ NoObj \in Option(CsiDriverObj) /\ NoObj \in Option(CsiConfigObj)
  BY DEF Option
<1> QED
  BY <1>1, IdleFacts DEF Loaded, Tasks

LEMMA ResolveType ==
    ASSUME NEW s \in Specs, NEW d \in Option(Specs)
    PROVE  Resolve(Merge(s, d)) \in Effective
BY SpecsAssumption DEF Resolve, Merge, BuiltIn, Effective, Option, Fields

-----------------------------------------------------------------------------

LEMMA TypeInit == Init => TypeInv
<1> SUFFICES ASSUME Init PROVE TypeInv
  OBVIOUS
<1>1. \A S : <<NoObj>> \in Versions(S)
  BY DEF Versions, Option
<1>2. left \in [ops: Nat, faults: Nat, lag: Lags]
  BY BoundsAssumption DEF Init
<1>3. w = IdleWorker
  BY DEF Init
<1>4. Loaded
  <2>1. NoObj \in Option(OwnedObj) /\ NoObj \in Option(CsiDriverObj) /\ NoObj \in Option(CsiConfigObj)
    BY DEF Option
  <2> QED
    BY <1>3, <2>1, IdleFacts DEF Loaded, Tasks
<1> QED
  BY <1>1, <1>2, <1>3, <1>4, IdleFacts DEF Init, TypeInv, TypeOK

\* A fault or an operation takes from what is left of the bounds.
LEMMA LeftType ==
    ASSUME TypeOK
    PROVE  /\ Operation => left' \in [ops: Nat, faults: Nat, lag: Lags]
           /\ \A cur : Refused(cur) => left' \in [ops: Nat, faults: Nat, lag: Lags]
           /\ \A cur : Accepted(cur) => left' = left
           /\ (left.faults > 0 /\ left' = [left EXCEPT !.faults = @ - 1])
                 => left' \in [ops: Nat, faults: Nat, lag: Lags]
<1> DEFINE L == [ops: Nat, faults: Nat, lag: Lags]
<1>1. left \in L
  BY DEF TypeOK
<1>2. left.ops > 0 => [left EXCEPT !.ops = @ - 1] \in L
  BY <1>1
<1>3. left.faults > 0 => [left EXCEPT !.faults = @ - 1] \in L
  BY <1>1
<1> HIDE DEF L
<1> QED
  <2>1. Operation => left' \in L
    BY <1>2 DEF Operation
  <2>2. \A cur : Refused(cur) => left' \in L
    BY <1>1, <1>3 DEF Refused
  <2>3. \A cur : Accepted(cur) => left' = left
    BY DEF Accepted
  <2> QED
    BY <1>3, <2>1, <2>2, <2>3 DEF L

LEMMA TypeStart ==
    ASSUME TypeInv, NEW n \in Namespaces, StartReconcile(n)
    PROVE  TypeInv'
<1>1. w' = [IdleWorker EXCEPT !.pc = "claim", !.ns = n] /\ queue' = queue \ {n}
  BY DEF StartReconcile
<1>2. n \in Option(Namespaces)
  BY DEF Option
<1>3. /\ w' \in Worker
      /\ w'.pc = "claim" /\ w'.ns = n /\ w'.task = IdleWorker.task
  BY <1>1, <1>2, IdleFacts DEF Worker
<1>4. Loaded'
  <2>1. NoObj \in Option(OwnedObj) /\ NoObj \in Option(CsiDriverObj) /\ NoObj \in Option(CsiConfigObj)
    BY DEF Option
  <2> QED
    BY <1>3, <2>1, IdleFacts DEF Loaded, Tasks
<1> QED
  BY <1>1, <1>3, <1>4 DEF StartReconcile, TypeInv, TypeOK, cluster

LEMMA TypeAbandon ==
    ASSUME TypeInv, w.ns \in Namespaces, Abandon
    PROVE  w' \in Worker /\ Loaded' /\ queue' \in SUBSET Namespaces
<1>1. w' = IdleWorker /\ queue' = queue \cup {w.ns}
  BY DEF Abandon
<1> QED
  BY <1>1, IdleFacts, IdleLoaded DEF TypeInv, TypeOK

LEMMA TypeLoad ==
    ASSUME TypeInv, CheckClaim \/ LoadOperatorConfig \/ LoadDriver
    PROVE  TypeInv'
<1>1. CASE CheckClaim
  <2>1. w.ns \in Namespaces
    BY <1>1 DEF CheckClaim, TypeInv, Loaded
  <2>2. CASE Abandon
    BY <1>1, <2>1, <2>2, TypeAbandon DEF CheckClaim, TypeInv, TypeOK, cluster
  <2>3. CASE w' = [w EXCEPT !.pc = "opConfig"] /\ UNCHANGED queue
    <3>1. /\ w' \in Worker
          /\ w'.pc = "opConfig" /\ w'.ns = w.ns /\ w'.uid = w.uid /\ w'.task = w.task
      BY <2>3 DEF TypeInv, TypeOK, Worker
    <3>2. Loaded'
      BY <2>1, <3>1 DEF TypeInv, Loaded
    <3> QED
      BY <1>1, <2>3, <3>1, <3>2 DEF CheckClaim, TypeInv, TypeOK, cluster
  <2> QED
    BY <1>1, <2>2, <2>3 DEF CheckClaim
<1>2. CASE LoadOperatorConfig
  <2>1. w.ns \in Namespaces
    BY <1>2 DEF LoadOperatorConfig, TypeInv, Loaded
  <2>2. Cached(opConfig) \in Option(Specs)
    BY ReadTypes DEF TypeInv
  <2>3. /\ w' \in Worker
        /\ w'.pc = "driver" /\ w'.ns = w.ns /\ w'.uid = w.uid /\ w'.task = w.task
    BY <1>2, <2>2 DEF LoadOperatorConfig, TypeInv, TypeOK, Worker
  <2>4. Loaded'
    BY <2>1, <2>3 DEF TypeInv, Loaded
  <2> QED
    BY <1>2, <2>3, <2>4 DEF LoadOperatorConfig, TypeInv, TypeOK, cluster
<1>3. CASE LoadDriver
  <2>1. w.ns \in Namespaces
    BY <1>3 DEF LoadDriver, TypeInv, Loaded
  <2>2. CASE Abandon
    BY <1>3, <2>1, <2>2, TypeAbandon DEF LoadDriver, TypeInv, TypeOK, cluster
  <2>3. ASSUME NEW v, v = Cached(driver[w.ns]), v # NoObj,
               w' = [w EXCEPT !.pc = "run", !.uid = v.uid, !.spec = Resolve(Merge(v.spec, w.defaults))],
               UNCHANGED queue
        PROVE  TypeInv'
    <3>1. v \in DriverObj
      BY <2>1, <2>3, ReadTypes DEF TypeInv, Option
    <3>2. v.uid \in Nat \ {0} /\ v.spec \in Specs
      BY <3>1 DEF DriverObj
    <3>3. w.defaults \in Option(Specs)
      BY DEF TypeInv, TypeOK, Worker
    <3>4. PICK e \in Effective : e = Resolve(Merge(v.spec, w.defaults))
      BY <3>2, <3>3, ResolveType
    <3>5. PICK u \in Nat \ {0} : u = v.uid
      BY <3>2
    <3>6. w' = [w EXCEPT !.pc = "run", !.uid = u, !.spec = e]
      BY <2>3, <3>4, <3>5
    <3>7. /\ w' \in Worker
          /\ w'.pc = "run" /\ w'.ns = w.ns /\ w'.uid = u /\ w'.task = w.task
      BY <3>6 DEF TypeInv, TypeOK, Worker
    <3>8. Loaded'
      BY <2>1, <3>7 DEF TypeInv, Loaded
    <3> QED
      BY <1>3, <2>3, <3>7, <3>8 DEF LoadDriver, TypeInv, TypeOK, cluster
  <2> QED
    BY <1>3, <2>2, <2>3 DEF LoadDriver
<1> QED
  BY <1>1, <1>2, <1>3

\* What a goroutine of the iteration knows.
LEMMA RunFacts ==
    ASSUME TypeInv, NEW t \in Tasks, NEW step, At(t, step)
    PROVE  /\ w \in Worker /\ w.pc = "run" /\ w.ns \in Namespaces
           /\ w.uid \in Nat \ {0} /\ w.spec \in Effective
           /\ w.task[t].step = step /\ w.task[t].current \in BOOLEAN
BY DEF At, TypeInv, TypeOK, Loaded, Worker, Task

\* A goroutine returns without having stored anything.
LEMMA TypeReturn ==
    ASSUME TypeInv, NEW t \in Tasks, NEW failed \in BOOLEAN, Return(t, failed),
           queue' \in SUBSET Namespaces
    PROVE  w' \in Worker /\ Loaded' /\ queue' \in SUBSET Namespaces
<1>1. w \in Worker
  BY DEF TypeInv, TypeOK
<1> QED
  BY <1>1, ReturnMoves, LoadedKept

LEMMA TypeDeleteUnwanted ==
    ASSUME TypeInv, NEW o \in Owned, DeleteUnwanted(o)
    PROVE  TypeInv'
<1>0. TypeOK /\ o \in Tasks /\ w.ns \in Namespaces
  BY RunFacts DEF TypeInv, DeleteUnwanted, Tasks
<1>1. owned' \in [Namespaces -> [Owned -> Versions(OwnedObj)]] /\ queue' \in SUBSET Namespaces
  <2>1. NoObj \in Option(OwnedObj)
    BY DEF Option
  <2>2. CASE PutOwned(w.ns, o, NoObj)
    BY <1>0, <2>1, <2>2, PutOwnedFacts
  <2>3. CASE UNCHANGED <<owned, queue>>
    BY <1>0, <2>3 DEF TypeOK
  <2> QED
    BY <2>2, <2>3 DEF DeleteUnwanted
<1>2. left' \in [ops: Nat, faults: Nat, lag: Lags]
  BY <1>0, LeftType DEF DeleteUnwanted, TypeOK
<1>3. \E b \in BOOLEAN : Return(o, b)
  BY DEF DeleteUnwanted
<1>4. w' \in Worker /\ Loaded'
  BY <1>0, <1>1, <1>3, TypeReturn
<1> QED
  BY <1>1, <1>2, <1>4 DEF DeleteUnwanted, TypeInv, TypeOK

LEMMA TypeReadOwned ==
    ASSUME TypeInv, NEW o \in Owned, ReadOwned(o)
    PROVE  TypeInv'
<1>0. TypeOK /\ o \in Tasks /\ w.ns \in Namespaces /\ w \in Worker
  BY RunFacts DEF TypeInv, ReadOwned, Tasks
<1>1. Cached(owned[w.ns][o]) \in Option(OwnedObj)
  BY <1>0, ReadTypes
<1>2. Cached(owned[w.ns][o]) \in Option(CsiDriverObj \cup OwnedObj \cup CsiConfigObj)
  BY <1>1 DEF Option
<1>3. InSync(owned[w.ns][o]) \in BOOLEAN
  BY DEF InSync
<1>4. w' = [w EXCEPT !.task[o] = [step |-> "write", copy |-> Cached(owned[w.ns][o]),
                                   current |-> InSync(owned[w.ns][o])]]
  BY DEF ReadOwned
<1>5. /\ w' \in Worker
      /\ w'.pc = w.pc /\ w'.ns = w.ns /\ w'.uid = w.uid
      /\ w'.task[o].copy = Cached(owned[w.ns][o])
      /\ \A u \in Tasks \ {o} : w'.task[u] = w.task[u]
  BY <1>0, <1>2, <1>3, <1>4, ReadMoves
<1>6. Loaded'
  BY <1>0, <1>1, <1>5, LoadedKept
<1> QED
  BY <1>5, <1>6 DEF ReadOwned, TypeInv, TypeOK, cluster

LEMMA TypeWriteOwned ==
    ASSUME TypeInv, NEW o \in Owned, WriteOwned(o)
    PROVE  TypeInv'
<1> DEFINE v == [uid |-> w.uid, spec |-> w.spec]
<1>0. TypeOK /\ o \in Tasks /\ w.ns \in Namespaces /\ v \in Option(OwnedObj)
  BY RunFacts DEF TypeInv, WriteOwned, Tasks, OwnedObj, Option
<1>1. owned' \in [Namespaces -> [Owned -> Versions(OwnedObj)]] /\ queue' \in SUBSET Namespaces
  <2>1. CASE PutOwned(w.ns, o, v)
    BY <1>0, <2>1, PutOwnedFacts
  <2>2. CASE UNCHANGED <<owned, queue>>
    BY <1>0, <2>2 DEF TypeOK
  <2> QED
    BY <2>1, <2>2 DEF WriteOwned, SetControllerReference
<1>2. left' \in [ops: Nat, faults: Nat, lag: Lags]
  BY <1>0, LeftType DEF WriteOwned, TypeOK
<1>3. \E b \in BOOLEAN : Return(o, b)
  BY DEF WriteOwned
<1>4. w' \in Worker /\ Loaded'
  BY <1>0, <1>1, <1>3, TypeReturn
<1> QED
  BY <1>1, <1>2, <1>4 DEF WriteOwned, TypeInv, TypeOK

LEMMA TypeReadCsiDriver == ASSUME TypeInv, ReadCsiDriver PROVE TypeInv'
<1>0. TypeOK /\ "csiDriver" \in Tasks /\ w \in Worker
  BY DEF TypeInv, TypeOK, Tasks
<1>1. Cached(csiDriver) \in Option(CsiDriverObj)
  BY <1>0, ReadTypes
<1>2. Cached(csiDriver) \in Option(CsiDriverObj \cup OwnedObj \cup CsiConfigObj)
  BY <1>1 DEF Option
<1>3. InSync(csiDriver) \in BOOLEAN
  BY DEF InSync
<1>4. w' = [w EXCEPT !.task["csiDriver"] = [step |-> "write", copy |-> Cached(csiDriver),
                                             current |-> InSync(csiDriver)]]
  BY DEF ReadCsiDriver
<1>5. /\ w' \in Worker
      /\ w'.pc = w.pc /\ w'.ns = w.ns /\ w'.uid = w.uid
      /\ w'.task["csiDriver"].copy = Cached(csiDriver)
      /\ \A u \in Tasks \ {"csiDriver"} : w'.task[u] = w.task[u]
  BY <1>0, <1>2, <1>3, <1>4, ReadMoves
<1>6. Loaded'
  BY <1>0, <1>1, <1>5, LoadedKept
<1> QED
  BY <1>5, <1>6 DEF ReadCsiDriver, TypeInv, TypeOK, cluster

LEMMA ClaimType ==
    ASSUME TypeInv, NEW step, At("csiDriver", step)
    PROVE  Claim \in Option(CsiDriverObj)
<1>1. w.ns \in Namespaces /\ w.spec \in Effective
  BY RunFacts DEF Tasks
<1>2. w.spec["attach"] \in BOOLEAN
  BY <1>1 DEF Effective, Fields
<1> QED
  BY <1>1, <1>2 DEF Claim, CsiDriverObj, Option

LEMMA TypeChangeCsiDriver ==
    ASSUME TypeInv, WriteCsiDriver \/ DeleteCsiDriver \/ CreateCsiDriver
    PROVE  TypeInv'
<1>0. TypeOK /\ "csiDriver" \in Tasks /\ w \in Worker
  BY DEF TypeInv, TypeOK, Tasks
<1>1. Claim \in Option(CsiDriverObj) /\ NoObj \in Option(CsiDriverObj)
  BY ClaimType DEF WriteCsiDriver, DeleteCsiDriver, CreateCsiDriver, Option
<1>2. csiDriver' \in Versions(CsiDriverObj) /\ queue' \in SUBSET Namespaces
  <2>1. CASE PutCsiDriver(Claim)
    BY <1>0, <1>1, <2>1, PutCsiDriverFacts
  <2>2. CASE PutCsiDriver(NoObj)
    BY <1>0, <1>1, <2>2, PutCsiDriverFacts
  <2>3. CASE UNCHANGED <<csiDriver, queue>>
    BY <1>0, <2>3 DEF TypeOK
  <2> QED
    BY <2>1, <2>2, <2>3 DEF WriteCsiDriver, DeleteCsiDriver, CreateCsiDriver
<1>3. left' \in [ops: Nat, faults: Nat, lag: Lags]
  BY <1>0, LeftType DEF WriteCsiDriver, DeleteCsiDriver, CreateCsiDriver, TypeOK
<1>4. w' \in Worker /\ Loaded'
  <2>1. CASE \E b \in BOOLEAN : Return("csiDriver", b)
    BY <1>0, <1>2, <2>1, TypeReturn
  <2>2. CASE \E step \in TaskSteps : GoOn("csiDriver", step)
    BY <1>0, <2>2, GoOnMoves, LoadedKept
  <2> QED
    BY <2>1, <2>2 DEF WriteCsiDriver, DeleteCsiDriver, CreateCsiDriver, TaskSteps
<1> QED
  BY <1>2, <1>3, <1>4 DEF WriteCsiDriver, DeleteCsiDriver, CreateCsiDriver, TypeInv, TypeOK

LEMMA TypeReadCsiConfig == ASSUME TypeInv, ReadCsiConfig PROVE TypeInv'
<1>0. TypeOK /\ "csiConfig" \in Tasks /\ w \in Worker /\ w.ns \in Namespaces
  BY RunFacts DEF TypeInv, TypeOK, Tasks, ReadCsiConfig
<1>1. Cached(csiConfig[w.ns]) \in Option(CsiConfigObj)
  BY <1>0, ReadTypes
<1>2. Cached(csiConfig[w.ns]) \in Option(CsiDriverObj \cup OwnedObj \cup CsiConfigObj)
  BY <1>1 DEF Option
<1>3. InSync(csiConfig[w.ns]) \in BOOLEAN
  BY DEF InSync
<1>4. w' = [w EXCEPT !.task["csiConfig"] = [step |-> "write", copy |-> Cached(csiConfig[w.ns]),
                                             current |-> InSync(csiConfig[w.ns])]]
  BY DEF ReadCsiConfig
<1>5. /\ w' \in Worker
      /\ w'.pc = w.pc /\ w'.ns = w.ns /\ w'.uid = w.uid
      /\ w'.task["csiConfig"].copy = Cached(csiConfig[w.ns])
      /\ \A u \in Tasks \ {"csiConfig"} : w'.task[u] = w.task[u]
  BY <1>0, <1>2, <1>3, <1>4, ReadMoves
<1>6. Loaded'
  BY <1>0, <1>1, <1>5, LoadedKept
<1> QED
  BY <1>5, <1>6 DEF ReadCsiConfig, TypeInv, TypeOK, cluster

\* The mutated copy is the copy, or a new ConfigMap, with the Driver's reference.
MutatedConfig == [(IF w.task["csiConfig"].copy = NoObj THEN NewCsiConfig ELSE w.task["csiConfig"].copy)
                    EXCEPT !.owners = AddOwner(@)]

LEMMA MutatedConfigType ==
    ASSUME TypeInv, At("csiConfig", "write")
    PROVE  /\ MutatedConfig \in CsiConfigObj
           /\ MutatedConfig.owners = {w.uid}
           /\ MutatedConfig.foreign = IF w.task["csiConfig"].copy = NoObj THEN 0
                                      ELSE w.task["csiConfig"].copy.foreign
<1>1. w.uid \in Nat \ {0}
  BY RunFacts DEF Tasks
<1>2. w.task["csiConfig"].copy \in Option(CsiConfigObj)
  BY DEF TypeInv, Loaded
<1> QED
  BY <1>1, <1>2 DEF MutatedConfig, AddOwner, NewCsiConfig, CsiConfigObj, Option

LEMMA TypeWriteCsiConfig == ASSUME TypeInv, WriteCsiConfig PROVE TypeInv'
<1>0. TypeOK /\ "csiConfig" \in Tasks /\ w \in Worker /\ w.ns \in Namespaces
  BY RunFacts DEF TypeInv, TypeOK, Tasks, WriteCsiConfig
<1>1. MutatedConfig \in Option(CsiConfigObj)
  BY MutatedConfigType DEF WriteCsiConfig, Option
<1>2. csiConfig' \in [Namespaces -> Versions(CsiConfigObj)] /\ queue' \in SUBSET Namespaces
  <2>1. CASE PutCsiConfig(w.ns, MutatedConfig)
    BY <1>0, <1>1, <2>1, PutCsiConfigFacts
  <2>2. CASE UNCHANGED <<csiConfig, queue>>
    BY <1>0, <2>2 DEF TypeOK
  <2> QED
    BY <2>1, <2>2 DEF WriteCsiConfig, MutatedConfig
<1>3. left' \in [ops: Nat, faults: Nat, lag: Lags]
  BY <1>0, LeftType DEF WriteCsiConfig, TypeOK
<1>4. \E b \in BOOLEAN : Return("csiConfig", b)
  BY DEF WriteCsiConfig
<1>5. w' \in Worker /\ Loaded'
  BY <1>0, <1>2, <1>4, TypeReturn
<1> QED
  BY <1>2, <1>3, <1>5 DEF WriteCsiConfig, TypeInv, TypeOK

LEMMA TypeFinish == ASSUME TypeInv, FinishReconcile PROVE TypeInv'
<1>1. w' = IdleWorker /\ w.ns \in Namespaces
  BY DEF FinishReconcile, TypeInv, Loaded
<1>2. w' \in Worker /\ Loaded'
  BY <1>1, IdleFacts, IdleLoaded
<1> QED
  BY <1>1, <1>2 DEF FinishReconcile, TypeInv, TypeOK, cluster

\* Delivering an event changes no stored object.
LEMMA TypeWatch ==
    ASSUME TypeInv, Watch
    PROVE  /\ TypeInv' /\ w' = w
           /\ \A n \in Namespaces : /\ Stored(csiConfig'[n]) = Stored(csiConfig[n])
                                    /\ Stored(driver'[n]) = Stored(driver[n])
           /\ \A n \in Namespaces, o \in Owned : Stored(owned'[n][o]) = Stored(owned[n][o])
<1>0. TypeOK /\ Loaded
  BY DEF TypeInv
<1>1. ASSUME NEW n \in Namespaces, DeliverDriver(n)
      PROVE  /\ driver' \in [Namespaces -> Versions(DriverObj)]
             /\ \A m \in Namespaces : Stored(driver'[m]) = Stored(driver[m])
  <2>1. driver[n] \in Seq(Option(DriverObj)) \ {<<>>} /\ ~InSync(driver[n])
    BY <1>0, <1>1 DEF TypeOK, Versions, DeliverDriver
  <2>2. Tail(driver[n]) \in Versions(DriverObj) /\ Stored(Tail(driver[n])) = Stored(driver[n])
    BY <2>1, TailLog DEF Versions
  <2>3. driver' = [driver EXCEPT ![n] = Tail(@)]
    BY <1>1 DEF DeliverDriver
  <2> QED
    BY <1>0, <2>2, <2>3 DEF TypeOK
<1>2. ASSUME NEW n \in Namespaces, DeliverCsiConfig(n)
      PROVE  /\ csiConfig' \in [Namespaces -> Versions(CsiConfigObj)]
             /\ \A m \in Namespaces : Stored(csiConfig'[m]) = Stored(csiConfig[m])
             /\ queue' \in SUBSET Namespaces
  <2>1. csiConfig[n] \in Seq(Option(CsiConfigObj)) \ {<<>>} /\ ~InSync(csiConfig[n])
    BY <1>0, <1>2 DEF TypeOK, Versions, DeliverCsiConfig
  <2>2. Tail(csiConfig[n]) \in Versions(CsiConfigObj) /\ Stored(Tail(csiConfig[n])) = Stored(csiConfig[n])
    BY <2>1, TailLog DEF Versions
  <2>3. csiConfig' = [csiConfig EXCEPT ![n] = Tail(@)]
    BY <1>2 DEF DeliverCsiConfig
  <2>4. queue' \in SUBSET Namespaces
    BY <1>0, <1>2, RequestsType DEF TypeOK, DeliverCsiConfig
  <2> QED
    BY <1>0, <2>2, <2>3, <2>4 DEF TypeOK
<1>3. ASSUME NEW n \in Namespaces, NEW o \in Owned, DeliverOwned(n, o)
      PROVE  /\ owned' \in [Namespaces -> [Owned -> Versions(OwnedObj)]]
             /\ \A m \in Namespaces, x \in Owned : Stored(owned'[m][x]) = Stored(owned[m][x])
  <2>1. owned[n][o] \in Seq(Option(OwnedObj)) \ {<<>>} /\ ~InSync(owned[n][o])
    BY <1>0, <1>3 DEF TypeOK, Versions, DeliverOwned
  <2>2. Tail(owned[n][o]) \in Versions(OwnedObj) /\ Stored(Tail(owned[n][o])) = Stored(owned[n][o])
    BY <2>1, TailLog DEF Versions
  <2>3. owned' = [owned EXCEPT ![n][o] = Tail(@)]
    BY <1>3 DEF DeliverOwned
  <2> QED
    BY <1>0, <2>2, <2>3 DEF TypeOK
<1>4. ASSUME DeliverOpConfig
      PROVE  opConfig' \in Versions(Specs) /\ queue' \in SUBSET Namespaces
  <2>1. opConfig \in Seq(Option(Specs)) \ {<<>>} /\ ~InSync(opConfig)
    BY <1>0, <1>4 DEF TypeOK, Versions, DeliverOpConfig
  <2>2. Tail(opConfig) \in Versions(Specs)
    BY <2>1, TailLog DEF Versions
  <2> QED
    BY <1>0, <1>4, <2>2, RequestsType DEF TypeOK, DeliverOpConfig
<1>5. ASSUME DeliverCsiDriver
      PROVE  csiDriver' \in Versions(CsiDriverObj) /\ queue' \in SUBSET Namespaces
  <2>1. csiDriver \in Seq(Option(CsiDriverObj)) \ {<<>>} /\ ~InSync(csiDriver)
    BY <1>0, <1>5 DEF TypeOK, Versions, DeliverCsiDriver
  <2>2. /\ Tail(csiDriver) \in Versions(CsiDriverObj)
        /\ csiDriver[1] \in Option(CsiDriverObj) /\ csiDriver[2] \in Option(CsiDriverObj)
    BY <2>1, TailLog DEF Versions
  <2> QED
    BY <1>0, <1>5, <2>2, RequestsType DEF TypeOK, DeliverCsiDriver
<1>6. w' = w /\ Loaded'
  BY <1>0 DEF Watch, DeliverDriver, DeliverCsiConfig, DeliverOwned, DeliverOpConfig, DeliverCsiDriver, Loaded
<1>7. CASE \E n \in Namespaces : DeliverDriver(n)
  BY <1>0, <1>1, <1>6, <1>7 DEF DeliverDriver, TypeInv, TypeOK
<1>8. CASE \E n \in Namespaces : DeliverCsiConfig(n)
  BY <1>0, <1>2, <1>6, <1>8 DEF DeliverCsiConfig, TypeInv, TypeOK
<1>9. CASE \E n \in Namespaces, o \in Owned : DeliverOwned(n, o)
  BY <1>0, <1>3, <1>6, <1>9 DEF DeliverOwned, TypeInv, TypeOK
<1>10. CASE DeliverOpConfig
  BY <1>0, <1>4, <1>6, <1>10 DEF DeliverOpConfig, TypeInv, TypeOK
<1>11. CASE DeliverCsiDriver
  BY <1>0, <1>5, <1>6, <1>11 DEF DeliverCsiDriver, TypeInv, TypeOK
<1> QED
  BY <1>7, <1>8, <1>9, <1>10, <1>11 DEF Watch

\* Someone else's write outdates the copy of the goroutine concerned, if there is one.
LEMMA OutdatedFacts ==
    ASSUME TypeInv, NEW n \in Namespaces, NEW t \in Tasks,
           IF w.ns = n THEN Outdated(t) ELSE UNCHANGED w
    PROVE  /\ w' \in Worker /\ Loaded'
           /\ w'.pc = w.pc /\ w'.ns = w.ns
           /\ w.ns = n => ~w'.task[t].current
           /\ w.ns # n => w'.task[t] = w.task[t]
           /\ w'.task[t].step = w.task[t].step
           /\ \A u \in Tasks \ {t} : w'.task[u] = w.task[u]
<1>1. w \in Worker
  BY DEF TypeInv, TypeOK
<1>2. CASE w.ns = n
  BY <1>1, <1>2, OutdatedMoves, LoadedKept
<1>3. CASE w.ns # n
  <2>1. w' = w
    BY <1>3
  <2>2. Loaded'
    BY <2>1 DEF TypeInv, Loaded
  <2> QED
    BY <1>1, <1>3, <2>1, <2>2
<1> QED
  BY <1>2, <1>3

LEMMA TypeApplyDriver ==
    ASSUME TypeInv, NEW n \in Namespaces, NEW s \in Specs, ApplyDriver(n, s)
    PROVE  TypeInv'
<1>0. TypeOK /\ Stored(driver[n]) \in Option(DriverObj) /\ uids[n] \in Nat
  BY ReadTypes DEF TypeInv, TypeOK
<1>1. left' \in [ops: Nat, faults: Nat, lag: Lags]
  BY <1>0, LeftType DEF ApplyDriver
<1>2. CASE Stored(driver[n]) = NoObj
  <2>1. [uid |-> uids[n] + 1, spec |-> s] \in Option(DriverObj)
    BY <1>0 DEF DriverObj, Option
  <2>2. driver' \in [Namespaces -> Versions(DriverObj)] /\ queue' \in SUBSET Namespaces
    BY <1>0, <1>2, <2>1, PutDriverFacts DEF ApplyDriver
  <2>3. uids' \in [Namespaces -> Nat]
    BY <1>0, <1>2 DEF ApplyDriver, TypeOK
  <2> QED
    BY <1>1, <2>2, <2>3 DEF ApplyDriver, TypeInv, TypeOK, Loaded
<1>3. CASE Stored(driver[n]) # NoObj
  <2>1. [Stored(driver[n]) EXCEPT !.spec = s] \in Option(DriverObj)
    BY <1>0, <1>3 DEF DriverObj, Option
  <2>2. driver' \in [Namespaces -> Versions(DriverObj)] /\ queue' \in SUBSET Namespaces
    BY <1>0, <1>3, <2>1, PutDriverFacts DEF ApplyDriver
  <2> QED
    BY <1>1, <1>3, <2>2 DEF ApplyDriver, TypeInv, TypeOK, Loaded
<1> QED
  BY <1>2, <1>3

LEMMA TypeUsers ==
    ASSUME TypeInv,
           \/ \E n \in Namespaces : DeleteDriver(n) \/ Resync(n)
           \/ \E s \in Option(Specs) : ApplyOpConfig(s)
    PROVE  TypeInv'
<1>0. TypeOK /\ NoObj \in Option(DriverObj)
  BY DEF TypeInv, Option
<1>1. left' \in [ops: Nat, faults: Nat, lag: Lags]
  BY <1>0, LeftType DEF DeleteDriver, Resync, ApplyOpConfig
<1>2. ASSUME NEW n \in Namespaces, DeleteDriver(n)
      PROVE  TypeInv'
  BY <1>0, <1>1, <1>2, PutDriverFacts DEF DeleteDriver, TypeInv, TypeOK, Loaded
<1>3. ASSUME NEW n \in Namespaces, Resync(n)
      PROVE  TypeInv'
  BY <1>0, <1>1, <1>3 DEF Resync, cluster, TypeInv, TypeOK, Loaded
<1>4. ASSUME NEW s \in Option(Specs), ApplyOpConfig(s)
      PROVE  TypeInv'
  BY <1>0, <1>1, <1>4, PutOpConfigFacts DEF ApplyOpConfig, TypeInv, TypeOK, Loaded
<1> QED
  BY <1>2, <1>3, <1>4

LEMMA TypeDisturbCsiDriver == ASSUME TypeInv, DisturbCsiDriver PROVE TypeInv'
<1> DEFINE v == IF Stored(csiDriver) = NoObj THEN [owner |-> NoObj, attach |-> TRUE] ELSE NoObj
<1>0. TypeOK /\ w \in Worker /\ "csiDriver" \in Tasks
  BY DEF TypeInv, TypeOK, Tasks
<1>1. v \in Option(CsiDriverObj)
  BY DEF Option, CsiDriverObj
<1>2. PutCsiDriver(v) /\ Outdated("csiDriver") /\ Operation
  BY DEF DisturbCsiDriver
<1> HIDE DEF v
<1>3. csiDriver' \in Versions(CsiDriverObj) /\ queue' \in SUBSET Namespaces
  BY <1>0, <1>1, <1>2, PutCsiDriverFacts
<1>4. w' \in Worker /\ Loaded'
  BY <1>0, <1>2, OutdatedMoves, LoadedKept
<1>5. left' \in [ops: Nat, faults: Nat, lag: Lags]
  BY <1>0, <1>2, LeftType
<1> QED
  BY <1>3, <1>4, <1>5 DEF DisturbCsiDriver, TypeInv, TypeOK

\* What others store in a controlled object: nothing, or the object with another spec.
LEMMA OthersOwnedPut ==
    ASSUME TypeInv, NEW n \in Namespaces, NEW o \in Owned, NEW s \in Option({Resolve(x) : x \in Specs}),
           DisturbOwned(n, o, s) \/ CollectOwned(n, o)
    PROVE  /\ Stored(owned[n][o]) # NoObj
           /\ \E v \in Option(OwnedObj) : /\ PutOwned(n, o, v)
                                          /\ v # NoObj => v.uid = Stored(owned[n][o]).uid
<1>0. Stored(owned[n][o]) \in Option(OwnedObj)
  BY ReadTypes DEF TypeInv
<1>1. Stored(owned[n][o]) # NoObj
  BY DEF DisturbOwned, CollectOwned
<1>2. Stored(owned[n][o]) \in OwnedObj
  BY <1>0, <1>1 DEF Option
<1>3. CASE DisturbOwned(n, o, s)
  <2>1. CASE s = NoObj
    BY <1>1, <1>3, <2>1 DEF DisturbOwned, Option
  <2>2. CASE s # NoObj
    <3>1. PICK x \in Specs : s = Resolve(x)
      BY <2>2 DEF Option
    <3>2. s \in Effective
      BY <3>1, SpecsAssumption DEF Resolve, BuiltIn, Effective, Fields
    <3>3. [Stored(owned[n][o]) EXCEPT !.spec = s] \in OwnedObj
      BY <1>2, <3>2 DEF OwnedObj
    <3>4. [Stored(owned[n][o]) EXCEPT !.spec = s].uid = Stored(owned[n][o]).uid
      BY <1>2 DEF OwnedObj
    <3> QED
      BY <1>1, <1>3, <2>2, <3>3, <3>4 DEF DisturbOwned, Option
  <2> QED
    BY <2>1, <2>2
<1>4. CASE CollectOwned(n, o)
  BY <1>1, <1>4 DEF CollectOwned, Option
<1> QED
  BY <1>3, <1>4

LEMMA TypeOthersOwned ==
    ASSUME TypeInv, NEW n \in Namespaces, NEW o \in Owned, NEW s \in Option({Resolve(x) : x \in Specs}),
           DisturbOwned(n, o, s) \/ CollectOwned(n, o)
    PROVE  /\ TypeInv'
           /\ \A m \in Namespaces, x \in Owned : (m # n \/ x # o) => owned'[m][x] = owned[m][x]
           /\ \A m \in Namespaces : csiConfig'[m] = csiConfig[m]
<1>0. TypeOK /\ o \in Tasks
  BY DEF TypeInv, Tasks
<1>3. PICK v \in Option(OwnedObj) : PutOwned(n, o, v)
  BY OthersOwnedPut
<1>4. /\ owned' \in [Namespaces -> [Owned -> Versions(OwnedObj)]]
      /\ queue' \in SUBSET Namespaces
      /\ \A m \in Namespaces, x \in Owned : (m # n \/ x # o) => owned'[m][x] = owned[m][x]
  BY <1>0, <1>3, PutOwnedFacts
<1>5. w' \in Worker /\ Loaded'
  BY <1>0, OutdatedFacts DEF DisturbOwned, CollectOwned, OwnedOutdated
<1>6. left' \in [ops: Nat, faults: Nat, lag: Lags]
  BY <1>0, LeftType DEF DisturbOwned, CollectOwned, TypeOK
<1>7. UNCHANGED <<driver, opConfig, csiDriver, csiConfig, uids>>
  BY DEF DisturbOwned, CollectOwned
<1>8. TypeInv'
  BY <1>4, <1>5, <1>6, <1>7 DEF TypeInv, TypeOK
<1> QED
  BY <1>4, <1>7, <1>8

\* What others store in ceph-csi-config: another part of theirs, fewer references,
\* or nothing.
OthersConfig(old, v) ==
    \/ v = NoObj
    \/ v \in CsiConfigObj /\ v.owners = IF old = NoObj THEN {} ELSE old.owners
    \/ /\ old # NoObj /\ v \in CsiConfigObj
       /\ v.foreign = old.foreign /\ v.owners \subseteq old.owners

LEMMA OthersConfigPut ==
    ASSUME TypeInv, NEW n \in Namespaces, DisturbCsiConfig(n) \/ CollectCsiConfig(n)
    PROVE  \E v \in Option(CsiConfigObj) : PutCsiConfig(n, v) /\ OthersConfig(Stored(csiConfig[n]), v)
<1> DEFINE old == Stored(csiConfig[n])
<1>0. old \in Option(CsiConfigObj)
  BY ReadTypes DEF TypeInv
<1>1. CASE DisturbCsiConfig(n)
  <2> DEFINE base == IF old = NoObj THEN NewCsiConfig ELSE old
             v1 == [base EXCEPT !.foreign = IF @ = 1 THEN 2 ELSE 1]
  <2>1. base \in CsiConfigObj /\ base.owners = IF old = NoObj THEN {} ELSE old.owners
    BY <1>0 DEF NewCsiConfig, CsiConfigObj, Option
  <2>2. v1 \in CsiConfigObj /\ v1.owners = base.owners
    BY <2>1 DEF CsiConfigObj
  <2>3. PutCsiConfig(n, v1) \/ PutCsiConfig(n, NoObj)
    BY <1>1 DEF DisturbCsiConfig
  <2> HIDE DEF base, v1, old
  <2> QED
    BY <2>1, <2>2, <2>3 DEF Option, OthersConfig, old
<1>2. CASE CollectCsiConfig(n)
  <2> DEFINE gone == {u \in old.owners : Stored(driver[n]) = NoObj \/ Stored(driver[n]).uid # u}
             v1 == [old EXCEPT !.owners = @ \ gone]
  <2>1. old # NoObj /\ (PutCsiConfig(n, v1) \/ PutCsiConfig(n, NoObj))
    BY <1>2 DEF CollectCsiConfig
  <2>2. old \in CsiConfigObj
    BY <1>0, <2>1 DEF Option
  <2> HIDE DEF gone
  <2>3. v1 \in CsiConfigObj /\ v1.foreign = old.foreign /\ v1.owners \subseteq old.owners
    BY <2>2 DEF CsiConfigObj
  <2> HIDE DEF v1, old
  <2> QED
    BY <2>1, <2>3 DEF Option, OthersConfig, old
<1> QED
  BY <1>1, <1>2

LEMMA TypeOthersCsiConfig ==
    ASSUME TypeInv, NEW n \in Namespaces, DisturbCsiConfig(n) \/ CollectCsiConfig(n)
    PROVE  /\ TypeInv'
           /\ \/ Stored(csiConfig'[n]) = NoObj
              \/ /\ Stored(csiConfig'[n]) \in CsiConfigObj
                 /\ Stored(csiConfig'[n]).owners = IF Stored(csiConfig[n]) = NoObj THEN {}
                                                   ELSE Stored(csiConfig[n]).owners
              \/ /\ Stored(csiConfig[n]) # NoObj
                 /\ Stored(csiConfig'[n]) \in CsiConfigObj
                 /\ Stored(csiConfig'[n]).foreign = Stored(csiConfig[n]).foreign
                 /\ Stored(csiConfig'[n]).owners \subseteq Stored(csiConfig[n]).owners
           /\ \A m \in Namespaces \ {n} : csiConfig'[m] = csiConfig[m]
           /\ \A m \in Namespaces, o \in Owned : owned'[m][o] = owned[m][o]
<1> DEFINE old == Stored(csiConfig[n])
<1>0. TypeOK /\ "csiConfig" \in Tasks /\ old \in Option(CsiConfigObj)
  BY ReadTypes DEF TypeInv, Tasks
<1>1. PICK v \in Option(CsiConfigObj) : PutCsiConfig(n, v) /\ OthersConfig(old, v)
  BY OthersConfigPut
<1> HIDE DEF old
<1>2. /\ csiConfig' \in [Namespaces -> Versions(CsiConfigObj)]
      /\ queue' \in SUBSET Namespaces
      /\ Stored(csiConfig'[n]) = v
      /\ \A m \in Namespaces \ {n} : csiConfig'[m] = csiConfig[m]
  BY <1>0, <1>1, PutCsiConfigFacts
<1>3. w' \in Worker /\ Loaded'
  BY <1>0, OutdatedFacts DEF DisturbCsiConfig, CollectCsiConfig, CsiConfigOutdated
<1>4. left' \in [ops: Nat, faults: Nat, lag: Lags]
  BY <1>0, LeftType DEF DisturbCsiConfig, CollectCsiConfig, TypeOK
<1>5. UNCHANGED <<driver, opConfig, csiDriver, owned, uids>>
  BY DEF DisturbCsiConfig, CollectCsiConfig
<1>6. TypeInv'
  BY <1>2, <1>3, <1>4, <1>5 DEF TypeInv, TypeOK
<1> QED
  BY <1>1, <1>2, <1>5, <1>6 DEF old, OthersConfig

\* Listing anew changes no stored object.
LEMMA TypeRestart ==
    ASSUME TypeInv, Restart
    PROVE  /\ TypeInv'
           /\ \A n \in Namespaces : Stored(csiConfig'[n]) = Stored(csiConfig[n])
           /\ \A n \in Namespaces, o \in Owned : Stored(owned'[n][o]) = Stored(owned[n][o])
<1>0. TypeOK
  BY DEF TypeInv
<1>1. \A S : \A log \in Versions(S) : Relist(log) \in Versions(S) /\ Stored(Relist(log)) = Stored(log)
  BY LogElements DEF Versions
<1>2. /\ driver' = [n \in Namespaces |-> Relist(driver[n])]
      /\ opConfig' = Relist(opConfig)
      /\ csiDriver' = Relist(csiDriver)
      /\ csiConfig' = [n \in Namespaces |-> Relist(csiConfig[n])]
      /\ owned' = [n \in Namespaces |-> [o \in Owned |-> Relist(owned[n][o])]]
      /\ queue' \in SUBSET Namespaces
      /\ uids' = uids /\ w' = IdleWorker
  BY DEF Restart
<1>3. driver' \in [Namespaces -> Versions(DriverObj)]
  BY <1>0, <1>1, <1>2 DEF TypeOK
<1>4. /\ csiConfig' \in [Namespaces -> Versions(CsiConfigObj)]
      /\ \A n \in Namespaces : Stored(csiConfig'[n]) = Stored(csiConfig[n])
  BY <1>0, <1>1, <1>2 DEF TypeOK
<1>5. /\ owned' \in [Namespaces -> [Owned -> Versions(OwnedObj)]]
      /\ \A n \in Namespaces, o \in Owned : Stored(owned'[n][o]) = Stored(owned[n][o])
  BY <1>0, <1>1, <1>2 DEF TypeOK
<1>6. opConfig' \in Versions(Specs) /\ csiDriver' \in Versions(CsiDriverObj)
  BY <1>0, <1>1, <1>2 DEF TypeOK
<1>7. w' \in Worker /\ Loaded'
  BY <1>2, IdleFacts, IdleLoaded
<1>8. left' \in [ops: Nat, faults: Nat, lag: Lags]
  BY <1>0, LeftType DEF Restart
<1>9. TypeInv'
  BY <1>0, <1>2, <1>3, <1>4, <1>5, <1>6, <1>7, <1>8 DEF TypeInv, TypeOK
<1> QED
  BY <1>4, <1>5, <1>9

LEMMA TypeNext == TypeInv /\ [Next]_vars => TypeInv'
<1> SUFFICES ASSUME TypeInv, [Next]_vars PROVE TypeInv'
  OBVIOUS
<1>1. CASE \E n \in Namespaces : StartReconcile(n)
  BY <1>1, TypeStart
<1>2. CASE ReconcileStep
  BY <1>2, TypeLoad, TypeDeleteUnwanted, TypeReadOwned, TypeWriteOwned, TypeReadCsiDriver,
     TypeChangeCsiDriver, TypeReadCsiConfig, TypeWriteCsiConfig, TypeFinish DEF ReconcileStep
<1>3. CASE Watch
  BY <1>3, TypeWatch
<1>4. CASE Environment
  <2>1. \A n \in Namespaces, o \in Owned : CollectOwned(n, o) => TypeInv'
    <3>1. NoObj \in Option({Resolve(x) : x \in Specs})
      BY DEF Option
    <3> QED
      BY <3>1, TypeOthersOwned
  <2> QED
    BY <1>4, <2>1, TypeApplyDriver, TypeUsers, TypeDisturbCsiDriver, TypeOthersOwned,
       TypeOthersCsiConfig, TypeRestart DEF Environment
<1>5. CASE UNCHANGED vars
  BY <1>5 DEF vars, TypeInv, TypeOK, Loaded
<1> QED
  BY <1>1, <1>2, <1>3, <1>4, <1>5 DEF Next

\* The logs, the queue, the goroutines' copies and the bounds stay well typed in
\* every behaviour of the Driver controller.
THEOREM TypeCorrect == Spec => []TypeOK
<1>1. TypeInv => TypeOK
  BY DEF TypeInv
<1> QED
  BY <1>1, TypeInit, TypeNext, PTL DEF Spec

-----------------------------------------------------------------------------
(* Copies *)

\* A copy that counts as current is the stored version of the object, whoever
\* wrote to the cluster since the goroutine read it.
CopiesCurrent ==
    /\ \A t \in Tasks : w.task[t].step = "write" => w.pc = "run"
    /\ \A o \in Owned : (w.task[o].step = "write" /\ w.task[o].current)
                           => w.task[o].copy = Stored(owned[w.ns][o])
    /\ (w.task["csiConfig"].step = "write" /\ w.task["csiConfig"].current)
          => w.task["csiConfig"].copy = Stored(csiConfig[w.ns])

IInv == TypeInv /\ CopiesCurrent

LEMMA CurrentKept ==
    ASSUME IInv, NEW t \in Tasks, w'.pc = w.pc, w'.ns = w.ns,
           \A u \in Tasks \ {t} : w'.task[u] = w.task[u],
           w'.task[t].step = "write" => w.pc = "run",
           \A o \in Owned \ {t} : w.ns \in Namespaces => Stored(owned'[w.ns][o]) = Stored(owned[w.ns][o]),
           (t # "csiConfig" /\ w.ns \in Namespaces) => Stored(csiConfig'[w.ns]) = Stored(csiConfig[w.ns]),
           (t \in Owned /\ w.ns \in Namespaces /\ w'.task[t].step = "write" /\ w'.task[t].current)
              => w'.task[t].copy = Stored(owned'[w.ns][t]),
           (t = "csiConfig" /\ w.ns \in Namespaces /\ w'.task[t].step = "write" /\ w'.task[t].current)
              => w'.task[t].copy = Stored(csiConfig'[w.ns])
    PROVE  CopiesCurrent'
<1>1. w.pc = "run" => w.ns \in Namespaces
  BY DEF IInv, TypeInv, Loaded
<1>2. \A u \in Tasks : w'.task[u].step = "write" => w'.pc = "run"
  BY DEF IInv, CopiesCurrent
<1>3. \A o \in Owned : (w'.task[o].step = "write" /\ w'.task[o].current)
                           => w'.task[o].copy = Stored(owned'[w'.ns][o])
  BY <1>1, <1>2, OwnedAssumption DEF IInv, CopiesCurrent, Tasks
<1>4. (w'.task["csiConfig"].step = "write" /\ w'.task["csiConfig"].current)
          => w'.task["csiConfig"].copy = Stored(csiConfig'[w'.ns])
  BY <1>1, <1>2, OwnedAssumption DEF IInv, CopiesCurrent, Tasks
<1> QED
  BY <1>2, <1>3, <1>4 DEF CopiesCurrent

\* Nothing is current when no goroutine is about to write.
LEMMA CurrentReset ==
    ASSUME \A t \in Tasks : w'.task[t].step # "write"
    PROVE  CopiesCurrent'
BY DEF CopiesCurrent, Tasks

LEMMA CurrentInit == Init => IInv
<1>1. ASSUME Init PROVE CopiesCurrent
  <2>1. \A t \in Tasks : w.task[t].step = "get"
    BY <1>1, IdleFacts DEF Init
  <2> QED
    BY <2>1 DEF CopiesCurrent, Tasks
<1> QED
  BY <1>1, TypeInit DEF IInv

LEMMA CurrentLoad ==
    ASSUME IInv, (\E n \in Namespaces : StartReconcile(n)) \/ CheckClaim \/ LoadOperatorConfig
                 \/ LoadDriver \/ FinishReconcile
    PROVE  CopiesCurrent'
<1>1. w'.task = w.task \/ w'.task = IdleWorker.task
  <2>1. w \in Worker
    BY DEF IInv, TypeInv, TypeOK
  <2> QED
    BY <2>1, IdleFacts DEF StartReconcile, CheckClaim, LoadOperatorConfig, LoadDriver, FinishReconcile,
                           Abandon, Worker
<1>2. \A t \in Tasks : w.pc # "run" => w.task[t].step # "write"
  BY DEF IInv, CopiesCurrent
<1>3. w.pc # "run" \/ w' = IdleWorker
  BY DEF StartReconcile, CheckClaim, LoadOperatorConfig, LoadDriver, FinishReconcile
<1> QED
  BY <1>1, <1>2, <1>3, IdleFacts, CurrentReset

\* A goroutine returns: it is not about to write any more.
LEMMA CurrentReturn ==
    ASSUME IInv, NEW t \in Tasks, (\E b \in BOOLEAN : Return(t, b)) \/ (\E s \in TaskSteps \ {"write"} : GoOn(t, s)),
           \A n \in Namespaces, o \in Owned \ {t} : owned'[n][o] = owned[n][o],
           t # "csiConfig" => csiConfig' = csiConfig
    PROVE  CopiesCurrent'
<1>1. w \in Worker
  BY DEF IInv, TypeInv, TypeOK
<1>2. /\ w'.pc = w.pc /\ w'.ns = w.ns /\ w'.task[t].step # "write"
      /\ \A u \in Tasks \ {t} : w'.task[u] = w.task[u]
  BY <1>1, ReturnMoves, GoOnMoves
<1> QED
  BY <1>2, CurrentKept

\* A goroutine reads: its copy is current when the cache is.
LEMMA CurrentRead ==
    ASSUME IInv, (\E o \in Owned : ReadOwned(o)) \/ ReadCsiDriver \/ ReadCsiConfig
    PROVE  CopiesCurrent'
<1>0. TypeInv /\ TypeOK /\ w \in Worker /\ Owned \subseteq Tasks
      /\ "csiDriver" \in Tasks /\ "csiConfig" \in Tasks
  BY DEF IInv, TypeInv, TypeOK, Tasks
<1>1. ASSUME NEW log PROVE InSync(log) \in BOOLEAN /\ (InSync(log) => Cached(log) = Stored(log))
  BY DEF InSync, Cached, Stored
<1>2. UNCHANGED <<owned, csiConfig>> /\ w.pc = "run" /\ w.ns \in Namespaces
  BY <1>0, RunFacts DEF ReadOwned, ReadCsiDriver, ReadCsiConfig, cluster
<1>3. ASSUME NEW t \in Tasks, NEW log,
             Cached(log) \in Option(CsiDriverObj \cup OwnedObj \cup CsiConfigObj),
             w' = [w EXCEPT !.task[t] = [step |-> "write", copy |-> Cached(log), current |-> InSync(log)]],
             t \in Owned => log = owned[w.ns][t], t = "csiConfig" => log = csiConfig[w.ns]
      PROVE  CopiesCurrent'
  <2>1. InSync(log) \in BOOLEAN /\ (InSync(log) => Cached(log) = Stored(log))
    BY <1>1
  <2>2. /\ w'.pc = w.pc /\ w'.ns = w.ns
        /\ w'.task[t].copy = Cached(log) /\ w'.task[t].current = InSync(log)
        /\ \A u \in Tasks \ {t} : w'.task[u] = w.task[u]
    BY <1>0, <1>3, <2>1, ReadMoves
  <2>3. owned' = owned /\ csiConfig' = csiConfig
    BY <1>2
  <2>4. t \in Owned => (w'.task[t].current => w'.task[t].copy = Stored(owned'[w.ns][t]))
    BY <1>3, <2>1, <2>2, <2>3
  <2>5. t = "csiConfig" => (w'.task[t].current => w'.task[t].copy = Stored(csiConfig'[w.ns]))
    BY <1>3, <2>1, <2>2, <2>3
  <2> QED
    BY <1>2, <2>2, <2>3, <2>4, <2>5, CurrentKept
<1>4. ASSUME NEW o \in Owned, ReadOwned(o) PROVE CopiesCurrent'
  <2>1. Cached(owned[w.ns][o]) \in Option(CsiDriverObj \cup OwnedObj \cup CsiConfigObj)
    BY <1>0, <1>2, ReadTypes DEF Option
  <2>2. o \in Tasks /\ o # "csiConfig"
    BY <1>0, OwnedAssumption
  <2> QED
    BY <1>3, <1>4, <2>1, <2>2 DEF ReadOwned
<1>5. ASSUME ReadCsiDriver PROVE CopiesCurrent'
  <2>1. Cached(csiDriver) \in Option(CsiDriverObj \cup OwnedObj \cup CsiConfigObj)
    BY <1>0, ReadTypes DEF Option
  <2>2. "csiDriver" \notin Owned /\ "csiDriver" # "csiConfig"
    BY OwnedAssumption
  <2> QED
    BY <1>0, <1>3, <1>5, <2>1, <2>2 DEF ReadCsiDriver
<1>6. ASSUME ReadCsiConfig PROVE CopiesCurrent'
  <2>1. Cached(csiConfig[w.ns]) \in Option(CsiDriverObj \cup OwnedObj \cup CsiConfigObj)
    BY <1>0, <1>2, ReadTypes DEF Option
  <2> QED
    BY <1>0, <1>3, <1>6, <2>1, OwnedAssumption DEF ReadCsiConfig
<1> QED
  BY <1>4, <1>5, <1>6

\* What the goroutine that reconciles a controlled object leaves stored when it
\* returns: nothing, the object of the iteration's Driver, or what was there.
LEMMA OwnedWrites ==
    ASSUME TypeInv, NEW o \in Owned, DeleteUnwanted(o) \/ WriteOwned(o)
    PROVE  /\ w.ns \in Namespaces /\ w.pc = "run" /\ w.task[o].step # "done"
           /\ \E b \in BOOLEAN : Return(o, b)
           /\ \A n \in Namespaces, x \in Owned : (n # w.ns \/ x # o) => owned'[n][x] = owned[n][x]
           /\ \/ owned' = owned
              \/ \E v \in Option(OwnedObj) : /\ PutOwned(w.ns, o, v)
                                             /\ v # NoObj => v.uid = w.uid /\ Return(o, FALSE)
<1>0. TypeOK /\ o \in Tasks
  BY DEF TypeInv, Tasks
<1>1. /\ w.ns \in Namespaces /\ w.pc = "run" /\ w.task[o].step # "done"
      /\ w.uid \in Nat \ {0} /\ w.spec \in Effective
  <2>1. At(o, "get") \/ At(o, "write")
    BY DEF DeleteUnwanted, WriteOwned
  <2>2. CASE At(o, "get")
    BY <1>0, <2>2, RunFacts
  <2>3. CASE At(o, "write")
    BY <1>0, <2>3, RunFacts
  <2> QED
    BY <2>1, <2>2, <2>3
<1>2. \E b \in BOOLEAN : Return(o, b)
  BY DEF DeleteUnwanted, WriteOwned
<1>3. \/ owned' = owned
      \/ \E v \in Option(OwnedObj) : /\ PutOwned(w.ns, o, v)
                                     /\ v # NoObj => v.uid = w.uid /\ Return(o, FALSE)
  <2>1. CASE DeleteUnwanted(o)
    BY <2>1 DEF DeleteUnwanted, Option
  <2>2. CASE WriteOwned(o)
    <3>1. [uid |-> w.uid, spec |-> w.spec] \in Option(OwnedObj)
      BY <1>1 DEF OwnedObj, Option
    <3>2. owned' = owned \/ (PutOwned(w.ns, o, [uid |-> w.uid, spec |-> w.spec]) /\ Return(o, FALSE))
      BY <2>2 DEF WriteOwned, SetControllerReference
    <3> QED
      BY <3>1, <3>2
  <2> QED
    BY <2>1, <2>2
<1>4. \A n \in Namespaces, x \in Owned : (n # w.ns \/ x # o) => owned'[n][x] = owned[n][x]
  BY <1>0, <1>1, <1>3, PutOwnedFacts
<1> QED
  BY <1>1, <1>2, <1>3, <1>4

LEMMA CurrentReconcile == ASSUME IInv, ReconcileStep PROVE CopiesCurrent'
<1>0. Owned \subseteq Tasks /\ "csiDriver" \in Tasks /\ "csiConfig" \in Tasks
  BY DEF Tasks
<1>1. CASE CheckClaim \/ LoadOperatorConfig \/ LoadDriver \/ FinishReconcile
  BY <1>1, CurrentLoad
<1>2. CASE (\E o \in Owned : ReadOwned(o)) \/ ReadCsiDriver \/ ReadCsiConfig
  BY <1>2, CurrentRead
<1>3. ASSUME NEW o \in Owned, DeleteUnwanted(o) \/ WriteOwned(o) PROVE CopiesCurrent'
  <2>1. \A n \in Namespaces, x \in Owned \ {o} : owned'[n][x] = owned[n][x]
    BY <1>3, OwnedWrites DEF IInv
  <2>2. (\E b \in BOOLEAN : Return(o, b)) /\ csiConfig' = csiConfig
    BY <1>3 DEF DeleteUnwanted, WriteOwned
  <2> QED
    BY <1>0, <2>1, <2>2, CurrentReturn
<1>4. CASE WriteCsiDriver \/ DeleteCsiDriver \/ CreateCsiDriver
  <2>1. (\E b \in BOOLEAN : Return("csiDriver", b)) \/ (\E s \in TaskSteps \ {"write"} : GoOn("csiDriver", s))
    BY <1>4 DEF WriteCsiDriver, DeleteCsiDriver, CreateCsiDriver, TaskSteps
  <2>2. owned' = owned /\ csiConfig' = csiConfig
    BY <1>4 DEF WriteCsiDriver, DeleteCsiDriver, CreateCsiDriver
  <2> QED
    BY <1>0, <2>1, <2>2, CurrentReturn
<1>5. CASE WriteCsiConfig
  <2>1. (\E b \in BOOLEAN : Return("csiConfig", b)) /\ owned' = owned
    BY <1>5 DEF WriteCsiConfig
  <2> QED
    BY <1>0, <2>1, CurrentReturn
<1> QED
  BY <1>1, <1>2, <1>3, <1>4, <1>5 DEF ReconcileStep

\* Others' writes outdate the copies they concern.
LEMMA CurrentOthers == ASSUME IInv, Watch \/ Environment PROVE CopiesCurrent'
<1>0. TypeInv /\ TypeOK /\ Owned \subseteq Tasks /\ "csiDriver" \in Tasks /\ "csiConfig" \in Tasks
  BY DEF IInv, TypeInv, Tasks
<1>1. ASSUME w' = w,
             \A n \in Namespaces : Stored(csiConfig'[n]) = Stored(csiConfig[n]),
             \A n \in Namespaces, o \in Owned : Stored(owned'[n][o]) = Stored(owned[n][o])
      PROVE  CopiesCurrent'
  <2>1. \A t \in Tasks : w.task[t].step = "write" => w.ns \in Namespaces
    BY DEF IInv, CopiesCurrent, TypeInv, Loaded
  <2> QED
    BY <1>0, <1>1, <2>1 DEF IInv, CopiesCurrent
<1>2. CASE Watch
  BY <1>0, <1>1, <1>2, TypeWatch
<1>3. CASE \/ \E n \in Namespaces, s \in Specs : ApplyDriver(n, s)
           \/ \E n \in Namespaces : DeleteDriver(n) \/ Resync(n)
           \/ \E s \in Option(Specs) : ApplyOpConfig(s)
  <2>1. UNCHANGED <<w, owned, csiConfig>>
    BY <1>3 DEF ApplyDriver, DeleteDriver, Resync, ApplyOpConfig, cluster
  <2> QED
    BY <1>1, <2>1
<1>4. CASE DisturbCsiDriver
  <2>1. w \in Worker /\ Outdated("csiDriver") /\ owned' = owned /\ csiConfig' = csiConfig
    BY <1>0, <1>4 DEF DisturbCsiDriver, TypeOK
  <2>2. /\ w'.pc = w.pc /\ w'.ns = w.ns /\ w'.task["csiDriver"].step = w.task["csiDriver"].step
        /\ \A u \in Tasks \ {"csiDriver"} : w'.task[u] = w.task[u]
    BY <1>0, <2>1, OutdatedMoves
  <2>3. w.task["csiDriver"].step = "write" => w.pc = "run"
    BY <1>0 DEF IInv, CopiesCurrent
  <2> QED
    BY <1>0, <2>1, <2>2, <2>3, OwnedAssumption, CurrentKept
<1>5. ASSUME NEW n \in Namespaces, NEW o \in Owned, NEW s \in Option({Resolve(x) : x \in Specs}),
             DisturbOwned(n, o, s) \/ CollectOwned(n, o)
      PROVE  CopiesCurrent'
  <2>1. /\ \A m \in Namespaces, x \in Owned : (m # n \/ x # o) => owned'[m][x] = owned[m][x]
        /\ \A m \in Namespaces : csiConfig'[m] = csiConfig[m]
    BY <1>0, <1>5, TypeOthersOwned
  <2>2. IF w.ns = n THEN Outdated(o) ELSE UNCHANGED w
    BY <1>5 DEF DisturbOwned, CollectOwned, OwnedOutdated
  <2>3. /\ w'.pc = w.pc /\ w'.ns = w.ns
        /\ w.ns = n => ~w'.task[o].current
        /\ w.ns # n => w'.task[o] = w.task[o]
        /\ w'.task[o].step = w.task[o].step
        /\ \A u \in Tasks \ {o} : w'.task[u] = w.task[u]
    BY <1>0, <2>2, OutdatedFacts
  <2>4. w.task[o].step = "write" => w.pc = "run"
    BY <1>0 DEF IInv, CopiesCurrent
  <2>5. (w.ns \in Namespaces /\ w'.task[o].step = "write" /\ w'.task[o].current)
            => w'.task[o].copy = Stored(owned'[w.ns][o])
    BY <2>1, <2>3 DEF IInv, CopiesCurrent
  <2>6. o # "csiConfig"
    BY OwnedAssumption
  <2> QED
    BY <1>0, <2>1, <2>3, <2>4, <2>5, <2>6, CurrentKept
<1>6. ASSUME NEW n \in Namespaces, DisturbCsiConfig(n) \/ CollectCsiConfig(n)
      PROVE  CopiesCurrent'
  <2>1. /\ \A m \in Namespaces \ {n} : csiConfig'[m] = csiConfig[m]
        /\ \A m \in Namespaces, x \in Owned : owned'[m][x] = owned[m][x]
    BY <1>0, <1>6, TypeOthersCsiConfig
  <2>2. IF w.ns = n THEN Outdated("csiConfig") ELSE UNCHANGED w
    BY <1>6 DEF DisturbCsiConfig, CollectCsiConfig, CsiConfigOutdated
  <2>3. /\ w'.pc = w.pc /\ w'.ns = w.ns
        /\ w.ns = n => ~w'.task["csiConfig"].current
        /\ w.ns # n => w'.task["csiConfig"] = w.task["csiConfig"]
        /\ w'.task["csiConfig"].step = w.task["csiConfig"].step
        /\ \A u \in Tasks \ {"csiConfig"} : w'.task[u] = w.task[u]
    BY <1>0, <2>2, OutdatedFacts
  <2>4. w.task["csiConfig"].step = "write" => w.pc = "run"
    BY <1>0 DEF IInv, CopiesCurrent
  <2>5. (w.ns \in Namespaces /\ w'.task["csiConfig"].step = "write" /\ w'.task["csiConfig"].current)
            => w'.task["csiConfig"].copy = Stored(csiConfig'[w.ns])
    BY <2>1, <2>3 DEF IInv, CopiesCurrent
  <2> QED
    BY <1>0, <2>1, <2>3, <2>4, <2>5, OwnedAssumption, CurrentKept
<1>7. CASE Restart
  BY <1>7, IdleFacts, CurrentReset DEF Restart
<1>8. \A n \in Namespaces, o \in Owned : CollectOwned(n, o) => CopiesCurrent'
  <2>1. NoObj \in Option({Resolve(x) : x \in Specs})
    BY DEF Option
  <2> QED
    BY <1>5, <2>1
<1> QED
  BY <1>2, <1>3, <1>4, <1>5, <1>6, <1>7, <1>8 DEF Environment

LEMMA CurrentNext == IInv /\ [Next]_vars => IInv'
<1> SUFFICES ASSUME IInv, [Next]_vars PROVE CopiesCurrent'
  BY TypeNext DEF IInv
<1>1. CASE UNCHANGED vars
  BY <1>1 DEF vars, IInv, CopiesCurrent
<1> QED
  BY <1>1, CurrentLoad, CurrentReconcile, CurrentOthers DEF Next

\* Every current copy is the stored version, in every reachable state.
THEOREM CopiesAreCurrent == Spec => []CopiesCurrent
<1>1. IInv => CopiesCurrent
  BY DEF IInv
<1> QED
  BY <1>1, CurrentInit, CurrentNext, PTL DEF Spec

-----------------------------------------------------------------------------
(* Successors *)

\* The Drivers named by a version of a Driver or of an object it controls, and by
\* one of ceph-csi-config.
Uids(v) == IF v = NoObj THEN {} ELSE {v.uid}
Refs(v) == IF v = NoObj THEN {} ELSE v.owners
UidsIn(log) == UNION {Uids(log[i]) : i \in 1..Len(log)}
RefsIn(log) == UNION {Refs(log[i]) : i \in 1..Len(log)}

Below(S, T) == \A x \in S : \A y \in T : x <= y
Ascending(log) == \A i, j \in 1..Len(log) : i <= j => Below(Uids(log[i]), Uids(log[j]))

\* The objects with references to Drivers, by the goroutine that writes them: the
\* references stored now, those in any version still under way, those in the copy.
RefTasks == Owned \cup {"csiConfig"}
StoredRefs(n, t) == IF t = "csiConfig" THEN Refs(Stored(csiConfig[n])) ELSE Uids(Stored(owned[n][t]))
LogRefs(n, t) == IF t = "csiConfig" THEN RefsIn(csiConfig[n]) ELSE UidsIn(owned[n][t])
CopyRefs(t) == IF t = "csiConfig" THEN Refs(w.task[t].copy) ELSE Uids(w.task[t].copy)

\* The strengthening: the versions of a Driver name ever later uids; a reference is
\* to none later than any version the cache may still show, nor later than the
\* Driver the running iteration loaded; and a copy names none later than is stored.
DriversAscend ==
    \A n \in Namespaces : Ascending(driver[n]) /\ Below(UidsIn(driver[n]), {uids[n]})
RefsAscend ==
    \A n \in Namespaces, t \in RefTasks : /\ Below(LogRefs(n, t), UidsIn(driver[n]))
                                          /\ Below(LogRefs(n, t), {uids[n]})
                                          /\ Below(LogRefs(n, t), StoredRefs(n, t))
IterationLatest ==
    w.pc = "run" => /\ Below({w.uid}, UidsIn(driver[w.ns]))
                    /\ w.uid <= uids[w.ns]
                    /\ \A t \in RefTasks : Below(LogRefs(w.ns, t), {w.uid})
CopiesBehind ==
    \A t \in RefTasks : w.task[t].step = "write" => Below(CopyRefs(t), StoredRefs(w.ns, t))
TakenOver ==
    \A t \in RefTasks : w.task[t].step = "done" =>
                           w.pc = "run" /\ (~w.err => StoredRefs(w.ns, t) \subseteq {w.uid})

SuccInv == DriversAscend /\ RefsAscend /\ IterationLatest /\ CopiesBehind /\ TakenOver

\* What a step does to the references of an object: it drops some, or the running
\* iteration replaces them by its own Driver's.
RefsShrink(n, t) == LogRefs(n, t)' \subseteq LogRefs(n, t) /\ StoredRefs(n, t)' \subseteq StoredRefs(n, t)
RefsTaken(n, t) ==
    /\ n = w.ns /\ w.pc = "run" /\ w'.task[t].step = "done"
    /\ StoredRefs(n, t)' = {w.uid}
    /\ LogRefs(n, t)' \subseteq LogRefs(n, t) \cup {w.uid}

LEMMA PutEntries ==
    ASSUME NEW S, NEW log \in Seq(S) \ {<<>>}, NEW k \in Nat, NEW v \in S
    PROVE  /\ UidsIn(Put(log, k, v)) \subseteq UidsIn(log) \cup Uids(v)
           /\ RefsIn(Put(log, k, v)) \subseteq RefsIn(log) \cup Refs(v)
           /\ Stored(Put(log, k, v)) = v
<1>1. /\ Stored(Put(log, k, v)) = v
      /\ \A i \in 1..Len(Put(log, k, v)) :
                 \/ Put(log, k, v)[i] = v
                 \/ \E j \in 1..Len(log) : Put(log, k, v)[i] = log[j]
  BY PutLog
<1>2. UidsIn(Put(log, k, v)) \subseteq UidsIn(log) \cup Uids(v)
  BY <1>1 DEF UidsIn
<1>3. RefsIn(Put(log, k, v)) \subseteq RefsIn(log) \cup Refs(v)
  BY <1>1 DEF RefsIn
<1> QED
  BY <1>1, <1>2, <1>3

LEMMA ReadEntries ==
    ASSUME NEW S, NEW log \in Seq(S) \ {<<>>}
    PROVE  /\ Uids(Stored(log)) \subseteq UidsIn(log) /\ Refs(Stored(log)) \subseteq RefsIn(log)
           /\ Uids(Cached(log)) \subseteq UidsIn(log) /\ Refs(Cached(log)) \subseteq RefsIn(log)
           /\ UidsIn(Relist(log)) \subseteq UidsIn(log) /\ RefsIn(Relist(log)) \subseteq RefsIn(log)
<1>1. 1 \in 1..Len(log) /\ Len(log) \in 1..Len(log)
  BY LogElements
<1>2. Uids(log[1]) \subseteq UidsIn(log) /\ Uids(log[Len(log)]) \subseteq UidsIn(log)
  BY <1>1 DEF UidsIn
<1>3. Refs(log[1]) \subseteq RefsIn(log) /\ Refs(log[Len(log)]) \subseteq RefsIn(log)
  BY <1>1 DEF RefsIn
<1>4. Len(Relist(log)) = 1 /\ Relist(log)[1] = log[Len(log)]
  BY DEF Relist, Stored
<1>5. \A i \in 1..Len(Relist(log)) : Relist(log)[i] = log[Len(log)]
  BY <1>4
<1>6. UidsIn(Relist(log)) \subseteq Uids(log[Len(log)])
  BY <1>5 DEF UidsIn
<1>7. RefsIn(Relist(log)) \subseteq Refs(log[Len(log)])
  BY <1>5 DEF RefsIn
<1> QED
  BY <1>2, <1>3, <1>6, <1>7 DEF Stored, Cached

LEMMA TailEntries ==
    ASSUME NEW S, NEW log \in Seq(S) \ {<<>>}, ~InSync(log)
    PROVE  /\ UidsIn(Tail(log)) \subseteq UidsIn(log) /\ RefsIn(Tail(log)) \subseteq RefsIn(log)
           /\ Stored(Tail(log)) = Stored(log)
<1>1. /\ \A i \in 1..Len(Tail(log)) : \E j \in 1..Len(log) : Tail(log)[i] = log[j]
      /\ Stored(Tail(log)) = Stored(log)
  BY TailLog
<1>2. UidsIn(Tail(log)) \subseteq UidsIn(log)
  BY <1>1 DEF UidsIn
<1>3. RefsIn(Tail(log)) \subseteq RefsIn(log)
  BY <1>1 DEF RefsIn
<1> QED
  BY <1>1, <1>2, <1>3

\* Storing a version with a uid not below those in the log keeps it ascending.
LEMMA AscendingPut ==
    ASSUME NEW S, NEW log \in Seq(S) \ {<<>>}, NEW k \in Nat, NEW v \in S,
           Ascending(log), Below(UidsIn(log) \cup Uids(v), Uids(v))
    PROVE  Ascending(Put(log, k, v))
<1> DEFINE front == IF Len(log) <= k THEN log ELSE Tail(log)
           new == Append(front, v)
<1>1. Len(log) \in Nat \ {0}
  BY EmptySeq
<1>2. PICK d \in {0, 1} : /\ front \in Seq(S) /\ Len(front) = Len(log) - d
                          /\ \A i \in 1..Len(front) : front[i] = log[i + d]
  <2>1. CASE Len(log) <= k
    BY <1>1, <2>1
  <2>2. CASE ~(Len(log) <= k)
    BY <1>1, <2>2
  <2> QED
    BY <2>1, <2>2
<1>3. /\ Put(log, k, v) = new /\ Len(new) = Len(front) + 1 /\ new[Len(front) + 1] = v
      /\ \A i \in 1..Len(front) : new[i] = front[i]
  BY <1>2 DEF Put
<1> HIDE DEF front, new
<1>4. ASSUME NEW i \in 1..Len(new), NEW j \in 1..Len(new), i <= j
      PROVE  Below(Uids(new[i]), Uids(new[j]))
  <2>0. Len(front) \in Nat
    BY <1>2
  <2>1. CASE j = Len(front) + 1
    <3>1. i = Len(front) + 1 \/ i \in 1..Len(front)
      BY <1>3, <1>4, <2>0
    <3>2. i \in 1..Len(front) => i + d \in 1..Len(log)
      BY <1>1, <1>2, <2>0
    <3>3. i \in 1..Len(front) => Uids(new[i]) \subseteq UidsIn(log)
      BY <1>2, <1>3, <3>2 DEF UidsIn
    <3>4. Uids(new[i]) \subseteq UidsIn(log) \cup Uids(v) /\ new[j] = v
      BY <1>3, <2>1, <3>1, <3>3
    <3> QED
      BY <3>4 DEF Below
  <2>2. CASE j # Len(front) + 1
    <3>1. j \in 1..Len(front) /\ i \in 1..Len(front)
      BY <1>3, <1>4, <2>0, <2>2
    <3>2. i + d \in 1..Len(log) /\ j + d \in 1..Len(log) /\ i + d <= j + d
      BY <1>1, <1>2, <1>4, <2>0, <3>1
    <3>3. new[i] = log[i + d] /\ new[j] = log[j + d]
      BY <1>2, <1>3, <3>1
    <3> QED
      BY <3>2, <3>3 DEF Ascending
  <2> QED
    BY <2>1, <2>2
<1> QED
  BY <1>3, <1>4 DEF Ascending

LEMMA AscendingTail ==
    ASSUME NEW S, NEW log \in Seq(S) \ {<<>>}, ~InSync(log), Ascending(log)
    PROVE  Ascending(Tail(log))
<1>1. Len(log) \in Nat \ {0}
  BY EmptySeq
<1>2. /\ Len(Tail(log)) = Len(log) - 1
      /\ \A i \in 1..(Len(log) - 1) : Tail(log)[i] = log[i + 1]
  BY <1>1
<1>3. \A i \in 1..Len(Tail(log)) : i + 1 \in 1..Len(log) /\ Tail(log)[i] = log[i + 1]
  BY <1>1, <1>2
<1>4. ASSUME NEW i \in 1..Len(Tail(log)), NEW j \in 1..Len(Tail(log)), i <= j
      PROVE  Below(Uids(Tail(log)[i]), Uids(Tail(log)[j]))
  <2>1. i + 1 \in 1..Len(log) /\ j + 1 \in 1..Len(log) /\ i + 1 <= j + 1
    BY <1>3, <1>4
  <2>2. Tail(log)[i] = log[i + 1] /\ Tail(log)[j] = log[j + 1]
    BY <1>3
  <2> QED
    BY <2>1, <2>2 DEF Ascending
<1> QED
  BY <1>4 DEF Ascending

\* The uids are numbers, and what is stored is in the log.
LEMMA RefTypes ==
    ASSUME TypeInv
    PROVE  /\ \A n \in Namespaces : UidsIn(driver[n]) \subseteq Nat /\ uids[n] \in Nat
           /\ \A n \in Namespaces, t \in RefTasks : LogRefs(n, t) \subseteq Nat
                                                    /\ StoredRefs(n, t) \subseteq LogRefs(n, t)
           /\ w.uid \in Nat
<1>0. TypeOK
  BY DEF TypeInv
<1>1. ASSUME NEW n \in Namespaces PROVE UidsIn(driver[n]) \subseteq Nat /\ uids[n] \in Nat
  <2>1. driver[n] \in Seq(Option(DriverObj)) /\ uids[n] \in Nat
    BY <1>0 DEF TypeOK, Versions
  <2>2. \A i \in 1..Len(driver[n]) : driver[n][i] \in Option(DriverObj)
    BY <2>1
  <2> QED
    BY <2>1, <2>2 DEF UidsIn, Uids, Option, DriverObj
<1>2. ASSUME NEW n \in Namespaces, NEW t \in Owned
      PROVE  LogRefs(n, t) \subseteq Nat /\ StoredRefs(n, t) \subseteq LogRefs(n, t)
  <2>1. owned[n][t] \in Seq(Option(OwnedObj)) \ {<<>>}
    BY <1>0 DEF TypeOK, Versions
  <2>2. \A i \in 1..Len(owned[n][t]) : owned[n][t][i] \in Option(OwnedObj)
    BY <2>1
  <2>3. UidsIn(owned[n][t]) \subseteq Nat
    BY <2>2 DEF UidsIn, Uids, Option, OwnedObj
  <2> QED
    BY <2>1, <2>3, ReadEntries, OwnedAssumption DEF LogRefs, StoredRefs
<1>3. ASSUME NEW n \in Namespaces
      PROVE  LogRefs(n, "csiConfig") \subseteq Nat /\ StoredRefs(n, "csiConfig") \subseteq LogRefs(n, "csiConfig")
  <2>1. csiConfig[n] \in Seq(Option(CsiConfigObj)) \ {<<>>}
    BY <1>0 DEF TypeOK, Versions
  <2>2. \A i \in 1..Len(csiConfig[n]) : csiConfig[n][i] \in Option(CsiConfigObj)
    BY <2>1
  <2>3. \A v \in Option(CsiConfigObj) : Refs(v) \subseteq Nat
    BY DEF Refs, Option, CsiConfigObj
  <2>4. RefsIn(csiConfig[n]) \subseteq Nat
    BY <2>2, <2>3 DEF RefsIn
  <2> QED
    BY <2>1, <2>4, ReadEntries DEF LogRefs, StoredRefs
<1>4. w.uid \in Nat
  BY <1>0 DEF TypeOK, Worker
<1> QED
  BY <1>1, <1>2, <1>3, <1>4 DEF RefTasks

LEMMA SuccInit == Init => SuccInv
<1> SUFFICES ASSUME Init PROVE SuccInv
  OBVIOUS
<1>1. w.pc = "idle" /\ \A t \in Tasks : w.task[t].step = "get"
  BY IdleFacts DEF Init
<1>2. Uids(NoObj) = {} /\ Refs(NoObj) = {}
  BY DEF Uids, Refs
<1>3. UidsIn(<<NoObj>>) = {} /\ RefsIn(<<NoObj>>) = {} /\ Stored(<<NoObj>>) = NoObj
  BY <1>2 DEF UidsIn, RefsIn, Stored
<1>4. Ascending(<<NoObj>>)
  BY <1>2 DEF Ascending, Below
<1>5. DriversAscend
  BY <1>3, <1>4 DEF Init, DriversAscend, Below
<1>6. RefsAscend
  BY <1>2, <1>3 DEF Init, RefsAscend, Below, RefTasks, LogRefs, StoredRefs
<1> QED
  BY <1>1, <1>5, <1>6 DEF SuccInv, IterationLatest, CopiesBehind, TakenOver, RefTasks, Tasks

\* Users give a Driver that is created anew a later uid, and no step makes the
\* cache show an earlier one.
DriverEffect(n) ==
    /\ uids[n] <= uids'[n]
    /\ Ascending(driver'[n])
    /\ UidsIn(driver'[n]) \subseteq UidsIn(driver[n]) \cup {uids'[n]}

LEMMA DriverPuts ==
    ASSUME TypeInv, DriversAscend, NEW n \in Namespaces, NEW m \in Namespaces, NEW v \in Option(DriverObj),
           driver' = [driver EXCEPT ![m] = Put(@, left.lag["driver"], v)],
           \/ /\ v = NoObj \/ v.uid \in Uids(Stored(driver[m]))
              /\ uids' = uids
           \/ /\ v # NoObj /\ v.uid = uids[m] + 1
              /\ uids' = [uids EXCEPT ![m] = @ + 1]
    PROVE  DriverEffect(n)
<1>0. TypeOK /\ driver[m] \in Seq(Option(DriverObj)) \ {<<>>} /\ left.lag["driver"] \in Nat
  BY LagType DEF TypeInv, TypeOK, Versions, Kinds
<1>1. UidsIn(driver[m]) \subseteq Nat /\ uids[m] \in Nat /\ uids[n] \in Nat
  BY RefTypes
<1>2. Ascending(driver[m]) /\ Below(UidsIn(driver[m]), {uids[m]}) /\ Ascending(driver[n])
  BY DEF DriversAscend
<1>3. uids[n] <= uids'[n]
  BY <1>0, <1>1 DEF TypeOK
<1>4. CASE n # m
  <2>1. driver'[n] = driver[n]
    BY <1>0, <1>4 DEF TypeOK
  <2> QED
    BY <1>2, <1>3, <2>1 DEF DriverEffect
<1>5. CASE n = m
  <2>1. driver'[n] = Put(driver[m], left.lag["driver"], v)
    BY <1>0, <1>5 DEF TypeOK
  <2>2. UidsIn(driver'[n]) \subseteq UidsIn(driver[m]) \cup Uids(v)
    BY <1>0, <2>1, PutEntries
  <2>3. Below(UidsIn(driver[m]) \cup Uids(v), Uids(v)) /\ Uids(v) \subseteq UidsIn(driver[m]) \cup {uids'[m]}
    <3>1. CASE v = NoObj
      BY <3>1 DEF Uids, Below
    <3>2. CASE v # NoObj /\ v.uid \in Uids(Stored(driver[m]))
      <4>1. Uids(v) = {v.uid} /\ Uids(Stored(driver[m])) \subseteq UidsIn(driver[m])
        BY <1>0, <3>2, ReadEntries DEF Uids
      <4>2. v.uid \in UidsIn(driver[m]) /\ v.uid \in Nat
        BY <1>1, <3>2, <4>1
      <4>3. ASSUME NEW x \in UidsIn(driver[m]) PROVE x <= v.uid
        <5>1. PICK i \in 1..Len(driver[m]) : x \in Uids(driver[m][i])
          BY DEF UidsIn
        <5>2. Len(driver[m]) \in Nat /\ Len(driver[m]) \in 1..Len(driver[m]) /\ i <= Len(driver[m])
          BY <1>0, LogElements
        <5>3. Below(Uids(driver[m][i]), Uids(driver[m][Len(driver[m])]))
          BY <1>2, <5>2 DEF Ascending
        <5> QED
          BY <3>2, <5>1, <5>3 DEF Below, Stored
      <4> QED
        BY <4>1, <4>2, <4>3 DEF Below
    <3>3. CASE v # NoObj /\ v.uid = uids[m] + 1 /\ uids' = [uids EXCEPT ![m] = @ + 1]
      <4>1. Uids(v) = {uids[m] + 1} /\ uids'[m] = uids[m] + 1
        BY <1>0, <3>3 DEF Uids, TypeOK
      <4>2. \A x \in UidsIn(driver[m]) : x <= uids[m] + 1
        BY <1>1, <1>2 DEF Below
      <4>3. uids[m] + 1 <= uids[m] + 1
        BY <1>1
      <4> QED
        BY <4>1, <4>2, <4>3 DEF Below
    <3> QED
      BY <3>1, <3>2, <3>3
  <2>4. Ascending(driver'[n])
    BY <1>0, <1>2, <2>1, <2>3, AscendingPut
  <2> QED
    BY <1>3, <1>5, <2>2, <2>3, <2>4 DEF DriverEffect
<1> QED
  BY <1>4, <1>5

LEMMA DriverSteps ==
    ASSUME TypeInv, DriversAscend, [Next]_vars, NEW n \in Namespaces
    PROVE  DriverEffect(n)
<1>0. /\ TypeOK /\ driver[n] \in Seq(Option(DriverObj)) \ {<<>>} /\ uids[n] \in Nat
      /\ Ascending(driver[n]) /\ UidsIn(driver[n]) \subseteq Nat
  BY RefTypes DEF TypeInv, TypeOK, Versions, DriversAscend
<1>1. CASE UNCHANGED <<driver, uids>>
  BY <1>0, <1>1 DEF DriverEffect
<1>2. ASSUME NEW m \in Namespaces, DeliverDriver(m)
      PROVE  DriverEffect(n)
  <2>1. ~InSync(driver[m]) /\ driver' = [driver EXCEPT ![m] = Tail(@)] /\ uids' = uids
    BY <1>2 DEF DeliverDriver
  <2>2. CASE n # m
    BY <1>0, <2>1, <2>2 DEF DriverEffect, TypeOK
  <2>3. CASE n = m
    <3>1. driver'[n] = Tail(driver[n])
      BY <1>0, <2>1, <2>3 DEF TypeOK
    <3>2. Ascending(Tail(driver[n])) /\ UidsIn(Tail(driver[n])) \subseteq UidsIn(driver[n])
      BY <1>0, <2>1, <2>3, AscendingTail, TailEntries
    <3> QED
      BY <1>0, <2>1, <3>1, <3>2 DEF DriverEffect
  <2> QED
    BY <2>2, <2>3
<1>3. CASE Restart
  <2>1. driver'[n] = Relist(driver[n]) /\ uids' = uids
    BY <1>3 DEF Restart
  <2>2. UidsIn(Relist(driver[n])) \subseteq UidsIn(driver[n]) /\ Len(Relist(driver[n])) = 1
    BY <1>0, ReadEntries, LogElements
  <2>3. \A i \in 1..Len(Relist(driver[n])) : i = 1
    BY <2>2
  <2>4. Uids(Relist(driver[n])[1]) \subseteq Nat
    BY <1>0, <2>2 DEF UidsIn
  <2>5. Below(Uids(Relist(driver[n])[1]), Uids(Relist(driver[n])[1]))
    BY <2>4 DEF Below, Uids
  <2>6. Ascending(Relist(driver[n]))
    BY <2>3, <2>5 DEF Ascending
  <2> QED
    BY <1>0, <2>1, <2>2, <2>6 DEF DriverEffect
<1>4. ASSUME NEW m \in Namespaces, NEW s \in Specs, ApplyDriver(m, s)
      PROVE  DriverEffect(n)
  <2>0. Stored(driver[m]) \in Option(DriverObj) /\ uids[m] \in Nat
    BY <1>0, ReadTypes DEF TypeOK
  <2>1. CASE Stored(driver[m]) = NoObj
    <3> DEFINE v == [uid |-> uids[m] + 1, spec |-> s]
    <3>1. v \in DriverObj /\ v.uid = uids[m] + 1
      BY <2>0 DEF DriverObj
    <3>2. v \in Option(DriverObj) /\ v # NoObj
      BY <3>1, NoObjAssumption DEF Option
    <3>3. /\ driver' = [driver EXCEPT ![m] = Put(@, left.lag["driver"], v)]
          /\ uids' = [uids EXCEPT ![m] = @ + 1]
      BY <1>4, <2>1 DEF ApplyDriver, PutDriver
    <3> HIDE DEF v
    <3> QED
      BY <3>1, <3>2, <3>3, DriverPuts
  <2>2. CASE Stored(driver[m]) # NoObj
    <3> DEFINE v == [Stored(driver[m]) EXCEPT !.spec = s]
    <3>1. v \in DriverObj /\ v.uid = Stored(driver[m]).uid
      BY <2>0, <2>2 DEF DriverObj, Option
    <3>2. v \in Option(DriverObj) /\ v.uid \in Uids(Stored(driver[m]))
      BY <2>2, <3>1 DEF Option, Uids
    <3>3. driver' = [driver EXCEPT ![m] = Put(@, left.lag["driver"], v)] /\ uids' = uids
      BY <1>4, <2>2 DEF ApplyDriver, PutDriver
    <3> HIDE DEF v
    <3> QED
      BY <3>2, <3>3, DriverPuts
  <2> QED
    BY <2>1, <2>2
<1>5. ASSUME NEW m \in Namespaces, DeleteDriver(m)
      PROVE  DriverEffect(n)
  <2>1. NoObj \in Option(DriverObj)
    BY DEF Option
  <2>2. driver' = [driver EXCEPT ![m] = Put(@, left.lag["driver"], NoObj)] /\ uids' = uids
    BY <1>5 DEF DeleteDriver, PutDriver
  <2> QED
    BY <2>1, <2>2, DriverPuts
<1>6. CASE (\E m \in Namespaces : StartReconcile(m)) \/ ReconcileStep
  BY <1>1, <1>6 DEF StartReconcile, ReconcileStep, CheckClaim, LoadOperatorConfig, LoadDriver, FinishReconcile,
     DeleteUnwanted, ReadOwned, WriteOwned, ReadCsiDriver, WriteCsiDriver, DeleteCsiDriver, CreateCsiDriver,
     ReadCsiConfig, WriteCsiConfig, cluster
<1>7. CASE Watch
  BY <1>1, <1>2, <1>7 DEF Watch, DeliverCsiConfig, DeliverOwned, DeliverOpConfig, DeliverCsiDriver
<1>8. CASE Environment
  BY <1>1, <1>3, <1>4, <1>5, <1>8 DEF Environment, Resync, DisturbCsiConfig, CollectCsiConfig, ApplyOpConfig,
     DisturbCsiDriver, CollectOwned, DisturbOwned, cluster
<1> QED
  BY <1>1, <1>6, <1>7, <1>8 DEF Next, vars


LEMMA RefsUnchanged ==
    ASSUME NEW n \in Namespaces, NEW t \in RefTasks,
           t = "csiConfig" => csiConfig'[n] = csiConfig[n],
           t # "csiConfig" => owned'[n][t] = owned[n][t]
    PROVE  RefsShrink(n, t)
BY DEF RefsShrink, LogRefs, StoredRefs

\* Storing a version puts its references in place of the stored ones.
LEMMA OwnedPutRefs ==
    ASSUME TypeOK, NEW m \in Namespaces, NEW o \in Owned, NEW v \in Option(OwnedObj), PutOwned(m, o, v)
    PROVE  /\ StoredRefs(m, o)' = Uids(v)
           /\ LogRefs(m, o)' \subseteq LogRefs(m, o) \cup Uids(v)
           /\ \A n \in Namespaces, x \in Owned : (n # m \/ x # o) => RefsShrink(n, x)
<1>1. owned[m][o] \in Seq(Option(OwnedObj)) \ {<<>>} /\ left.lag["owned"] \in Nat
  BY LagType DEF TypeOK, Versions, Kinds
<1>2. owned'[m][o] = Put(owned[m][o], left.lag["owned"], v)
  BY DEF PutOwned, TypeOK
<1>3. UidsIn(owned'[m][o]) \subseteq UidsIn(owned[m][o]) \cup Uids(v) /\ Stored(owned'[m][o]) = v
  BY <1>1, <1>2, PutEntries
<1>4. \A n \in Namespaces, x \in Owned : (n # m \/ x # o) => owned'[n][x] = owned[n][x]
  BY PutOwnedFacts
<1>5. \A n \in Namespaces, x \in Owned : (n # m \/ x # o) => RefsShrink(n, x)
  BY <1>4, RefsUnchanged, OwnedAssumption DEF RefTasks
<1> QED
  BY <1>3, <1>5, OwnedAssumption DEF StoredRefs, LogRefs

LEMMA ConfigPutRefs ==
    ASSUME TypeOK, NEW m \in Namespaces, NEW v \in Option(CsiConfigObj), PutCsiConfig(m, v)
    PROVE  /\ StoredRefs(m, "csiConfig")' = Refs(v)
           /\ LogRefs(m, "csiConfig")' \subseteq LogRefs(m, "csiConfig") \cup Refs(v)
           /\ \A n \in Namespaces \ {m} : RefsShrink(n, "csiConfig")
<1>1. csiConfig[m] \in Seq(Option(CsiConfigObj)) \ {<<>>} /\ left.lag["csiConfig"] \in Nat
  BY LagType DEF TypeOK, Versions, Kinds
<1>2. csiConfig'[m] = Put(csiConfig[m], left.lag["csiConfig"], v)
  BY DEF PutCsiConfig, TypeOK
<1>3. RefsIn(csiConfig'[m]) \subseteq RefsIn(csiConfig[m]) \cup Refs(v) /\ Stored(csiConfig'[m]) = v
  BY <1>1, <1>2, PutEntries
<1>4. \A n \in Namespaces \ {m} : csiConfig'[n] = csiConfig[n]
  BY PutCsiConfigFacts
<1>5. \A n \in Namespaces \ {m} : RefsShrink(n, "csiConfig")
  BY <1>4, RefsUnchanged DEF RefTasks
<1> QED
  BY <1>3, <1>5 DEF StoredRefs, LogRefs

\* Users and the garbage collector add no reference.
LEMMA RefsOthers ==
    ASSUME TypeInv, NEW n \in Namespaces, NEW t \in RefTasks, Watch \/ Environment
    PROVE  RefsShrink(n, t)
<1>0. TypeOK /\ StoredRefs(n, t) \subseteq LogRefs(n, t)
  BY RefTypes DEF TypeInv
<1>1. CASE UNCHANGED <<owned, csiConfig>>
  BY <1>1, RefsUnchanged
<1>2. ASSUME NEW m \in Namespaces, NEW o \in Owned, NEW v \in Option(OwnedObj), PutOwned(m, o, v),
             UNCHANGED csiConfig, Uids(v) \subseteq Uids(Stored(owned[m][o]))
      PROVE  RefsShrink(n, t)
  <2>1. CASE t = "csiConfig"
    BY <1>2, <2>1, RefsUnchanged
  <2>2. CASE t \in Owned /\ (n # m \/ t # o)
    BY <1>0, <1>2, <2>2, OwnedPutRefs
  <2>3. CASE n = m /\ t = o
    <3>1. StoredRefs(m, o)' = Uids(v) /\ LogRefs(m, o)' \subseteq LogRefs(m, o) \cup Uids(v)
      BY <1>0, <1>2, OwnedPutRefs
    <3>2. StoredRefs(m, o) = Uids(Stored(owned[m][o]))
      BY OwnedAssumption DEF StoredRefs
    <3> QED
      BY <1>0, <1>2, <2>3, <3>1, <3>2 DEF RefsShrink
  <2> QED
    BY <2>1, <2>2, <2>3 DEF RefTasks
<1>3. ASSUME NEW m \in Namespaces, NEW v \in Option(CsiConfigObj), PutCsiConfig(m, v),
             UNCHANGED owned, Refs(v) \subseteq Refs(Stored(csiConfig[m]))
      PROVE  RefsShrink(n, t)
  <2>1. CASE t # "csiConfig"
    BY <1>3, <2>1, RefsUnchanged
  <2>2. CASE t = "csiConfig" /\ n # m
    BY <1>0, <1>3, <2>2, ConfigPutRefs
  <2>3. CASE n = m /\ t = "csiConfig"
    <3>1. /\ StoredRefs(m, "csiConfig")' = Refs(v)
          /\ LogRefs(m, "csiConfig")' \subseteq LogRefs(m, "csiConfig") \cup Refs(v)
      BY <1>0, <1>3, ConfigPutRefs
    <3>2. StoredRefs(m, "csiConfig") = Refs(Stored(csiConfig[m]))
      BY DEF StoredRefs
    <3> QED
      BY <1>0, <1>3, <2>3, <3>1, <3>2 DEF RefsShrink
  <2> QED
    BY <2>1, <2>2, <2>3
<1>4. ASSUME NEW m \in Namespaces, NEW o \in Owned, DeliverOwned(m, o)
      PROVE  RefsShrink(n, t)
  <2>1. CASE t = "csiConfig" \/ n # m \/ t # o
    BY <1>0, <1>4, <2>1, RefsUnchanged DEF DeliverOwned, TypeOK, RefTasks
  <2>2. CASE n = m /\ t = o
    <3>1. owned[m][o] \in Seq(Option(OwnedObj)) \ {<<>>} /\ ~InSync(owned[m][o])
      BY <1>0, <1>4 DEF TypeOK, Versions, DeliverOwned
    <3>2. owned'[m][o] = Tail(owned[m][o])
      BY <1>0, <1>4 DEF TypeOK, DeliverOwned
    <3>3. UidsIn(owned'[m][o]) \subseteq UidsIn(owned[m][o]) /\ Stored(owned'[m][o]) = Stored(owned[m][o])
      BY <3>1, <3>2, TailEntries
    <3> QED
      BY <2>2, <3>3, OwnedAssumption DEF RefsShrink, LogRefs, StoredRefs
  <2> QED
    BY <2>1, <2>2
<1>5. ASSUME NEW m \in Namespaces, DeliverCsiConfig(m)
      PROVE  RefsShrink(n, t)
  <2>1. CASE t # "csiConfig" \/ n # m
    BY <1>0, <1>5, <2>1, RefsUnchanged DEF DeliverCsiConfig, TypeOK
  <2>2. CASE n = m /\ t = "csiConfig"
    <3>1. csiConfig[m] \in Seq(Option(CsiConfigObj)) \ {<<>>} /\ ~InSync(csiConfig[m])
      BY <1>0, <1>5 DEF TypeOK, Versions, DeliverCsiConfig
    <3>2. csiConfig'[m] = Tail(csiConfig[m])
      BY <1>0, <1>5 DEF TypeOK, DeliverCsiConfig
    <3>3. RefsIn(csiConfig'[m]) \subseteq RefsIn(csiConfig[m]) /\ Stored(csiConfig'[m]) = Stored(csiConfig[m])
      BY <3>1, <3>2, TailEntries
    <3> QED
      BY <2>2, <3>3 DEF RefsShrink, LogRefs, StoredRefs
  <2> QED
    BY <2>1, <2>2
<1>6. CASE Restart
  <2>1. CASE t = "csiConfig"
    <3>1. csiConfig[n] \in Seq(Option(CsiConfigObj)) \ {<<>>} /\ csiConfig'[n] = Relist(csiConfig[n])
      BY <1>0, <1>6 DEF TypeOK, Versions, Restart
    <3>2. RefsIn(csiConfig'[n]) \subseteq RefsIn(csiConfig[n]) /\ Stored(csiConfig'[n]) = Stored(csiConfig[n])
      BY <3>1, ReadEntries, LogElements
    <3> QED
      BY <2>1, <3>2 DEF RefsShrink, LogRefs, StoredRefs
  <2>2. CASE t \in Owned
    <3>1. owned[n][t] \in Seq(Option(OwnedObj)) \ {<<>>} /\ owned'[n][t] = Relist(owned[n][t])
      BY <1>0, <1>6, <2>2 DEF TypeOK, Versions, Restart
    <3>2. UidsIn(owned'[n][t]) \subseteq UidsIn(owned[n][t]) /\ Stored(owned'[n][t]) = Stored(owned[n][t])
      BY <3>1, ReadEntries, LogElements
    <3> QED
      BY <2>2, <3>2, OwnedAssumption DEF RefsShrink, LogRefs, StoredRefs
  <2> QED
    BY <2>1, <2>2 DEF RefTasks
<1>7. ASSUME NEW m \in Namespaces, NEW o \in Owned, NEW s \in Option({Resolve(x) : x \in Specs}),
             DisturbOwned(m, o, s) \/ CollectOwned(m, o)
      PROVE  RefsShrink(n, t)
  <2>1. PICK v \in Option(OwnedObj) : /\ PutOwned(m, o, v)
                                      /\ v # NoObj => v.uid = Stored(owned[m][o]).uid
    BY <1>7, OthersOwnedPut
  <2>2. UNCHANGED csiConfig /\ Stored(owned[m][o]) # NoObj
    BY <1>7 DEF DisturbOwned, CollectOwned
  <2>3. Uids(v) \subseteq Uids(Stored(owned[m][o]))
    BY <2>1, <2>2 DEF Uids
  <2> QED
    BY <1>2, <2>1, <2>2, <2>3
<1>8. ASSUME NEW m \in Namespaces, DisturbCsiConfig(m) \/ CollectCsiConfig(m)
      PROVE  RefsShrink(n, t)
  <2>1. PICK v \in Option(CsiConfigObj) :
            PutCsiConfig(m, v) /\ OthersConfig(Stored(csiConfig[m]), v)
    BY <1>8, OthersConfigPut
  <2>2. UNCHANGED owned
    BY <1>8 DEF DisturbCsiConfig, CollectCsiConfig
  <2>3. Refs(v) \subseteq Refs(Stored(csiConfig[m]))
    BY <2>1 DEF Refs, OthersConfig
  <2> QED
    BY <1>3, <2>1, <2>2, <2>3
<1>9. \A m \in Namespaces, o \in Owned : CollectOwned(m, o) => RefsShrink(n, t)
  <2>1. NoObj \in Option({Resolve(x) : x \in Specs})
    BY DEF Option
  <2> QED
    BY <1>7, <2>1
<1>10. CASE Watch
  BY <1>1, <1>4, <1>5, <1>10 DEF Watch, DeliverDriver, DeliverOpConfig, DeliverCsiDriver
<1>11. CASE Environment
  BY <1>1, <1>6, <1>7, <1>8, <1>9, <1>11 DEF Environment, ApplyDriver, DeleteDriver, Resync, ApplyOpConfig,
     DisturbCsiDriver, cluster
<1> QED
  BY <1>10, <1>11


\* What a step does to the worker.
IterationEffect ==
    w'.pc = "run" =>
        /\ w'.ns = w.ns /\ w.ns \in Namespaces
        /\ \/ w.pc = "run" /\ w'.uid = w.uid
           \/ UNCHANGED <<driver, uids, owned, csiConfig>> /\ w'.uid \in Uids(Cached(driver[w.ns]))

WriteEffect(t) ==
    w'.task[t].step = "write" =>
        /\ w'.ns = w.ns /\ w.ns \in Namespaces
        /\ \/ w.task[t].step = "write" /\ CopyRefs(t)' = CopyRefs(t)
           \/ CopyRefs(t)' \subseteq LogRefs(w.ns, t)

DoneEffect(t) ==
    w'.task[t].step = "done" =>
        /\ w'.pc = "run" /\ w.pc = "run" /\ w'.ns = w.ns /\ w'.uid = w.uid
        /\ ~w'.err => \/ w.task[t].step = "done" /\ ~w.err
                      \/ StoredRefs(w.ns, t)' \subseteq {w.uid}
                      \/ w.task[t].step = "write" /\ CopyRefs(t) = {w.uid}

WorkerEffect == IterationEffect /\ \A t \in RefTasks : WriteEffect(t) /\ DoneEffect(t)

LEMMA ReturnErr ==
    ASSUME w \in Worker, NEW t \in Tasks, NEW failed \in BOOLEAN, Return(t, failed)
    PROVE  ~w'.err => ~w.err /\ ~failed
<1>1. PICK b \in BOOLEAN : b = (w.err \/ failed)
  OBVIOUS
<1>2. w'.err = b
  BY <1>1 DEF Return, Worker
<1> QED
  BY <1>1, <1>2

\* A step of one goroutine, or one that outdates its copy.
LEMMA WorkerKept ==
    ASSUME IInv, TakenOver, NEW t \in Tasks, w'.pc = w.pc, w'.ns = w.ns, w'.uid = w.uid,
           ~w'.err => ~w.err, \A u \in Tasks \ {t} : w'.task[u] = w.task[u],
           t \in RefTasks => WriteEffect(t) /\ DoneEffect(t)
    PROVE  WorkerEffect
<1>1. w.pc = "run" => w.ns \in Namespaces
  BY DEF IInv, TypeInv, Loaded
<1>2. IterationEffect
  BY <1>1 DEF IterationEffect
<1>3. ASSUME NEW u \in RefTasks, u # t PROVE WriteEffect(u) /\ DoneEffect(u)
  <2>1. u \in Tasks /\ w'.task[u] = w.task[u]
    BY <1>3 DEF RefTasks, Tasks
  <2>2. w.task[u].step = "write" => w.pc = "run"
    BY <2>1 DEF IInv, CopiesCurrent
  <2>3. w.task[u].step = "done" => w.pc = "run"
    BY DEF TakenOver
  <2> QED
    BY <1>1, <2>1, <2>2, <2>3 DEF WriteEffect, DoneEffect, CopyRefs
<1> QED
  BY <1>2, <1>3 DEF WorkerEffect

\* An iteration that begins, ends or has not started its goroutines.
LEMMA WorkerLoads ==
    ASSUME IInv, TakenOver,
           (\E n \in Namespaces : StartReconcile(n)) \/ CheckClaim \/ LoadOperatorConfig \/ LoadDriver
             \/ FinishReconcile \/ Restart
    PROVE  WorkerEffect
<1>0. w \in Worker /\ TypeInv /\ RefTasks \subseteq Tasks
  BY DEF IInv, TypeInv, TypeOK, RefTasks, Tasks
<1>1. \A t \in RefTasks : w'.task[t].step # "write" /\ w'.task[t].step # "done"
  <2>1. w'.task = w.task \/ w'.task = IdleWorker.task
    BY <1>0, IdleFacts DEF StartReconcile, CheckClaim, LoadOperatorConfig, LoadDriver, FinishReconcile,
                           Restart, Abandon, Worker
  <2>2. w.pc # "run" \/ w' = IdleWorker
    BY DEF StartReconcile, CheckClaim, LoadOperatorConfig, LoadDriver, FinishReconcile, Restart
  <2>3. w.pc # "run" => \A t \in RefTasks : w.task[t].step # "write" /\ w.task[t].step # "done"
    BY <1>0 DEF IInv, CopiesCurrent, TakenOver
  <2> QED
    BY <1>0, <2>1, <2>2, <2>3, IdleFacts
<1>2. IterationEffect
  <2>1. CASE w'.pc # "run"
    BY <2>1 DEF IterationEffect
  <2>2. CASE w'.pc = "run"
    <3>1. LoadDriver
      BY <1>0, <2>2, IdleFacts DEF StartReconcile, CheckClaim, LoadOperatorConfig, FinishReconcile, Restart,
                                   Abandon, Worker
    <3>2. w.ns \in Namespaces
      BY <1>0, <3>1 DEF LoadDriver, TypeInv, Loaded
    <3>3. /\ Cached(driver[w.ns]) # NoObj
          /\ w' = [w EXCEPT !.pc = "run", !.uid = Cached(driver[w.ns]).uid,
                            !.spec = Resolve(Merge(Cached(driver[w.ns]).spec, w.defaults))]
      BY <2>2, <3>1, IdleFacts DEF LoadDriver, Abandon
    <3>4. w'.ns = w.ns /\ w'.uid = Cached(driver[w.ns]).uid
      BY <1>0, <3>3 DEF Worker
    <3> QED
      BY <3>1, <3>2, <3>3, <3>4 DEF IterationEffect, Uids, LoadDriver, cluster
  <2> QED
    BY <2>1, <2>2
<1> QED
  BY <1>1, <1>2 DEF WorkerEffect, WriteEffect, DoneEffect

\* A goroutine reads: its copy is one of the versions in the log.
LEMMA WorkerReads ==
    ASSUME IInv, TakenOver, (\E o \in Owned : ReadOwned(o)) \/ ReadCsiDriver \/ ReadCsiConfig
    PROVE  WorkerEffect
<1>0. TypeInv /\ TypeOK /\ w \in Worker /\ Owned \subseteq Tasks
      /\ "csiDriver" \in Tasks /\ "csiConfig" \in Tasks
  BY DEF IInv, TypeInv, TypeOK, Tasks
<1>1. w.ns \in Namespaces
  BY <1>0, RunFacts DEF ReadOwned, ReadCsiDriver, ReadCsiConfig
<1>2. ASSUME NEW t \in Tasks, NEW log,
             Cached(log) \in Option(CsiDriverObj \cup OwnedObj \cup CsiConfigObj),
             w' = [w EXCEPT !.task[t] = [step |-> "write", copy |-> Cached(log), current |-> InSync(log)]],
             t \in RefTasks => (IF t = "csiConfig" THEN Refs(Cached(log)) ELSE Uids(Cached(log)))
                                  \subseteq LogRefs(w.ns, t)
      PROVE  WorkerEffect
  <2>1. InSync(log) \in BOOLEAN
    BY DEF InSync
  <2>2. /\ w'.pc = w.pc /\ w'.ns = w.ns /\ w'.uid = w.uid
        /\ w'.task[t].copy = Cached(log)
        /\ \A u \in Tasks \ {t} : w'.task[u] = w.task[u]
    BY <1>0, <1>2, <2>1, ReadMoves
  <2>3. w'.err = w.err /\ w'.task[t].step = "write"
    BY <1>0, <1>2 DEF Worker
  <2>4. t \in RefTasks => WriteEffect(t) /\ DoneEffect(t)
    BY <1>1, <1>2, <2>2, <2>3 DEF WriteEffect, DoneEffect, CopyRefs
  <2> QED
    BY <2>2, <2>3, <2>4, WorkerKept
<1>3. ASSUME NEW o \in Owned, ReadOwned(o) PROVE WorkerEffect
  <2>1. Cached(owned[w.ns][o]) \in Option(CsiDriverObj \cup OwnedObj \cup CsiConfigObj)
    BY <1>0, <1>1, ReadTypes DEF Option
  <2>2. o \in Tasks /\ o # "csiConfig" /\ owned[w.ns][o] \in Seq(Option(OwnedObj)) \ {<<>>}
    BY <1>0, <1>1, OwnedAssumption DEF TypeOK, Versions
  <2>3. Uids(Cached(owned[w.ns][o])) \subseteq LogRefs(w.ns, o)
    BY <2>2, ReadEntries DEF LogRefs
  <2> QED
    BY <1>2, <1>3, <2>1, <2>2, <2>3 DEF ReadOwned
<1>4. ASSUME ReadCsiDriver PROVE WorkerEffect
  <2>1. Cached(csiDriver) \in Option(CsiDriverObj \cup OwnedObj \cup CsiConfigObj)
    BY <1>0, ReadTypes DEF Option
  <2>2. "csiDriver" \notin RefTasks
    BY OwnedAssumption DEF RefTasks
  <2> QED
    BY <1>0, <1>2, <1>4, <2>1, <2>2 DEF ReadCsiDriver
<1>5. ASSUME ReadCsiConfig PROVE WorkerEffect
  <2>1. Cached(csiConfig[w.ns]) \in Option(CsiDriverObj \cup OwnedObj \cup CsiConfigObj)
    BY <1>0, <1>1, ReadTypes DEF Option
  <2>2. csiConfig[w.ns] \in Seq(Option(CsiConfigObj)) \ {<<>>}
    BY <1>0, <1>1 DEF TypeOK, Versions
  <2>3. Refs(Cached(csiConfig[w.ns])) \subseteq LogRefs(w.ns, "csiConfig")
    BY <2>2, ReadEntries DEF LogRefs
  <2> QED
    BY <1>0, <1>2, <1>5, <2>1, <2>3 DEF ReadCsiConfig
<1> QED
  BY <1>3, <1>4, <1>5

\* Others outdate a copy at most.
LEMMA WorkerOthers ==
    ASSUME IInv, TakenOver, Watch \/ Environment, ~Restart
    PROVE  WorkerEffect
<1>0. TypeInv /\ w \in Worker /\ Owned \subseteq Tasks /\ "csiDriver" \in Tasks /\ "csiConfig" \in Tasks
  BY DEF IInv, TypeInv, TypeOK, Tasks
<1>1. ASSUME w' = w PROVE WorkerEffect
  <2>1. WriteEffect("csiConfig") /\ DoneEffect("csiConfig")
    <3>1. w.task["csiConfig"].step = "write" => w.pc = "run"
      BY <1>0 DEF IInv, CopiesCurrent
    <3>2. w.pc = "run" => w.ns \in Namespaces
      BY <1>0 DEF TypeInv, Loaded
    <3>3. w.task["csiConfig"].step = "done" => w.pc = "run"
      BY DEF TakenOver, RefTasks
    <3> QED
      BY <1>1, <3>1, <3>2, <3>3 DEF WriteEffect, DoneEffect, CopyRefs
  <2> QED
    BY <1>0, <1>1, <2>1, WorkerKept
<1>2. ASSUME NEW t \in Tasks, Outdated(t) PROVE WorkerEffect
  <2>1. /\ w'.pc = w.pc /\ w'.ns = w.ns /\ w'.uid = w.uid
        /\ w'.task[t].copy = w.task[t].copy /\ w'.task[t].step = w.task[t].step
        /\ \A u \in Tasks \ {t} : w'.task[u] = w.task[u]
    BY <1>0, <1>2, OutdatedMoves
  <2>2. w'.err = w.err
    BY <1>0, <1>2 DEF Outdated, Worker
  <2>3. t \in RefTasks => WriteEffect(t) /\ DoneEffect(t)
    <3>1. w.task[t].step = "write" => w.pc = "run"
      BY DEF IInv, CopiesCurrent
    <3>2. w.pc = "run" => w.ns \in Namespaces
      BY <1>0 DEF TypeInv, Loaded
    <3>3. (t \in RefTasks /\ w.task[t].step = "done") => w.pc = "run"
      BY DEF TakenOver
    <3> QED
      BY <2>1, <2>2, <3>1, <3>2, <3>3 DEF WriteEffect, DoneEffect, CopyRefs
  <2> QED
    BY <2>1, <2>2, <2>3, WorkerKept
<1>3. w' = w \/ \E t \in Tasks : Outdated(t)
  <2>1. CASE Watch
    BY <1>0, <2>1, TypeWatch
  <2>2. CASE Environment
    BY <1>0, <2>2 DEF Environment, ApplyDriver, DeleteDriver, Resync, DisturbCsiConfig, CollectCsiConfig,
       ApplyOpConfig, DisturbCsiDriver, CollectOwned, DisturbOwned, OwnedOutdated, CsiConfigOutdated, cluster
  <2> QED
    BY <2>1, <2>2
<1> QED
  BY <1>1, <1>2, <1>3


\* The goroutine of a controlled object returns.
LEMMA OwnedReturns ==
    ASSUME IInv, TakenOver, NEW o \in Owned, DeleteUnwanted(o) \/ WriteOwned(o)
    PROVE  WorkerEffect /\ \A n \in Namespaces, t \in RefTasks : RefsShrink(n, t) \/ RefsTaken(n, t)
<1>0. TypeInv /\ TypeOK /\ w \in Worker /\ o \in Tasks /\ o \in RefTasks /\ o # "csiConfig"
  BY OwnedAssumption DEF IInv, TypeInv, TypeOK, Tasks, RefTasks
<1>1. /\ w.ns \in Namespaces /\ w.pc = "run" /\ w.task[o].step # "done"
      /\ \/ owned' = owned
         \/ \E v \in Option(OwnedObj) : /\ PutOwned(w.ns, o, v)
                                        /\ v # NoObj => v.uid = w.uid /\ Return(o, FALSE)
  BY <1>0, OwnedWrites
<1>2. PICK b \in BOOLEAN : Return(o, b)
  BY <1>0, OwnedWrites
<1>3. /\ w'.pc = w.pc /\ w'.ns = w.ns /\ w'.uid = w.uid /\ w'.task[o].step = "done"
      /\ \A u \in Tasks \ {o} : w'.task[u] = w.task[u]
      /\ ~w'.err => ~w.err
  BY <1>0, <1>2, ReturnMoves, ReturnErr
<1>4. csiConfig' = csiConfig
  BY DEF DeleteUnwanted, WriteOwned
<1>5. StoredRefs(w.ns, o) = Uids(Stored(owned[w.ns][o])) /\ StoredRefs(w.ns, o)' = Uids(Stored(owned'[w.ns][o]))
  <2>1. w'.ns = w.ns
    BY <1>3
  <2> QED
    BY <1>0, <2>1 DEF StoredRefs
<1>6. ASSUME NEW n \in Namespaces, NEW t \in RefTasks PROVE RefsShrink(n, t) \/ RefsTaken(n, t)
  <2>1. CASE t = "csiConfig" \/ owned' = owned
    BY <1>4, <2>1, RefsUnchanged
  <2>2. ASSUME NEW v \in Option(OwnedObj), PutOwned(w.ns, o, v), v # NoObj => v.uid = w.uid, t \in Owned
        PROVE  RefsShrink(n, t) \/ RefsTaken(n, t)
    <3>1. CASE n # w.ns \/ t # o
      BY <1>0, <1>1, <2>2, <3>1, OwnedPutRefs
    <3>2. CASE n = w.ns /\ t = o
      <4>1. StoredRefs(n, t)' = Uids(v) /\ LogRefs(n, t)' \subseteq LogRefs(n, t) \cup Uids(v)
        BY <1>0, <1>1, <2>2, <3>2, OwnedPutRefs
      <4>2. Uids(v) = {} \/ Uids(v) = {w.uid}
        BY <2>2 DEF Uids
      <4> QED
        BY <1>1, <1>3, <3>2, <4>1, <4>2 DEF RefsShrink, RefsTaken
    <3> QED
      BY <3>1, <3>2
  <2> QED
    BY <1>1, <2>1, <2>2 DEF RefTasks
<1>7. ~w'.err => \/ Stored(owned'[w.ns][o]) = NoObj
                 \/ w.task[o].step = "write" /\ CopyRefs(o) = {w.uid}
                 \/ Stored(owned'[w.ns][o]) = [uid |-> w.uid, spec |-> w.spec]
  <2>0. ASSUME NEW c \in BOOLEAN, Return(o, c), ~w'.err PROVE ~c
    BY <1>0, <2>0, ReturnErr
  <2>1. CASE DeleteUnwanted(o)
    <3>1. NoObj \in Option(OwnedObj)
      BY DEF Option
    <3>2. CASE Stored(owned[w.ns][o]) = NoObj /\ owned' = owned
      BY <3>2
    <3>3. CASE PutOwned(w.ns, o, NoObj)
      BY <1>0, <1>1, <3>1, <3>3, PutOwnedFacts
    <3>4. CASE Return(o, TRUE)
      BY <2>0, <3>4
    <3> QED
      BY <2>1, <3>2, <3>3, <3>4 DEF DeleteUnwanted
  <2>2. CASE WriteOwned(o)
    <3> DEFINE v == [uid |-> w.uid, spec |-> w.spec]
    <3>1. w.uid \in Nat \ {0} /\ w.spec \in Effective /\ w.task[o].step = "write"
      BY <1>0, <2>2, RunFacts DEF WriteOwned
    <3>2. v \in OwnedObj /\ v.uid = w.uid
      BY <3>1 DEF OwnedObj
    <3>3. v \in Option(OwnedObj) /\ v # NoObj
      BY <3>2, NoObjAssumption DEF Option
    <3>4. w.task[o].copy = v \/ PutOwned(w.ns, o, v) \/ Return(o, TRUE)
      BY <2>2 DEF WriteOwned, SetControllerReference
    <3>5. CASE w.task[o].copy = v
      <4>1. Uids(v) = {w.uid}
        BY <3>2, <3>3 DEF Uids
      <4> QED
        BY <1>0, <3>1, <3>5, <4>1 DEF CopyRefs
    <3>6. CASE PutOwned(w.ns, o, v)
      BY <1>0, <1>1, <3>3, <3>6, PutOwnedFacts
    <3>7. CASE Return(o, TRUE)
      BY <2>0, <3>7
    <3> QED
      BY <3>4, <3>5, <3>6, <3>7
  <2> QED
    BY <2>1, <2>2
<1>8. DoneEffect(o) /\ WriteEffect(o)
  <2>1. Uids(NoObj) = {} /\ Uids([uid |-> w.uid, spec |-> w.spec]) \subseteq {w.uid}
    BY DEF Uids
  <2>2. ~w'.err => \/ StoredRefs(w.ns, o)' \subseteq {w.uid}
                   \/ w.task[o].step = "write" /\ CopyRefs(o) = {w.uid}
    BY <1>5, <1>7, <2>1
  <2> QED
    BY <1>1, <1>3, <2>2 DEF DoneEffect, WriteEffect
<1>9. WorkerEffect
  BY <1>0, <1>3, <1>8, WorkerKept
<1> QED
  BY <1>6, <1>9

\* The goroutine of ceph-csi-config returns.
LEMMA ConfigReturns ==
    ASSUME IInv, TakenOver, WriteCsiConfig
    PROVE  WorkerEffect /\ \A n \in Namespaces, t \in RefTasks : RefsShrink(n, t) \/ RefsTaken(n, t)
<1>0. TypeInv /\ TypeOK /\ w \in Worker /\ "csiConfig" \in Tasks /\ "csiConfig" \in RefTasks
  BY DEF IInv, TypeInv, TypeOK, Tasks, RefTasks
<1>1. w.ns \in Namespaces /\ w.pc = "run" /\ w.task["csiConfig"].step = "write"
  BY <1>0, RunFacts DEF WriteCsiConfig
<1>2. PICK b \in BOOLEAN : Return("csiConfig", b)
  BY DEF WriteCsiConfig
<1>3. /\ w'.pc = w.pc /\ w'.ns = w.ns /\ w'.uid = w.uid /\ w'.task["csiConfig"].step = "done"
      /\ \A u \in Tasks \ {"csiConfig"} : w'.task[u] = w.task[u]
      /\ ~w'.err => ~w.err
  BY <1>0, <1>2, ReturnMoves, ReturnErr
<1>4. owned' = owned
  BY DEF WriteCsiConfig
<1>5. /\ MutatedConfig \in Option(CsiConfigObj) /\ MutatedConfig # NoObj
      /\ Refs(MutatedConfig) = {w.uid}
  <2>1. MutatedConfig \in CsiConfigObj /\ MutatedConfig.owners = {w.uid}
    BY <1>0, MutatedConfigType DEF WriteCsiConfig
  <2> QED
    BY <2>1, NoObjAssumption DEF Option, Refs
<1>6. \/ w.task["csiConfig"].copy = MutatedConfig /\ csiConfig' = csiConfig
      \/ PutCsiConfig(w.ns, MutatedConfig)
      \/ Return("csiConfig", TRUE) /\ csiConfig' = csiConfig
  BY DEF WriteCsiConfig, MutatedConfig
<1>7. CASE PutCsiConfig(w.ns, MutatedConfig)
  <2>1. /\ StoredRefs(w.ns, "csiConfig")' = {w.uid}
        /\ LogRefs(w.ns, "csiConfig")' \subseteq LogRefs(w.ns, "csiConfig") \cup {w.uid}
        /\ \A n \in Namespaces \ {w.ns} : RefsShrink(n, "csiConfig")
    <3>1. ASSUME NEW m \in Namespaces, m = w.ns
          PROVE  /\ StoredRefs(m, "csiConfig")' = {w.uid}
                 /\ LogRefs(m, "csiConfig")' \subseteq LogRefs(m, "csiConfig") \cup {w.uid}
                 /\ \A n \in Namespaces \ {m} : RefsShrink(n, "csiConfig")
      BY <1>0, <1>5, <1>7, <3>1, ConfigPutRefs
    <3> QED
      BY <1>1, <1>3, <3>1 DEF StoredRefs, LogRefs
  <2>2. ASSUME NEW n \in Namespaces, NEW t \in RefTasks PROVE RefsShrink(n, t) \/ RefsTaken(n, t)
    <3>1. CASE t # "csiConfig"
      BY <1>4, <3>1, RefsUnchanged
    <3>2. CASE t = "csiConfig" /\ n = w.ns
      <4>1. StoredRefs(n, t)' = {w.uid} /\ LogRefs(n, t)' \subseteq LogRefs(n, t) \cup {w.uid}
        BY <1>3, <2>1, <3>2 DEF StoredRefs, LogRefs
      <4> QED
        BY <1>1, <1>3, <3>2, <4>1 DEF RefsTaken
    <3>3. CASE t = "csiConfig" /\ n # w.ns
      BY <2>1, <3>3
    <3> QED
      BY <3>1, <3>2, <3>3
  <2>3. DoneEffect("csiConfig") /\ WriteEffect("csiConfig")
    BY <1>1, <1>3, <2>1 DEF DoneEffect, WriteEffect
  <2> QED
    BY <1>0, <1>3, <2>2, <2>3, WorkerKept
<1>8. CASE csiConfig' = csiConfig
  <2>1. \A n \in Namespaces, t \in RefTasks : RefsShrink(n, t)
    BY <1>4, <1>8, RefsUnchanged
  <2>2. ~w'.err => CopyRefs("csiConfig") = {w.uid} \/ StoredRefs(w.ns, "csiConfig")' \subseteq {w.uid}
    <3>1. CASE w.task["csiConfig"].copy = MutatedConfig
      BY <1>5, <3>1 DEF CopyRefs
    <3>2. CASE PutCsiConfig(w.ns, MutatedConfig)
      <4>1. Stored(csiConfig'[w.ns]) = MutatedConfig
        BY <1>0, <1>1, <1>5, <3>2, PutCsiConfigFacts
      <4> QED
        BY <1>3, <1>5, <4>1 DEF StoredRefs
    <3>3. CASE Return("csiConfig", TRUE)
      BY <1>0, <3>3, ReturnErr
    <3> QED
      BY <1>6, <3>1, <3>2, <3>3
  <2>3. DoneEffect("csiConfig") /\ WriteEffect("csiConfig")
    BY <1>1, <1>3, <2>2 DEF DoneEffect, WriteEffect
  <2> QED
    BY <1>0, <1>3, <2>1, <2>3, WorkerKept
<1> QED
  BY <1>6, <1>7, <1>8


LEMMA RefsEffect ==
    ASSUME IInv, TakenOver, [Next]_vars
    PROVE  WorkerEffect /\ \A n \in Namespaces, t \in RefTasks : RefsShrink(n, t) \/ RefsTaken(n, t)
<1>0. TypeInv /\ w \in Worker /\ "csiDriver" \in Tasks /\ "csiDriver" \notin RefTasks
  BY OwnedAssumption DEF IInv, TypeInv, TypeOK, Tasks, RefTasks
<1>1. ASSUME UNCHANGED <<owned, csiConfig>>
      PROVE  \A n \in Namespaces, t \in RefTasks : RefsShrink(n, t)
  BY <1>1, RefsUnchanged
<1>2. CASE \/ \E n \in Namespaces : StartReconcile(n)
           \/ CheckClaim \/ LoadOperatorConfig \/ LoadDriver \/ FinishReconcile
  <2>1. UNCHANGED <<owned, csiConfig>>
    BY <1>2 DEF StartReconcile, CheckClaim, LoadOperatorConfig, LoadDriver, FinishReconcile, cluster
  <2> QED
    BY <1>1, <1>2, <2>1, WorkerLoads
<1>3. CASE (\E o \in Owned : ReadOwned(o)) \/ ReadCsiDriver \/ ReadCsiConfig
  <2>1. UNCHANGED <<owned, csiConfig>>
    BY <1>3 DEF ReadOwned, ReadCsiDriver, ReadCsiConfig, cluster
  <2> QED
    BY <1>1, <1>3, <2>1, WorkerReads
<1>4. CASE WriteCsiDriver \/ DeleteCsiDriver \/ CreateCsiDriver
  <2>1. UNCHANGED <<owned, csiConfig>>
    BY <1>4 DEF WriteCsiDriver, DeleteCsiDriver, CreateCsiDriver
  <2>2. (\E b \in BOOLEAN : Return("csiDriver", b)) \/ (\E s \in TaskSteps : GoOn("csiDriver", s))
    BY <1>4 DEF WriteCsiDriver, DeleteCsiDriver, CreateCsiDriver, TaskSteps
  <2>3. /\ w'.pc = w.pc /\ w'.ns = w.ns /\ w'.uid = w.uid
        /\ \A u \in Tasks \ {"csiDriver"} : w'.task[u] = w.task[u]
    BY <1>0, <2>2, ReturnMoves, GoOnMoves
  <2>4. ~w'.err => ~w.err
    <3>1. CASE \E b \in BOOLEAN : Return("csiDriver", b)
      BY <1>0, <3>1, ReturnErr
    <3>2. CASE \E s \in TaskSteps : GoOn("csiDriver", s)
      BY <1>0, <3>2 DEF GoOn, Worker
    <3> QED
      BY <2>2, <3>1, <3>2
  <2> QED
    BY <1>0, <1>1, <2>1, <2>3, <2>4, WorkerKept
<1>5. CASE ReconcileStep
  BY <1>2, <1>3, <1>4, <1>5, OwnedReturns, ConfigReturns DEF ReconcileStep
<1>6. CASE Restart
  <2>1. Environment
    BY <1>6 DEF Environment
  <2> QED
    BY <1>0, <1>6, <2>1, WorkerLoads, RefsOthers
<1>7. CASE (Watch \/ Environment) /\ ~Restart
  BY <1>0, <1>7, WorkerOthers, RefsOthers
<1>8. CASE UNCHANGED vars
  <2>1. UNCHANGED <<owned, csiConfig>> /\ w' = w
    BY <1>8 DEF vars
  <2>2. w'.pc = w.pc /\ w'.ns = w.ns /\ w'.uid = w.uid /\ w'.err = w.err /\ w'.task = w.task
    BY <2>1
  <2> QED
    BY <1>0, <1>1, <2>1, <2>2, WorkerKept
<1> QED
  BY <1>2, <1>5, <1>6, <1>7, <1>8 DEF Next

LEMMA SuccNext == IInv /\ SuccInv /\ [Next]_vars => SuccInv'
<1> SUFFICES ASSUME IInv, SuccInv, [Next]_vars PROVE SuccInv'
  OBVIOUS
<1>0. TypeInv /\ DriversAscend /\ RefsAscend /\ IterationLatest /\ CopiesBehind /\ TakenOver
  BY DEF IInv, SuccInv
<1>1. /\ IterationEffect
      /\ \A t \in RefTasks : WriteEffect(t) /\ DoneEffect(t)
      /\ \A n \in Namespaces, t \in RefTasks : RefsShrink(n, t) \/ RefsTaken(n, t)
  BY <1>0, RefsEffect DEF WorkerEffect
<1>2. \A n \in Namespaces : DriverEffect(n)
  BY <1>0, DriverSteps
<1>3. /\ \A n \in Namespaces : UidsIn(driver[n]) \subseteq Nat /\ uids[n] \in Nat
      /\ \A n \in Namespaces, t \in RefTasks : LogRefs(n, t) \subseteq Nat /\ StoredRefs(n, t) \subseteq LogRefs(n, t)
      /\ w.uid \in Nat
  BY <1>0, RefTypes
<1>4. \A n \in Namespaces : uids'[n] \in Nat
  <2>1. TypeInv'
    BY <1>0, TypeNext
  <2> QED
    BY <2>1 DEF TypeInv, TypeOK
<1>5. w.pc = "run" => w.ns \in Namespaces
  BY <1>0 DEF TypeInv, Loaded
\* A number that is not above what the logs may show is not above what they show next.
<1>6. ASSUME NEW n \in Namespaces, NEW x \in Nat, x <= uids[n], Below({x}, UidsIn(driver[n]))
      PROVE  Below({x}, UidsIn(driver'[n])) /\ x <= uids'[n]
  <2>1. uids[n] <= uids'[n] /\ UidsIn(driver'[n]) \subseteq UidsIn(driver[n]) \cup {uids'[n]}
    BY <1>2 DEF DriverEffect
  <2>2. x <= uids'[n]
    BY <1>3, <1>4, <1>6, <2>1
  <2> QED
    BY <1>6, <2>1, <2>2 DEF Below
<1>7. DriversAscend'
  <2>1. ASSUME NEW n \in Namespaces PROVE Ascending(driver'[n]) /\ Below(UidsIn(driver'[n]), {uids'[n]})
    <3>1. /\ uids[n] <= uids'[n] /\ Ascending(driver'[n])
          /\ UidsIn(driver'[n]) \subseteq UidsIn(driver[n]) \cup {uids'[n]}
      BY <1>2 DEF DriverEffect
    <3>2. \A x \in UidsIn(driver[n]) : x <= uids[n]
      BY <1>0 DEF DriversAscend, Below
    <3>3. \A x \in UidsIn(driver'[n]) : x <= uids'[n]
      BY <1>3, <1>4, <3>1, <3>2
    <3> QED
      BY <3>1, <3>3 DEF Below
  <2> QED
    BY <2>1 DEF DriversAscend
<1>8. ASSUME NEW n \in Namespaces, NEW t \in RefTasks
      PROVE  /\ \A x \in LogRefs(n, t)' : x \in Nat /\ x <= uids[n] /\ Below({x}, UidsIn(driver[n]))
             /\ Below(LogRefs(n, t)', StoredRefs(n, t)')
  <2>1. /\ \A x \in LogRefs(n, t) : x \in Nat /\ x <= uids[n] /\ Below({x}, UidsIn(driver[n]))
        /\ Below(LogRefs(n, t), StoredRefs(n, t))
    BY <1>0, <1>3 DEF RefsAscend, Below
  <2>2. CASE RefsShrink(n, t)
    BY <2>1, <2>2 DEF RefsShrink, Below
  <2>3. CASE RefsTaken(n, t)
    <3>1. /\ n = w.ns /\ w.pc = "run" /\ StoredRefs(n, t)' = {w.uid}
          /\ LogRefs(n, t)' \subseteq LogRefs(n, t) \cup {w.uid}
      BY <2>3 DEF RefsTaken
    <3>2. w.uid <= uids[n] /\ Below({w.uid}, UidsIn(driver[n])) /\ \A x \in LogRefs(n, t) : x <= w.uid
      BY <1>0, <3>1 DEF IterationLatest, Below
    <3>3. w.uid <= w.uid
      BY <1>3
    <3> QED
      BY <1>3, <2>1, <3>1, <3>2, <3>3 DEF Below
  <2> QED
    BY <1>1, <2>2, <2>3
<1>9. RefsAscend'
  <2>1. ASSUME NEW n \in Namespaces, NEW t \in RefTasks
        PROVE  /\ Below(LogRefs(n, t)', UidsIn(driver'[n]))
               /\ Below(LogRefs(n, t)', {uids'[n]})
               /\ Below(LogRefs(n, t)', StoredRefs(n, t)')
    <3>1. \A x \in LogRefs(n, t)' : Below({x}, UidsIn(driver'[n])) /\ x <= uids'[n]
      BY <1>6, <1>8
    <3> QED
      BY <1>8, <3>1 DEF Below
  <2> QED
    BY <2>1 DEF RefsAscend
<1>10. IterationLatest'
  <2> SUFFICES ASSUME w'.pc = "run"
               PROVE  /\ Below({w'.uid}, UidsIn(driver'[w'.ns])) /\ w'.uid <= uids'[w'.ns]
                      /\ \A t \in RefTasks : Below(LogRefs(w.ns, t)', {w'.uid})
    BY DEF IterationLatest
  <2>1. w'.ns = w.ns /\ w.ns \in Namespaces
    BY <1>1 DEF IterationEffect
  <2>2. PICK n \in Namespaces : n = w.ns
    BY <2>1
  <2>3. \A t \in RefTasks : LogRefs(w.ns, t)' = LogRefs(n, t)'
    BY <2>1, <2>2 DEF LogRefs
  <2>4. CASE w.pc = "run" /\ w'.uid = w.uid
    <3>1. /\ Below({w.uid}, UidsIn(driver[n])) /\ w.uid <= uids[n]
          /\ \A t \in RefTasks : Below(LogRefs(n, t), {w.uid})
      BY <1>0, <2>2, <2>4 DEF IterationLatest
    <3>2. Below({w.uid}, UidsIn(driver'[n])) /\ w.uid <= uids'[n]
      BY <1>3, <1>6, <3>1
    <3>3. ASSUME NEW t \in RefTasks PROVE Below(LogRefs(n, t)', {w.uid})
      <4>1. LogRefs(n, t)' \subseteq LogRefs(n, t) \cup {w.uid}
        BY <1>1 DEF RefsShrink, RefsTaken
      <4>2. w.uid <= w.uid
        BY <1>3
      <4> QED
        BY <3>1, <4>1, <4>2 DEF Below
    <3> QED
      BY <2>1, <2>2, <2>3, <2>4, <3>2, <3>3
  <2>5. CASE UNCHANGED <<driver, uids, owned, csiConfig>> /\ w'.uid \in Uids(Cached(driver[w.ns]))
    <3>1. driver[n] \in Seq(Option(DriverObj)) \ {<<>>}
      BY <1>0 DEF TypeInv, TypeOK, Versions
    <3>2. w'.uid \in UidsIn(driver[n]) /\ w'.uid \in Uids(driver[n][1])
      BY <2>2, <2>5, <3>1, ReadEntries DEF Cached
    <3>3. Below({w'.uid}, UidsIn(driver[n]))
      <4>1. ASSUME NEW y \in UidsIn(driver[n]) PROVE w'.uid <= y
        <5>1. PICK j \in 1..Len(driver[n]) : y \in Uids(driver[n][j])
          BY DEF UidsIn
        <5>2. 1 \in 1..Len(driver[n]) /\ 1 <= j
          BY <3>1, LogElements
        <5>3. Below(Uids(driver[n][1]), Uids(driver[n][j]))
          BY <1>0, <5>2 DEF DriversAscend, Ascending
        <5> QED
          BY <3>2, <5>1, <5>3 DEF Below
      <4> QED
        BY <4>1 DEF Below
    <3>4. w'.uid <= uids[n]
      BY <1>0, <3>2 DEF DriversAscend, Below
    <3>5. ASSUME NEW t \in RefTasks PROVE Below(LogRefs(n, t)', {w'.uid})
      <4>1. LogRefs(n, t)' = LogRefs(n, t)
        BY <2>5 DEF LogRefs
      <4>2. Below(LogRefs(n, t), UidsIn(driver[n]))
        BY <1>0 DEF RefsAscend
      <4> QED
        BY <3>2, <4>1, <4>2 DEF Below
    <3> QED
      BY <2>1, <2>2, <2>3, <2>5, <3>3, <3>4, <3>5
  <2> QED
    BY <1>1, <2>4, <2>5 DEF IterationEffect
<1>11. CopiesBehind'
  <2> SUFFICES ASSUME NEW t \in RefTasks, w'.task[t].step = "write"
               PROVE  Below(CopyRefs(t)', StoredRefs(w.ns, t)')
    BY DEF CopiesBehind
  <2>1. w'.ns = w.ns /\ w.ns \in Namespaces
    BY <1>1 DEF WriteEffect
  <2>2. PICK n \in Namespaces : n = w.ns
    BY <2>1
  <2>3. StoredRefs(w.ns, t)' = StoredRefs(n, t)' /\ StoredRefs(w.ns, t) = StoredRefs(n, t)
    BY <2>1, <2>2 DEF StoredRefs
  <2>4. StoredRefs(n, t)' \subseteq StoredRefs(n, t)
    <3>1. ~RefsTaken(n, t)
      BY DEF RefsTaken
    <3> QED
      BY <1>1, <3>1 DEF RefsShrink
  <2>5. CASE w.task[t].step = "write" /\ CopyRefs(t)' = CopyRefs(t)
    BY <1>0, <2>3, <2>4, <2>5 DEF CopiesBehind, Below
  <2>6. CASE CopyRefs(t)' \subseteq LogRefs(w.ns, t)
    <3>1. Below(LogRefs(n, t), StoredRefs(n, t))
      BY <1>0 DEF RefsAscend
    <3> QED
      BY <2>2, <2>3, <2>4, <2>6, <3>1 DEF Below
  <2> QED
    BY <1>1, <2>5, <2>6 DEF WriteEffect
<1>12. TakenOver'
  <2> SUFFICES ASSUME NEW t \in RefTasks, w'.task[t].step = "done"
               PROVE  w'.pc = "run" /\ (~w'.err => StoredRefs(w.ns, t)' \subseteq {w'.uid})
    BY DEF TakenOver
  <2>1. /\ w'.pc = "run" /\ w.pc = "run" /\ w'.ns = w.ns /\ w'.uid = w.uid
        /\ ~w'.err => \/ w.task[t].step = "done" /\ ~w.err
                      \/ StoredRefs(w.ns, t)' \subseteq {w.uid}
                      \/ w.task[t].step = "write" /\ CopyRefs(t) = {w.uid}
    BY <1>1 DEF DoneEffect
  <2>2. PICK n \in Namespaces : n = w.ns
    BY <1>5, <2>1
  <2>3. StoredRefs(w.ns, t)' = StoredRefs(n, t)' /\ StoredRefs(w.ns, t) = StoredRefs(n, t)
    BY <2>1, <2>2 DEF StoredRefs
  <2>4. StoredRefs(n, t)' \subseteq StoredRefs(n, t) \/ StoredRefs(n, t)' = {w.uid}
    BY <1>1 DEF RefsShrink, RefsTaken
  <2>5. CASE w.task[t].step = "done" /\ ~w.err
    BY <1>0, <2>1, <2>3, <2>4, <2>5 DEF TakenOver
  <2>6. CASE w.task[t].step = "write" /\ CopyRefs(t) = {w.uid}
    <3>1. Below({w.uid}, StoredRefs(n, t)) /\ Below(LogRefs(n, t), {w.uid})
      BY <1>0, <2>1, <2>2, <2>3, <2>6 DEF CopiesBehind, IterationLatest
    <3>2. ASSUME NEW x \in StoredRefs(n, t) PROVE x = w.uid
      <4>1. x \in Nat /\ w.uid <= x /\ x <= w.uid
        BY <1>3, <3>1 DEF Below
      <4> QED
        BY <1>3, <4>1
    <3> QED
      BY <2>1, <2>3, <2>4, <3>2
  <2> QED
    BY <2>1, <2>3, <2>5, <2>6
<1> QED
  BY <1>7, <1>9, <1>10, <1>11, <1>12 DEF SuccInv

\* A Driver created anew takes over what its predecessor left behind and nothing is
\* handed back to a predecessor, for every lag of the caches and every interleaving.
THEOREM TakesOver == Spec => []SuccessorsTakeOver
<1>1. IInv /\ SuccInv => SuccessorsTakeOver
  <2> SUFFICES ASSUME IInv, SuccInv, w.pc = "run"
               PROVE  /\ \A o \in Owned : \A u \in Owners(w.ns, o) :
                            u <= w.uid /\ (w.task[o].step = "done" /\ ~w.err => u = w.uid)
                      /\ \A u \in ConfigOwners(w.ns) :
                            u <= w.uid /\ (w.task["csiConfig"].step = "done" /\ ~w.err => u = w.uid)
    BY DEF SuccessorsTakeOver
  <2>1. TypeInv /\ w.ns \in Namespaces
    BY DEF IInv, TypeInv, Loaded
  <2>2. ASSUME NEW t \in RefTasks, NEW u \in StoredRefs(w.ns, t)
        PROVE  u <= w.uid /\ (w.task[t].step = "done" /\ ~w.err => u = w.uid)
    <3>1. u \in LogRefs(w.ns, t)
      BY <2>1, RefTypes
    <3>2. u <= w.uid
      BY <3>1 DEF SuccInv, IterationLatest, Below
    <3>3. (w.task[t].step = "done" /\ ~w.err) => StoredRefs(w.ns, t) \subseteq {w.uid}
      BY DEF SuccInv, TakenOver
    <3> QED
      BY <3>2, <3>3
  <2>3. \A o \in Owned : Owners(w.ns, o) = StoredRefs(w.ns, o)
    BY OwnedAssumption DEF Owners, StoredRefs, Uids
  <2>4. ConfigOwners(w.ns) = StoredRefs(w.ns, "csiConfig")
    BY DEF ConfigOwners, StoredRefs, Refs
  <2> QED
    BY <2>2, <2>3, <2>4 DEF RefTasks
<1>2. Init => IInv /\ SuccInv
  BY CurrentInit, SuccInit
<1>3. (IInv /\ SuccInv) /\ [Next]_vars => (IInv /\ SuccInv)'
  BY CurrentNext, SuccNext
<1> QED
  BY <1>1, <1>2, <1>3, PTL DEF Spec

-----------------------------------------------------------------------------
(* The shared ConfigMap *)

\* The shared view of a ConfigMap that exists is not the absent one.
LEMMA SharedView ==
    ASSUME NEW n \in Namespaces, NEW v \in CsiConfigObj
    PROVE  [part |-> [none |-> {}, others |-> v.foreign],
            refs |-> [x \in {n, NoObj} |-> IF x = n THEN v.owners ELSE {}]] # NoObj
<1> DEFINE part == [none |-> {}, others |-> v.foreign]
           refs == [x \in {n, NoObj} |-> IF x = n THEN v.owners ELSE {}]
<1>1. part \in [none: {{}}, others: 0..2]
  BY DEF CsiConfigObj
<1>2. refs \in [{n, NoObj} -> SUBSET (Nat \ {0})]
  BY DEF CsiConfigObj
<1> HIDE DEF part, refs
<1>3. [part |-> part, refs |-> refs] \in SharedObj(n)
  BY <1>1, <1>2 DEF SharedObj
<1> QED
  BY <1>3, SharedAssumption DEF part, refs

\* Writing the Driver's reference on top of the stored version is a Write of the
\* shared ConfigMap.
LEMMA SharedWrite ==
    ASSUME IInv, WriteCsiConfig
    PROVE  /\ \A n \in Namespaces \ {w.ns} : csiConfig'[n] = csiConfig[n]
           /\ \/ csiConfig'[w.ns] = csiConfig[w.ns]
              \/ /\ Stored(csiConfig'[w.ns]) \in CsiConfigObj
                 /\ Stored(csiConfig'[w.ns]).owners = {w.uid}
                 /\ Stored(csiConfig'[w.ns]).foreign =
                      IF Stored(csiConfig[w.ns]) = NoObj THEN 0 ELSE Stored(csiConfig[w.ns]).foreign
<1>0. TypeInv /\ TypeOK /\ "csiConfig" \in Tasks /\ At("csiConfig", "write")
  BY DEF IInv, TypeInv, Tasks, WriteCsiConfig
<1>1. w.ns \in Namespaces /\ w.task["csiConfig"].step = "write"
  BY <1>0, RunFacts
<1>2. CASE UNCHANGED csiConfig
  BY <1>2
<1>3. CASE ~UNCHANGED csiConfig
  <2>1. /\ PutCsiConfig(w.ns, MutatedConfig)
        /\ IF w.task["csiConfig"].copy = NoObj THEN Stored(csiConfig[w.ns]) = NoObj
           ELSE w.task["csiConfig"].current
    BY <1>3 DEF WriteCsiConfig, MutatedConfig, Accepted
  <2>2. w.task["csiConfig"].copy = Stored(csiConfig[w.ns])
    BY <1>1, <2>1 DEF IInv, CopiesCurrent
  <2>3. /\ MutatedConfig \in CsiConfigObj
        /\ MutatedConfig.owners = {w.uid}
        /\ MutatedConfig.foreign = IF Stored(csiConfig[w.ns]) = NoObj THEN 0
                                   ELSE Stored(csiConfig[w.ns]).foreign
    BY <1>0, <2>2, MutatedConfigType
  <2>4. MutatedConfig \in Option(CsiConfigObj)
    BY <2>3 DEF Option
  <2>5. /\ Stored(csiConfig'[w.ns]) = MutatedConfig
        /\ \A n \in Namespaces \ {w.ns} : csiConfig'[n] = csiConfig[n]
    BY <1>0, <1>1, <2>1, <2>4, PutCsiConfigFacts
  <2> QED
    BY <2>3, <2>5
<1> QED
  BY <1>2, <1>3

SharedStep == \A n \in Namespaces : Shared(n)!Step

\* What each change of the stored object is in the shared ConfigMap.
LEMMA SharedSteps ==
    ASSUME TypeInv, NEW n \in Namespaces,
           \/ Stored(csiConfig'[n]) = Stored(csiConfig[n])
           \/ Stored(csiConfig'[n]) = NoObj
           \/ /\ w.ns = n
              /\ Stored(csiConfig'[n]) \in CsiConfigObj
              /\ \E u : Stored(csiConfig'[n]).owners = {u}
              /\ Stored(csiConfig'[n]).foreign =
                      IF Stored(csiConfig[n]) = NoObj THEN 0 ELSE Stored(csiConfig[n]).foreign
           \/ /\ Stored(csiConfig'[n]) \in CsiConfigObj
              /\ Stored(csiConfig'[n]).owners = IF Stored(csiConfig[n]) = NoObj THEN {}
                                                ELSE Stored(csiConfig[n]).owners
           \/ /\ Stored(csiConfig[n]) # NoObj
              /\ Stored(csiConfig'[n]) \in CsiConfigObj
              /\ Stored(csiConfig'[n]).foreign = Stored(csiConfig[n]).foreign
              /\ Stored(csiConfig'[n]).owners \subseteq Stored(csiConfig[n]).owners
    PROVE  Shared(n)!Step
<1> DEFINE old == Stored(csiConfig[n])
           new == Stored(csiConfig'[n])
           cm == SharedConfigMap(n)
           cmNew == SharedConfigMap(n)'
           PartOf == [x \in {n, NoObj} |-> IF x = n THEN "none" ELSE "others"]
           NoPart == [none |-> {}, others |-> 0]
           New == [part |-> NoPart, refs |-> [x \in DOMAIN PartOf |-> {}]]
           Cur == IF cm = NoObj THEN New ELSE cm
           View(v) == [part |-> [none |-> {}, others |-> v.foreign],
                       refs |-> [x \in {n, NoObj} |-> IF x = n THEN v.owners ELSE {}]]
<1>0. n # NoObj
  BY NoObjAssumption
<1>1. CASE new = old
  <2>1. cmNew = cm
    BY <1>1 DEF SharedConfigMap
  <2> QED
    BY <2>1 DEF Shared!Step
<1>2. CASE new = NoObj
  <2>1. cmNew = NoObj
    BY <1>2 DEF SharedConfigMap
  <2> QED
    BY <2>1 DEF Shared!Step, Shared!Next, Shared!Delete
<1>3. CASE old \in CsiConfigObj \/ old = NoObj
  <2> SUFFICES ASSUME new # old, new # NoObj, new \in CsiConfigObj PROVE Shared(n)!Step
    BY <1>1, <1>2
  <2>1. cmNew = View(new) /\ cmNew # NoObj
    BY SharedView DEF SharedConfigMap
  <2>2. cm = IF old = NoObj THEN NoObj ELSE View(old)
    BY DEF SharedConfigMap
  <2>3. old # NoObj => cm # NoObj
    BY <1>3, <2>2, SharedView
  <2>4. /\ Cur.part.none = {}
        /\ Cur.part.others = IF old = NoObj THEN 0 ELSE old.foreign
        /\ Cur.refs[n] = IF old = NoObj THEN {} ELSE old.owners
        /\ Cur.refs[NoObj] = {}
    BY <1>0, <2>2, <2>3
  <2>5. /\ cmNew.part.none = {} /\ cmNew.part.others = new.foreign
        /\ cmNew.refs[n] = new.owners /\ cmNew.refs[NoObj] = {}
    BY <1>0, <2>1
  <2>6. PartOf[n] = "none" /\ PartOf[NoObj] = "others" /\ DOMAIN PartOf = {n, NoObj}
        /\ DOMAIN NoPart = {"none", "others"}
    BY <1>0
  <2> HIDE DEF cm, cmNew, old, new
  <2>7. CASE /\ w.ns = n
             /\ \E u : new.owners = {u}
             /\ new.foreign = IF old = NoObj THEN 0 ELSE old.foreign
    <3>1. n \in {w.ns, NoObj} /\ n \in DOMAIN PartOf
      BY <2>7
    <3>2. \A x \in DOMAIN NoPart \ {PartOf[n]} : cmNew.part[x] = Cur.part[x]
      BY <2>4, <2>5, <2>6, <2>7
    <3>3. \A x \in DOMAIN PartOf \ {n} : cmNew.refs[x] = Cur.refs[x]
      BY <2>4, <2>5
    <3>4. \A u, v \in cmNew.refs[n] : u = v
      BY <2>5, <2>7
    <3>5. Shared(n)!Write(n)
      BY <2>1, <3>1, <3>2, <3>3, <3>4
         DEF Shared!Write, Shared!Current, Shared!New, Shared!Owners, Shared!Parts, cm, cmNew
    <3> QED
      BY <3>1, <3>5 DEF Shared!Step, Shared!Next, Shared!Owners
  <2>8. CASE new.owners = IF old = NoObj THEN {} ELSE old.owners
    <3>1. NoObj \in {w.ns, NoObj} /\ NoObj \in DOMAIN PartOf
      OBVIOUS
    <3>2. \A x \in DOMAIN NoPart \ {PartOf[NoObj]} : cmNew.part[x] = Cur.part[x]
      BY <2>4, <2>5, <2>6, <2>8
    <3>3. \A x \in DOMAIN PartOf \ {NoObj} : cmNew.refs[x] = Cur.refs[x]
      BY <2>4, <2>5, <2>8
    <3>4. \A u, v \in cmNew.refs[NoObj] : u = v
      BY <2>5
    <3>5. Shared(n)!Write(NoObj)
      BY <2>1, <3>1, <3>2, <3>3, <3>4
         DEF Shared!Write, Shared!Current, Shared!New, Shared!Owners, Shared!Parts, cm, cmNew
    <3> QED
      BY <3>1, <3>5 DEF Shared!Step, Shared!Next, Shared!Owners
  <2>9. CASE old # NoObj /\ new.foreign = old.foreign /\ new.owners \subseteq old.owners
    <3>1. cm # NoObj /\ cm = View(old)
      BY <2>2, <2>3, <2>9
    <3>2. cmNew.part = cm.part
      BY <2>1, <2>9, <3>1
    <3>3. \A x \in DOMAIN PartOf : cmNew.refs[x] \subseteq cm.refs[x]
      BY <1>0, <2>1, <2>9, <3>1
    <3>4. Shared(n)!Collect
      BY <2>1, <3>1, <3>2, <3>3 DEF Shared!Collect, Shared!Owners, cm, cmNew
    <3> QED
      BY <3>4 DEF Shared!Step, Shared!Next
  <2> QED
    BY <2>7, <2>8, <2>9 DEF old, new
<1> QED
  BY <1>3, ReadTypes DEF TypeInv, Option

LEMMA SharedNext == IInv /\ [Next]_vars => SharedStep
<1> SUFFICES ASSUME IInv, [Next]_vars PROVE SharedStep
  OBVIOUS
<1>0. TypeInv
  BY DEF IInv
<1>1. ASSUME \A n \in Namespaces : Stored(csiConfig'[n]) = Stored(csiConfig[n])
      PROVE  SharedStep
  BY <1>0, <1>1, SharedSteps DEF SharedStep
<1>2. CASE UNCHANGED csiConfig
  BY <1>1, <1>2
<1>3. CASE \E n \in Namespaces : StartReconcile(n)
  BY <1>2, <1>3 DEF StartReconcile, cluster
<1>4. CASE WriteCsiConfig
  BY <1>0, <1>4, SharedWrite, SharedSteps DEF SharedStep
<1>5. CASE ReconcileStep /\ ~WriteCsiConfig
  <2>1. UNCHANGED csiConfig
    BY <1>5 DEF ReconcileStep, CheckClaim, LoadOperatorConfig, LoadDriver, FinishReconcile, DeleteUnwanted,
                ReadOwned, WriteOwned, ReadCsiDriver, WriteCsiDriver, DeleteCsiDriver, CreateCsiDriver,
                ReadCsiConfig, cluster
  <2> QED
    BY <1>2, <2>1
<1>6. CASE Watch
  BY <1>0, <1>1, <1>6, TypeWatch
<1>7. ASSUME NEW n \in Namespaces, DisturbCsiConfig(n) \/ CollectCsiConfig(n)
      PROVE  SharedStep
  <2>1. ASSUME NEW m \in Namespaces PROVE Shared(m)!Step
    <3>1. CASE m = n
      BY <1>0, <1>7, <3>1, TypeOthersCsiConfig, SharedSteps
    <3>2. CASE m # n
      BY <1>0, <1>7, <3>2, TypeOthersCsiConfig, SharedSteps
    <3> QED
      BY <3>1, <3>2
  <2> QED
    BY <2>1 DEF SharedStep
<1>8. CASE Environment
  <2>1. CASE \/ \E n \in Namespaces, s \in Specs : ApplyDriver(n, s)
             \/ \E n \in Namespaces : DeleteDriver(n) \/ Resync(n)
             \/ \E s \in Option(Specs) : ApplyOpConfig(s)
             \/ DisturbCsiDriver
             \/ \E n \in Namespaces, o \in Owned : CollectOwned(n, o)
             \/ \E n \in Namespaces, o \in Owned, s \in Option({Resolve(x) : x \in Specs}) : DisturbOwned(n, o, s)
    BY <1>2, <2>1 DEF ApplyDriver, DeleteDriver, Resync, ApplyOpConfig, DisturbCsiDriver,
                      CollectOwned, DisturbOwned, cluster
  <2>2. CASE Restart
    BY <1>0, <1>1, <2>2, TypeRestart
  <2> QED
    BY <1>7, <1>8, <2>1, <2>2 DEF Environment
<1>9. CASE UNCHANGED vars
  BY <1>2, <1>9 DEF vars
<1> QED
  BY <1>3, <1>4, <1>5, <1>6, <1>8, <1>9 DEF Next

\* The Driver controller implements the shared ConfigMap of every namespace.
THEOREM SharesCsiConfigMap == Spec => SharesConfigMap
<1>1. Spec => []IInv
  BY CurrentInit, CurrentNext, PTL DEF Spec
<1>2. IInv /\ [Next]_vars => [SharedStep]_vars
  BY SharedNext
<1>3. Init => \A n \in Namespaces : Shared(n)!Init
  <2>1. ASSUME Init, NEW n \in Namespaces PROVE SharedConfigMap(n) = NoObj
    BY <2>1 DEF Init, SharedConfigMap, Stored
  <2> QED
    BY <2>1 DEF Shared!Init
<1> QED
  BY <1>1, <1>2, <1>3, PTL DEF Spec, SharesConfigMap, SharedStep
=============================================================================
