------------------- MODULE ClientProfileReplication_proofs -------------------
(***************************************************************************)
(* The election of the ClientProfileReplication controller is safe however *)
(* outdated the list it elects from: OldestReady holds for every number of *)
(* replications, profiles, operations, crashes and failing calls.          *)
(***************************************************************************)
EXTENDS ClientProfileReplication, VersionLog_proofs

\* The snapshots the cache shows now or will show.
Seen == {replications[i] : i \in 1..Len(replications)}

\* Nothing was created later than now.
Past == \A s \in Seen : \A n \in Names : s[n] # NoObj => s[n].created <= now

\* A stored replication that was never edited is in every snapshot as it was
\* created, or it is no older than anything in the snapshot: a list that lacks it
\* cannot have missed an older rival.
Ages ==
    \A s \in Seen : \A m \in Names :
        (stored[m] # NoObj /\ stored[m].generation = 1) =>
            \/ s[m] # NoObj /\ s[m].local = stored[m].local /\ s[m].created = stored[m].created
            \/ \A n \in Names : s[n] # NoObj => s[n].created <= stored[m].created

\* While the worker's copy is current, every snapshot shows that copy.
CopyCurrent ==
    w.pc \in {"getProfile", "list", "status"} =>
        /\ w.name \in Names /\ w.copy \in ReplicationObj
        /\ w.current => \A s \in Seen : s[w.name] = w.copy

\* The winner about to be marked Ready has no older rival, however long ago the
\* list was read.
Stands(copy) ==
    \A m \in Names : (/\ stored[m] # NoObj /\ stored[m].generation = 1
                      /\ stored[m].local = copy.local)
                     => ~(stored[m].created < copy.created)
ElectionStands ==
    (w.pc = "status" /\ w.status.phase = "Ready" /\ w.current) => Stands(w.copy)

Inv == TypeOK /\ Past /\ Ages /\ CopyCurrent /\ ElectionStands /\ OldestReady /\
       (w.pc # "idle" => w.name \in Names)

-----------------------------------------------------------------------------
(* What a step does to the log *)

\* Fewer snapshots, the stored one the same.
Forgets == Seen' \subseteq Seen /\ stored' = stored
\* One more snapshot, in which n has become v.
Writes(n, v) == /\ stored' = [stored EXCEPT ![n] = v]
                /\ Seen' = Seen \cup {stored'}

LEMMA StoredSeen == TypeOK => stored \in Seen /\ stored \in Snapshot /\ Seen \subseteq Snapshot
                              /\ Cached(replications) \in Seen
<1> SUFFICES ASSUME TypeOK PROVE stored \in Seen /\ stored \in Snapshot /\ Seen \subseteq Snapshot
                              /\ Cached(replications) \in Seen
  OBVIOUS
<1>1. replications \in Seq(Snapshot) \ {<<>>}
  BY DEF TypeOK
<1>2. 1 \in 1..Len(replications) /\ Len(replications) \in 1..Len(replications)
  BY <1>1, LogElements
<1> QED
  BY <1>1, <1>2 DEF stored, Stored, Cached, Seen

LEMMA ForgetsTail == TypeOK /\ ~InSync(replications) /\ replications' = Tail(replications) =>
                        Forgets /\ replications' \in Seq(Snapshot) \ {<<>>}
BY TailLog DEF TypeOK, Forgets, Seen, stored

LEMMA ForgetsRelist == TypeOK /\ replications' = Relist(replications) =>
                        Forgets /\ replications' \in Seq(Snapshot) \ {<<>>}
BY LogElements, StoredSeen DEF TypeOK, Forgets, Seen, stored, Relist, Stored

LEMMA ForgetsNothing == UNCHANGED replications => Forgets
BY DEF Forgets, Seen, stored

LEMMA WritesPut ==
    ASSUME TypeOK, NEW n \in Names, NEW v \in ReplicationObj \cup {NoObj}, PutReplication(n, v)
    PROVE  Writes(n, v) /\ replications' \in Seq(Snapshot) \ {<<>>}
<1> DEFINE s == [stored EXCEPT ![n] = v]
<1>1. s \in Snapshot /\ replications \in Seq(Snapshot) \ {<<>>}
  BY StoredSeen DEF Snapshot, TypeOK
<1>2. replications' = Append(replications, s)
  BY DEF PutReplication, stored
<1> HIDE DEF s
<1>3. /\ Len(replications) \in Nat
      /\ Len(replications') = Len(replications) + 1
      /\ \A i \in 1..Len(replications) : replications'[i] = replications[i]
      /\ replications'[Len(replications) + 1] = s
      /\ replications' \in Seq(Snapshot)
  BY <1>1, <1>2
<1>4. stored' = s /\ replications' # <<>>
  BY <1>3 DEF stored, Stored
<1>5. Seen' = Seen \cup {s}
  BY <1>3 DEF Seen
<1> QED
  BY <1>3, <1>4, <1>5 DEF Writes, s

-----------------------------------------------------------------------------
(* The parts of the invariant under the two kinds of steps *)

LEMMA Framed ==
    ASSUME TypeOK, Past, Ages, OldestReady, Forgets, now' = now
    PROVE  Past' /\ Ages' /\ OldestReady'
           /\ \A copy : Stands(copy) => Stands(copy)'
BY DEF Past, Ages, OldestReady, Ready, Stands, Forgets

\* Only the status changes.
LEMMA StatusWritten ==
    ASSUME TypeOK, Past, Ages, OldestReady, now' = now,
           NEW n \in Names, NEW v \in ReplicationObj, stored[n] # NoObj, Writes(n, v),
           v.created = stored[n].created, v.local = stored[n].local,
           v.generation = stored[n].generation,
           v.status.phase = "Ready" => Stands(stored[n])
    PROVE  Past' /\ Ages' /\ OldestReady'
<1>1. stored \in Snapshot /\ stored \in Seen /\ Seen \subseteq Snapshot
  BY StoredSeen
<1>2. /\ \A m \in Names : /\ stored'[m] # NoObj <=> stored[m] # NoObj
                          /\ stored[m] # NoObj => /\ stored'[m].created = stored[m].created
                                                  /\ stored'[m].local = stored[m].local
                                                  /\ stored'[m].generation = stored[m].generation
                                                  /\ m # n => stored'[m].status = stored[m].status
      /\ stored'[n] = v
  BY <1>1, NoObjAssumption DEF Writes, Snapshot
<1>3. Past'
  <2>1. \A m \in Names : stored'[m] # NoObj => stored'[m].created <= now'
    BY <1>1, <1>2 DEF Past
  <2> QED
    BY <2>1 DEF Past, Writes
<1>4. Ages'
  <2> SUFFICES ASSUME NEW s \in Seen', NEW m \in Names, stored'[m] # NoObj, stored'[m].generation = 1
               PROVE  \/ s[m] # NoObj /\ s[m].local = stored'[m].local /\ s[m].created = stored'[m].created
                      \/ \A a \in Names : s[a] # NoObj => s[a].created <= stored'[m].created
    BY DEF Ages
  <2>1. CASE s \in Seen
    BY <1>2, <2>1 DEF Ages
  <2>2. CASE s = stored'
    BY <2>2
  <2> QED
    BY <2>1, <2>2 DEF Writes
<1>5. OldestReady'
  <2> SUFFICES ASSUME NEW a \in Names, NEW m \in Names, Ready(a)', stored'[m] # NoObj,
                      stored'[a].local = stored'[m].local,
                      stored'[a].generation = 1, stored'[m].generation = 1
               PROVE  ~(stored'[m].created < stored'[a].created)
    BY DEF OldestReady
  <2>1. CASE a # n
    BY <1>2, <2>1 DEF OldestReady, Ready
  <2>2. CASE a = n
    BY <1>2, <2>2 DEF Stands, Ready
  <2> QED
    BY <2>1, <2>2
<1> QED
  BY <1>3, <1>4, <1>5

\* A replication is created, edited or deleted.
LEMMA UserWrote ==
    ASSUME TypeOK, Past, Ages, OldestReady, now' \in Nat, now' >= now,
           NEW n \in Names, NEW v \in ReplicationObj \cup {NoObj}, Writes(n, v),
           v # NoObj => \/ v.created = now' /\ v.status = Undecided
                        \/ /\ v.generation = 2
                           /\ stored[n] # NoObj /\ v.created = stored[n].created
    PROVE  Past' /\ Ages' /\ OldestReady'
           /\ \A copy : (copy.created \in Nat /\ copy.created <= now /\ Stands(copy)) => Stands(copy)'
<1>1. stored \in Snapshot /\ stored \in Seen /\ Seen \subseteq Snapshot
  BY StoredSeen
<1>2. stored'[n] = v /\ \A m \in Names : m # n => stored'[m] = stored[m]
  BY <1>1 DEF Writes, Snapshot
<1>t. \A s \in Seen : \A m \in Names : s[m] # NoObj => s[m].created \in Nat /\ s[m].created <= now
  BY <1>1 DEF Past, Snapshot, ReplicationObj
<1>u. now \in Nat /\ (v # NoObj => v.created \in Nat /\ v.created <= now')
  BY <1>1, <1>t DEF TypeOK, ReplicationObj
<1>3. Past'
  <2>1. \A s \in Seen : \A m \in Names : s[m] # NoObj => s[m].created <= now'
    BY <1>t, <1>u
  <2>2. \A m \in Names : stored'[m] # NoObj => stored'[m].created <= now'
    BY <1>1, <1>2, <1>u, <2>1
  <2> QED
    BY <2>1, <2>2 DEF Past, Writes
<1>4. Ages'
  <2> SUFFICES ASSUME NEW s \in Seen', NEW m \in Names, stored'[m] # NoObj, stored'[m].generation = 1
               PROVE  \/ s[m] # NoObj /\ s[m].local = stored'[m].local /\ s[m].created = stored'[m].created
                      \/ \A a \in Names : s[a] # NoObj => s[a].created <= stored'[m].created
    BY DEF Ages
  <2>1. CASE s = stored'
    BY <2>1
  <2>2. CASE s \in Seen /\ m # n
    BY <1>2, <2>2 DEF Ages
  <2>3. CASE s \in Seen /\ m = n
    <3>1. v.created = now'
      BY <1>2, <2>3
    <3> QED
      BY <1>2, <1>t, <1>u, <2>3, <3>1
  <2> QED
    BY <2>1, <2>2, <2>3 DEF Writes
<1>5. OldestReady'
  <2> SUFFICES ASSUME NEW a \in Names, NEW m \in Names, Ready(a)', stored'[m] # NoObj,
                      stored'[a].local = stored'[m].local,
                      stored'[a].generation = 1, stored'[m].generation = 1
               PROVE  ~(stored'[m].created < stored'[a].created)
    BY DEF OldestReady
  <2>1. a # n
    BY <1>2 DEF Ready, Undecided
  <2>2. CASE m = n
    BY <1>1, <1>2, <1>t, <1>u, <2>1, <2>2 DEF Ready
  <2>3. CASE m # n
    BY <1>2, <2>1, <2>3 DEF OldestReady, Ready
  <2> QED
    BY <2>2, <2>3
<1>6. ASSUME NEW copy, copy.created \in Nat, copy.created <= now, Stands(copy)
      PROVE  Stands(copy)'
  <2> SUFFICES ASSUME NEW m \in Names, stored'[m] # NoObj, stored'[m].generation = 1,
                      stored'[m].local = copy.local
               PROVE  ~(stored'[m].created < copy.created)
    BY DEF Stands
  <2>1. CASE m = n
    BY <1>2, <1>6, <1>u, <2>1
  <2>2. CASE m # n
    BY <1>2, <1>6, <2>2 DEF Stands
  <2> QED
    BY <2>1, <2>2
<1> QED
  BY <1>3, <1>4, <1>5, <1>6

-----------------------------------------------------------------------------
(* Init and Next *)

LEMMA InvInit == Init => Inv
<1> SUFFICES ASSUME Init PROVE Inv
  OBVIOUS
<1>1. [n \in Names |-> NoObj] \in Snapshot
  BY DEF Snapshot
<1>2. TypeOK
  BY <1>1, BoundsAssumption DEF Init, TypeOK, IdleWorker, Worker, Steps, Status, Undecided
<1>3. Seen = {[n \in Names |-> NoObj]} /\ stored = [n \in Names |-> NoObj]
  BY DEF Init, Seen, stored, Stored
<1> QED
  BY <1>2, <1>3 DEF Init, Inv, Past, Ages, CopyCurrent, ElectionStands, OldestReady, Ready, IdleWorker

\* Steps that leave the log alone or shorten it, and do not touch the worker.
LEMMA Unmoved ==
    ASSUME Inv, Forgets, replications' \in Seq(Snapshot) \ {<<>>}, now' = now, w' = w,
           profiles' \in Seq(SUBSET Profiles) \ {<<>>}, queue' \in SUBSET Names,
           left' \in [ops: Nat, crashes: Nat, faults: Nat]
    PROVE  Inv'
<1>1. TypeOK'
  BY DEF Inv, TypeOK
<1>2. Past' /\ Ages' /\ OldestReady' /\ \A copy : Stands(copy) => Stands(copy)'
  BY Framed DEF Inv
<1>3. CopyCurrent'
  BY DEF Inv, CopyCurrent, Forgets
<1>4. ElectionStands'
  BY <1>2 DEF Inv, ElectionStands
<1> QED
  BY <1>1, <1>2, <1>3, <1>4 DEF Inv

\* The worker returns to idle.
LEMMA Returns ==
    ASSUME Inv, TypeOK', Past', Ages', OldestReady', w' = IdleWorker
    PROVE  Inv'
BY DEF Inv, CopyCurrent, ElectionStands, IdleWorker

LEMMA IdleOK == IdleWorker \in Worker
BY DEF IdleWorker, Worker, Steps, Status, Undecided

LEMMA InvWorker == Inv /\ ((\E n \in Names : StartReconcile(n)) \/ ReconcileStep) => Inv'
<1> SUFFICES ASSUME Inv, (\E n \in Names : StartReconcile(n)) \/ ReconcileStep PROVE Inv'
  OBVIOUS
<1>0. TypeOK /\ Past /\ Ages /\ CopyCurrent /\ ElectionStands /\ OldestReady
      /\ (w.pc # "idle" => w.name \in Names) /\ w \in Worker
  BY DEF Inv, TypeOK
<1>s. stored \in Seen /\ stored \in Snapshot /\ Seen \subseteq Snapshot /\ Cached(replications) \in Seen
  BY <1>0, StoredSeen
<1>1. ASSUME NEW n \in Names, StartReconcile(n) PROVE Inv'
  <2>1. UNCHANGED <<replications, profiles, now, left>> /\ queue' \in SUBSET Names
    BY <1>0, <1>1 DEF StartReconcile, TypeOK
  <2>2. w' = [IdleWorker EXCEPT !.pc = "getReplication", !.name = n]
    BY <1>1 DEF StartReconcile
  <2>3. w' \in Worker /\ w'.pc = "getReplication" /\ w'.name = n
    BY <2>2, IdleOK DEF IdleWorker, Worker, Steps
  <2>4. Past' /\ Ages' /\ OldestReady'
    BY <1>0, <2>1, ForgetsNothing, Framed
  <2> QED
    BY <1>0, <2>1, <2>3, <2>4 DEF Inv, TypeOK, CopyCurrent, ElectionStands
<1>2. CASE LoadReplication
  <2> DEFINE v == Cached(replications)[w.name]
  <2>1. UNCHANGED <<replications, profiles, now, queue, left>> /\ w.name \in Names
    BY <1>0, <1>2 DEF LoadReplication
  <2>2. Past' /\ Ages' /\ OldestReady' /\ Seen' = Seen
    BY <1>0, <2>1, ForgetsNothing, Framed DEF Seen
  <2>3. CASE v = NoObj
    <3>1. w' = IdleWorker
      BY <1>2, <2>3 DEF LoadReplication
    <3> QED
      BY <1>0, <2>1, <2>2, <3>1, IdleOK, Returns DEF TypeOK
  <2>4. CASE v # NoObj
    <3>1. v \in ReplicationObj
      BY <1>s, <2>1, <2>4 DEF Snapshot
    <3>2. w' = [w EXCEPT !.pc = "getProfile", !.copy = v, !.current = Fresh(w.name)]
      BY <1>2, <2>4 DEF LoadReplication
    <3>3. w' \in Worker /\ w'.pc = "getProfile" /\ w'.name = w.name /\ w'.copy = v
          /\ w'.current = Fresh(w.name)
      <4>1. Fresh(w.name) \in BOOLEAN
        BY DEF Fresh
      <4> QED
        BY <1>0, <3>1, <3>2, <4>1 DEF Worker, Steps
    <3>4. Fresh(w.name) => \A s \in Seen : s[w.name] = v
      BY DEF Fresh, Seen, Cached
    <3> QED
      BY <1>0, <2>1, <2>2, <3>1, <3>3, <3>4 DEF Inv, TypeOK, CopyCurrent, ElectionStands
  <2> QED
    BY <2>3, <2>4
<1>3. CASE LoadProfile
  <2>1. UNCHANGED <<replications, profiles, now, queue, left>> /\ w.name \in Names
    BY <1>0, <1>3 DEF LoadProfile
  <2>2. Past' /\ Ages' /\ OldestReady' /\ Seen' = Seen
    BY <1>0, <2>1, ForgetsNothing, Framed DEF Seen
  <2>3. /\ w' \in Worker /\ w'.pc \in {"list", "status"} /\ w.pc = "getProfile"
        /\ w'.name = w.name /\ w'.copy = w.copy /\ w'.current = w.current
        /\ w'.pc = "status" => w'.status.phase = "Rejected"
    <3> DEFINE no == [phase |-> "Rejected", by |-> NoObj]
    <3>1. no \in Status /\ no.phase = "Rejected"
      BY DEF Status, Decisions
    <3>2. w.pc = "getProfile" /\ (w' = [w EXCEPT !.pc = "list"] \/ Decide(no))
      BY <1>3 DEF LoadProfile
    <3> HIDE DEF no
    <3> QED
      BY <1>0, <3>1, <3>2 DEF Decide, Worker, Steps
  <2> QED
    BY <1>0, <2>1, <2>2, <2>3 DEF Inv, TypeOK, CopyCurrent, ElectionStands
<1>4. CASE ElectWinner
  <2> DEFINE snap == Cached(replications)
             list == ListFor(snap, w.copy.local)
  <2>1. UNCHANGED <<replications, profiles, now, left>> /\ w.pc = "list" /\ w.name \in Names
    BY <1>0, <1>4 DEF ElectWinner
  <2>2. Past' /\ Ages' /\ OldestReady' /\ Seen' = Seen /\ stored' = stored
    BY <1>0, <2>1, ForgetsNothing, Framed DEF Seen, Forgets
  <2>3. CASE w' = IdleWorker /\ Requeue
    <3>1. queue' \in SUBSET Names
      BY <1>0, <2>1, <2>3 DEF Requeue, TypeOK
    <3> QED
      BY <1>0, <2>1, <2>2, <2>3, <3>1, IdleOK, Returns DEF TypeOK
  <2>4. ASSUME NEW winner \in list, IsOldest(snap, winner, list), UNCHANGED queue,
               Decide(IF winner = w.name THEN [phase |-> "Ready", by |-> NoObj]
                                         ELSE [phase |-> "Rejected", by |-> winner])
        PROVE  Inv'
    <3>0. winner \in Names
      BY DEF ListFor
    <3>1. /\ w' \in Worker /\ w'.pc = "status"
          /\ w'.name = w.name /\ w'.copy = w.copy /\ w'.current = w.current
          /\ w'.status.phase = "Ready" => winner = w.name
      BY <1>0, <2>4, <3>0 DEF Decide, Worker, Steps, Status, Decisions
    <3>2. (winner = w.name /\ w.current) => Stands(w.copy)
      <4> SUFFICES ASSUME winner = w.name, w.current,
                          NEW m \in Names, stored[m] # NoObj, stored[m].generation = 1,
                          stored[m].local = w.copy.local
                   PROVE  ~(stored[m].created < w.copy.created)
        BY DEF Stands
      <4>1. snap[w.name] = w.copy /\ w.copy \in ReplicationObj
        BY <1>0, <1>s, <2>1 DEF CopyCurrent
      <4>t. w.copy.created \in Nat /\ stored[m].created \in Nat
        BY <1>s, <4>1 DEF ReplicationObj, Snapshot
      <4>2. CASE snap[m] # NoObj /\ snap[m].local = stored[m].local /\ snap[m].created = stored[m].created
        <5>1. m \in list
          BY <4>2 DEF ListFor
        <5>2. m = winner \/ Precedes(snap, winner, m)
          BY <2>4, <5>1 DEF IsOldest
        <5> QED
          BY <4>1, <4>2, <4>t, <5>2 DEF Precedes
      <4>3. CASE \A n \in Names : snap[n] # NoObj => snap[n].created <= stored[m].created
        <5>1. w.copy # NoObj
          BY <4>1, NoObjAssumption
        <5> QED
          BY <2>1, <4>1, <4>3, <4>t, <5>1
      <4> QED
        BY <1>0, <1>s, <4>2, <4>3 DEF Ages
    <3> QED
      BY <1>0, <2>1, <2>2, <2>4, <3>1, <3>2 DEF Inv, TypeOK, CopyCurrent, ElectionStands, Stands
  <2> QED
    BY <1>4, <2>3, <2>4 DEF ElectWinner
<1>f. Fails => left' \in [ops: Nat, crashes: Nat, faults: Nat]
  <2>1. \A k \in Nat : k > 0 => k - 1 \in Nat
    OBVIOUS
  <2> QED
    BY <1>0, <2>1 DEF Fails, TypeOK
<1>r. w.pc # "idle" /\ Requeue => queue' \in SUBSET Names
  BY <1>0 DEF Requeue, TypeOK
<1>5. CASE FailLoad
  <2>1. /\ UNCHANGED <<replications, profiles, now>> /\ w' = IdleWorker
        /\ queue' \in SUBSET Names /\ left' \in [ops: Nat, crashes: Nat, faults: Nat]
    BY <1>5, <1>f, <1>r DEF FailLoad
  <2>2. Past' /\ Ages' /\ OldestReady'
    BY <1>0, <2>1, ForgetsNothing, Framed
  <2> QED
    BY <1>0, <2>1, <2>2, IdleOK, Returns DEF TypeOK
<1>6. CASE FailPhases
  <2>1. /\ UNCHANGED <<replications, profiles, now>>
        /\ queue' \in SUBSET Names /\ left' \in [ops: Nat, crashes: Nat, faults: Nat]
    BY <1>6, <1>f, <1>r DEF FailPhases
  <2>2. Past' /\ Ages' /\ OldestReady' /\ Seen' = Seen
    BY <1>0, <2>1, ForgetsNothing, Framed DEF Seen
  <2>3. /\ w' \in Worker /\ w'.pc = "status" /\ w.pc \in {"getProfile", "list"}
        /\ w'.name = w.name /\ w'.copy = w.copy /\ w'.current = w.current
        /\ w'.status.phase = "Pending"
    <3> DEFINE st == [phase |-> "Pending", by |-> w.copy.status.by]
    <3>1. w.copy \in ReplicationObj
      BY <1>0, <1>6 DEF FailPhases, CopyCurrent
    <3>2. st \in Status /\ st.phase = "Pending"
      BY <3>1 DEF Status, ReplicationObj
    <3>3. w.pc \in {"getProfile", "list"} /\ Decide(st)
      BY <1>6 DEF FailPhases
    <3> HIDE DEF st
    <3> QED
      BY <1>0, <3>2, <3>3 DEF Decide, Worker, Steps
  <2> QED
    BY <1>0, <2>1, <2>2, <2>3 DEF Inv, TypeOK, CopyCurrent, ElectionStands
<1>7. CASE UpdateStatus
  <2> DEFINE v == [w.copy EXCEPT !.status = w.status]
  <2>1. UNCHANGED <<profiles, now>> /\ w.pc = "status" /\ w' = IdleWorker /\ w.name \in Names
        /\ w.copy \in ReplicationObj /\ w.status \in Status
    BY <1>0, <1>7 DEF UpdateStatus, CopyCurrent, Worker
  <2>2. queue' \in SUBSET Names /\ left' \in [ops: Nat, crashes: Nat, faults: Nat]
    <3>1. left \in [ops: Nat, crashes: Nat, faults: Nat] /\ queue \in SUBSET Names
      BY <1>0 DEF TypeOK
    <3>2. left' = left \/ Fails
      BY <1>7 DEF UpdateStatus
    <3>3. queue' = queue \/ Requeue
      BY <1>7 DEF UpdateStatus
    <3> QED
      BY <1>f, <1>r, <2>1, <3>1, <3>2, <3>3
  <2>3. CASE UNCHANGED replications
    <3>1. Past' /\ Ages' /\ OldestReady'
      BY <1>0, <2>1, <2>3, ForgetsNothing, Framed
    <3> QED
      BY <1>0, <2>1, <2>2, <2>3, <3>1, IdleOK, Returns DEF TypeOK
  <2>4. CASE w.current /\ PutReplication(w.name, v)
    <3>1. stored[w.name] = w.copy /\ w.copy # NoObj
      BY <1>0, <1>s, <2>1, <2>4, NoObjAssumption DEF CopyCurrent
    <3>2. v \in ReplicationObj
      BY <2>1 DEF ReplicationObj
    <3>3. Writes(w.name, v) /\ replications' \in Seq(Snapshot) \ {<<>>}
      BY <1>0, <2>1, <2>4, <3>2, WritesPut
    <3>4. w.status.phase = "Ready" => Stands(stored[w.name])
      BY <1>0, <2>1, <2>4, <3>1 DEF ElectionStands
    <3>5. /\ v.created = w.copy.created /\ v.local = w.copy.local
          /\ v.generation = w.copy.generation /\ v.status = w.status
      BY <2>1 DEF ReplicationObj
    <3> HIDE DEF v
    <3>6. Past' /\ Ages' /\ OldestReady'
      BY <1>0, <2>1, <3>1, <3>2, <3>3, <3>4, <3>5, StatusWritten
    <3> QED
      BY <1>0, <2>1, <2>2, <3>3, <3>6, IdleOK, Returns DEF TypeOK
  <2> QED
    BY <1>7, <2>3, <2>4 DEF UpdateStatus
<1> QED
  BY <1>1, <1>2, <1>3, <1>4, <1>5, <1>6, <1>7 DEF ReconcileStep

LEMMA InvWatch == Inv /\ (DeliverReplications \/ DeliverProfiles) => Inv'
<1> SUFFICES ASSUME Inv, DeliverReplications \/ DeliverProfiles PROVE Inv'
  OBVIOUS
<1>0. TypeOK
  BY DEF Inv
<1>1. CASE DeliverReplications
  <2>1. Forgets /\ replications' \in Seq(Snapshot) \ {<<>>}
    BY <1>0, <1>1, ForgetsTail DEF DeliverReplications
  <2>2. queue' \in SUBSET Names
    BY <1>0, <1>1 DEF DeliverReplications, Changed, TypeOK
  <2> QED
    BY <1>0, <1>1, <2>1, <2>2, Unmoved DEF DeliverReplications, TypeOK
<1>2. CASE DeliverProfiles
  <2>1. profiles' \in Seq(SUBSET Profiles) \ {<<>>}
    BY <1>0, <1>2, TailLog DEF DeliverProfiles, TypeOK
  <2>2. queue' \in SUBSET Names
    BY <1>0, <1>2 DEF DeliverProfiles, ProfileRequests, ListFor, TypeOK
  <2> QED
    BY <1>0, <1>2, <2>1, <2>2, ForgetsNothing, Unmoved DEF DeliverProfiles, TypeOK
<1> QED
  BY <1>1, <1>2

LEMMA OperationOK == TypeOK /\ Operation => left' \in [ops: Nat, crashes: Nat, faults: Nat]
<1>1. \A k \in Nat : k > 0 => k - 1 \in Nat
  OBVIOUS
<1> QED
  BY <1>1 DEF TypeOK, Operation

\* Steps that write replication n.
LEMMA Wrote ==
    ASSUME Inv, Operation, now' \in Nat, now' >= now, UNCHANGED <<profiles, queue>>,
           NEW n \in Names, NEW v \in ReplicationObj \cup {NoObj}, PutReplication(n, v), Outdated(n),
           v # NoObj => \/ v.created = now' /\ v.status = Undecided
                        \/ /\ v.generation = 2
                           /\ stored[n] # NoObj /\ v.created = stored[n].created
    PROVE  Inv'
<1>0. TypeOK /\ Past /\ Ages /\ CopyCurrent /\ ElectionStands /\ OldestReady /\ w \in Worker
      /\ (w.pc # "idle" => w.name \in Names)
  BY DEF Inv, TypeOK
<1>1. Writes(n, v) /\ replications' \in Seq(Snapshot) \ {<<>>}
  BY <1>0, WritesPut
<1>2. Past' /\ Ages' /\ OldestReady'
      /\ \A copy : (copy.created \in Nat /\ copy.created <= now /\ Stands(copy)) => Stands(copy)'
  BY <1>0, <1>1, UserWrote
<1>3. /\ w' \in Worker /\ w'.pc = w.pc /\ w'.name = w.name /\ w'.copy = w.copy /\ w'.status = w.status
      /\ w'.current => w.current /\ w.name # n
  BY <1>0 DEF Outdated, Worker
<1>4. TypeOK'
  BY <1>0, <1>1, <1>3, OperationOK DEF TypeOK
<1>s. stored \in Seen /\ stored \in Snapshot
  BY <1>0, StoredSeen
<1>5. CopyCurrent'
  <2> SUFFICES ASSUME w.pc \in {"getProfile", "list", "status"}, w'.current, NEW s \in Seen'
               PROVE  s[w.name] = w.copy
    BY <1>0, <1>3 DEF CopyCurrent
  <2>1. w.name \in Names /\ w.name # n /\ \A t \in Seen : t[w.name] = w.copy
    BY <1>0, <1>3 DEF CopyCurrent
  <2>2. stored'[w.name] = stored[w.name]
    BY <1>1, <1>s, <2>1 DEF Writes, Snapshot
  <2> QED
    BY <1>1, <1>s, <2>1, <2>2 DEF Writes
<1>6. ElectionStands'
  <2> SUFFICES ASSUME w.pc = "status", w.status.phase = "Ready", w.current
               PROVE  Stands(w.copy)'
    BY <1>3 DEF ElectionStands, Stands
  <2>1. w.copy \in ReplicationObj /\ stored[w.name] = w.copy /\ w.name \in Names
    BY <1>0, <1>s DEF CopyCurrent
  <2>2. w.copy.created \in Nat /\ w.copy.created <= now
    BY <1>0, <1>s, <2>1, NoObjAssumption DEF Past, ReplicationObj
  <2>3. Stands(w.copy)
    BY <1>0 DEF ElectionStands
  <2> QED
    BY <1>2, <1>3, <2>2, <2>3 DEF Stands
<1> QED
  BY <1>0, <1>2, <1>3, <1>4, <1>5, <1>6 DEF Inv

LEMMA InvEnvironment == Inv /\ Environment => Inv'
<1> SUFFICES ASSUME Inv, Environment PROVE Inv'
  OBVIOUS
<1>0. TypeOK /\ now \in Nat
  BY DEF Inv, TypeOK
<1>s. stored \in Snapshot /\ Stored(replications) = stored
  BY <1>0, StoredSeen DEF stored
<1>1. ASSUME NEW n \in Names, NEW p \in Profiles, CreateReplication(n, p) PROVE Inv'
  <2> DEFINE v == [created |-> now', generation |-> 1, local |-> p, status |-> Undecided]
  <2>1. now' \in Nat /\ now' >= now
    BY <1>0, <1>1 DEF CreateReplication
  <2>2. v \in ReplicationObj
    BY <2>1 DEF ReplicationObj, Undecided, Status
  <2> QED
    BY <1>1, <2>1, <2>2, Wrote DEF CreateReplication
<1>2. ASSUME NEW n \in Names, NEW p \in Profiles, EditReplication(n, p) PROVE Inv'
  <2> DEFINE v == [stored[n] EXCEPT !.local = p, !.generation = 2]
  <2>1. stored[n] \in ReplicationObj /\ stored[n] # NoObj
    BY <1>2, <1>s DEF EditReplication, Snapshot
  <2>2. v \in ReplicationObj /\ v.generation = 2 /\ v.created = stored[n].created
    BY <2>1 DEF ReplicationObj
  <2>3. now' = now /\ now' >= now /\ PutReplication(n, v)
    BY <1>0, <1>2, <1>s DEF EditReplication
  <2> QED
    BY <1>0, <1>2, <2>1, <2>2, <2>3, Wrote DEF EditReplication
<1>3. ASSUME NEW n \in Names, DeleteReplication(n) PROVE Inv'
  <2>1. now' = now /\ now' >= now
    BY <1>0, <1>3 DEF DeleteReplication
  <2> QED
    BY <1>0, <1>3, <2>1, Wrote DEF DeleteReplication
<1>4. ASSUME NEW p \in Profiles, ToggleProfile(p) PROVE Inv'
  <2>1. Stored(profiles) \in SUBSET Profiles /\ profiles \in Seq(SUBSET Profiles) \ {<<>>}
    BY <1>0, LogElements DEF TypeOK
  <2> DEFINE S == IF p \in Stored(profiles) THEN Stored(profiles) \ {p} ELSE Stored(profiles) \cup {p}
  <2>2. S \in SUBSET Profiles
    BY <2>1
  <2>3. profiles' = Append(profiles, S)
    BY <1>4 DEF ToggleProfile
  <2> HIDE DEF S
  <2>4. profiles' \in Seq(SUBSET Profiles) \ {<<>>}
    BY <2>1, <2>2, <2>3
  <2> QED
    BY <1>0, <1>4, <2>4, OperationOK, ForgetsNothing, Unmoved DEF ToggleProfile, TypeOK
<1>5. CASE Restart
  <2>1. Forgets /\ replications' \in Seq(Snapshot) \ {<<>>}
    BY <1>0, <1>5, ForgetsRelist DEF Restart
  <2>2. profiles' \in Seq(SUBSET Profiles) \ {<<>>}
    BY <1>0, <1>5, LogElements DEF Restart, TypeOK
  <2>3. left' \in [ops: Nat, crashes: Nat, faults: Nat]
    <3>1. \A k \in Nat : k > 0 => k - 1 \in Nat
      OBVIOUS
    <3> QED
      BY <1>0, <1>5, <3>1 DEF Restart, TypeOK
  <2>4. Past' /\ Ages' /\ OldestReady'
    BY <1>5, <2>1, Framed DEF Restart, Inv
  <2>5. TypeOK'
    BY <1>0, <1>5, <2>1, <2>2, <2>3, IdleOK DEF Restart, TypeOK
  <2> QED
    BY <1>5, <2>4, <2>5, Returns DEF Restart
<1>6. ASSUME NEW n \in Names, Resync(n) PROVE Inv'
  <2>1. queue' \in SUBSET Names
    BY <1>0, <1>6 DEF Resync, TypeOK
  <2> QED
    BY <1>0, <1>6, <2>1, OperationOK, ForgetsNothing, Unmoved DEF Resync, TypeOK
<1> QED
  BY <1>1, <1>2, <1>3, <1>4, <1>5, <1>6 DEF Environment

\* Every variable of the controller holds what the code's types allow, and the
\* younger of two never edited replications of a profile is not Ready while the
\* older one exists, on any number of replications and after any history.
THEOREM ElectionSafe == Spec => [](TypeOK /\ OldestReady)
<1>1. Init => Inv
  BY InvInit
<1>2. Inv /\ [Next]_vars => Inv'
  <2>1. CASE UNCHANGED vars
    <3>1. Inv => TypeOK
      BY DEF Inv
    <3> QED
      BY <2>1, <3>1, ForgetsNothing, Unmoved DEF vars, TypeOK
  <2> QED
    BY <2>1, InvWorker, InvWatch, InvEnvironment DEF Next
<1>3. Inv => TypeOK /\ OldestReady
  BY DEF Inv
<1> QED
  BY <1>1, <1>2, <1>3, PTL DEF Spec

\* Every variable of the controller holds what the code's types allow.
THEOREM TypeCorrect == Spec => []TypeOK
BY ElectionSafe, PTL
=============================================================================
