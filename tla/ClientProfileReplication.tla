---------------------- MODULE ClientProfileReplication ----------------------
(***************************************************************************)
(* The ClientProfileReplication controller: one worker that elects, among  *)
(* the replications of one ClientProfile, the oldest one and marks the one *)
(* it reconciles Ready or Rejected.  It decides on what the informer cache *)
(* shows and only ever writes the status of the replication at hand.       *)
(*                                                                         *)
(* An informer delivers the events of one kind in the order the API server *)
(* committed them, so replications and profiles are each one log of        *)
(* snapshots of all objects of the kind.                                   *)
(***************************************************************************)
EXTENDS VersionLog

CONSTANTS
    Names,       \* names of ClientProfileReplications, as numbers: names are ordered
    Profiles,    \* names of ClientProfiles
    NoObj,       \* an object that does not exist
    MaxOps,      \* bound: operations of users, and resyncs
    MaxCrashes,  \* bound: crashes of the operator
    MaxFaults    \* bound: calls that fail without effect

ASSUME NamesAssumption == Names \subseteq Nat
ASSUME BoundsAssumption == MaxOps \in Nat /\ MaxCrashes \in Nat /\ MaxFaults \in Nat

VARIABLES
    replications,  \* snapshots of the ClientProfileReplications, cached to stored
    profiles,      \* snapshots of the set of ClientProfiles that exist
    now,           \* the clock creation timestamps are taken from, in seconds
    queue,         \* the workqueue: names of replications to reconcile
    w,             \* the worker's reconcile iteration
    left           \* what remains of the bounds

vars == <<replications, profiles, now, queue, w, left>>

-----------------------------------------------------------------------------
(* Objects *)

Decisions == {"Ready", "Rejected"}

\* by is the winner the message names; NoObj when the message names none: it says
\* that the replication is accepted or that the ClientProfile was not found.
Status == [phase: {"None", "Pending"} \cup Decisions, by: Names \cup {NoObj}]
Undecided == [phase |-> "None", by |-> NoObj]

\* generation counts spec changes up to 2: 1 is the spec of the creation.
ReplicationObj == [created: Nat, generation: {1, 2}, local: Profiles, status: Status]

ASSUME NoObjAssumption == NoObj \notin Names \cup ReplicationObj

Snapshot == [Names -> ReplicationObj \cup {NoObj}]

\* The replications a snapshot has of a profile (the field index).
ListFor(snap, p) == {n \in Names : snap[n] # NoObj /\ snap[n].local = p}

\* Fault: the name alone decides.
PrecedesByName(snap, n, m) == n < m

\* The order of the sort: by creation timestamp, then by name.
Precedes(snap, n, m) ==
    \/ snap[n].created < snap[m].created
    \/ snap[n].created = snap[m].created /\ n < m

\* n comes first in the sorted list.
IsOldest(snap, n, S) == n \in S /\ \A m \in S \ {n} : Precedes(snap, n, m)

-----------------------------------------------------------------------------
(* The worker *)

Steps == {"idle", "getReplication", "getProfile", "list", "status"}

\* copy is the object in the worker's memory, current says that its
\* resourceVersion is still the stored one, status is the status to be written.
Worker == [pc: Steps, name: Names \cup {NoObj}, copy: ReplicationObj \cup {NoObj},
           current: BOOLEAN, status: Status]

IdleWorker == [pc |-> "idle", name |-> NoObj, copy |-> NoObj, current |-> FALSE,
               status |-> Undecided]

\* The cached version of a replication is the stored one.
Fresh(n) == \A i \in 1..Len(replications) : replications[i][n] = replications[1][n]

PutReplication(n, v) == replications' = Append(replications, [Stored(replications) EXCEPT ![n] = v])

Requeue == queue' = queue \cup {w.name}

-----------------------------------------------------------------------------
(* One reconcile iteration *)

StartReconcile(n) ==
    /\ w.pc = "idle" /\ n \in queue
    /\ queue' = queue \ {n}
    /\ w' = [IdleWorker EXCEPT !.pc = "getReplication", !.name = n]
    /\ UNCHANGED <<replications, profiles, now, left>>

\* reconcile: Get the replication; one that is gone is ignored.
LoadReplication ==
    /\ w.pc = "getReplication"
    /\ LET v == Cached(replications)[w.name]
       IN  w' = IF v = NoObj THEN IdleWorker
                ELSE [w EXCEPT !.pc = "getProfile", !.copy = v, !.current = Fresh(w.name)]
    /\ UNCHANGED <<replications, profiles, now, queue, left>>

Decide(status) == w' = [w EXCEPT !.pc = "status", !.status = status]

\* Fault: the rejection names the profile instead of a replication.
LoadProfileNamed ==
    /\ w.pc = "getProfile"
    /\ IF w.copy.local \in Cached(profiles)
       THEN w' = [w EXCEPT !.pc = "list"]
       ELSE Decide([phase |-> "Rejected", by |-> w.copy.local])
    /\ UNCHANGED <<replications, profiles, now, queue, left>>

\* reconcilePhases: the ClientProfile must exist.
LoadProfile ==
    /\ w.pc = "getProfile"
    /\ IF w.copy.local \in Cached(profiles)
       THEN w' = [w EXCEPT !.pc = "list"]
       ELSE Decide([phase |-> "Rejected", by |-> NoObj])
    /\ UNCHANGED <<replications, profiles, now, queue, left>>

\* reconcilePhases: the oldest of the list wins.  The list may be empty by now: the
\* index is then out of range, the panic is recovered and the request retried.
ElectWinner ==
    /\ w.pc = "list"
    /\ LET list == ListFor(Cached(replications), w.copy.local)
       IN  \/ /\ list = {}
              /\ w' = IdleWorker
              /\ Requeue
           \/ /\ \E winner \in list :
                    /\ IsOldest(Cached(replications), winner, list)
                    /\ Decide(IF winner = w.name THEN [phase |-> "Ready", by |-> NoObj]
                                                 ELSE [phase |-> "Rejected", by |-> winner])
              /\ UNCHANGED queue
    /\ UNCHANGED <<replications, profiles, now, left>>

Fails == left.faults > 0 /\ left' = [left EXCEPT !.faults = @ - 1]

\* reconcile: an error of the Get other than NotFound is returned.
FailLoad ==
    /\ w.pc = "getReplication"
    /\ Fails
    /\ w' = IdleWorker
    /\ Requeue
    /\ UNCHANGED <<replications, profiles, now>>

\* reconcilePhases: the Get of the profile or the List fails.  The status, Pending
\* with the message it had, is written all the same, and the error is returned: with
\* one worker the request may as well be queued now.
FailPhases ==
    /\ w.pc \in {"getProfile", "list"}
    /\ Fails
    /\ Decide([phase |-> "Pending", by |-> w.copy.status.by])
    /\ Requeue
    /\ UNCHANGED <<replications, profiles, now>>

\* reconcile: Status().Update.  A status that does not change makes no version.
UpdateStatus ==
    /\ w.pc = "status"
    /\ w' = IdleWorker
    /\ LET v == [w.copy EXCEPT !.status = w.status]
       IN  \/ /\ w.current
              /\ IF v = w.copy THEN UNCHANGED replications ELSE PutReplication(w.name, v)
              /\ UNCHANGED <<queue, left>>
           \/ /\ ~w.current
              /\ Requeue
              /\ UNCHANGED <<replications, left>>
           \/ /\ Fails
              /\ Requeue
              /\ UNCHANGED replications
    /\ UNCHANGED <<profiles, now>>

ReconcileStep == LoadReplication \/ LoadProfile \/ ElectWinner \/ FailLoad \/ FailPhases \/ UpdateStatus

-----------------------------------------------------------------------------
(* Watches *)

Changed(old, new) == {n \in Names : old[n] # new[n]}

\* For: an event of a replication is a request for it.
DeliverReplications ==
    /\ ~InSync(replications)
    /\ replications' = Tail(replications)
    /\ queue' = queue \cup Changed(replications[1], replications[2])
    /\ UNCHANGED <<profiles, now, w, left>>

\* Fault: only the creation of a profile is watched.
ProfileRequestsOnCreate(old, new) ==
    UNION {ListFor(Cached(replications), p) : p \in new \ old}

\* Watches: the creation and the deletion of a profile are requests for the
\* replications the cache has of it.
ProfileRequests(old, new) ==
    UNION {ListFor(Cached(replications), p) : p \in (old \ new) \cup (new \ old)}

DeliverProfiles ==
    /\ ~InSync(profiles)
    /\ profiles' = Tail(profiles)
    /\ queue' = queue \cup ProfileRequests(profiles[1], profiles[2])
    /\ UNCHANGED <<replications, now, w, left>>

-----------------------------------------------------------------------------
(* Users, resyncs and crashes *)

Operation == left.ops > 0 /\ left' = [left EXCEPT !.ops = @ - 1]

Outdated(n) == w' = [w EXCEPT !.current = @ /\ w.name # n]

\* Timestamps have a resolution of one second: two replications may share one.
CreateReplication(n, p) ==
    /\ Operation
    /\ Stored(replications)[n] = NoObj
    /\ now' \in {now, now + 1}
    /\ PutReplication(n, [created |-> now', generation |-> 1, local |-> p, status |-> Undecided])
    /\ Outdated(n)
    /\ UNCHANGED <<profiles, queue>>

\* .spec.localClientProfile is not immutable.
EditReplication(n, p) ==
    /\ Operation
    /\ Stored(replications)[n] # NoObj /\ Stored(replications)[n].local # p
    /\ PutReplication(n, [Stored(replications)[n] EXCEPT !.local = p, !.generation = 2])
    /\ Outdated(n)
    /\ UNCHANGED <<profiles, now, queue>>

DeleteReplication(n) ==
    /\ Operation
    /\ Stored(replications)[n] # NoObj
    /\ PutReplication(n, NoObj)
    /\ Outdated(n)
    /\ UNCHANGED <<profiles, now, queue>>

\* A profile is created or goes away (ClientProfile.tla is about when it does).
ToggleProfile(p) ==
    /\ Operation
    /\ profiles' = Append(profiles, IF p \in Stored(profiles) THEN Stored(profiles) \ {p}
                                                              ELSE Stored(profiles) \cup {p})
    /\ UNCHANGED <<replications, now, queue, w>>

\* The informer's periodic resync: an update event without a change.
Resync(n) ==
    /\ Operation
    /\ Cached(replications)[n] # NoObj
    /\ queue' = queue \cup {n}
    /\ UNCHANGED <<replications, profiles, now, w>>

\* The operator starts anew: the informers list everything, and each object
\* listed is a create event.
Restart ==
    /\ left.crashes > 0 /\ left' = [left EXCEPT !.crashes = @ - 1]
    /\ w' = IdleWorker
    /\ replications' = Relist(replications)
    /\ profiles' = Relist(profiles)
    /\ queue' = {n \in Names : Stored(replications)[n] # NoObj}
    /\ UNCHANGED now

-----------------------------------------------------------------------------
(* The specification *)

Init ==
    /\ replications = <<[n \in Names |-> NoObj]>>
    /\ \E S \in SUBSET Profiles : profiles = <<S>>
    /\ now = 0
    /\ queue = {}
    /\ w = IdleWorker
    /\ left = [ops |-> MaxOps, crashes |-> MaxCrashes, faults |-> MaxFaults]

Environment ==
    \/ \E n \in Names, p \in Profiles : CreateReplication(n, p) \/ EditReplication(n, p)
    \/ \E n \in Names : DeleteReplication(n) \/ Resync(n)
    \/ \E p \in Profiles : ToggleProfile(p)
    \/ Restart

Next ==
    \/ \E n \in Names : StartReconcile(n)
    \/ ReconcileStep
    \/ DeliverReplications \/ DeliverProfiles
    \/ Environment

Spec == Init /\ [][Next]_vars

\* The watches deliver, the worker goes on and the workqueue is first in, first
\* out.  Nothing is assumed of users or of crashes.
Fairness ==
    /\ WF_vars(ReconcileStep)
    /\ \A n \in Names : SF_vars(StartReconcile(n))
    /\ WF_vars(DeliverReplications) /\ WF_vars(DeliverProfiles)

FairSpec == Spec /\ Fairness

-----------------------------------------------------------------------------
(* Properties *)

\* Every variable holds what the code's types allow.
TypeOK ==
    /\ replications \in Seq(Snapshot) \ {<<>>}
    /\ profiles \in Seq(SUBSET Profiles) \ {<<>>}
    /\ now \in Nat
    /\ queue \in SUBSET Names
    /\ w \in Worker
    /\ left \in [ops: Nat, crashes: Nat, faults: Nat]

stored == Stored(replications)
Ready(n) == stored[n] # NoObj /\ stored[n].status.phase = "Ready"

\* Of two replications created at different times for one profile and never
\* edited, the younger one is not Ready while the older one exists: elections on
\* outdated lists, conflicts and restarts do not let it in (reconcilePhases).
OldestReady ==
    \A n, m \in Names :
        (/\ Ready(n) /\ stored[m] # NoObj
         /\ stored[n].local = stored[m].local
         /\ stored[n].generation = 1 /\ stored[m].generation = 1)
        => ~(stored[m].created < stored[n].created)

\* A replication is decided, and its decision agrees with the profiles there are:
\* Ready only if its profile exists, rejected as "not found" only if it does not
\* (reconcilePhases, SetupWithManager's watches of both kinds).
Agrees(n) ==
    stored[n] # NoObj =>
        /\ stored[n].status.phase \in Decisions
        /\ stored[n].status.phase = "Ready" => stored[n].local \in Stored(profiles)
        /\ (stored[n].status.phase = "Rejected" /\ stored[n].status.by = NoObj) =>
               stored[n].local \notin Stored(profiles)

\* Once users leave the cluster alone every replication comes to agree for good.
EventuallyAgrees == \A n \in Names : <>[]Agrees(n)

\* The controller has nothing to do before the next resync.
Quiet == w.pc = "idle" /\ queue = {} /\ InSync(replications) /\ InSync(profiles)

\* When the controller has dealt with every change, the oldest replication of each
\* profile that exists is Ready and no other one is (reconcilePhases,
\* SetupWithManager).
OnlyOldestReady ==
    Quiet => \A p \in Stored(profiles) :
        LET list == ListFor(stored, p)
        IN  {n \in list : Ready(n)} = {n \in list : IsOldest(stored, n, list)}
=============================================================================
