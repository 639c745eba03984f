----------------------------- MODULE VersionLog -----------------------------
(***************************************************************************)
(* One Kubernetes object as the operator sees it.  The API server keeps    *)
(* the newest version; the informer cache every cached Get and List of     *)
(* controller-runtime reads from shows an older one until the watch has    *)
(* delivered the events in between.  The object is therefore the sequence  *)
(* of its versions from the cached one to the stored one.                  *)
(*                                                                         *)
(* External: k8s.io/client-go informers and the API server's optimistic    *)
(* concurrency (resourceVersion).  A copy read from the cache is accepted  *)
(* by Update iff it is still the stored version.                           *)
(***************************************************************************)
EXTENDS Naturals, Sequences

\* The version the API server holds.
Stored(log) == log[Len(log)]

\* The version a cached read returns.
Cached(log) == log[1]

\* A copy read from the cache now carries the stored resourceVersion.
InSync(log) == Len(log) = 1

\* Storing version v.  At most lag events are under way: when the watch is
\* that far behind, the oldest one is delivered with the write.
Put(log, lag, v) == Append(IF Len(log) <= lag THEN log ELSE Tail(log), v)

\* Storing a version now makes the watch deliver an event.
Delivers(log, lag) == Len(log) > lag

\* The informer lists the object anew (operator start).
Relist(log) == <<Stored(log)>>
=============================================================================
