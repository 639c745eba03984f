----------------------- MODULE RunConcurrently_proofs -----------------------
(***************************************************************************)
(* RunConcurrently for any number of functions: the counter of the         *)
(* WaitGroup never gets negative, nothing is sent on the closed channel,   *)
(* and every step is a step of the abstract fan-out or changes nothing in  *)
(* it.  That the iteration ends is left to TLC.                            *)
(***************************************************************************)
EXTENDS RunConcurrently, FiniteSetTheorems, TLAPS

States == {"none", "running", "sending", "sent", "done"}
ActiveStates == {"running", "sending", "sent"}

\* The goroutines the WaitGroup counts.
Active(g) == {f \in Fns : g[f] \in ActiveStates}

Received(f) == \E i \in DOMAIN list : list[i] = f

\* The counter counts, functions are started in their order, and each has been
\* received from iff it has sent.
Counted == wg = Cardinality(Active(fn))
InOrder == \A f \in Fns : fn[f] = "none" <=> f >= caller.next
Sent == \A f \in Fns : fn[f] \in {"sent", "done"} <=> Received(f)

\* The channel is closed after everything was started and nothing is active.
Closing ==
    /\ caller.pc # "spawn" => caller.next = N + 1
    /\ closer # "none" <=> caller.pc # "spawn"
    /\ closer \in {"closing", "done"} => wg = 0
    /\ closed <=> closer = "done"
    /\ caller.pc = "done" => closed

IInv == TypeOK /\ Counted /\ InOrder /\ Sent /\ Closing

-----------------------------------------------------------------------------
(* Counting *)

LEMMA ActiveFinite ==
    ASSUME NEW g
    PROVE  /\ IsFiniteSet(Active(g))
           /\ Cardinality(Active(g)) \in 0..N
<1>1. IsFiniteSet(Fns) /\ Cardinality(Fns) = N
  BY NAssumption, FS_Interval DEF Fns
<1>2. Active(g) \in SUBSET Fns
  BY DEF Active
<1>3. IsFiniteSet(Active(g)) /\ Cardinality(Active(g)) <= N
  BY <1>1, <1>2, FS_Subset
<1>4. Cardinality(Active(g)) \in Nat
  BY <1>3, FS_CardinalityType
<1> QED
  BY <1>3, <1>4, NAssumption

LEMMA ActiveEmpty ==
    ASSUME NEW g, Cardinality(Active(g)) = 0
    PROVE  Active(g) = {}
BY ActiveFinite, FS_EmptySet

\* A goroutine starts, goes on, or finishes.
LEMMA ActiveStep ==
    ASSUME NEW g \in [Fns -> States], NEW f \in Fns, NEW v \in States
    PROVE  LET h == [g EXCEPT ![f] = v] IN
           /\ g[f] \notin ActiveStates /\ v \in ActiveStates =>
                 Cardinality(Active(h)) = Cardinality(Active(g)) + 1
           /\ g[f] \in ActiveStates /\ v \in ActiveStates =>
                 Cardinality(Active(h)) = Cardinality(Active(g))
           /\ g[f] \in ActiveStates /\ v \notin ActiveStates =>
                 Cardinality(Active(h)) = Cardinality(Active(g)) - 1
<1> DEFINE h == [g EXCEPT ![f] = v]
<1>1. v \in ActiveStates => Active(h) = Active(g) \cup {f}
  BY DEF Active
<1>2. v \notin ActiveStates => Active(h) = Active(g) \ {f}
  BY DEF Active
<1>3. f \in Active(g) <=> g[f] \in ActiveStates
  BY DEF Active
<1>4. IsFiniteSet(Active(g))
  BY ActiveFinite
<1>5. /\ Cardinality(Active(g) \cup {f}) = IF f \in Active(g) THEN Cardinality(Active(g))
                                           ELSE Cardinality(Active(g)) + 1
      /\ Cardinality(Active(g) \ {f}) = IF f \in Active(g) THEN Cardinality(Active(g)) - 1
                                        ELSE Cardinality(Active(g))
  BY <1>4, FS_AddElement, FS_RemoveElement
<1> QED
  BY <1>1, <1>2, <1>3, <1>5

-----------------------------------------------------------------------------
(* The invariant *)

LEMMA InvInit == Init => IInv
<1> SUFFICES ASSUME Init PROVE IInv
  OBVIOUS
<1>1. TypeOK
  <2>1. 1 \in 1..(N + 1) /\ 0 \in 0..N
    BY NAssumption
  <2>2. caller \in [pc: {"spawn", "range", "done"}, next: 1..(N + 1)] /\ wg \in 0..N
    BY <2>1 DEF Init
  <2>3. failed \in [Fns -> BOOLEAN] /\ closed \in BOOLEAN
    BY DEF Init
  <2>4. /\ fn \in [Fns -> {"none", "running", "sending", "sent", "done"}]
        /\ closer \in {"none", "waiting", "closing", "done"}
    BY DEF Init
  <2>5. list \in Seq(Fns)
    BY DEF Init
  <2> QED
    BY <2>2, <2>3, <2>4, <2>5 DEF TypeOK
<1>2. Active(fn) = {}
  BY DEF Init, Active, ActiveStates
<1>3. Counted
  BY <1>2, FS_EmptySet DEF Init, Counted
<1>4. InOrder
  BY NAssumption DEF Init, InOrder, Fns
<1>5. Sent
  BY DEF Init, Sent, Received
<1>6. Closing
  BY DEF Init, Closing
<1> QED
  BY <1>1, <1>3, <1>4, <1>5, <1>6 DEF IInv

\* With the counter at zero and everything started, every function is done.
LEMMA AllDone ==
    ASSUME IInv, closer \in {"closing", "done"}
    PROVE  \A f \in Fns : fn[f] = "done"
<1>1. caller.next = N + 1 /\ wg = 0
  BY DEF IInv, Closing
<1>2. Active(fn) = {}
  BY <1>1, ActiveEmpty DEF IInv, Counted
<1>3. \A f \in Fns : fn[f] \in States /\ fn[f] # "none"
  BY <1>1, NAssumption DEF IInv, TypeOK, InOrder, Fns, States
<1> QED
  BY <1>2, <1>3 DEF Active, ActiveStates, States

LEMMA InvNext == IInv /\ [Next]_vars => IInv'
<1> SUFFICES ASSUME IInv, [Next]_vars PROVE IInv'
  OBVIOUS
<1> USE NAssumption
<1>0. /\ fn \in [Fns -> States]
      /\ wg \in Int
  BY DEF IInv, TypeOK, States
<1>1. CASE Spawn
  <2> DEFINE f == caller.next
  <2>1. f \in Fns /\ fn[f] = "none" /\ f \in Int
    BY <1>1 DEF Spawn, IInv, InOrder, Fns
  <2>2. fn' = [fn EXCEPT ![f] = "running"] /\ wg' = wg + 1
    BY <1>1 DEF Spawn
  <2>3. Counted'
    <3>1. Cardinality(Active(fn')) = Cardinality(Active(fn)) + 1
      BY <1>0, <2>1, <2>2, ActiveStep DEF States, ActiveStates
    <3> QED
      BY <3>1, <2>2 DEF IInv, Counted
  <2>4. TypeOK'
    <3>1. wg' \in 0..N
      BY <2>3, ActiveFinite DEF Counted
    <3>2. caller' \in [pc: {"spawn", "range", "done"}, next: 1..(N + 1)]
      <4>1. f + 1 \in 1..(N + 1)
        BY <2>1 DEF Fns
      <4>2. caller \in [pc: {"spawn", "range", "done"}, next: 1..(N + 1)]
        BY DEF IInv, TypeOK
      <4>3. caller' = [caller EXCEPT !.next = f + 1]
        BY <1>1 DEF Spawn
      <4> HIDE DEF f
      <4> QED
        BY <4>1, <4>2, <4>3
    <3>3. UNCHANGED <<failed, closer, closed, list>>
      BY <1>1 DEF Spawn
    <3> QED
      BY <1>0, <2>1, <2>2, <3>1, <3>2, <3>3 DEF IInv, TypeOK, States
  <2>5. InOrder'
    BY <1>1, <2>1, <2>2 DEF Spawn, IInv, TypeOK, InOrder, Fns
  <2>6. Sent'
    <3>1. list' = list
      BY <1>1 DEF Spawn
    <3> QED
      BY <1>0, <2>1, <2>2, <3>1 DEF IInv, Sent, Received
  <2>7. Closing'
    BY <1>1 DEF Spawn, IInv, TypeOK, Closing
  <2> QED
    BY <2>3, <2>4, <2>5, <2>6, <2>7 DEF IInv
<1>2. CASE SpawnCloser
  <2>1. /\ UNCHANGED <<fn, failed, wg, closed, list>>
        /\ caller'.pc = "range" /\ caller'.next = caller.next
        /\ closer' = "waiting"
    BY <1>2 DEF SpawnCloser, IInv, TypeOK
  <2>2. caller.next = N + 1 /\ caller.pc = "spawn"
    BY <1>2 DEF SpawnCloser, IInv, TypeOK, Fns
  <2>3. TypeOK'
    BY <1>2 DEF SpawnCloser, IInv, TypeOK
  <2>4. Counted' /\ InOrder' /\ Sent'
    BY <2>1 DEF IInv, Counted, InOrder, Sent, Received
  <2>5. Closing'
    BY <2>1, <2>2 DEF IInv, Closing
  <2> QED
    BY <2>3, <2>4, <2>5 DEF IInv
<1>3. CASE EndRange
  <2>1. /\ UNCHANGED <<fn, failed, wg, closer, closed, list>>
        /\ caller'.pc = "done" /\ caller'.next = caller.next
        /\ caller.pc = "range" /\ closed
    BY <1>3 DEF EndRange, IInv, TypeOK
  <2>2. TypeOK'
    BY <1>3 DEF EndRange, IInv, TypeOK
  <2>3. Counted' /\ InOrder' /\ Sent'
    BY <2>1 DEF IInv, Counted, InOrder, Sent, Received
  <2>4. Closing'
    BY <2>1 DEF IInv, Closing
  <2> QED
    BY <2>2, <2>3, <2>4 DEF IInv
<1>4. CASE Wait
  <2>1. UNCHANGED <<caller, fn, failed, wg, closed, list>> /\ closer = "waiting" /\ wg = 0 /\ closer' = "closing"
    BY <1>4 DEF Wait
  <2>2. TypeOK' /\ Counted' /\ InOrder' /\ Sent'
    BY <2>1 DEF IInv, TypeOK, Counted, InOrder, Sent, Received
  <2>3. Closing'
    BY <2>1 DEF IInv, Closing
  <2> QED
    BY <2>2, <2>3 DEF IInv
<1>5. CASE Close
  <2>1. UNCHANGED <<caller, fn, failed, wg, list>> /\ closer = "closing" /\ closed' = TRUE /\ closer' = "done"
    BY <1>5 DEF Close
  <2>2. TypeOK' /\ Counted' /\ InOrder' /\ Sent'
    BY <2>1 DEF IInv, TypeOK, Counted, InOrder, Sent, Received
  <2>3. Closing'
    BY <2>1 DEF IInv, Closing
  <2> QED
    BY <2>2, <2>3 DEF IInv
<1>6. ASSUME NEW f \in Fns, Finish(f) PROVE IInv'
  <2>1. /\ UNCHANGED <<caller, wg, closer, closed, list>>
        /\ fn[f] = "running" /\ fn' = [fn EXCEPT ![f] = "sending"]
    BY <1>6 DEF Finish
  <2>2. TypeOK'
    BY <1>6, <2>1 DEF Finish, IInv, TypeOK
  <2>3. Counted'
    <3>1. Cardinality(Active(fn')) = Cardinality(Active(fn))
      BY <1>0, <1>6, <2>1, ActiveStep DEF States, ActiveStates
    <3> QED
      BY <3>1, <2>1 DEF IInv, Counted
  <2>4. InOrder' /\ Sent'
    BY <1>0, <1>6, <2>1 DEF IInv, InOrder, Sent, Received
  <2>5. Closing'
    BY <2>1 DEF IInv, Closing
  <2> QED
    BY <2>2, <2>3, <2>4, <2>5 DEF IInv
<1>7. ASSUME NEW f \in Fns, Receive(f) PROVE IInv'
  <2>1. /\ UNCHANGED <<caller, failed, wg, closer, closed>>
        /\ fn[f] = "sending" /\ fn' = [fn EXCEPT ![f] = "sent"]
        /\ list' = Append(list, f)
    BY <1>7 DEF Receive
  <2>2. TypeOK'
    BY <1>7, <2>1 DEF IInv, TypeOK
  <2>3. Counted'
    <3>1. Cardinality(Active(fn')) = Cardinality(Active(fn))
      BY <1>0, <1>7, <2>1, ActiveStep DEF States, ActiveStates
    <3> QED
      BY <3>1, <2>1 DEF IInv, Counted
  <2>4. InOrder'
    BY <1>0, <1>7, <2>1 DEF IInv, InOrder
  <2>5. \A g \in Fns : Received(g)' <=> Received(g) \/ g = f
    <3>1. list \in Seq(Fns)
      BY DEF IInv, TypeOK
    <3> QED
      BY <2>1, <3>1, <1>7 DEF Received
  <2>6. Sent'
    BY <1>0, <1>7, <2>1, <2>5 DEF IInv, Sent
  <2>7. Closing'
    BY <2>1 DEF IInv, Closing
  <2> QED
    BY <2>2, <2>3, <2>4, <2>6, <2>7 DEF IInv
<1>8. ASSUME NEW f \in Fns, Done(f) PROVE IInv'
  <2>1. /\ UNCHANGED <<caller, failed, closer, closed, list>>
        /\ fn[f] = "sent" /\ fn' = [fn EXCEPT ![f] = "done"] /\ wg' = wg - 1
    BY <1>8 DEF Done
  <2>2. Counted'
    <3>1. Cardinality(Active(fn')) = Cardinality(Active(fn)) - 1
      BY <1>0, <1>8, <2>1, ActiveStep DEF States, ActiveStates
    <3> QED
      BY <3>1, <2>1 DEF IInv, Counted
  <2>3. TypeOK'
    <3>1. wg' \in 0..N
      BY <2>2, ActiveFinite DEF Counted
    <3> QED
      BY <1>8, <2>1, <3>1 DEF IInv, TypeOK
  <2>4. InOrder' /\ Sent'
    BY <1>0, <1>8, <2>1 DEF IInv, InOrder, Sent, Received
  <2>5. Closing'
    <3>1. closer \notin {"closing", "done"}
      BY <1>8, <2>1, AllDone
    <3> QED
      BY <2>1, <3>1 DEF IInv, Closing
  <2> QED
    BY <2>2, <2>3, <2>4, <2>5 DEF IInv
<1>9. CASE UNCHANGED vars
  BY <1>9 DEF vars, IInv, TypeOK, Counted, InOrder, Sent, Received, Closing
<1> QED
  BY <1>1, <1>2, <1>3, <1>4, <1>5, <1>6, <1>7, <1>8, <1>9 DEF Next, Step, Over

\* The invariant holds in every reachable state.
LEMMA Invariant == Spec => []IInv
BY InvInit, InvNext, PTL DEF Spec

\* The counter of the WaitGroup stays between zero and the number of functions
\* (RunConcurrently), whatever that number is.
THEOREM TypeCorrect == Spec => []TypeOK
<1>1. IInv => TypeOK
  BY DEF IInv
<1> QED
  BY <1>1, Invariant, PTL

\* No goroutine sends on the closed channel (RunConcurrently), for any number of
\* functions and in any interleaving.
THEOREM ClosedAfterLastSend == Spec => []NoSendOnClosed
<1>1. IInv => NoSendOnClosed
  BY AllDone DEF IInv, Closing, NoSendOnClosed
<1> QED
  BY <1>1, Invariant, PTL

-----------------------------------------------------------------------------
(* The fan-out is implemented *)

LEMMA FanInit == Init => Fan!Init
BY DEF Init, Fan!Init

\* A step that leaves alone what was received, the errors of those functions, and
\* whether the loop is over.
LEMMA FanStutter ==
    ASSUME IInv, list' = list,
           caller'.pc = "done" <=> caller.pc = "done",
           \A i \in DOMAIN list : failed'[list[i]] = failed[list[i]]
    PROVE  UNCHANGED Fan!vars
<1>1. UNCHANGED {f \in Fns : \A i \in DOMAIN list : list[i] # f}
  OBVIOUS
<1>2. UNCHANGED {f \in Fns : failed[f] /\ \E i \in DOMAIN list : list[i] = f}
  OBVIOUS
<1>3. UNCHANGED Joined
  BY DEF Joined
<1> QED
  BY <1>1, <1>2, <1>3 DEF Fan!vars

LEMMA FanNext == IInv /\ [Next]_vars => [Fan!Next]_(Fan!vars)
<1> SUFFICES ASSUME IInv, [Next]_vars PROVE [Fan!Next]_(Fan!vars)
  OBVIOUS
<1>0. list \in Seq(Fns)
  BY DEF IInv, TypeOK
<1>1. CASE Spawn \/ SpawnCloser
  <2>1. list' = list /\ failed' = failed
    BY <1>1 DEF Spawn, SpawnCloser
  <2>2. caller.pc # "done" /\ caller'.pc # "done"
    BY <1>1 DEF Spawn, SpawnCloser, IInv, TypeOK
  <2> QED
    BY <2>1, <2>2, FanStutter
<1>2. CASE Wait \/ Close \/ UNCHANGED vars \/ \E f \in Fns : Done(f)
  <2>1. list' = list /\ failed' = failed /\ caller'.pc = caller.pc
    BY <1>2 DEF Wait, Close, Done, vars
  <2> QED
    BY <2>1, FanStutter
<1>3. ASSUME NEW f \in Fns, Finish(f) PROVE UNCHANGED Fan!vars
  <2>1. list' = list /\ caller'.pc = caller.pc /\ fn[f] = "running"
    BY <1>3 DEF Finish
  <2>2. \A i \in DOMAIN list : list[i] # f
    BY <1>3, <2>1 DEF IInv, Sent, Received
  <2>3. \A i \in DOMAIN list : failed'[list[i]] = failed[list[i]]
    BY <1>0, <1>3, <2>2 DEF Finish, IInv, TypeOK
  <2> QED
    BY <2>1, <2>3, FanStutter
<1>4. ASSUME NEW f \in Fns, Receive(f) PROVE Fan!Report(f)
  <2>1. list' = Append(list, f) /\ failed' = failed /\ caller' = caller /\ fn[f] = "sending" /\ caller.pc = "range"
    BY <1>4 DEF Receive
  <2>2. \A i \in DOMAIN list : list[i] # f
    BY <1>4, <2>1 DEF IInv, Sent, Received
  <2>3. \A g \in Fns : (\E i \in DOMAIN list' : list'[i] = g) <=> (\E i \in DOMAIN list : list[i] = g) \/ g = f
    BY <1>0, <1>4, <2>1
  <2> DEFINE pending == {g \in Fns : \A i \in DOMAIN list : list[i] # g}
             errs == {g \in Fns : failed[g] /\ \E i \in DOMAIN list : list[i] = g}
  <2>4. f \in pending /\ pending' = pending \ {f}
    BY <1>4, <2>2, <2>3
  <2>5. errs' \in {errs, errs \cup {f}}
    <3>1. CASE failed[f]
      BY <1>4, <2>1, <2>3, <3>1
    <3>2. CASE ~failed[f]
      BY <1>4, <2>1, <2>3, <3>2
    <3> QED
      BY <3>1, <3>2
  <2> QED
    BY <2>1, <2>4, <2>5 DEF Fan!Report
<1>5. CASE EndRange
  <2>1. list' = list /\ failed' = failed /\ caller.pc = "range" /\ caller'.pc = "done" /\ closed
    BY <1>5 DEF EndRange, IInv, TypeOK
  <2>2. \A f \in Fns : \E i \in DOMAIN list : list[i] = f
    <3>1. \A f \in Fns : fn[f] = "done"
      BY <2>1, AllDone DEF IInv, Closing
    <3> QED
      BY <3>1 DEF IInv, Sent, Received
  <2>3. Joined' <=> Joined
    BY <2>1 DEF Joined
  <2>4. Joined <=> {f \in Fns : failed[f] /\ \E i \in DOMAIN list : list[i] = f} # {}
    BY <1>0, <2>2 DEF Joined
  <2>5. Fan!Join
    BY <2>1, <2>2, <2>3, <2>4 DEF Fan!Join
  <2> QED
    BY <2>5 DEF Fan!Next
<1>6. CASE \E f \in Fns : Finish(f)
  BY <1>3, <1>6
<1>7. CASE \E f \in Fns : Receive(f)
  BY <1>4, <1>7 DEF Fan!Next
<1> QED
  BY <1>1, <1>2, <1>5, <1>6, <1>7 DEF Next, Step, Over

\* The goroutines, the channel and the counter implement the safety part of the
\* fan-out for any number of functions: each reports once, none after the iteration
\* ended, and the iteration ends with an error iff one of them reported one
\* (RunConcurrently, ChannelToSlice, reconcile).
THEOREM ImplementsFanOut == Spec => Fan!Init /\ [][Fan!Next]_(Fan!vars)
<1>1. Init => Fan!Init
  BY FanInit
<1>2. IInv /\ [Next]_vars => [Fan!Next]_(Fan!vars)
  BY FanNext
<1> QED
  BY <1>1, <1>2, Invariant, PTL DEF Spec
=============================================================================
