--------------------------- MODULE RunConcurrently ---------------------------
(***************************************************************************)
(* utils.RunConcurrently and the loop that consumes its channel: the       *)
(* caller starts a goroutine for each function and one more that closes    *)
(* the channel, and ranges over the channel until it is closed.  The       *)
(* channel has no buffer, so a send and its receive are one step; a        *)
(* WaitGroup counts the goroutines that have not finished.                 *)
(***************************************************************************)
EXTENDS Integers, Sequences

CONSTANT N    \* the number of functions

ASSUME NAssumption == N \in Nat

VARIABLES
    caller,    \* what the caller does next, and which function it starts next
    fn,        \* function -> state of its goroutine
    failed,    \* function -> whether it returned an error
    wg,        \* the counter of the WaitGroup
    closer,    \* state of the goroutine that closes the channel
    closed,    \* the channel is closed
    list       \* errList: who sent the values received, in their order

vars == <<caller, fn, failed, wg, closer, closed, list>>

Fns == 1..N

-----------------------------------------------------------------------------
(* The caller *)

\* Fault: the counter is left alone.
SpawnUncounted ==
    /\ caller.pc = "spawn" /\ caller.next \in Fns
    /\ fn' = [fn EXCEPT ![caller.next] = "running"]
    /\ caller' = [caller EXCEPT !.next = @ + 1]
    /\ UNCHANGED <<failed, wg, closer, closed, list>>

\* wg.Add(1), then the goroutine.
Spawn ==
    /\ caller.pc = "spawn" /\ caller.next \in Fns
    /\ wg' = wg + 1
    /\ fn' = [fn EXCEPT ![caller.next] = "running"]
    /\ caller' = [caller EXCEPT !.next = @ + 1]
    /\ UNCHANGED <<failed, closer, closed, list>>

\* The goroutine that closes the channel is started, the channel is returned.
SpawnCloser ==
    /\ caller.pc = "spawn" /\ caller.next \notin Fns
    /\ closer' = "waiting"
    /\ caller' = [caller EXCEPT !.pc = "range"]
    /\ UNCHANGED <<fn, failed, wg, closed, list>>

\* errors <- fn() meets the range of ChannelToSlice.
Receive(f) ==
    /\ caller.pc = "range" /\ fn[f] = "sending" /\ ~closed
    /\ list' = Append(list, f)
    /\ fn' = [fn EXCEPT ![f] = "sent"]
    /\ UNCHANGED <<caller, failed, wg, closer, closed>>

\* The range ends with the channel closed.
EndRange ==
    /\ caller.pc = "range" /\ closed
    /\ caller' = [caller EXCEPT !.pc = "done"]
    /\ UNCHANGED <<fn, failed, wg, closer, closed, list>>

\* Fault: the first value decides.
JoinedFirst == list # <<>> /\ failed[Head(list)]

\* errors.Join: an error unless every value received is nil.
Joined == \E i \in DOMAIN list : failed[list[i]]

-----------------------------------------------------------------------------
(* The goroutines *)

Finish(f) ==
    /\ fn[f] = "running"
    /\ \E e \in BOOLEAN : failed' = [failed EXCEPT ![f] = e]
    /\ fn' = [fn EXCEPT ![f] = "sending"]
    /\ UNCHANGED <<caller, wg, closer, closed, list>>

\* The deferred wg.Done.
Done(f) ==
    /\ fn[f] = "sent"
    /\ wg' = wg - 1
    /\ fn' = [fn EXCEPT ![f] = "done"]
    /\ UNCHANGED <<caller, failed, closer, closed, list>>

\* Fault: the channel is closed once every function is started.
WaitNot ==
    /\ closer = "waiting"
    /\ closer' = "closing"
    /\ UNCHANGED <<caller, fn, failed, wg, closed, list>>

\* wg.Wait returns.
Wait ==
    /\ closer = "waiting" /\ wg = 0
    /\ closer' = "closing"
    /\ UNCHANGED <<caller, fn, failed, wg, closed, list>>

Close ==
    /\ closer = "closing"
    /\ closed' = TRUE
    /\ closer' = "done"
    /\ UNCHANGED <<caller, fn, failed, wg, list>>

-----------------------------------------------------------------------------
(* The specification *)

Init ==
    /\ caller = [pc |-> "spawn", next |-> 1]
    /\ fn = [f \in Fns |-> "none"]
    /\ failed = [f \in Fns |-> FALSE]
    /\ wg = 0
    /\ closer = "none"
    /\ closed = FALSE
    /\ list = <<>>

Step ==
    \/ Spawn \/ SpawnCloser \/ EndRange
    \/ Wait \/ Close
    \/ \E f \in Fns : Finish(f) \/ Receive(f) \/ Done(f)

\* The iteration is over; nothing else may stop.
Over == caller.pc = "done" /\ UNCHANGED vars

Next == Step \/ Over

\* Go schedules every goroutine that can go on, and the functions return: they are
\* calls of the Kubernetes client.
Spec == Init /\ [][Next]_vars /\ WF_vars(Step)

-----------------------------------------------------------------------------
(* Properties *)

\* Every variable holds what the code's types allow; the counter of a WaitGroup
\* panics when it gets negative.
TypeOK ==
    /\ caller \in [pc: {"spawn", "range", "done"}, next: 1..(N + 1)]
    /\ fn \in [Fns -> {"none", "running", "sending", "sent", "done"}]
    /\ failed \in [Fns -> BOOLEAN]
    /\ wg \in 0..N
    /\ closer \in {"none", "waiting", "closing", "done"}
    /\ closed \in BOOLEAN
    /\ list \in Seq(Fns)

\* The channel is closed only when no goroutine will send on it (a send on a closed
\* channel panics, and nothing recovers a panic of these goroutines), whatever the
\* order in which functions start, return and are received from (RunConcurrently).
NoSendOnClosed == closed => \A f \in Fns : fn[f] \in {"sent", "done"}

Fan == INSTANCE FanOut WITH
           pending <- {f \in Fns : \A i \in DOMAIN list : list[i] # f},
           failed <- {f \in Fns : failed[f] /\ \E i \in DOMAIN list : list[i] = f},
           outcome <- IF caller.pc # "done" THEN "none" ELSE IF Joined THEN "error" ELSE "nil"

\* The goroutines, the channel and the counter implement what reconcile relies on:
\* every function reports once, no error is lost, and the iteration ends
\* (RunConcurrently, ChannelToSlice, reconcile).
FansOut == Fan!Spec
=============================================================================
