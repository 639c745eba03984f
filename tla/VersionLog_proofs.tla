------------------------- MODULE VersionLog_proofs -------------------------
(***************************************************************************)
(* What storing, delivering and listing do to the versions of an object.   *)
(***************************************************************************)
EXTENDS VersionLog, SequenceTheorems, TLAPS

LEMMA PutLog ==
    ASSUME NEW S, NEW log \in Seq(S) \ {<<>>}, NEW n \in Nat, NEW v \in S
    PROVE  /\ Put(log, n, v) \in Seq(S) \ {<<>>}
           /\ Stored(Put(log, n, v)) = v
           /\ Cached(Put(log, n, v)) \in S
           /\ \A i \in 1..Len(Put(log, n, v)) :
                 \/ Put(log, n, v)[i] = v
                 \/ \E j \in 1..Len(log) : Put(log, n, v)[i] = log[j]
<1> DEFINE front == IF Len(log) <= n THEN log ELSE Tail(log)
<1>1. Len(log) \in Nat \ {0}
  BY EmptySeq
<1>2. front \in Seq(S)
  BY <1>1
<1>3. \A i \in 1..Len(front) : \E j \in 1..Len(log) : front[i] = log[j]
  <2>1. CASE Len(log) <= n
    BY <2>1
  <2>2. CASE ~(Len(log) <= n)
    <3>1. Len(front) = Len(log) - 1 /\ \A i \in 1..Len(front) : front[i] = log[i + 1]
      BY <1>1, <2>2
    <3> QED
      BY <1>1, <3>1
  <2> QED
    BY <2>1, <2>2
<1>4. Put(log, n, v) = Append(front, v)
  BY DEF Put
<1>5. /\ Append(front, v) \in Seq(S) \ {<<>>}
      /\ Len(Append(front, v)) = Len(front) + 1
      /\ Append(front, v)[Len(front) + 1] = v
      /\ \A i \in 1..Len(front) : Append(front, v)[i] = front[i]
  BY <1>2
<1> HIDE DEF front
<1>6. Stored(Put(log, n, v)) = v
  BY <1>4, <1>5 DEF Stored
<1>7. \A i \in 1..Len(Put(log, n, v)) :
                 \/ Put(log, n, v)[i] = v
                 \/ \E j \in 1..Len(log) : Put(log, n, v)[i] = log[j]
  <2>1. ASSUME NEW i \in 1..Len(Append(front, v))
        PROVE  \/ Append(front, v)[i] = v
               \/ \E j \in 1..Len(log) : Append(front, v)[i] = log[j]
    <3>1. Len(front) \in Nat
      BY <1>2
    <3>2. i = Len(front) + 1 \/ i \in 1..Len(front)
      BY <1>5, <3>1
    <3> QED
      BY <1>3, <1>5, <3>2
  <2> QED
    BY <1>4, <2>1
<1>8. Cached(Put(log, n, v)) \in S
  BY <1>2, <1>4, <1>5 DEF Cached
<1> QED
  BY <1>4, <1>5, <1>6, <1>7, <1>8

LEMMA TailLog ==
    ASSUME NEW S, NEW log \in Seq(S) \ {<<>>}, ~InSync(log)
    PROVE  /\ Tail(log) \in Seq(S) \ {<<>>}
           /\ Stored(Tail(log)) = Stored(log)
           /\ log[1] \in S /\ log[2] \in S
           /\ \A i \in 1..Len(Tail(log)) : \E j \in 1..Len(log) : Tail(log)[i] = log[j]
<1>0. Len(log) \in Nat \ {0}
  BY EmptySeq
<1>1. Len(log) \in Nat /\ Len(log) > 1
  <2>1. \A n \in Nat \ {0} : n # 1 => n > 1
    OBVIOUS
  <2> QED
    BY <1>0, <2>1 DEF InSync
<1>2. /\ Tail(log) \in Seq(S)
      /\ Len(Tail(log)) = Len(log) - 1
      /\ \A i \in 1..(Len(log) - 1) : Tail(log)[i] = log[i + 1]
  BY <1>1
<1>3. Tail(log) # <<>>
  <2>1. Len(Tail(log)) > 0
    BY <1>1, <1>2
  <2>2. \A s \in Seq(S) : Len(s) > 0 => s # <<>>
    OBVIOUS
  <2> QED
    BY <1>2, <2>1, <2>2
<1> QED
  BY <1>1, <1>2, <1>3 DEF Stored

LEMMA LogElements ==
    ASSUME NEW S, NEW log \in Seq(S) \ {<<>>}
    PROVE  /\ Stored(log) \in S
           /\ Cached(log) \in S
           /\ Relist(log) \in Seq(S) \ {<<>>}
           /\ Stored(Relist(log)) = Stored(log)
           /\ Len(Relist(log)) = 1
           /\ 1 \in 1..Len(log) /\ Len(log) \in 1..Len(log)
<1>1. Len(log) \in Nat \ {0}
  BY EmptySeq
<1>2. Stored(log) \in S /\ Cached(log) \in S
  BY <1>1 DEF Stored, Cached
<1> QED
  BY <1>1, <1>2 DEF Stored, Relist

LEMMA FreshPutLog ==
    ASSUME NEW S, NEW log \in Seq(S) \ {<<>>}, InSync(log), NEW v \in S
    PROVE  InSync(Put(log, 0, v))
<1>1. Len(log) = 1
  BY DEF InSync
<1>2. Tail(log) \in Seq(S) /\ Len(Tail(log)) = 0
  BY <1>1, HeadTailProperties
<1>3. Put(log, 0, v) = Append(Tail(log), v)
  BY <1>1 DEF Put
<1>4. Len(Append(Tail(log), v)) = 1
  BY <1>2, AppendProperties
<1> QED
  BY <1>3, <1>4 DEF InSync
=============================================================================
