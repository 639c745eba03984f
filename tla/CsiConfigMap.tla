---------------------------- MODULE CsiConfigMap ----------------------------
(***************************************************************************)
(* What the controllers promise each other about the ConfigMap             *)
(* ceph-csi-config, in which several of them keep data.  Each key or entry *)
(* is the part of one writer, each owner reference belongs to one owner.   *)
(* Writing on behalf of an owner changes the part kept for that owner and  *)
(* its reference, in one step and on top of whatever the others wrote      *)
(* before: nobody's part is lost, mixed up or written twice.  Anyone may   *)
(* delete the ConfigMap, the garbage collector drops references.           *)
(*                                                                         *)
(* A controller's specification implements this one, and assumes it of the *)
(* other writers.                                                          *)
(***************************************************************************)
CONSTANTS
    PartOf,    \* owner -> the part that is written on its behalf
    NoPart,    \* part -> what it is in a new ConfigMap
    Others,    \* the owner that stands for the other controllers
    NoObj      \* the ConfigMap does not exist

VARIABLES
    cm,        \* the stored ConfigMap: [part: part -> value, refs: owner -> set]
    turn       \* the owner the controller at hand works for

Owners == DOMAIN PartOf
Parts == DOMAIN NoPart

New == [part |-> NoPart, refs |-> [o \in Owners |-> {}]]
Current == IF cm = NoObj THEN New ELSE cm

\* A create or an update on behalf of owner o, which has one reference at most.
Write(o) ==
    /\ o \in {turn, Others}
    /\ cm' # NoObj
    /\ \A x \in Parts \ {PartOf[o]} : cm'.part[x] = Current.part[x]
    /\ \A x \in Owners \ {o} : cm'.refs[x] = Current.refs[x]
    /\ \A u, v \in cm'.refs[o] : u = v

\* A user, or the garbage collector when no owner is left.
Delete == cm' = NoObj

\* The garbage collector drops references to owners that are gone.
Collect ==
    /\ cm # NoObj /\ cm' # NoObj
    /\ cm'.part = cm.part
    /\ \A o \in Owners : cm'.refs[o] \subseteq cm.refs[o]

Next == Delete \/ Collect \/ \E o \in Owners : Write(o)

Init == cm = NoObj
Step == Next \/ UNCHANGED cm

Spec == Init /\ [][Next]_cm
=============================================================================
