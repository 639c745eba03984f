------------------------------- MODULE MCDriver -------------------------------
\* Driver on small instances: see the .cfg files.
EXTENDS Driver, TLC

Behind(kinds) == [k \in Kinds |-> IF k \in kinds THEN 1 ELSE 0]
LagsClaim == {Behind({"csiDriver"})}
\* Either the watches of the namespaced objects are behind, or the cluster-wide ones.
LagsMixed == {Behind({"driver", "owned", "csiConfig"}), Behind({"opConfig", "csiDriver"})}

\* A spec that leaves everything to the defaults and one that sets every field.
OpenSpec == [f \in Fields |-> Unset]
FullSpec == [f \in Fields |-> f = "optional"]
TwoSpecs == {OpenSpec, FullSpec}
=============================================================================
