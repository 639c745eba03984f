--------------------------- MODULE MCClientProfile ---------------------------
(* Small instances of ClientProfile for TLC. *)
EXTENDS ClientProfile, TLC

\* No watch lags: every cached read returns the stored version.
LagNone == [k \in Kinds |-> 0]

\* Every watch but the one of ConfigMaps lags.
LagCRs == [k \in Kinds |-> IF k = "configMap" THEN 0 ELSE 1]

\* The watches of CephConnections and ConfigMaps lag.
LagShared == [k \in Kinds |-> IF k \in {"conn", "configMap"} THEN 1 ELSE 0]

\* The watch of ConfigMaps lags.
LagConfigMap == [k \in Kinds |-> IF k = "configMap" THEN 1 ELSE 0]

Symmetry == Permutations(Profiles)
==============================================================================
