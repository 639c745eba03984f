------------------------ MODULE MCClientProfileMapping ------------------------
\* ClientProfileMapping on a small instance: see the .cfg file.
EXTENDS ClientProfileMapping

CONSTANTS a1, a2, x1, x2

LagAll == [k \in {"mapping", "configMap"} |-> 1]

\* Overlapping mappings, one of which repeats a pair of profiles and a pool pair.
TwoSpecs == { << [pair |-> a1, pools |-> <<x1, x2>>], [pair |-> a2, pools |-> <<>>],
                 [pair |-> a1, pools |-> <<x1>>] >>,
              << [pair |-> a2, pools |-> <<x1>>], [pair |-> a1, pools |-> <<x2>>] >> }
=============================================================================
