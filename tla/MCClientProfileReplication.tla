--------------------- MODULE MCClientProfileReplication ---------------------
\* ClientProfileReplication on small instances: see the .cfg files.
EXTENDS ClientProfileReplication, TLC

\* Profiles are interchangeable; the names of replications are not.
Symmetry == Permutations(Profiles)
=============================================================================
