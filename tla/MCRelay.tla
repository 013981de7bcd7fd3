------------------------------- MODULE MCRelay -------------------------------
EXTENDS Relay, TLC

\* One number registered to every station: while two of them are active it is
\* ambiguous, and stationForNumber refuses it.
MCOwners == [s \in Station |-> {"x"}]

\* Nothing distinguishes two stations.
Symmetry == Permutations(Station)
=============================================================================
