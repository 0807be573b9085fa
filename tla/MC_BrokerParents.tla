-------------------------- MODULE MC_BrokerParents --------------------------
EXTENDS BrokerParents, TLC

\* Handlers and builds are interchangeable; used by the safety runs only.
Symmetry == Permutations(Handlers) \cup Permutations(Builds)
=============================================================================
