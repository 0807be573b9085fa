-------------------------- MODULE MC_BrokerLeases --------------------------
EXTENDS BrokerLeases, TLC

\* Handlers, leases and clients are interchangeable; used by the safety runs
\* only.
Symmetry == Permutations(Handlers) \cup Permutations(Leases) \cup Permutations(Clients)
=============================================================================
