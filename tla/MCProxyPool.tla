----------------------------- MODULE MCProxyPool -----------------------------
(* Instances of ProxyPool for TLC. *)
EXTENDS ProxyPool, TLC

\* Jobs, clients, feeds and proxies are each interchangeable.
Symmetry ==
    Permutations(ProxyId) \cup Permutations(Jobs)
        \cup Permutations(Clients) \cup Permutations(Feeds)
=============================================================================
