--------------------------- MODULE MC_DynamicLeases ---------------------------
(* DynamicLeases on small instances.                                        *)
EXTENDS DynamicLeases, TLC

Symmetry ==
    Permutations(Leases) \cup Permutations(Subjects) \cup Permutations(Tunnel)
        \cup Permutations(Tasks \ Tunnel)

NoFaults == {}
Drops == {"drop"}
Cancels == {"cancel"}
=============================================================================
