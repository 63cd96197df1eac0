-------------------------- MODULE MCSyspluginState --------------------------
(* Instances of SyspluginState for TLC. *)
EXTENDS SyspluginState, TLC

CONSTANTS n1, n2, t1, t2

Interchangeable == Permutations(Names) \cup Permutations(Threads)

\* Histories of a single name may be longer than those of two.
Unused(n) ==
    ~Exists(n, FALSE) /\ ~Exists(n, TRUE) /\ n \notin active
    /\ \A t \in Threads : call[t] = None \/ call[t].name # n
FewCallsOfTwoNames == ops <= 2 \/ \E n \in Names : \A m \in Names \ {n} : Unused(m)
=============================================================================
