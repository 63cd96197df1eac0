---------------------------- MODULE MCMenuStart -----------------------------
(* Instances of MenuStart for TLC. *)
EXTENDS MenuStart, TLC

CONSTANTS r1, r2, pm, po, p1, p2

\* The consumers' registrations are interchangeable, and so are their pages.
Interchangeable == Permutations(Regs) \cup Permutations({p1, p2})

MCPageOfBuiltin == [b \in Builtins |-> IF b = Manage THEN pm ELSE po]
=============================================================================
