------------------------------ MODULE MCBridge ------------------------------
(* Instances of Bridge for TLC. *)
EXTENDS Bridge, TLC

CONSTANTS m1, m2, m3, m4, s1, s2, t1

\* The well-formed messages are interchangeable, and so are the senders.
Interchangeable == Permutations(Messages \ {m4}) \cup Permutations(Senders)

\* m1 to m3 are well formed; m4 is one byte too long.
MCTargetOf == [m \in Messages |-> t1]
MCPayloadOf == [m \in Messages |-> IF m = m4 THEN 2 ELSE 1]
=============================================================================
