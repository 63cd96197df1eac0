-------------------------- MODULE MCUpdateJournal --------------------------
(* Instances of UpdateJournal for TLC. *)
EXTENDS UpdateJournal

CONSTANTS p1, p2

\* Two files hold p1, so one install replaces both; the third is new.
MCHolds == [f \in Files |-> CASE f = 1 -> {p1} [] f = 2 -> {p1, p2} [] f = 3 -> {p2}]

\* Up to two crashes and four failing calls, in any order.
MCHistories == (0 .. 2) \X (0 .. 4)
=============================================================================
