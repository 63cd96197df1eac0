-------------------------- MODULE MCLaunchDispatch --------------------------
(* Instances of LaunchDispatch for TLC. *)
EXTENDS LaunchDispatch

CONSTANTS r1, r2, r3, h1, h2, game, homeMenu, module

\* r1 is for the HOME title and the game, r2 and r3 for the game alone; r2
\* relies on the result of no prepare.
MCTitlesOf == [r \in Regs |-> CASE r = r1 -> {game, homeMenu}
                                [] r \in {r2, r3} -> {game}
                                [] OTHER -> {}]
MCCallbacksOf == [r \in Regs |-> CASE r = r1 -> {"prepare", "created", "finished"}
                                   [] r = r2 -> {"created", "finished"}
                                   [] r = r3 -> {"prepare", "finished"}
                                   [] OTHER -> {"home"}]
MCListOf == [r \in Regs |-> IF r \in {h1, h2} THEN "home" ELSE "title"]
=============================================================================
