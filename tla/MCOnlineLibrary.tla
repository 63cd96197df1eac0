--------------------------- MODULE MCOnlineLibrary ---------------------------
(* Instances of OnlineLibrary for TLC. *)
EXTENDS OnlineLibrary, TLC

CONSTANTS page, p1, menu, mine, other, v1, v2

MCPriorityOf == <<5, 5, 3>>
MCIdOf == [t \in Threads |-> IF t = Page THEN Menu ELSE mine]
MCApiOf == [v \in Versions |-> IF v = v1 THEN 1 ELSE 2]

Entry(m, i, v) == [magic |-> m, id |-> i, version |-> v]
MenuStack(v) == <<Entry("LDR", menu, v), Entry("MENU", menu, v)>>
OwnFirst == <<Entry("MENU", mine, v1), Entry("MENU", menu, v2)>>
OwnOnly == <<Entry("MENU", mine, v2)>>
BadFirst == <<Entry("bad", menu, v2), Entry("MENU", menu, v2)>>
OtherOnly == <<Entry("MENU", other, v1)>>

MCStacks == {MenuStack(v1), MenuStack(v2), OwnFirst, OwnOnly, OtherOnly, BadFirst}
MCNewStacks == {MenuStack(v2)}

S(t, u) == [title |-> t, url |-> u]
MCSources == {S("a", "x"), S("a", "y"), S("b", "y"), S("a", "x"), S("c", "z")}
\* A user may have written a list that is none.
MCInitCards ==
    {[dir |-> <<MenuStack(v1), OwnOnly, OtherOnly>>, sources |-> <<S("a", "x"), S("b", "y")>>],
     [dir |-> <<OwnFirst, MenuStack(v1), BadFirst>>, sources |-> Unreadable]}
MCCalls == {[kind |-> "add", source |-> s] : s \in {S("a", "y"), S("a", "x"), S("c", "z")}}
           \cup {[kind |-> "remove", source |-> S("b", "y")]}
=============================================================================
