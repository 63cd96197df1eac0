----------------------------- MODULE MenuStart ------------------------------
(***************************************************************************)
(* PLUGIN_MENU_Main of the Rosalina half and what it starts.  Main lists   *)
(* MENU's own entries, inserts an entry into Rosalina's root menu, hooks   *)
(* the stock plg:ldr handler and, last, Draw_DrawString; on a failure it   *)
(* undoes what it can.  FALSE lets the loader unload the image.  Only when *)
(* it returned TRUE do consumers call and does the menu open the page.     *)
(*                                                                         *)
(* A site is two instructions that are compared and replaced through a     *)
(* mapped page; here it holds stock code, somebody else's or MENU's branch.*)
(***************************************************************************)
EXTENDS MenuPage

CONSTANT RootSlots      \* MENU_MAX_HOST_ITEMS
ASSUME RootAssumption == RootSlots \in Nat /\ RootSlots > 2

VARIABLES
    main,            \* where Main is; "resident" after TRUE, "unloaded" after FALSE
    root,            \* MENU_HOST__rosalinaMenu->items
    rootInserted, rootIndex, rootOriginalCount,
    bridgeAddress,   \* g_MENUBridgeHookAddress is set
    site,            \* the two hooked functions of the host
    rootBefore, siteBefore    \* history: what the host held when Main began

startVars == <<main, root, rootInserted, rootIndex, rootOriginalCount,
               bridgeAddress, site, rootBefore, siteBefore>>
vars == <<pageVars, startVars>>

Slots == 0 .. RootSlots - 1
Sites == {"bridge", "draw"}

\* The entries in front of the terminator.
CountOf(r) == CHOOSE n \in Slots : r[n] = "end" /\ \A i \in 0 .. n - 1 : r[i] # "end"

HostRoots ==
    {r \in [Slots -> {"misc", "other", "end"}] :
        \E n \in Slots : \A i \in Slots : r[i] = "end" <=> i >= n}

Init ==
    /\ PageInit
    /\ main = "append"
    /\ root \in HostRoots /\ rootBefore = root
    /\ rootInserted = FALSE /\ rootIndex = 0 /\ rootOriginalCount = 0
    /\ bridgeAddress = FALSE
    /\ site \in [Sites -> {"stock", "foreign"}] /\ siteBefore = site

-----------------------------------------------------------------------------
others == <<view, pc, screen, opened, ops, rootBefore, siteBefore>>

\* PLUGIN_MENU_RemoveRootItem: close the gap, terminator included.
RootOffByOne == [i \in Slots |->    \* mutant: the terminator is not moved
    IF rootIndex <= i /\ i < rootOriginalCount THEN root[i + 1] ELSE root[i]]
RootWithoutItem == [i \in Slots |->
    IF rootIndex <= i /\ i <= rootOriginalCount THEN root[i + 1] ELSE root[i]]

RemoveRootItem ==
    /\ root' = IF rootInserted /\ root[rootIndex] = "menu" THEN RootWithoutItem ELSE root
    /\ rootInserted' = FALSE
    /\ UNCHANGED <<rootIndex, rootOriginalCount>>

AppendItems ==
    /\ main = "append" /\ main' = "root"
    /\ SetupItems
    /\ UNCHANGED <<others, root, rootInserted, rootIndex, rootOriginalCount,
                   bridgeAddress, site>>

\* The new entry goes in front of the miscellaneous menu.
InsertRootItem ==
    /\ main = "root"
    /\ LET n == CountOf(root)
           misc == {i \in 0 .. n - 1 : root[i] = "misc"}
           index == CHOOSE i \in misc : \A j \in misc : i <= j
       IN  IF n < RootSlots - 1 /\ misc # {}
             THEN /\ root' = [i \in Slots |->
                        IF i = index THEN "menu"
                        ELSE IF index < i /\ i <= n + 1 THEN root[i - 1] ELSE root[i]]
                  /\ rootInserted' = TRUE /\ rootIndex' = index
                  /\ rootOriginalCount' = n
                  /\ main' = "bridge" /\ UNCHANGED registry
             ELSE /\ ResetRegistry /\ main' = "unloaded"
                  /\ UNCHANGED <<root, rootInserted, rootIndex, rootOriginalCount>>
    /\ UNCHANGED <<others, bridgeAddress, site>>

\* MapPage may fail; a site that does not hold the stock words is left alone.
InstallBridgeHook(mapped) ==
    /\ main = "bridge"
    /\ IF mapped /\ site["bridge"] = "stock"
         THEN /\ site' = [site EXCEPT !["bridge"] = "ours"] /\ bridgeAddress' = TRUE
              /\ main' = "draw"
              /\ UNCHANGED <<registry, root, rootInserted, rootIndex, rootOriginalCount>>
         ELSE /\ RemoveRootItem /\ ResetRegistry
              /\ main' = "unloaded"
              /\ UNCHANGED <<site, bridgeAddress>>
    /\ UNCHANGED others

InstallDrawStringHook(mapped) ==
    /\ main = "draw"
    /\ IF mapped /\ site["draw"] = "stock"
         THEN site' = [site EXCEPT !["draw"] = "ours"] /\ main' = "resident"
         ELSE main' = "rollback" /\ UNCHANGED site
    /\ UNCHANGED <<others, registry, root, rootInserted, rootIndex,
                   rootOriginalCount, bridgeAddress>>

Stays(restored) == FALSE    \* mutant: it stays without its handler
LeavesAnyway(restored) == TRUE    \* mutant: the rollback's result is ignored
\* Main returns FALSE only if the rollback took the branch out of the host.
Leaves(restored) == restored

\* RemoveBridgeHook, the last thing that can fail.
RollBack(mapped) ==
    /\ main = "rollback"
    /\ LET restored == ~bridgeAddress \/ (mapped /\ site["bridge"] = "ours") IN
           /\ IF bridgeAddress /\ restored
                THEN site' = [site EXCEPT !["bridge"] = "stock"] /\ bridgeAddress' = FALSE
                ELSE UNCHANGED <<site, bridgeAddress>>
           /\ IF Leaves(restored)
                THEN RemoveRootItem /\ ResetRegistry /\ main' = "unloaded"
                ELSE /\ main' = "resident"
                     /\ UNCHANGED <<registry, root, rootInserted, rootIndex,
                                    rootOriginalCount>>
    /\ UNCHANGED others

Main ==
    \/ AppendItems \/ InsertRootItem
    \/ \E mapped \in BOOLEAN :
           InstallBridgeHook(mapped) \/ InstallDrawStringHook(mapped) \/ RollBack(mapped)

Next ==
    \/ Main
    \/ main = "resident" /\ (PageStep \/ ConsumerCall) /\ UNCHANGED startVars

Spec == Init /\ [][Next]_vars

-----------------------------------------------------------------------------
(* What is expected of it *)

TypeOK ==
    /\ PageTypeOK
    /\ main \in {"append", "root", "bridge", "draw", "rollback", "resident", "unloaded"}
    /\ {root, rootBefore} \subseteq [Slots -> {"misc", "other", "menu", "end"}]
    /\ rootInserted \in BOOLEAN /\ rootIndex \in Slots /\ rootOriginalCount \in Slots
    /\ bridgeAddress \in BOOLEAN
    /\ {site, siteBefore} \subseteq [Sites -> {"stock", "foreign", "ours"}]

\* What Rosalina shows of its root menu, which it reads up to the terminator.
ShownRoot(r) == [i \in 0 .. CountOf(r) - 1 |-> r[i]]

\* "draw hook stays last because it has no unload-time rollback path": when Main
\* gives the image up, no branch into it is left in the host, Rosalina's root
\* menu is what it was, terminated, and no entry of the list survives.
UnloadedLeavesNothing ==
    main = "unloaded" =>
        /\ site = siteBefore
        /\ \E n \in Slots : root[n] = "end"
        /\ ShownRoot(root) = ShownRoot(rootBefore)
        /\ items = <<>> /\ \A i \in Items : page[i] = Null

\* "Failed bridge rollback leaves a host branch into this image, so stay
\* resident": an image that stays has its branch in the handler, its entry in
\* front of the miscellaneous menu of an otherwise unchanged root menu with its
\* terminator inside the array, and its own two entries in the list.
ResidentIsComplete ==
    main = "resident" =>
        /\ site["bridge"] = "ours"
        /\ \E n \in Slots : root[n] = "end" /\ n = CountOf(rootBefore) + 1
        /\ root[rootIndex] = "menu" /\ root[rootIndex + 1] = "misc"
        /\ \A i \in 0 .. CountOf(rootBefore) - 1 :
               root[IF i < rootIndex THEN i ELSE i + 1] = rootBefore[i]
        /\ Len(items) >= 2 /\ items[1] = Manage /\ items[2] = Online

-----------------------------------------------------------------------------
(* What makes it inductive *)

\* The page runs only once Main has returned TRUE.
Idle == main # "resident" => pc = "closed"

\* Before Main lists MENU's entries and after it gave them up there are none.
EntriesInv ==
    /\ main \in {"append", "unloaded"} => items = <<>> /\ \A i \in Items : page[i] = Null
    /\ main \in {"root", "bridge", "draw", "rollback"} =>
           items = <<Manage, Online>> /\ \A r \in Regs : page[r] = Null
    /\ main = "resident" =>
           Len(items) >= 2 /\ items[1] = Manage /\ items[2] = Online

\* What the root menu is while MENU's entry is in it.
RootWithItem ==
    [i \in Slots |-> IF i = rootIndex THEN "menu"
                     ELSE IF rootIndex < i /\ i <= rootOriginalCount + 1
                       THEN rootBefore[i - 1] ELSE rootBefore[i]]

RootInv ==
    /\ rootBefore \in HostRoots
    /\ rootInserted <=> main \in {"bridge", "draw", "rollback", "resident"}
    /\ ~rootInserted => root = rootBefore
    /\ rootInserted =>
           /\ root = RootWithItem
           /\ rootOriginalCount = CountOf(rootBefore) /\ rootOriginalCount < RootSlots - 1
           /\ rootIndex < rootOriginalCount /\ rootBefore[rootIndex] = "misc"

SiteInv ==
    /\ siteBefore \in [Sites -> {"stock", "foreign"}]
    /\ bridgeAddress <=> main \in {"draw", "rollback", "resident"}
    /\ site["bridge"] = IF bridgeAddress THEN "ours" ELSE siteBefore["bridge"]
    /\ bridgeAddress => siteBefore["bridge"] = "stock"
    /\ main # "resident" => site["draw"] = siteBefore["draw"]

MenuInv == TypeOK /\ PageInv /\ Idle /\ EntriesInv /\ RootInv /\ SiteInv
=============================================================================
