---------------------------- MODULE LoaderHooks ----------------------------
(***************************************************************************)
(* How MENU's Loader half comes to life: PLUGIN_MENU_Main diverts six call *)
(* sites of stock Loader into the plugin, starts the bridge worker, and    *)
(* undoes everything when a step fails (menu_loader_hooks.c,               *)
(* menu_loader_memory.c, the end of menu_loader.c).                        *)
(*                                                                         *)
(* Main returns whether the image may be unloaded, so a site that is still *)
(* diverted when it returns FALSE is a branch into freed memory.  Code     *)
(* pages are written through an alias between two guard pages, because the *)
(* unmap call frees too much when one alias lies right behind another.     *)
(*                                                                         *)
(* One system call is one step.  Main is taken to run alone: it locks      *)
(* nothing, and the plugins that register come after it.  A call that      *)
(* fails uses up one of the faults; giving back a page just taken does not *)
(* fail.                                                                   *)
(***************************************************************************)
EXTENDS Integers

CONSTANTS
    PageCount,  \* pages of the range MENU_SCRATCH_LOW .. MENU_SCRATCH_HIGH
    UsedPages,  \* which of them may be in use when Main is called: a set of sets
    MaxFaults   \* bound: how many system calls fail

ASSUME PageAssumption == PageCount \in Nat
ASSUME UsedAssumption == UsedPages \subseteq SUBSET (1 .. PageCount)
ASSUME FaultAssumption == MaxFaults \in Nat

\* The sites in the order in which InstallLoaderHooks takes them: patchCode,
\* HOME, create code set, create process, plgldrInit, plgldr close.
FirstSite == 1
LastSite == 6
PatchCode == 1
Sites == FirstSite .. LastSite
Pages == 1 .. PageCount

VARIABLES
    host,       \* the words at each site before Main: "stock" or "foreign"
    code,       \* the words there now; "hook" leads into MENU
    address,    \* the sites whose g_MENU...Address is set
    saved,      \* g_MENU...Original of each site
    memory,     \* the pages of the scratch range
    base,       \* guardBase of the mapping under way, or 0
    phase,      \* which of InstallLoaderHooks, StartBridgeWorker, Rollback runs
    site,       \* the site it is working on
    at,         \* where it is in Install...Hook, Restore...Hook and below
    result,     \* what ReplaceHookPair is about to return
    hooksReady, \* g_MENUHooksReady
    worker,     \* the bridge worker: "none", "event" created, "running"
    loaded,     \* "starting", and what Main decides: "resident", "unloaded"
    faults,     \* bookkeeping of the bound: calls that failed
    refused     \* sites whose Restore...Hook returned FALSE: the local "ok"
                \* of RollbackLoaderHooks says that there is none

progress == <<phase, site, at>>
tables == <<code, address, saved>>
outcome == <<hooksReady, worker, loaded, refused>>
vars == <<host, tables, memory, base, progress, result, outcome, faults>>

Init ==
    /\ host \in [Sites -> {"stock", "foreign"}]
    /\ code = host /\ address = {} /\ saved = [s \in Sites |-> "none"]
    /\ \E used \in UsedPages :
           memory = [p \in Pages |-> IF p \in used THEN "used" ELSE "free"]
    /\ base = 0
    /\ phase = "install" /\ site = FirstSite /\ at = "locate"
    /\ result = FALSE /\ hooksReady = FALSE /\ worker = "none"
    /\ loaded = "starting" /\ faults = 0 /\ refused = {}

MayFail == faults < MaxFaults
NoFault == UNCHANGED faults
Fault == MayFail /\ faults' = faults + 1

-----------------------------------------------------------------------------
(* Install...Hook before ReplaceHookPair, Restore...Hook before it *)

RollBackFrom(s) == phase' = "rollback" /\ site' = s /\ at' = "restore"

\* The patterns around a site are matched, the words are saved and the address
\* is recorded ahead of the write.  patchCode has no pattern, only an address,
\* and it and the plgldrInit call record theirs after the write; nothing reads
\* the difference, because the failing path of the others clears it again.
Locate ==
    /\ phase = "install" /\ at = "locate"
    /\ IF site = PatchCode \/ code[site] = "stock"
         THEN /\ at' = "find" /\ UNCHANGED <<phase, site>>
              /\ saved' = [saved EXCEPT ![site] =
                               IF site = PatchCode THEN "stock" ELSE code[site]]
         ELSE RollBackFrom(LastSite) /\ UNCHANGED saved
    /\ NoFault
    /\ UNCHANGED <<host, code, address, memory, base, result, outcome>>

\* Mutant: a rollback ends at the first site it cannot restore.
NextRestoreStops(restored) == IF restored THEN site - 1 ELSE 0
\* Restore...Hook is called for every site, whatever the one before returned.
NextRestore(restored) == site - 1

\* The end of RollbackLoaderHooks and of Main: "return !Rollback".
\* Mutant: Main takes the result of the rollback for its own.
DecidedByRollback(allRestored) == IF allRestored THEN "resident" ELSE "unloaded"
Decided(allRestored) == IF allRestored THEN "unloaded" ELSE "resident"

AfterRestore(restored) ==
    /\ refused' = IF restored THEN refused ELSE refused \cup {site}
    /\ address' = IF restored THEN address \ {site} ELSE address
    /\ site' = NextRestore(restored)
    /\ IF site' < FirstSite
         THEN phase' = "done" /\ loaded' = Decided(refused' = {})
         ELSE UNCHANGED <<phase, loaded>>
    /\ at' = "restore"

RestoreSkip ==
    /\ phase = "rollback" /\ at = "restore" /\ site \notin address
    /\ AfterRestore(TRUE)
    /\ NoFault
    /\ UNCHANGED <<host, code, saved, memory, base, result, hooksReady, worker>>

RestoreBegin ==
    /\ phase = "rollback" /\ at = "restore" /\ site \in address
    /\ at' = "find"
    /\ NoFault
    /\ UNCHANGED <<host, tables, memory, base, phase, site, result, outcome>>

-----------------------------------------------------------------------------
(* PLUGIN_MENU_MapPage, the write of the pair, PLUGIN_MENU_UnmapPage *)

\* Steps of the mapping change only the pages and where the caller stands.
MapStep(next) ==
    /\ at' = next
    /\ UNCHANGED <<host, tables, phase, site, outcome>>

FreeRange(b, size) == \A p \in b .. b + size - 1 : p \in Pages /\ memory[p] = "free"

\* The highest fit in the highest free range that is large enough.
FindFreeRange(size) ==
    {b \in Pages : FreeRange(b, size)
                     /\ \A c \in Pages : FreeRange(c, size) => c <= b}

Find ==
    /\ at = "find"
    /\ \/ /\ base' \in FindFreeRange(3) /\ NoFault
          /\ MapStep("guardLow") /\ UNCHANGED <<memory, result>>
       \/ /\ \/ FindFreeRange(3) = {} /\ NoFault
             \/ Fault
          /\ MapStep("return") /\ result' = FALSE /\ UNCHANGED <<memory, base>>

GuardLow ==
    /\ at = "guardLow"
    /\ \/ /\ memory' = [memory EXCEPT ![base] = "guard"] /\ NoFault
          /\ MapStep("guardHigh") /\ UNCHANGED <<base, result>>
       \/ /\ Fault /\ base' = 0
          /\ MapStep("return") /\ result' = FALSE /\ UNCHANGED memory

\* Mutant: the lower guard stays when there is no memory for the upper one.
GuardHighLeaks ==
    /\ at = "guardHigh"
    /\ \/ /\ memory' = [memory EXCEPT ![base + 2] = "guard"] /\ NoFault
          /\ MapStep("map") /\ UNCHANGED <<base, result>>
       \/ /\ Fault /\ base' = 0 /\ MapStep("return") /\ result' = FALSE
          /\ UNCHANGED memory

GuardHigh ==
    /\ at = "guardHigh"
    /\ \/ /\ memory' = [memory EXCEPT ![base + 2] = "guard"] /\ NoFault
          /\ MapStep("map") /\ UNCHANGED <<base, result>>
       \/ /\ Fault /\ base' = 0
          /\ memory' = [memory EXCEPT ![base] = "free"]
          /\ MapStep("return") /\ result' = FALSE

MapAlias ==
    /\ at = "map"
    /\ \/ /\ memory' = [memory EXCEPT ![base + 1] = "alias"] /\ NoFault
          /\ MapStep("swap") /\ UNCHANGED <<base, result>>
       \/ /\ Fault /\ base' = 0
          /\ memory' = [memory EXCEPT ![base + 2] = "free", ![base] = "free"]
          /\ MapStep("return") /\ result' = FALSE

\* The pair is written only over the words the caller expects, and read back;
\* a pair that does not read back is overwritten with the expected words.
Expected == IF phase = "install" THEN saved[site] ELSE "hook"
Replacement == IF phase = "install" THEN "hook" ELSE saved[site]

\* Mutant: the words are not compared.
SwapPairUnchecked ==
    /\ at = "swap" /\ at' = "unmap"
    /\ code' = [code EXCEPT ![site] = Replacement] /\ result' = TRUE /\ NoFault
    /\ UNCHANGED <<host, address, saved, memory, base, phase, site, outcome>>

SwapPair ==
    /\ at = "swap" /\ at' = "unmap"
    /\ \/ /\ code[site] = Expected /\ NoFault
          /\ code' = [code EXCEPT ![site] = Replacement] /\ result' = TRUE
       \/ /\ \/ code[site] # Expected /\ NoFault
             \/ Fault
          /\ result' = FALSE /\ UNCHANGED code
    /\ UNCHANGED <<host, address, saved, memory, base, phase, site, outcome>>

\* Mutant: the guards go although the alias stays.
UnmapPageAlwaysFrees ==
    /\ at = "unmap" /\ base' = 0
    /\ \/ memory' = [memory EXCEPT ![base] = "free", ![base + 1] = "free",
                                   ![base + 2] = "free"] /\ NoFault
       \/ memory' = [memory EXCEPT ![base] = "free", ![base + 2] = "free"] /\ Fault
    /\ MapStep("return") /\ UNCHANGED result

\* A failed unmap keeps its guards and is not reported.
UnmapPage ==
    /\ at = "unmap" /\ base' = 0
    /\ \/ memory' = [memory EXCEPT ![base] = "free", ![base + 1] = "free",
                                   ![base + 2] = "free"] /\ NoFault
       \/ UNCHANGED memory /\ Fault
    /\ MapStep("return") /\ UNCHANGED result

-----------------------------------------------------------------------------
(* What Install...Hook and Restore...Hook do with the result *)

InstallReturn ==
    /\ phase = "install" /\ at = "return"
    /\ IF result
         THEN /\ address' = address \cup {site}
              /\ IF site = LastSite
                   THEN phase' = "worker" /\ hooksReady' = TRUE /\ UNCHANGED <<site, at>>
                   ELSE site' = site + 1 /\ at' = "locate" /\ UNCHANGED <<phase, hooksReady>>
         ELSE RollBackFrom(LastSite) /\ UNCHANGED <<address, hooksReady>>
    /\ NoFault
    /\ UNCHANGED <<host, code, saved, memory, base, result, worker, loaded, refused>>

RestoreReturn ==
    /\ phase = "rollback" /\ at = "return"
    /\ AfterRestore(result)
    /\ NoFault
    /\ UNCHANGED <<host, code, saved, memory, base, result, hooksReady, worker>>

-----------------------------------------------------------------------------
(* PLUGIN_MENU_StartBridgeWorker, and what Main does when it fails *)

CreateEvent ==
    /\ phase = "worker" /\ worker = "none"
    /\ worker' = "event" /\ NoFault
    /\ UNCHANGED <<host, tables, memory, base, progress, result, hooksReady,
                   loaded, refused>>

CreateThread ==
    /\ phase = "worker" /\ worker = "event"
    /\ worker' = "running" /\ phase' = "done" /\ loaded' = "resident" /\ NoFault
    /\ UNCHANGED <<host, tables, memory, base, site, at, result, hooksReady, refused>>

\* Mutant: Main leaves the flag up that lets plugins register.
WorkerFailsReady ==
    /\ phase = "worker" /\ Fault
    /\ worker' = "none" /\ RollBackFrom(LastSite)
    /\ UNCHANGED <<host, tables, memory, base, result, hooksReady, loaded, refused>>

WorkerFails ==
    /\ phase = "worker" /\ Fault
    /\ worker' = "none" /\ hooksReady' = FALSE /\ RollBackFrom(LastSite)
    /\ UNCHANGED <<host, tables, memory, base, result, loaded, refused>>

-----------------------------------------------------------------------------
Next ==
    \/ Locate \/ RestoreSkip \/ RestoreBegin
    \/ Find \/ GuardLow \/ GuardHigh \/ MapAlias \/ SwapPair \/ UnmapPage
    \/ InstallReturn \/ RestoreReturn
    \/ CreateEvent \/ CreateThread \/ WorkerFails

Spec == Init /\ [][Next]_vars

-----------------------------------------------------------------------------
(* What is expected of it *)

Words == {"stock", "foreign", "hook"}

\* Types of every variable; a site holds its own words or the branch into MENU.
TypeOK ==
    /\ host \in [Sites -> {"stock", "foreign"}] /\ code \in [Sites -> Words]
    /\ \A s \in Sites : code[s] \in {host[s], "hook"}
    /\ address \subseteq Sites /\ saved \in [Sites -> Words \cup {"none"}]
    /\ memory \in [Pages -> {"free", "used", "guard", "alias"}]
    /\ base \in 0 .. PageCount
    /\ phase \in {"install", "worker", "rollback", "done"}
    /\ site \in 0 .. LastSite
    /\ at \in {"locate", "restore", "find", "guardLow", "guardHigh", "map",
               "swap", "unmap", "return"}
    /\ result \in BOOLEAN /\ hooksReady \in BOOLEAN
    /\ worker \in {"none", "event", "running"}
    /\ loaded \in {"starting", "resident", "unloaded"}
    /\ faults \in 0 .. MaxFaults /\ refused \subseteq Sites

\* "stay resident so no host branch can point at unloaded code": when Main lets
\* the image go, every call site of Loader is word for word what it was before.
UnloadedIsRestored == loaded = "unloaded" => code = host

\* Plugins may register exactly when all six hooks are in place and the worker
\* drains the bridge: a callback that is accepted is one that will be called.
\* MENU stays without that only over sites it could not restore: the rollback
\* tries every site, and the sites it leaves are those that refused.
ReadyOrRefused ==
    /\ loaded # "starting" =>
           (hooksReady <=> worker = "running" /\ \A s \in Sites : code[s] = "hook")
    /\ loaded = "resident" /\ ~hooksReady =>
           refused # {} /\ {s \in Sites : code[s] = "hook"} = refused

\* "maps [guard page][alias page][guard page]": no alias ever has another page
\* than a guard of its own next to it, failed unmaps included, and whatever step
\* fails, a guard outlives its mapping only with the alias.
AliasesGuarded ==
    /\ \A p \in Pages : memory[p] = "alias" =>
           {p - 1, p + 1} \subseteq Pages /\ memory[p - 1] = "guard" /\ memory[p + 1] = "guard"
    /\ base = 0 => \A p \in Pages : memory[p] = "guard" =>
           \E q \in {p - 1, p + 1} \cap Pages : memory[q] = "alias"

-----------------------------------------------------------------------------
(* The inductive invariant behind the theorems of LoaderHooksProofs *)

\* The pair of the site under way is written, and its caller does not know yet.
Written ==
    phase \in {"install", "rollback"} /\ at \in {"unmap", "return"} /\ result

\* The recorded sites are the diverted ones, but for the one just written.
RecordInv ==
    /\ \A s \in Sites : code[s] = "hook" <=>
           IF Written /\ s = site THEN phase = "install" ELSE s \in address
    /\ \A s \in address : host[s] = "stock" /\ saved[s] = "stock"

InstallInv ==
    phase = "install" =>
        /\ site \in Sites /\ at # "restore"
        /\ \A s \in Sites : s \in address <=> s < site
        /\ at # "locate" => saved[site] = "stock"
        /\ Written => host[site] = "stock"
        /\ ~hooksReady /\ worker = "none" /\ refused = {} /\ loaded = "starting"

WorkerInv ==
    phase = "worker" =>
        /\ address = Sites /\ at = "return" /\ hooksReady /\ worker # "running"
        /\ refused = {} /\ loaded = "starting"

\* The sites behind the one being restored are still recorded if they refused.
RollbackInv ==
    phase = "rollback" =>
        /\ site \in Sites
        /\ \A s \in Sites : s \in refused <=> s \in address /\ s > site
        /\ at \notin {"locate", "restore"} => site \in address
        /\ at # "locate" /\ ~hooksReady /\ worker = "none" /\ loaded = "starting"

DoneInv ==
    phase = "done" =>
        /\ at \in {"return", "restore"}
        /\ \/ hooksReady /\ worker = "running" /\ address = Sites /\ loaded = "resident"
           \/ /\ ~hooksReady /\ worker = "none" /\ address = refused
              /\ loaded = IF refused = {} THEN "unloaded" ELSE "resident"

HookInv == TypeOK /\ RecordInv /\ InstallInv /\ WorkerInv /\ RollbackInv /\ DoneInv
=============================================================================
