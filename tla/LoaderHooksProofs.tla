------------------------- MODULE LoaderHooksProofs -------------------------
(***************************************************************************)
(* Theorems about LoaderHooks, for every scratch range, whatever is in use *)
(* there, and every number of calls that fail.                             *)
(***************************************************************************)
EXTENDS LoaderHooks, TLAPS

\* Two sets of sites with the same sites in them.
LEMMA SameSites ==
    ASSUME NEW A \in SUBSET Sites, NEW B \in SUBSET Sites,
           \A s \in Sites : s \in A <=> s \in B
    PROVE  A = B
<1> QED
  OBVIOUS

\* A step of the mapping changes neither a site nor what is recorded of one.
LEMMA MapStepKeeps ==
    ASSUME HookInv, NEW next,
           next \in {"guardLow", "guardHigh", "map", "swap", "return"},
           at \in {"find", "guardLow", "guardHigh", "map"}, MapStep(next),
           result' \in BOOLEAN, next = "return" => ~result',
           base' \in 0 .. PageCount, faults' \in 0 .. MaxFaults,
           memory' \in [Pages -> {"free", "used", "guard", "alias"}]
    PROVE  HookInv'
<1> USE DEF MapStep, tables, outcome
<1>1. TypeOK'
  BY DEF HookInv, TypeOK
<1>2. Written <=> FALSE
  BY DEF Written
<1>3. Written' <=> FALSE
  BY DEF Written
<1>4. RecordInv'
  BY <1>2, <1>3 DEF HookInv, RecordInv
<1>5. InstallInv' /\ WorkerInv' /\ RollbackInv' /\ DoneInv'
  BY <1>3 DEF HookInv, InstallInv, WorkerInv, RollbackInv, DoneInv
<1> QED
  BY <1>1, <1>4, <1>5 DEF HookInv

\* What happens after a site is dealt with in the rollback.
LEMMA AfterRestoreKeeps ==
    ASSUME HookInv, phase = "rollback", NEW restored \in BOOLEAN,
           AfterRestore(restored), NoFault,
           \/ at = "restore" /\ site \notin address /\ restored
           \/ at = "return" /\ site \in address /\ restored = result,
           UNCHANGED <<host, code, saved, memory, base, result, hooksReady, worker>>
    PROVE  HookInv'
<1> USE DEF AfterRestore, NextRestore, Decided, NoFault, Sites, FirstSite, LastSite
<1>1. site \in Sites /\ site' = site - 1 /\ at' = "restore"
  BY DEF HookInv, RollbackInv
<1>2. TypeOK'
  BY <1>1 DEF HookInv, TypeOK
<1>3. ~Written'
  BY <1>1 DEF Written
<1>4. Written <=> at = "return" /\ restored
  BY DEF Written
<1>5. RecordInv'
  BY <1>1, <1>3, <1>4 DEF HookInv, RecordInv, TypeOK
<1>6. \A s \in Sites : s \in refused' <=> s \in address' /\ s > site'
  <2>1. \A s \in Sites : s \in refused <=> s \in address /\ s > site
    BY DEF HookInv, RollbackInv
  <2>2. CASE restored
    BY <1>1, <2>1, <2>2
  <2>3. CASE ~restored
    BY <1>1, <2>1, <2>3 DEF HookInv, RollbackInv
  <2> QED
    BY <2>2, <2>3
<1>7. address' \subseteq Sites /\ refused' \subseteq Sites
  BY <1>2 DEF TypeOK
<1>8. CASE site' < FirstSite
  <2>1. phase' = "done" /\ loaded' = Decided(refused' = {})
    BY <1>8
  <2>2. address' = refused'
    <3>1. \A s \in Sites : s > site'
      BY <1>1, <1>8
    <3>2. \A s \in Sites : s \in address' <=> s \in refused'
      BY <1>6, <3>1
    <3> QED
      BY <1>7, <3>2, SameSites
  <2> QED
    BY <1>1, <1>2, <1>5, <2>1, <2>2
    DEF HookInv, InstallInv, WorkerInv, RollbackInv, DoneInv
<1>9. CASE ~(site' < FirstSite)
  <2>1. phase' = "rollback" /\ site' \in Sites /\ loaded' = loaded
    BY <1>1, <1>9
  <2> QED
    BY <1>1, <1>2, <1>5, <1>6, <2>1
    DEF HookInv, InstallInv, WorkerInv, RollbackInv, DoneInv
<1> QED
  BY <1>8, <1>9

\* The rollback begins with the last site and with nothing refused.
LEMMA RollBackBegins ==
    ASSUME HookInv, RollBackFrom(LastSite), refused = {}, loaded = "starting",
           ~Written,
           hooksReady' = FALSE, worker' = "none", faults' \in 0 .. MaxFaults,
           saved' \in [Sites -> Words \cup {"none"}],
           \A s \in address : saved'[s] = saved[s],
           UNCHANGED <<host, code, address, memory, base, result, loaded, refused>>
    PROVE  HookInv'
<1> USE DEF RollBackFrom, Sites, FirstSite, LastSite
<1>1. TypeOK'
  <2>1. /\ site' \in 0 .. LastSite /\ phase' \in {"install", "worker", "rollback", "done"}
        /\ at' \in {"locate", "restore", "find", "guardLow", "guardHigh", "map",
                   "swap", "unmap", "return"}
        /\ worker' \in {"none", "event", "running"}
    OBVIOUS
  <2>2. hooksReady' \in BOOLEAN
    OBVIOUS
  <2> HIDE DEF RollBackFrom, Sites, LastSite
  <2> QED
    BY <2>1, <2>2 DEF HookInv, TypeOK
<1>2. ~Written'
  BY DEF Written
<1>3. RecordInv'
  BY <1>2 DEF HookInv, RecordInv, TypeOK
<1>4. \A s \in Sites : s \in refused' <=> s \in address' /\ s > site'
  OBVIOUS
<1> QED
  BY <1>1, <1>3, <1>4 DEF HookInv, InstallInv, WorkerInv, RollbackInv, DoneInv

\* The invariant holds when Main is called ...
LEMMA HookInvInit == Init => HookInv
<1> SUFFICES ASSUME Init PROVE HookInv
  OBVIOUS
<1> USE DEF Init, Sites, FirstSite, LastSite
<1>1. TypeOK
  <2>1. memory \in [Pages -> {"free", "used", "guard", "alias"}]
    OBVIOUS
  <2>2. faults \in 0 .. MaxFaults /\ base \in 0 .. PageCount
    BY FaultAssumption, PageAssumption
  <2>3. code \in [Sites -> Words] /\ \A s \in Sites : code[s] \in {host[s], "hook"}
    BY DEF Words
  <2>4. host \in [Sites -> {"stock", "foreign"}] /\ site \in 0 .. LastSite
    OBVIOUS
  <2>5. saved \in [Sites -> Words \cup {"none"}] /\ address \subseteq Sites
    OBVIOUS
  <2> QED
    BY <2>1, <2>2, <2>3, <2>4, <2>5 DEF TypeOK
<1>2. RecordInv
  BY DEF RecordInv, Written
<1>3. InstallInv
  BY DEF InstallInv, Written
<1> QED
  BY <1>1, <1>2, <1>3 DEF HookInv, WorkerInv, RollbackInv, DoneInv

\* ... and every step of it keeps the invariant.
LEMMA HookInvNext == HookInv /\ [Next]_vars => HookInv'
<1> SUFFICES ASSUME HookInv, [Next]_vars PROVE HookInv'
  OBVIOUS
<1> USE DEF NoFault, Fault, MayFail
<1>f. faults' \in 0 .. MaxFaults
  <2>1. faults \in 0 .. MaxFaults
    BY DEF HookInv, TypeOK
  <2>2. \/ faults' = faults
        \/ faults < MaxFaults /\ faults' = faults + 1
    <3>1. CASE Locate \/ RestoreSkip \/ RestoreBegin \/ InstallReturn \/ RestoreReturn
      BY <3>1 DEF Locate, RestoreSkip, RestoreBegin, InstallReturn, RestoreReturn
    <3>2. CASE Find \/ GuardLow \/ GuardHigh \/ MapAlias
      BY <3>2 DEF Find, GuardLow, GuardHigh, MapAlias
    <3>3. CASE SwapPair \/ UnmapPage
      BY <3>3 DEF SwapPair, UnmapPage
    <3>4. CASE CreateEvent \/ CreateThread \/ WorkerFails
      BY <3>4 DEF CreateEvent, CreateThread, WorkerFails
    <3>5. CASE UNCHANGED vars
      BY <3>5 DEF vars
    <3> QED
      BY <3>1, <3>2, <3>3, <3>4, <3>5 DEF Next
  <2> QED
    BY <2>1, <2>2, FaultAssumption
<1>1. CASE Locate
  <2> USE <1>1 DEF Locate, outcome
  <2>1. CASE site = PatchCode \/ code[site] = "stock"
    <3>1. at' = "find" /\ UNCHANGED <<phase, site>> /\ saved'[site] = "stock"
            /\ \A s \in Sites \ {site} : saved'[s] = saved[s]
      BY <2>1 DEF HookInv, TypeOK, InstallInv
    <3>2. TypeOK'
      BY <2>1, <3>1 DEF HookInv, TypeOK, Words
    <3>3. ~Written /\ ~Written'
      BY <3>1 DEF Written
    <3>4. RecordInv'
      BY <3>1, <3>3 DEF HookInv, RecordInv, TypeOK
    <3> QED
      BY <3>1, <3>2, <3>3, <3>4
      DEF HookInv, InstallInv, WorkerInv, RollbackInv, DoneInv
  <2>2. CASE ~(site = PatchCode \/ code[site] = "stock")
    <3>1. ~Written
      BY DEF Written
    <3>2. refused = {} /\ loaded = "starting" /\ hooksReady = FALSE /\ worker = "none"
      BY DEF HookInv, InstallInv, TypeOK
    <3>3. saved \in [Sites -> Words \cup {"none"}]
      BY DEF HookInv, TypeOK
    <3> QED
      BY <2>2, <3>1, <3>2, <3>3, <1>f, RollBackBegins DEF HookInv, TypeOK
  <2> QED
    BY <2>1, <2>2
<1>2. CASE RestoreSkip
  BY <1>2, AfterRestoreKeeps DEF RestoreSkip
<1>3. CASE RestoreBegin
  <2> USE <1>3 DEF RestoreBegin, tables, outcome
  <2>1. ~Written /\ ~Written'
    BY DEF Written
  <2>2. TypeOK' /\ RecordInv'
    BY <2>1 DEF HookInv, TypeOK, RecordInv
  <2> QED
    BY <2>1, <2>2 DEF HookInv, InstallInv, WorkerInv, RollbackInv, DoneInv
<1>4. CASE Find
  <2>1. FindFreeRange(3) \subseteq 0 .. PageCount
    BY PageAssumption DEF FindFreeRange, Pages
  <2> QED
    BY <1>4, <1>f, <2>1, MapStepKeeps DEF Find, HookInv, TypeOK
<1>5. CASE GuardLow
  <2>1. /\ memory' \in [Pages -> {"free", "used", "guard", "alias"}]
        /\ base' \in 0 .. PageCount /\ result' \in BOOLEAN
    <3>1. /\ memory \in [Pages -> {"free", "used", "guard", "alias"}]
          /\ base \in 0 .. PageCount /\ result \in BOOLEAN
      BY DEF HookInv, TypeOK
    <3>2. 0 \in 0 .. PageCount
      BY PageAssumption
    <3> QED
      BY <1>5, <3>1, <3>2 DEF GuardLow
  <2>2. CASE MapStep("guardHigh")
    BY <1>5, <1>f, <2>1, <2>2, MapStepKeeps DEF GuardLow
  <2>3. CASE MapStep("return") /\ ~result'
    BY <1>5, <1>f, <2>1, <2>3, MapStepKeeps DEF GuardLow
  <2> QED
    BY <1>5, <2>2, <2>3 DEF GuardLow
<1>6. CASE GuardHigh
  <2>1. /\ memory' \in [Pages -> {"free", "used", "guard", "alias"}]
        /\ base' \in 0 .. PageCount /\ result' \in BOOLEAN
    <3>1. /\ memory \in [Pages -> {"free", "used", "guard", "alias"}]
          /\ base \in 0 .. PageCount /\ result \in BOOLEAN
      BY DEF HookInv, TypeOK
    <3>2. 0 \in 0 .. PageCount
      BY PageAssumption
    <3> QED
      BY <1>6, <3>1, <3>2 DEF GuardHigh
  <2>2. CASE MapStep("map")
    BY <1>6, <1>f, <2>1, <2>2, MapStepKeeps DEF GuardHigh
  <2>3. CASE MapStep("return") /\ ~result'
    BY <1>6, <1>f, <2>1, <2>3, MapStepKeeps DEF GuardHigh
  <2> QED
    BY <1>6, <2>2, <2>3 DEF GuardHigh
<1>7. CASE MapAlias
  <2>1. /\ memory' \in [Pages -> {"free", "used", "guard", "alias"}]
        /\ base' \in 0 .. PageCount /\ result' \in BOOLEAN
    <3>1. /\ memory \in [Pages -> {"free", "used", "guard", "alias"}]
          /\ base \in 0 .. PageCount /\ result \in BOOLEAN
      BY DEF HookInv, TypeOK
    <3>2. 0 \in 0 .. PageCount
      BY PageAssumption
    <3> QED
      BY <1>7, <3>1, <3>2 DEF MapAlias
  <2>2. CASE MapStep("swap")
    BY <1>7, <1>f, <2>1, <2>2, MapStepKeeps DEF MapAlias
  <2>3. CASE MapStep("return") /\ ~result'
    BY <1>7, <1>f, <2>1, <2>3, MapStepKeeps DEF MapAlias
  <2> QED
    BY <1>7, <2>2, <2>3 DEF MapAlias
<1>8. CASE SwapPair
  <2> USE <1>8 DEF SwapPair, outcome
  <2>1. phase \in {"install", "rollback"} /\ site \in Sites /\ saved[site] = "stock"
    BY DEF HookInv, InstallInv, WorkerInv, RollbackInv, DoneInv, RecordInv, TypeOK
  <2>2. phase = "install" <=> site \notin address
    BY <2>1 DEF HookInv, InstallInv, RollbackInv, Sites, FirstSite, LastSite
  <2>3. ~Written /\ (Written' <=> result')
    BY <2>1 DEF Written
  <2>4. CASE ~result'
    <3>1. code' = code
      BY <2>4
    <3>2. TypeOK'
      BY <1>f, <2>4, <3>1 DEF HookInv, TypeOK
    <3>3. RecordInv'
      BY <2>3, <2>4, <3>1 DEF HookInv, RecordInv
    <3> QED
      BY <2>1, <2>3, <2>4, <3>1, <3>2, <3>3
      DEF HookInv, InstallInv, WorkerInv, RollbackInv, DoneInv
  <2>5. CASE result'
    <3>1. code[site] = Expected /\ code' = [code EXCEPT ![site] = Replacement]
            /\ result' \in BOOLEAN
      BY <2>5
    <3>2. host[site] = "stock"
      <4>1. CASE phase = "install"
        BY <2>1, <3>1, <4>1 DEF HookInv, TypeOK, Expected
      <4>2. CASE phase = "rollback"
        BY <2>1, <2>2, <4>2 DEF HookInv, RecordInv
      <4> QED
        BY <2>1, <4>1, <4>2
    <3>3. /\ code' \in [Sites -> Words]
          /\ code'[site] = IF phase = "install" THEN "hook" ELSE "stock"
          /\ \A s \in Sites \ {site} : code'[s] = code[s]
      BY <2>1, <3>1 DEF HookInv, TypeOK, Replacement, Words
    <3>4. TypeOK'
      <4>1. \A s \in Sites : code'[s] \in {host[s], "hook"}
        BY <2>1, <3>2, <3>3 DEF HookInv, TypeOK
      <4>2. /\ at' = "unmap" /\ result' \in BOOLEAN
            /\ UNCHANGED <<host, address, saved, memory, base, phase, site, outcome>>
        BY <3>1
      <4> HIDE <1>8 DEF SwapPair
      <4> QED
        BY <1>f, <3>3, <4>1, <4>2 DEF HookInv, TypeOK
    <3>5. RecordInv'
      BY <2>1, <2>3, <2>5, <3>3 DEF HookInv, RecordInv, TypeOK
    <3> QED
      BY <2>1, <2>3, <3>2, <3>4, <3>5
      DEF HookInv, InstallInv, WorkerInv, RollbackInv, DoneInv
  <2> QED
    BY <2>4, <2>5
<1>9. CASE UnmapPage
  <2> USE <1>9 DEF UnmapPage, MapStep, tables, outcome
  <2>1. Written' <=> Written
    BY DEF Written
  <2>2. memory' \in [Pages -> {"free", "used", "guard", "alias"}] /\ base' = 0
    BY DEF HookInv, TypeOK
  <2>3. TypeOK'
    BY <1>f, <2>2, PageAssumption DEF HookInv, TypeOK
  <2>4. RecordInv'
    BY <2>1 DEF HookInv, RecordInv
  <2> QED
    BY <2>1, <2>3, <2>4 DEF HookInv, InstallInv, WorkerInv, RollbackInv, DoneInv
<1>10. CASE InstallReturn
  <2> USE <1>10 DEF InstallReturn
  <2>1. Written <=> result
    BY DEF Written
  <2>2. site \in Sites /\ (\A s \in Sites : s \in address <=> s < site) /\ saved[site] = "stock"
          /\ refused = {} /\ loaded = "starting" /\ hooksReady = FALSE /\ worker = "none"
    BY DEF HookInv, InstallInv, TypeOK
  <2>3. CASE ~result
    <3>1. \A s \in address : saved'[s] = saved[s]
      BY <2>3
    <3>2. saved \in [Sites -> Words \cup {"none"}]
      BY DEF HookInv, TypeOK
    <3> QED
      BY <1>f, <2>1, <2>2, <2>3, <3>1, <3>2, RollBackBegins DEF HookInv, TypeOK
  <2>4. CASE result
    <3>1. address' = address \cup {site} /\ host[site] = "stock"
      BY <2>1, <2>4 DEF HookInv, InstallInv
    <3>2. ~Written'
      BY <2>4 DEF Written
    <3>3. RecordInv'
      BY <2>1, <2>2, <2>4, <3>1, <3>2 DEF HookInv, RecordInv
    <3>4. CASE site = LastSite
      <4>1. address' = Sites
        <5>1. \A s \in Sites : s \in address'
          BY <2>2, <3>1, <3>4 DEF Sites, FirstSite, LastSite
        <5>2. address' \subseteq Sites
          BY <2>2, <3>1 DEF HookInv, TypeOK
        <5> QED
          BY <5>1, <5>2
      <4>2. phase' = "worker" /\ hooksReady' = TRUE /\ UNCHANGED <<site, at>>
        BY <2>4, <3>4
      <4>3. TypeOK'
        BY <1>f, <4>1, <4>2 DEF HookInv, TypeOK
      <4> QED
        BY <2>2, <3>3, <4>1, <4>2, <4>3
        DEF HookInv, InstallInv, WorkerInv, RollbackInv, DoneInv
    <3>5. CASE site # LastSite
      <4>1. site' = site + 1 /\ at' = "locate" /\ UNCHANGED <<phase, hooksReady>>
        BY <2>4, <3>5
      <4>2. site' \in Sites /\ \A s \in Sites : s \in address' <=> s < site'
        BY <2>2, <3>1, <3>5, <4>1 DEF Sites, FirstSite, LastSite
      <4>3. TypeOK'
        <5>1. site' \in 0 .. LastSite
          BY <4>2 DEF Sites, FirstSite, LastSite
        <5>2. address' \subseteq Sites
          BY <2>2, <3>1 DEF HookInv, TypeOK
        <5> QED
          BY <1>f, <4>1, <5>1, <5>2 DEF HookInv, TypeOK
      <4> QED
        BY <2>2, <3>2, <3>3, <4>1, <4>2, <4>3
        DEF HookInv, InstallInv, WorkerInv, RollbackInv, DoneInv
    <3> QED
      BY <3>4, <3>5
  <2> QED
    BY <2>3, <2>4
<1>11. CASE RestoreReturn
  <2>1. site \in address /\ result \in BOOLEAN
    BY <1>11 DEF RestoreReturn, HookInv, RollbackInv, TypeOK
  <2> QED
    BY <1>11, <2>1, AfterRestoreKeeps DEF RestoreReturn
<1>12. CASE CreateEvent
  <2> USE <1>12 DEF CreateEvent, tables, progress
  <2>1. TypeOK' /\ RecordInv'
    BY DEF HookInv, TypeOK, RecordInv, Written
  <2> QED
    BY <2>1 DEF HookInv, InstallInv, WorkerInv, RollbackInv, DoneInv
<1>13. CASE CreateThread
  <2> USE <1>13 DEF CreateThread, tables
  <2>1. TypeOK' /\ RecordInv'
    BY DEF HookInv, TypeOK, RecordInv, Written
  <2> QED
    BY <2>1 DEF HookInv, InstallInv, WorkerInv, RollbackInv, DoneInv
<1>14. CASE WorkerFails
  <2>1. refused = {} /\ loaded = "starting" /\ ~Written
    BY <1>14 DEF WorkerFails, HookInv, WorkerInv, Written
  <2>2. saved \in [Sites -> Words \cup {"none"}]
    BY DEF HookInv, TypeOK
  <2> QED
    BY <1>14, <1>f, <2>1, <2>2, RollBackBegins DEF WorkerFails, tables, HookInv, TypeOK
<1>15. CASE UNCHANGED vars
  BY <1>15 DEF vars, tables, progress, outcome, HookInv, TypeOK, RecordInv, Written,
     InstallInv, WorkerInv, RollbackInv, DoneInv
<1> QED
  BY <1>1, <1>2, <1>3, <1>4, <1>5, <1>6, <1>7, <1>8, <1>9, <1>10, <1>11, <1>12,
     <1>13, <1>14, <1>15 DEF Next

\* While Main runs and after it, the recorded sites are the diverted ones.
THEOREM HookInvariant == Spec => []HookInv
<1> QED
  BY HookInvInit, HookInvNext, PTL DEF Spec

\* An image that may be unloaded has left no branch behind: the comment before
\* the return of InstallLoaderHooks and the one in Main.
THEOREM NoBranchLeft == Spec => []UnloadedIsRestored
<1>1. HookInv => UnloadedIsRestored
  <2> SUFFICES ASSUME HookInv, loaded = "unloaded" PROVE code = host
    BY DEF UnloadedIsRestored
  <2>1. phase = "done" /\ address = {}
    BY DEF HookInv, TypeOK, InstallInv, WorkerInv, RollbackInv, DoneInv
  <2>2. \A s \in Sites : code[s] = host[s]
    BY <2>1 DEF HookInv, RecordInv, TypeOK, Written
  <2> QED
    BY <2>2 DEF HookInv, TypeOK
<1> QED
  BY <1>1, HookInvariant, PTL

\* Registration opens with all six hooks and the worker, or not at all; MENU
\* without them stays resident for the sites that refused, and for no other.
THEOREM ReadyOrRefusedAlways == Spec => []ReadyOrRefused
<1>1. HookInv => ReadyOrRefused
  <2> SUFFICES ASSUME HookInv, loaded # "starting" PROVE ReadyOrRefused
    BY DEF ReadyOrRefused
  <2>1. phase = "done" /\ ~Written
    BY DEF HookInv, TypeOK, InstallInv, WorkerInv, RollbackInv, Written
  <2>2. hooksReady <=> worker = "running" /\ \A s \in Sites : code[s] = "hook"
    BY <2>1 DEF HookInv, RecordInv, DoneInv
  <2>3. ASSUME loaded = "resident", ~hooksReady
        PROVE  refused # {} /\ {s \in Sites : code[s] = "hook"} = refused
    <3>1. address = refused /\ refused # {} /\ refused \subseteq Sites
      BY <2>1, <2>3 DEF HookInv, DoneInv, TypeOK
    <3> QED
      BY <2>1, <3>1 DEF HookInv, RecordInv
  <2> QED
    BY <2>2, <2>3 DEF ReadyOrRefused
<1> QED
  BY <1>1, HookInvariant, PTL

\* Every variable of the installer keeps its type, and no call site holds any
\* word but its host's own or the branch (PLUGIN_MENU_InstallLoaderHooks).
THEOREM TypeCorrect == Spec => []TypeOK
<1>1. HookInv => TypeOK
  BY DEF HookInv
<1> QED
  BY <1>1, HookInvariant, PTL

-----------------------------------------------------------------------------
(***************************************************************************)
(* No alias of a page of code is ever mapped without its guards.           *)
(*                                                                         *)
(* AliasesGuarded says too little of the mapping under way: freeing its    *)
(* guards must not take a guard from an older alias that could not be      *)
(* unmapped.  GuardInv says what each step of PLUGIN_MENU_MapPage has put  *)
(* where, and that nothing older lies next to it.                          *)
(***************************************************************************)

\* The steps at which a range is taken.
Mapping == {"guardLow", "guardHigh", "map", "swap", "unmap"}

\* The pages of the mapping under way.
Taken == IF base = 0 THEN {} ELSE base .. base + 2

\* What is in those pages at each step.
TakenInv ==
    /\ base # 0 <=> at \in Mapping
    /\ at \in Mapping =>
           /\ base \in Pages /\ base + 1 \in Pages /\ base + 2 \in Pages
           /\ memory[base] = (IF at = "guardLow" THEN "free" ELSE "guard")
           /\ memory[base + 1] = (IF at \in {"swap", "unmap"} THEN "alias" ELSE "free")
           /\ memory[base + 2] =
                  (IF at \in {"guardLow", "guardHigh"} THEN "free" ELSE "guard")

\* An alias that could not be unmapped lies between guards of its own.
OldAliasInv ==
    \A p \in Pages \ Taken : memory[p] = "alias" =>
        /\ p - 1 \in Pages \ Taken /\ memory[p - 1] = "guard"
        /\ p + 1 \in Pages \ Taken /\ memory[p + 1] = "guard"

\* A guard that is left guards such an alias.
OldGuardInv ==
    \A p \in Pages \ Taken : memory[p] = "guard" =>
        \/ p - 1 \in Pages \ Taken /\ memory[p - 1] = "alias"
        \/ p + 1 \in Pages \ Taken /\ memory[p + 1] = "alias"

GuardInv == TakenInv /\ OldAliasInv /\ OldGuardInv

-----------------------------------------------------------------------------
(* Helpers *)

\* The three pages of a range.
LEMMA ThreePages ==
    ASSUME NEW b \in Nat
    PROVE  b \in b .. b + 2 /\ b + 1 \in b .. b + 2 /\ b + 2 \in b .. b + 2
  OBVIOUS

\* Nothing is mapped when Main is called.
LEMMA GuardInvInit == Init => GuardInv
<1> SUFFICES ASSUME Init PROVE GuardInv
  OBVIOUS
<1>1. \A p \in Pages : memory[p] \in {"free", "used"}
  BY DEF Init
<1>2. TakenInv
  BY DEF Init, TakenInv, Mapping
<1>3. OldAliasInv /\ OldGuardInv
  BY <1>1 DEF OldAliasInv, OldGuardInv
<1> QED
  BY <1>2, <1>3 DEF GuardInv

\* A step outside MapPage and UnmapPage maps nothing.
LEMMA OutsideKeeps ==
    ASSUME GuardInv, UNCHANGED <<memory, base>>,
           at \notin Mapping, at' \notin Mapping
    PROVE  GuardInv'
  BY DEF GuardInv, TakenInv, OldAliasInv, OldGuardInv, Taken

\* A step of a mapping that goes on changes only the pages it has taken.
LEMMA InsideKeeps ==
    ASSUME GuardInv, base \in Nat \ {0}, UNCHANGED base, TakenInv',
           \A p \in Pages \ Taken : memory'[p] = memory[p]
    PROVE  GuardInv'
<1>1. Taken' = Taken
  BY DEF Taken
<1>2. OldAliasInv'
  BY <1>1 DEF GuardInv, OldAliasInv
<1>3. OldGuardInv'
  BY <1>1 DEF GuardInv, OldGuardInv
<1> QED
  BY <1>2, <1>3 DEF GuardInv

\* A mapping that ends leaves its pages free, or all three as they should be.
LEMMA EndKeeps ==
    ASSUME GuardInv, at \in Mapping, base' = 0, at' = "return",
           \A p \in Pages \ Taken : memory'[p] = memory[p],
           \/ \A p \in Taken : memory'[p] = "free"
           \/ /\ memory'[base] = "guard" /\ memory'[base + 1] = "alias"
              /\ memory'[base + 2] = "guard"
    PROVE  GuardInv'
<1>1. /\ base \in Pages /\ base + 1 \in Pages /\ base + 2 \in Pages
      /\ base \in Nat \ {0} /\ Taken = {base, base + 1, base + 2}
  BY PageAssumption DEF GuardInv, TakenInv, Taken, Pages
<1>2. TakenInv'
  BY DEF TakenInv, Mapping
<1>3. Taken' = {}
  BY DEF Taken
<1>4. OldAliasInv'
  <2> SUFFICES ASSUME NEW p \in Pages, memory'[p] = "alias"
               PROVE  /\ p - 1 \in Pages /\ memory'[p - 1] = "guard"
                      /\ p + 1 \in Pages /\ memory'[p + 1] = "guard"
    BY <1>3 DEF OldAliasInv
  <2>1. CASE p \in Taken
    <3>1. p = base + 1 /\ memory'[base] = "guard" /\ memory'[base + 2] = "guard"
      BY <1>1, <2>1
    <3> QED
      BY <3>1, <1>1
  <2>2. CASE p \notin Taken
    BY <2>2 DEF GuardInv, OldAliasInv
  <2> QED
    BY <2>1, <2>2
<1>5. OldGuardInv'
  <2> SUFFICES ASSUME NEW p \in Pages, memory'[p] = "guard"
               PROVE  \/ p - 1 \in Pages /\ memory'[p - 1] = "alias"
                      \/ p + 1 \in Pages /\ memory'[p + 1] = "alias"
    BY <1>3 DEF OldGuardInv
  <2>1. CASE p \in Taken
    <3>1. p \in {base, base + 2} /\ memory'[base + 1] = "alias"
      BY <1>1, <2>1
    <3>2. p + 1 = base + 1 \/ p - 1 = base + 1
      BY <3>1, <1>1
    <3> QED
      BY <3>1, <3>2, <1>1
  <2>2. CASE p \notin Taken
    BY <2>2 DEF GuardInv, OldGuardInv
  <2> QED
    BY <2>1, <2>2
<1> QED
  BY <1>2, <1>4, <1>5 DEF GuardInv

-----------------------------------------------------------------------------
(* The steps of MapPage and UnmapPage *)

\* The range that is found is free, so no older alias or guard is in it or has
\* its neighbour there.
LEMMA FindKeeps ==
    ASSUME HookInv, GuardInv, Find
    PROVE  GuardInv'
<1>1. base = 0 /\ Taken = {} /\ memory' = memory /\ at = "find"
  BY DEF Find, GuardInv, TakenInv, Mapping, Taken
<1>2. CASE base' \in FindFreeRange(3) /\ at' = "guardLow"
  <2>1. /\ base' \in Nat \ {0} /\ base' \in 1 .. PageCount
        /\ \A p \in base' .. base' + 2 : p \in Pages /\ memory[p] = "free"
    <3>1. base' \in Pages /\ FreeRange(base', 3)
      BY <1>2 DEF FindFreeRange
    <3>2. base' \in Nat \ {0} /\ base' \in 1 .. PageCount
      BY <3>1, PageAssumption DEF Pages
    <3>3. base' + 3 - 1 = base' + 2
      BY <3>2
    <3>4. \A p \in base' .. base' + 3 - 1 : p \in Pages /\ memory[p] = "free"
      BY <3>1 DEF FreeRange
    <3> QED
      BY <3>2, <3>3, <3>4
  <2>2. Taken' = base' .. base' + 2
    BY <2>1 DEF Taken
  <2>3. TakenInv'
    <3>1. /\ base' \in base' .. base' + 2 /\ base' + 1 \in base' .. base' + 2
          /\ base' + 2 \in base' .. base' + 2
      BY <2>1, ThreePages
    <3>2. /\ memory'[base'] = "free" /\ memory'[base' + 1] = "free"
          /\ memory'[base' + 2] = "free"
          /\ base' \in Pages /\ base' + 1 \in Pages /\ base' + 2 \in Pages
      BY <1>1, <2>1, <3>1
    <3> QED
      BY <1>2, <2>1, <3>2 DEF TakenInv, Mapping, Pages
  <2>4. OldAliasInv'
    <3> SUFFICES ASSUME NEW p \in Pages, memory[p] = "alias"
                 PROVE  /\ p - 1 \in Pages \ Taken' /\ memory[p - 1] = "guard"
                        /\ p + 1 \in Pages \ Taken' /\ memory[p + 1] = "guard"
      BY <1>1 DEF OldAliasInv
    <3>1. /\ p - 1 \in Pages /\ memory[p - 1] = "guard"
          /\ p + 1 \in Pages /\ memory[p + 1] = "guard"
      BY <1>1 DEF GuardInv, OldAliasInv
    <3> QED
      BY <3>1, <2>1, <2>2
  <2>5. OldGuardInv'
    <3> SUFFICES ASSUME NEW p \in Pages, memory[p] = "guard"
                 PROVE  \/ p - 1 \in Pages \ Taken' /\ memory[p - 1] = "alias"
                        \/ p + 1 \in Pages \ Taken' /\ memory[p + 1] = "alias"
      BY <1>1 DEF OldGuardInv
    <3>1. \/ p - 1 \in Pages /\ memory[p - 1] = "alias"
          \/ p + 1 \in Pages /\ memory[p + 1] = "alias"
      BY <1>1 DEF GuardInv, OldGuardInv
    <3> QED
      BY <3>1, <2>1, <2>2
  <2> QED
    BY <2>3, <2>4, <2>5 DEF GuardInv
<1>3. CASE at' = "return" /\ base' = base
  BY <1>1, <1>3, OutsideKeeps DEF Mapping
<1> QED
  BY <1>2, <1>3 DEF Find, MapStep

\* Each guard is put on one of the free pages of the range, and taken back when
\* the next call fails.
LEMMA GuardsKeep ==
    ASSUME HookInv, GuardInv, GuardLow \/ GuardHigh \/ MapAlias
    PROVE  GuardInv'
<1>1. /\ at \in {"guardLow", "guardHigh", "map"} /\ at \in Mapping
      /\ memory \in [Pages -> {"free", "used", "guard", "alias"}]
  BY DEF GuardLow, GuardHigh, MapAlias, Mapping, HookInv, TypeOK
<1>2. /\ base \in Pages /\ base + 1 \in Pages /\ base + 2 \in Pages
      /\ base \in Nat \ {0} /\ Taken = {base, base + 1, base + 2}
  BY <1>1, PageAssumption DEF GuardInv, TakenInv, Taken, Pages
<1>3. \A p \in Pages \ Taken : memory'[p] = memory[p]
  BY <1>1, <1>2 DEF GuardLow, GuardHigh, MapAlias
<1>4. CASE base' = base
  <2>1. TakenInv'
    <3>1. CASE GuardLow
      BY <1>1, <1>2, <1>4, <3>1 DEF GuardLow, MapStep, GuardInv, TakenInv, Mapping
    <3>2. CASE GuardHigh
      BY <1>1, <1>2, <1>4, <3>2 DEF GuardHigh, MapStep, GuardInv, TakenInv, Mapping
    <3>3. CASE MapAlias
      BY <1>1, <1>2, <1>4, <3>3 DEF MapAlias, MapStep, GuardInv, TakenInv, Mapping
    <3> QED
      BY <3>1, <3>2, <3>3
  <2> QED
    BY <1>2, <1>3, <1>4, <2>1, InsideKeeps
<1>5. CASE base' # base
  <2>1. base' = 0 /\ at' = "return"
    BY <1>5 DEF GuardLow, GuardHigh, MapAlias, MapStep
  <2>2. \A p \in Taken : memory'[p] = "free"
    <3>1. CASE GuardLow
      BY <1>1, <1>2, <1>5, <3>1 DEF GuardLow, GuardInv, TakenInv, Mapping
    <3>2. CASE GuardHigh
      BY <1>1, <1>2, <1>5, <3>2 DEF GuardHigh, GuardInv, TakenInv, Mapping
    <3>3. CASE MapAlias
      BY <1>1, <1>2, <1>5, <3>3 DEF MapAlias, GuardInv, TakenInv, Mapping
    <3> QED
      BY <3>1, <3>2, <3>3
  <2> QED
    BY <1>1, <1>3, <2>1, <2>2, EndKeeps
<1> QED
  BY <1>4, <1>5

\* Writing the pair maps nothing.
LEMMA SwapKeeps ==
    ASSUME HookInv, GuardInv, SwapPair
    PROVE  GuardInv'
<1>1. /\ at = "swap" /\ at' = "unmap" /\ UNCHANGED <<memory, base>>
      /\ at \in Mapping
  BY DEF SwapPair, Mapping
<1>2. base \in Nat \ {0}
  BY <1>1, PageAssumption DEF GuardInv, TakenInv, Pages
<1>3. TakenInv'
  BY <1>1, <1>2 DEF GuardInv, TakenInv, Mapping
<1> QED
  BY <1>1, <1>2, <1>3, InsideKeeps

\* The unmap frees all three pages or none.
LEMMA UnmapKeeps ==
    ASSUME HookInv, GuardInv, UnmapPage
    PROVE  GuardInv'
<1>1. /\ at = "unmap" /\ at \in Mapping /\ base' = 0 /\ at' = "return"
      /\ memory \in [Pages -> {"free", "used", "guard", "alias"}]
  BY DEF UnmapPage, MapStep, Mapping, HookInv, TypeOK
<1>2. /\ base \in Pages /\ base + 1 \in Pages /\ base + 2 \in Pages
      /\ base \in Nat \ {0} /\ Taken = {base, base + 1, base + 2}
      /\ memory[base] = "guard" /\ memory[base + 1] = "alias"
      /\ memory[base + 2] = "guard"
  BY <1>1, PageAssumption DEF GuardInv, TakenInv, Taken, Pages
<1>3. CASE memory' = memory
  BY <1>1, <1>2, <1>3, EndKeeps
<1>4. CASE memory' = [memory EXCEPT ![base] = "free", ![base + 1] = "free",
                                    ![base + 2] = "free"]
  <2>1. \A p \in Pages \ Taken : memory'[p] = memory[p]
    BY <1>1, <1>2, <1>4
  <2>2. \A p \in Taken : memory'[p] = "free"
    BY <1>1, <1>2, <1>4
  <2> QED
    BY <1>1, <2>1, <2>2, EndKeeps
<1> QED
  BY <1>3, <1>4 DEF UnmapPage

-----------------------------------------------------------------------------
(* From the steps to the specification *)

\* Every step of the program, and every stutter, keeps the invariant.
LEMMA GuardInvNext == HookInv /\ GuardInv /\ [Next]_vars => GuardInv'
<1> SUFFICES ASSUME HookInv, GuardInv, [Next]_vars PROVE GuardInv'
  OBVIOUS
<1>1. CASE Find
  BY <1>1, FindKeeps
<1>2. CASE GuardLow \/ GuardHigh \/ MapAlias
  BY <1>2, GuardsKeep
<1>3. CASE SwapPair
  BY <1>3, SwapKeeps
<1>4. CASE UnmapPage
  BY <1>4, UnmapKeeps
<1>5. CASE Locate \/ RestoreSkip \/ RestoreBegin \/ InstallReturn \/ RestoreReturn
  <2>1. UNCHANGED <<memory, base>> /\ at \notin Mapping /\ at' \notin Mapping
    BY <1>5 DEF Locate, RestoreSkip, RestoreBegin, InstallReturn, RestoreReturn,
       RollBackFrom, AfterRestore, Mapping
  <2> QED
    BY <2>1, OutsideKeeps
<1>6. CASE CreateEvent \/ CreateThread \/ WorkerFails
  <2>1. at = "return" /\ at' \in {"return", "restore"} /\ UNCHANGED <<memory, base>>
    BY <1>6 DEF HookInv, WorkerInv, CreateEvent, CreateThread, WorkerFails,
       RollBackFrom, progress
  <2> QED
    BY <2>1, OutsideKeeps DEF Mapping
<1>7. CASE UNCHANGED vars
  BY <1>7 DEF vars, progress, GuardInv, TakenInv, OldAliasInv, OldGuardInv, Taken
<1> QED
  BY <1>1, <1>2, <1>3, <1>4, <1>5, <1>6, <1>7 DEF Next

\* PLUGIN_MENU_MapPage and PLUGIN_MENU_UnmapPage never leave an alias of a page of
\* code beside anything but guards, nor a guard without its alias, whatever calls
\* fail and however many failed unmaps came before.
THEOREM GuardedAlways == Spec => []AliasesGuarded
<1>1. HookInv /\ GuardInv => AliasesGuarded
  <2> SUFFICES ASSUME HookInv, GuardInv PROVE AliasesGuarded
    OBVIOUS
  <2>1. ASSUME NEW p \in Pages, memory[p] = "alias"
        PROVE  /\ {p - 1, p + 1} \subseteq Pages
               /\ memory[p - 1] = "guard" /\ memory[p + 1] = "guard"
    <3>1. CASE p \in Taken
      <4>1. /\ base \in Pages /\ base + 2 \in Pages /\ p = base + 1
            /\ memory[base] = "guard" /\ memory[base + 2] = "guard"
        BY <2>1, <3>1, PageAssumption DEF GuardInv, TakenInv, Taken, Pages, Mapping
      <4> QED
        BY <4>1 DEF Pages
    <3>2. CASE p \notin Taken
      BY <2>1, <3>2 DEF GuardInv, OldAliasInv
    <3> QED
      BY <3>1, <3>2
  <2>2. ASSUME base = 0, NEW p \in Pages, memory[p] = "guard"
        PROVE  \E q \in {p - 1, p + 1} \cap Pages : memory[q] = "alias"
    BY <2>2 DEF GuardInv, OldGuardInv, Taken
  <2> QED
    BY <2>1, <2>2 DEF AliasesGuarded
<1>2. Spec => [](HookInv /\ GuardInv)
  BY HookInvInit, HookInvNext, GuardInvInit, GuardInvNext, PTL DEF Spec
<1> QED
  BY <1>1, <1>2, PTL
=============================================================================
