---------------------------- MODULE OnlineLibrary ----------------------------
(***************************************************************************)
(* The Online page's way to the HTTPS library, and the list of sources     *)
(* (modmenu_online.c, modmenu_scan.c).                                     *)
(*                                                                         *)
(* The menu's thread opens the page: it finds MENU's own .3nx entry,       *)
(* unpacks the library from its metadata to the SD card unless that        *)
(* version is there, loads it into temporary memory, runs it and frees it; *)
(* if loading fails it unpacks the library again and retries once.         *)
(* Plugins look for their own entries and edit the list of sources from    *)
(* their threads, and so does the page while it runs.  The menu's thread   *)
(* opens the Manage page, too, which reads the directory of plugins with   *)
(* the variables of OpenPluginFile, but without its lock.                  *)
(*                                                                         *)
(* All share temporary memory, where a free range is found in one system   *)
(* call and taken in another.  Any access to the card may fail, the power  *)
(* may be cut, and files of the card may be replaced.                      *)
(*                                                                         *)
(* The locals of a call are set back when it returns.                      *)
(***************************************************************************)
EXTENDS PluginScan

CONSTANTS
    Page, Plugins,    \* the menu's thread and the plugins'
    Menu,             \* MENU_PLUGIN_ID
    IdOf,             \* the id whose entry a thread looks for
    ApiOf,            \* the HTTPS API version of each version
    MemPages,         \* the range of temporary memory, in units of a scratch page
    Sources, MaxSources, Unreadable,
    Calls,            \* edits of the list that are asked for
    Stacks, NewStacks,    \* what files hold, and what one may be replaced with
    InitCards,            \* the .3nx files and the list there are at first
    MaxOpens, MaxCalls, MaxTrouble, MaxChanges    \* bounds

Threads == {Page} \cup Plugins
Uses == {"scan", "unpack", "image", "edit", "manage"}
SizeOf == [u \in Uses |-> IF u \in {"scan", "edit"} THEN 1 ELSE 2]
Blocks == [base : 0 .. MemPages, size : {1, 2}, by : Threads, use : Uses]

ASSUME ThreadsAreApart ==
    Page \notin Plugins /\ None \notin Threads /\ IdOf \in [Threads -> Ids] /\ IdOf[Page] = Menu
ASSUME CallsAreEdits == Calls \subseteq [kind : {"add", "remove"}, source : Sources]
ASSUME ApiAssumption == ApiOf \in [Versions -> Nat]
ASSUME NoneIsNoBlock == None \notin Blocks
ASSUME SizesAssumption == MemPages \in Nat /\ MaxSources \in Nat
ASSUME StacksAssumption == Stacks \subseteq Seq(Entries) /\ NewStacks \subseteq Stacks
ASSUME CardsAssumption ==
    \A c \in InitCards :
        /\ c.dir \in [Files -> Stacks \cup {None}]
        /\ c.sources = Unreadable \/ (c.sources \in Seq(Sources) /\ Len(c.sources) <= MaxSources)

VARIABLES
    \* the SD card
    dir, lib, sources,
    \* the process
    mem,                     \* blocks of temporary memory
    pluginFileLock, fetchLock,
    scanScratch, fetchScratch,   \* g_MENUScanScratch, g_MENUFetchScratchBase
    ready,                   \* g_MENUHttpsReady
    openOnline,              \* g_MENUHttpsOpenOnline: the block of its image; None if NULL
    running,                 \* the version of the MENU that was booted
    \* the threads
    pc, use, found,          \* TempAlloc: what for, and the range it found
    best, entry,             \* OpenPluginFile: the place, the entry opened
    force, loading,          \* the page: refreshing; the library file it opened
    call, ok, back,          \* an edit: its arguments, its result, where it returns
    edited, blind,           \* g_MENUFetchEditSources; it was read as missing
    \* bookkeeping
    before,                  \* the list before it is replaced
    clean,                   \* nothing went wrong since the page was opened
    scanClean,               \* nor since the scan began
    shared,                  \* a scan and the Manage page have met
    opens, calls, trouble, changes

card == <<dir, lib, sources>>
memory == <<mem, scanScratch, fetchScratch>>
locks == <<pluginFileLock, fetchLock>>
alloc == <<use, found>>
scan == <<best, entry>>
pageState == <<ready, openOnline, force, loading>>
edit == <<call, ok, back, edited, blind, before>>
spent == <<opens, calls, trouble, changes>>
history == <<clean, scanClean>>
session == <<running, shared>>
vars == <<card, memory, locks, alloc, scan, pageState, edit, spent, history, session, pc>>

NoLibrary == [version |-> None, whole |-> FALSE]
Booted(d) == LET p == Loaded(d, Menu) IN IF p = None THEN None ELSE EntryAt(d, p).version

Each(x) == [t \in Threads |-> x]

Init ==
    /\ \E c \in InitCards : dir = c.dir /\ sources = c.sources
    /\ running = Booted(dir) /\ lib = NoLibrary
    /\ mem = {} /\ scanScratch = None /\ fetchScratch = None
    /\ pluginFileLock = None /\ fetchLock = None
    /\ ready = FALSE /\ openOnline = None
    /\ pc = Each("idle") /\ back = Each("idle")
    /\ use = Each("scan") /\ found = Each(None)
    /\ best = None /\ entry = Each(None)
    /\ force = FALSE /\ loading = None
    /\ call = Each(None) /\ ok = Each(FALSE)
    /\ edited = <<>> /\ blind = FALSE /\ before = <<>>
    /\ clean = TRUE /\ scanClean = TRUE /\ shared = FALSE
    /\ opens = 0 /\ calls = 0 /\ trouble = 0 /\ changes = 0

Goto(t, where) == pc' = [pc EXCEPT ![t] = where]

\* An access to the card that fails.
Fails == trouble < MaxTrouble /\ trouble' = trouble + 1 /\ clean' = FALSE /\ scanClean' = FALSE
Works == UNCHANGED <<trouble, clean, scanClean>>

\* A plugin's scan and the open Manage page use g_MENUScanScratch in turn.
Managing == pc[Page] \in {"manageScan", "managing"}
PluginScans ==
    \E t \in Plugins : \/ pc[t] \in {"pass1", "pass2", "reopen", "scanFree"}
                       \/ pc[t] \in {"find", "take"} /\ use[t] = "scan"

-----------------------------------------------------------------------------
(* Temporary memory *)

FreeAt(b, n) ==
    /\ b + n <= MemPages
    /\ \A x \in mem : b + n <= x.base \/ x.base + x.size <= b

Granted == [scan |-> "pass1", unpack |-> "unpackLock", image |-> "init", edit |-> "parse",
            manage |-> "manageScan"]
RefusedAtOnce == [scan |-> "scanFree", unpack |-> "ensured", image |-> "loadFailed",
                  edit |-> "idle", manage |-> "idle"]    \* mutant: returns without unlocking
Refused == [scan |-> "scanFree", unpack |-> "ensured", image |-> "loadFailed",
            edit |-> "editFree", manage |-> "idle"]

\* FindFreeRange: the first free range of the size.
FindFreeRange(t) ==
    /\ pc[t] = "find"
    /\ LET fits == {b \in 0 .. MemPages : FreeAt(b, SizeOf[use[t]])} IN
       IF fits = {}
         THEN /\ Goto(t, Refused[use[t]])
              /\ scanClean' = FALSE /\ clean' = (clean /\ t # Page) /\ UNCHANGED found
         ELSE /\ found' = [found EXCEPT ![t] = CHOOSE b \in fits : \A c \in fits : b <= c]
              /\ Goto(t, "take") /\ UNCHANGED history
    /\ UNCHANGED <<card, memory, locks, use, scan, pageState, edit, spent, session>>

\* The system refuses a range that somebody took meanwhile.
TakeRange(t) ==
    /\ pc[t] = "take"
    /\ LET block == [base |-> found[t], size |-> SizeOf[use[t]], by |-> t, use |-> use[t]] IN
       IF FreeAt(found[t], SizeOf[use[t]])
         THEN /\ mem' = mem \cup {block}
              /\ scanScratch' = IF use[t] \in {"scan", "manage"} THEN block ELSE scanScratch
              /\ fetchScratch' = IF use[t] = "edit" THEN block ELSE fetchScratch
              /\ shared' = (shared \/ (use[t] = "manage" /\ PluginScans))
              /\ Goto(t, Granted[use[t]]) /\ UNCHANGED history
         ELSE /\ Goto(t, Refused[use[t]])
              /\ scanClean' = FALSE /\ clean' = (clean /\ t # Page)
              /\ UNCHANGED <<memory, shared>>
    /\ found' = [found EXCEPT ![t] = None]
    /\ UNCHANGED <<card, locks, use, scan, pageState, edit, spent, running>>

Mine(t, u) == {x \in mem : x.by = t /\ x.use = u}

-----------------------------------------------------------------------------
(* OpenPluginFile *)

ScanUnlocked(t) == TRUE    \* mutant
ScanLocks(t) == pluginFileLock = None
\* A scratch that is there already is used, whoever allocated it.
LockPluginFile(t) ==
    /\ pc[t] = "scanLock" /\ ScanLocks(t)
    /\ pluginFileLock' = t
    /\ use' = [use EXCEPT ![t] = "scan"]
    /\ Goto(t, IF scanScratch = None THEN "find" ELSE "pass1")
    /\ entry' = [entry EXCEPT ![t] = None] /\ scanClean' = TRUE
    /\ shared' = (shared \/ Managing)
    /\ UNCHANGED <<card, memory, fetchLock, found, best, pageState, edit, spent, clean,
                   running>>

\* A file that cannot be opened is passed over, and a listing that fails ends.
FirstPass(t) ==
    /\ pc[t] = "pass1" /\ scanScratch # None
    /\ \E read \in SUBSET Present(dir) :
           /\ IF read = Present(dir) THEN Works ELSE Fails
           /\ LET place == Best(dir, read, IdOf[t]) IN
              IF place = None THEN Goto(t, "scanFree") /\ UNCHANGED best
              ELSE /\ best' = [place |-> place, version |-> EntryAt(dir, place).version]
                   /\ Goto(t, "pass2")
    /\ UNCHANGED <<card, memory, locks, alloc, entry, pageState, edit, opens, calls,
                   changes, session>>

SecondPass(t) ==
    /\ pc[t] = "pass2" /\ scanScratch # None
    /\ \E read \in SUBSET Present(dir) :
           /\ IF read = Present(dir) THEN Works ELSE Fails
           /\ Goto(t, IF Selected(dir, read, IdOf[t], best.place) THEN "reopen" ELSE "scanFree")
    /\ UNCHANGED <<card, memory, locks, alloc, scan, pageState, edit, opens, calls,
                   changes, session>>

Reopen(t) ==
    /\ pc[t] = "reopen" /\ scanScratch # None
    /\ \/ Works /\ entry' = [entry EXCEPT ![t] =
               IF StillThere(dir, best.place, IdOf[t], best.version)
                 THEN EntryAt(dir, best.place) ELSE None]
       \/ Fails /\ UNCHANGED entry
    /\ Goto(t, "scanFree")
    /\ UNCHANGED <<card, memory, locks, alloc, best, pageState, edit, opens, calls,
                   changes, session>>

\* The scratch is freed and forgotten whoever allocated it, then the lock.  That
\* of the Manage page starts inside a page of memory, which the system refuses.
FreeScanScratch(t) ==
    /\ pc[t] = "scanFree"
    /\ mem' = mem \ ({scanScratch} \cap {x \in mem : x.use = "scan"})
    /\ scanScratch' = None
    /\ Goto(t, "scanUnlock")
    /\ UNCHANGED <<card, fetchScratch, locks, alloc, scan, pageState, edit, spent, history,
                   session>>

UnlockPluginFile(t) ==
    /\ pc[t] = "scanUnlock"
    /\ pluginFileLock' = None
    /\ Goto(t, IF t = Page /\ entry[t] # None THEN "ensure" ELSE "idle")
    /\ best' = None
    /\ entry' = IF t = Page THEN entry ELSE [entry EXCEPT ![t] = None]
    /\ UNCHANGED <<card, memory, fetchLock, alloc, pageState, edit, spent, history,
                   session>>

OpenPluginFile(t) ==
    \/ LockPluginFile(t) \/ FirstPass(t) \/ SecondPass(t) \/ Reopen(t)
    \/ FreeScanScratch(t) \/ UnlockPluginFile(t)

\* A plugin looks for its own entry.
PluginOpensFile(t) ==
    /\ t \in Plugins /\ pc[t] = "idle" /\ calls < MaxCalls
    /\ calls' = calls + 1 /\ Goto(t, "scanLock")
    /\ UNCHANGED <<card, memory, locks, alloc, scan, pageState, edit, opens, trouble,
                   changes, history, session>>

-----------------------------------------------------------------------------
(* The library *)

OpenPage ==
    /\ pc[Page] = "idle" /\ opens < MaxOpens
    /\ opens' = opens + 1 /\ clean' = TRUE
    /\ force' = FALSE
    /\ Goto(Page, IF ready THEN "load" ELSE "scanLock")
    /\ UNCHANGED <<card, memory, locks, alloc, scan, ready, openOnline, loading, edit,
                   calls, trouble, changes, scanClean, session>>

\* EnsureHttpslib: unpack unless the version on the card is the entry's.
KeptIfUpToDate == lib.version = entry[Page].version    \* mutant: a refresh too
Kept == ~force /\ lib.version = entry[Page].version

Ensure ==
    /\ pc[Page] = "ensure"
    /\ \/ /\ Works
          /\ LET there == entry[Page].version = None \/ Kept IN
                 /\ ok' = [ok EXCEPT ![Page] = there /\ entry[Page].version # None]
                 /\ Goto(Page, IF there THEN "ensured" ELSE "find")
       \/ /\ Fails    \* to read the metadata, or the version on the card
          /\ ok' = [ok EXCEPT ![Page] = FALSE]
          /\ \/ Goto(Page, "ensured")
             \/ entry[Page].version # None /\ Goto(Page, "find")
    /\ use' = [use EXCEPT ![Page] = "unpack"]
    /\ UNCHANGED <<card, memory, locks, found, scan, pageState, call, back, edited, blind,
                   before, opens, calls, changes, session>>

\* UnpackLz10File, which shares the lock of the sources: read, delete, create.
UnpackStart ==
    /\ pc[Page] = "unpackLock" /\ fetchLock = None
    /\ fetchLock' = Page
    /\ lib' = NoLibrary
    /\ \/ Works /\ Goto(Page, "unpack")
       \/ Fails /\ Goto(Page, "unpackUnlock")
    /\ ok' = [ok EXCEPT ![Page] = FALSE]
    /\ UNCHANGED <<dir, sources, memory, pluginFileLock, alloc, scan, pageState, call,
                   back, edited, blind, before, opens, calls, changes, session>>

\* The version is written last; what failed is deleted.
UnpackWrite ==
    /\ pc[Page] = "unpack"
    /\ \/ /\ Works
          /\ lib' = [version |-> entry[Page].version, whole |-> TRUE]
          /\ ok' = [ok EXCEPT ![Page] = TRUE]
       \/ Fails /\ UNCHANGED <<lib, ok>>
    /\ Goto(Page, "unpackUnlock")
    /\ UNCHANGED <<dir, sources, memory, locks, alloc, scan, pageState, call, back, edited,
                   blind, before, opens, calls, changes, session>>

UnpackUnlock ==
    /\ pc[Page] = "unpackUnlock"
    /\ fetchLock' = None /\ Goto(Page, "unpackFree")
    /\ UNCHANGED <<card, memory, pluginFileLock, alloc, scan, pageState, edit, spent,
                   history, session>>

UnpackFree ==
    /\ pc[Page] = "unpackFree"
    /\ mem' = mem \ Mine(Page, "unpack") /\ Goto(Page, "ensured")
    /\ UNCHANGED <<card, scanScratch, fetchScratch, locks, alloc, scan, pageState, edit,
                   spent, history, session>>

\* The first unpack decides whether the library is ready, a refresh only confirms.
Ensured ==
    /\ pc[Page] = "ensured"
    /\ ready' = IF force THEN ready \/ ok[Page] ELSE ok[Page]
    /\ Goto(Page, IF ok[Page] THEN "load" ELSE "idle")
    /\ ok' = [ok EXCEPT ![Page] = FALSE]
    /\ entry' = [entry EXCEPT ![Page] = None]
    /\ UNCHANGED <<card, memory, locks, alloc, best, openOnline, force, loading, call, back, edited,
                   blind, before, spent, history, session>>

\* OnlineFree.
ImageKept == mem    \* mutant
ImageFreed == mem \ Mine(Page, "image")

\* The host's API and the library's have to be of one version.
AnyFits == TRUE    \* mutant
ApiFits == ApiOf[loading] = ApiOf[running]

\* LoadHttpsLibrary: open and validate the file.
Load ==
    /\ pc[Page] = "load"
    /\ \/ /\ Works
          /\ IF lib.whole
               THEN /\ loading' = lib.version /\ use' = [use EXCEPT ![Page] = "image"]
                    /\ Goto(Page, "find")
               ELSE Goto(Page, "loadFailed") /\ UNCHANGED <<loading, use>>
       \/ Fails /\ Goto(Page, "loadFailed") /\ UNCHANGED <<loading, use>>
    /\ UNCHANGED <<card, memory, locks, found, scan, ready, openOnline, force, edit, opens,
                   calls, changes, session>>

\* Read, relocate, protect and call the image's entry; free it if any of them fails.
StartLibrary ==
    /\ pc[Page] = "init"
    /\ \/ /\ Works
          /\ IF ApiFits
               THEN /\ openOnline' = CHOOSE x \in Mine(Page, "image") : TRUE
                    /\ Goto(Page, "run") /\ UNCHANGED mem
               ELSE /\ mem' = ImageFreed /\ Goto(Page, "loadFailed")
                    /\ UNCHANGED openOnline
       \/ /\ Fails
          /\ mem' = ImageFreed /\ Goto(Page, "loadFailed")
          /\ UNCHANGED openOnline
    /\ UNCHANGED <<card, scanScratch, fetchScratch, locks, alloc, scan, ready, force,
                   loading, edit, opens, calls, changes, session>>

\* LoadHttpsLibraryWithRefresh: one more try with a library unpacked anew.
LoadFailed ==
    /\ pc[Page] = "loadFailed"
    /\ IF force THEN Goto(Page, "idle") /\ UNCHANGED force
       ELSE force' = TRUE /\ Goto(Page, "scanLock")
    /\ loading' = None
    /\ UNCHANGED <<card, memory, locks, alloc, scan, ready, openOnline, edit,
                   spent, history, session>>

\* The page returns; its functions are forgotten before its memory is freed.
Unload ==
    /\ pc[Page] = "run"
    /\ openOnline' = None /\ Goto(Page, "unload")
    /\ UNCHANGED <<card, memory, locks, alloc, scan, ready, force, loading, edit, spent,
                   history, session>>

FreeImage ==
    /\ pc[Page] = "unload"
    /\ mem' = ImageFreed /\ Goto(Page, "idle")
    /\ loading' = None
    /\ UNCHANGED <<card, scanScratch, fetchScratch, locks, alloc, scan, ready, openOnline,
                   force, edit, spent, history, session>>

PageSteps ==
    \/ Ensure \/ UnpackStart \/ UnpackWrite \/ UnpackUnlock \/ UnpackFree \/ Ensured
    \/ Load \/ StartLibrary \/ LoadFailed \/ FreeImage

-----------------------------------------------------------------------------
(* The Manage page: its scratch is part of a block of its own *)

OpenManage ==
    /\ pc[Page] = "idle" /\ opens < MaxOpens
    /\ opens' = opens + 1
    /\ use' = [use EXCEPT ![Page] = "manage"] /\ Goto(Page, "find")
    /\ UNCHANGED <<card, memory, locks, found, scan, pageState, edit, calls, trouble,
                   changes, history, session>>

\* ManageBuildList, which changes nothing that others see.
BuildList ==
    /\ pc[Page] = "manageScan" /\ scanScratch # None
    /\ Goto(Page, "managing")
    /\ UNCHANGED <<card, memory, locks, alloc, scan, pageState, edit, spent, history,
                   session>>

\* After an action on a file the list is built again.
BuildAgain ==
    /\ pc[Page] = "managing"
    /\ Goto(Page, "manageScan")
    /\ UNCHANGED <<card, memory, locks, alloc, scan, pageState, edit, spent, history,
                   session>>

ManageKeepsBlock == mem    \* mutant
ManageFreesBlock == mem \ Mine(Page, "manage")
LeaveManage ==
    /\ pc[Page] = "managing"
    /\ mem' = ManageFreesBlock /\ scanScratch' = None
    /\ Goto(Page, "idle")
    /\ UNCHANGED <<card, fetchScratch, locks, alloc, scan, pageState, edit, spent, history,
                   session>>

-----------------------------------------------------------------------------
(* AddOnlineEntry and RemoveOnlineEntry *)

EditSources(t) ==
    /\ \/ t \in Plugins /\ pc[t] = "idle"
       \/ t = Page /\ pc[t] = "run"
    /\ calls < MaxCalls /\ calls' = calls + 1
    /\ \E c \in Calls : call' = [call EXCEPT ![t] = c]
    /\ back' = [back EXCEPT ![t] = pc[t]]
    /\ Goto(t, "editLock")
    /\ UNCHANGED <<card, memory, locks, alloc, scan, pageState, ok, edited, blind, before,
                   opens, trouble, changes, history, session>>

LockFetch(t) ==
    /\ pc[t] = "editLock" /\ fetchLock = None
    /\ fetchLock' = t
    /\ ok' = [ok EXCEPT ![t] = FALSE] /\ blind' = FALSE
    /\ use' = [use EXCEPT ![t] = "edit"] /\ Goto(t, "find")
    /\ UNCHANGED <<card, memory, pluginFileLock, found, scan, pageState, call, back,
                   edited, before, spent, history, session>>

Matches(s, c) ==
    IF c.kind = "add" THEN s.title = c.source.title \/ s.url = c.source.url
    ELSE s.title = c.source.title

\* One entry of the old list: kept, dropped, or replaced by the new one.
ReplacedEach(acc, s, c) ==    \* mutant: once for each entry that matches
    IF ~Matches(s, c) THEN Append(acc, s)
    ELSE IF c.kind = "add" THEN Append(acc, c.source) ELSE acc
Replaced(acc, s, c) ==
    IF ~Matches(s, c) THEN Append(acc, s)
    ELSE IF c.kind = "add" /\ \A i \in DOMAIN acc : acc[i] # c.source
      THEN Append(acc, c.source) ELSE acc

NewList(old, c) ==
    LET kept == FoldLeft(LAMBDA acc, s : Replaced(acc, s, c), <<>>, old)
    IN  IF c.kind = "add" /\ \A i \in DOMAIN old : ~Matches(old[i], c)
          THEN Append(kept, c.source) ELSE kept

AlreadyByTitle(old, c) ==    \* mutant
    (\E i \in DOMAIN old : old[i].title = c.source.title) = (c.kind = "add")
\* Nothing to do: the very entry is there already, or none has the title.
Already(old, c) ==
    IF c.kind = "add" THEN \E i \in DOMAIN old : old[i] = c.source
    ELSE \A i \in DOMAIN old : old[i].title # c.source.title

TooManyLate(list) == Len(list) > MaxSources + 1    \* mutant
TooMany(list) == Len(list) > MaxSources

\* ReadFetchEditSources, where a file that cannot be opened is a missing one,
\* and the decision what to write.
Decide(t, old) ==
    /\ ok' = [ok EXCEPT ![t] = Already(old, call[t])]
    /\ edited' = NewList(old, call[t])
    /\ Goto(t, IF Already(old, call[t]) \/ TooMany(edited')
                 THEN "editFree" ELSE "writeTemp")

ParseSources(t) ==
    /\ pc[t] = "parse"
    /\ \/ Works /\ sources # Unreadable /\ Decide(t, sources) /\ UNCHANGED blind
       \/ Works /\ sources = Unreadable
          /\ Goto(t, "editFree") /\ UNCHANGED <<ok, edited, blind>>
       \/ Fails /\ Decide(t, <<>>) /\ blind' = TRUE
       \/ Fails /\ Goto(t, "editFree") /\ UNCHANGED <<ok, edited, blind>>
    /\ UNCHANGED <<card, memory, locks, alloc, scan, pageState, call, back, before, opens,
                   calls, changes, session>>

\* The new list goes to a temporary file first.
WriteTemp(t) ==
    /\ pc[t] = "writeTemp"
    /\ \/ Works /\ Goto(t, "openTarget")
       \/ Fails /\ Goto(t, "editFree")
    /\ UNCHANGED <<card, memory, locks, alloc, scan, pageState, edit, opens, calls, changes,
                   session>>

\* The target is opened, resized and overwritten in place.
OpenTarget(t) ==
    /\ pc[t] = "openTarget"
    /\ \/ Works /\ before' = sources /\ sources' = Unreadable /\ Goto(t, "copy")
       \/ Fails /\ Goto(t, "editFree") /\ UNCHANGED <<sources, before>>
    /\ UNCHANGED <<dir, lib, memory, locks, alloc, scan, pageState, call, ok, back, edited,
                   blind, opens, calls, changes, session>>

\* What a write leaves that does not come to its end.
Damaged == {Unreadable} \cup {SubSeq(edited, 1, n) : n \in 0 .. Len(edited)}

CopyToTarget(t) ==
    /\ pc[t] = "copy"
    /\ \/ Works /\ sources' = edited /\ ok' = [ok EXCEPT ![t] = TRUE]
       \/ Fails /\ sources' \in Damaged /\ UNCHANGED ok
    /\ before' = <<>> /\ Goto(t, "editFree")
    /\ UNCHANGED <<dir, lib, memory, locks, alloc, scan, pageState, call, back, edited,
                   blind, opens, calls, changes, session>>

FreeFetchScratch(t) ==
    /\ pc[t] = "editFree"
    /\ mem' = mem \ {fetchScratch} /\ fetchScratch' = None
    /\ Goto(t, "editUnlock")
    /\ UNCHANGED <<card, scanScratch, locks, alloc, scan, pageState, edit, spent, history,
                   session>>

UnlockFetch(t) ==
    /\ pc[t] = "editUnlock"
    /\ fetchLock' = None /\ Goto(t, back[t])
    /\ call' = [call EXCEPT ![t] = None] /\ ok' = [ok EXCEPT ![t] = FALSE]
    /\ back' = [back EXCEPT ![t] = "idle"] /\ edited' = <<>> /\ blind' = FALSE
    /\ UNCHANGED <<card, memory, pluginFileLock, alloc, scan, pageState, before, spent,
                   history, session>>

EditSteps(t) ==
    \/ LockFetch(t) \/ ParseSources(t) \/ WriteTemp(t) \/ OpenTarget(t) \/ CopyToTarget(t)
    \/ FreeFetchScratch(t) \/ UnlockFetch(t)

-----------------------------------------------------------------------------
(* The surroundings *)

\* Somebody else replaces a .3nx or damages the library's file.
ReplaceFile ==
    /\ changes < MaxChanges /\ changes' = changes + 1
    /\ clean' = FALSE /\ scanClean' = FALSE
    /\ \/ /\ \E f \in Files, stack \in NewStacks : dir' = [dir EXCEPT ![f] = stack]
          /\ UNCHANGED lib
       \/ lib' = [lib EXCEPT !.whole = FALSE] /\ UNCHANGED dir
    /\ UNCHANGED <<sources, memory, locks, alloc, scan, pageState, edit, opens, calls,
                   trouble, session, pc>>

\* The next boot, if MENU is still there.
Restart ==
    /\ sources' \in IF \E t \in Threads : pc[t] = "copy" THEN Damaged ELSE {sources}
    /\ Booted(dir) # None /\ running' = Booted(dir)
    /\ mem' = {} /\ scanScratch' = None /\ fetchScratch' = None
    /\ pluginFileLock' = None /\ fetchLock' = None
    /\ ready' = FALSE /\ openOnline' = None
    /\ pc' = Each("idle") /\ back' = Each("idle")
    /\ use' = Each("scan") /\ found' = Each(None)
    /\ best' = None /\ entry' = Each(None)
    /\ force' = FALSE /\ loading' = None
    /\ call' = Each(None) /\ ok' = Each(FALSE)
    /\ edited' = <<>> /\ blind' = FALSE /\ before' = <<>>
    /\ clean' = TRUE /\ scanClean' = TRUE /\ shared' = FALSE
    /\ UNCHANGED <<dir, lib, opens, calls, changes>>

PowerCut == trouble < MaxTrouble /\ trouble' = trouble + 1 /\ Restart

\* A scan writes through g_MENUScanScratch after somebody else set it to NULL, and
\* Rosalina is gone.
WriteThroughNull ==
    /\ scanScratch = None
    /\ \E t \in Threads : pc[t] \in {"pass1", "pass2", "reopen", "manageScan"}
    /\ Restart /\ UNCHANGED trouble

ThreadSteps(t) ==
    \/ FindFreeRange(t) \/ TakeRange(t) \/ OpenPluginFile(t) \/ EditSteps(t)
    \/ t = Page /\ (PageSteps \/ BuildList)

Next ==
    \/ OpenPage \/ Unload \/ OpenManage \/ BuildAgain \/ LeaveManage
    \/ \E t \in Threads : ThreadSteps(t) \/ EditSources(t) \/ PluginOpensFile(t)
    \/ ReplaceFile \/ PowerCut \/ WriteThroughNull

Spec == Init /\ [][Next]_vars

\* Every thread goes on with its call.  Nothing makes a page be opened or left.
FairSpec == Spec /\ \A t \in Threads : WF_vars(ThreadSteps(t))

-----------------------------------------------------------------------------
(* What is expected of it *)

TypeOK ==
    /\ dir \in [Files -> Stacks \cup {None}]
    /\ lib \in [version : Versions \cup {None}, whole : BOOLEAN]
    /\ sources = Unreadable \/ (sources \in Seq(Sources) /\ Len(sources) <= MaxSources)
    /\ mem \subseteq Blocks /\ {scanScratch, fetchScratch, openOnline} \subseteq Blocks \cup {None}
    /\ {pluginFileLock, fetchLock} \subseteq Threads \cup {None}
    /\ {ready, force, shared} \subseteq BOOLEAN
    /\ use \in [Threads -> Uses] /\ found \in [Threads -> 0 .. MemPages \cup {None}]
    /\ \A t \in Threads : entry[t] \in Entries \cup {None} /\ call[t] \in Calls \cup {None}

\* Two threads that choose the same free range do not share it and nobody frees
\* what another one uses: whoever scans, edits or runs the library does so in a
\* block that is allocated, his own, and under the lock if there is one; and a
\* library that runs fits the MENU that called it.  But the Manage page takes no
\* lock: what a scan and the open page use once they have met may be anything.
ScratchIsMine ==
    \A t \in Threads :
        /\ pc[t] \in {"pass1", "pass2", "reopen"} =>
               pluginFileLock = t /\ (shared \/ scanScratch \in Mine(t, "scan"))
        /\ pc[t] \in {"manageScan", "managing"} =>
               shared \/ scanScratch \in Mine(t, "manage")
        /\ pc[t] \in {"parse", "writeTemp", "openTarget", "copy"} =>
               fetchLock = t /\ fetchScratch \in Mine(t, "edit")
        /\ back[t] = "run" \/ pc[t] = "run" =>
               openOnline \in Mine(t, "image") /\ ApiOf[loading] = ApiOf[running]

\* Temporary memory is Rosalina's whole spare space: when all calls have
\* returned, by whatever path, no lock is held and none of it is left allocated;
\* at most a scan's page is lost, to a Manage page that was opened meanwhile.
NothingLeaks ==
    (\A t \in Threads : pc[t] = "idle") =>
        /\ pluginFileLock = None /\ fetchLock = None
        /\ \A x \in mem : shared /\ x.use = "scan"

\* The entry that OpenPluginFile opens is the one the console loads, and it
\* opens none if that one is not loaded, unless the card failed or was changed or
\* the scratch was shared; even then it never opens another plugin's.
OpensWhatIsLoaded ==
    \A t \in Threads :
        /\ pc[t] = "scanFree" /\ scanClean /\ ~shared =>
               entry[t] = LET p == Loaded(dir, IdOf[t]) IN
                          IF p = None THEN None ELSE EntryAt(dir, p)
        /\ entry[t] # None => entry[t].id = IdOf[t] /\ entry[t].magic = "MENU"

\* Whatever failures, cuts and damaged library files came before, a call of the
\* Online page to which nothing happens opens the page, provided that the MENU
\* on the card carries a library for the MENU that runs.
GaveUp == pc[Page] \notin {"idle", "unload", "managing"} /\ pc'[Page] = "idle"
PageOpens ==
    [][GaveUp /\ clean' /\ trouble' = trouble /\ ~shared =>
           Booted(dir) = None \/ ApiOf[Booted(dir)] # ApiOf[running]]_vars

\* An edit that returned TRUE did what it was asked for, if it could open the list.
TrueMeansDone ==
    \A t \in Threads :
        pc[t] = "editFree" /\ ok[t] /\ ~blind =>
            IF call[t].kind = "add" THEN \E i \in DOMAIN sources : sources[i] = call[t].source
            ELSE \A i \in DOMAIN sources : sources[i].title # call[t].source.title

\* Every call returns: nobody waits for a lock that is not released, unless a
\* scan has met the Manage page and Rosalina is gone.
Waiting(t) == pc[t] \in {"idle", "run", "managing"}
CallsReturn == \A t \in Threads : ~Waiting(t) ~> Waiting(t) \/ shared

Writing == \E t \in Threads : pc[t] = "copy"
EditingBlind == \E t \in Threads : blind /\ pc[t] \in {"writeTemp", "openTarget"}

Current == IF Writing THEN before ELSE sources
Stage == IF Writing THEN (IF blind THEN "blindly writing" ELSE "writing")
         ELSE IF EditingBlind THEN "blind" ELSE "idle"

List == INSTANCE SourceList WITH list <- Current, stage <- Stage, risk <- shared

\* The file behaves as SourceList promises.
ImplementsSourceList == List!Spec
=============================================================================
