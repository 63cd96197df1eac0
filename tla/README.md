# A TLA+ model of the MENU sysplugin

MENU is a plugin pair for Luma3DS: one half is linked into the Loader system
module, the other into Rosalina. This directory holds a model of the parts of it
in which order, interruption and shared state decide whether the code is right,
the TLC configurations that check the model on small instances, and proofs about
the bridge, the launch dispatcher, the hook installer, the updater and the menu that
hold for every instance. All
names of C files below are relative to `sysmodules/`.

## 1. Inventory

| Component | State it keeps | Operations | Interacts with | Modelled in |
|---|---|---|---|---|
| Bridge, Loader half (`loader/source/menu_loader_bridge.c`) | ring of 0xC0-byte messages, head/tail/count, spin lock, one-shot event, the worker's attempts, `g_MENUStockPlgldrBusy` | `BridgeSend`, the worker thread, `PlgldrInitHandler`, `BridgeStockClosed` | Rosalina through the one-session port `plg:ldr`; the launch path, which uses the same port | `Bridge` |
| Bridge, Rosalina half (`rosalina/source/modmenu_bridge.c`) | list of receivers and its lock; the hooked stock handler | register, unregister, the command wrapper, installing and removing the hook | consumers' callbacks, `Main` | `Bridge`; `MenuStart` (the hook) |
| Launch dispatcher (`loader/source/menu_loader.c`) | title list, HOME list, context, launch epoch, valid flag | register and unregister twice over; `PatchCode`, `DispatchHome`, `PreCreateCodeSet`, `PostCreateProcess`, `PlgldrCloseHandler` | `loader.c`, whose calls the hooks divert; callbacks that call the registry again | `LaunchDispatch` |
| Hook installer (`loader/source/menu_loader_hooks.c`) and `Main` of the Loader half | six patched call sites, their saved words and addresses, `g_MENUHooksReady` | install, rollback, start of the worker | code pages of Loader; the registries, which are closed until it succeeds | `LoaderHooks` |
| Memory helpers (`menu_loader_memory.c`, `modmenu_hooks.c`, `modmenu_online.c`) | none but the address space | `FindFreeRange`, `TempAlloc`, `TempFree`, `MapPage`, `UnmapPage` | kernel | `LoaderHooks` (page mapping), `OnlineLibrary` (temporary memory) |
| Menu registry and page (`modmenu.c`) | list of entries, count, generation, lock; the page's locals and the screen | register, unregister, the page's loop | consumers' threads and callbacks | `MenuPage`; the boot snapshot is in `SyspluginState` |
| Start of the Rosalina half (`modmenu.c`, `modmenu_hooks.c`) | the root menu of the host, two hooked functions | `Main`: list, root entry, bridge hook, draw hook, rollback | Rosalina's code and data | `MenuStart` |
| Data store (`modmenu_data.c`) | `/luma/modmenu.dat`, `/luma/modmenu.tmp`, lock | `SaveData`, `LoadData`, `GetDataSize` | SD card | `DataStore` |
| Boot-state records (`modmenu_manage.c`) | `menutemplist.txt`: boot snapshot, `E`, `D` and `P` records; the plugin files; lock | `AddSysplugin`, `DisableSysplugin`, `EnableSysplugin`, `DeleteSysplugin` | boot (`modmenu.c`), the Online page, SD card | `SyspluginState` |
| Pack page and updater (`online.c`) | the plugin files, `.plgupdate.backup`, `.plgupdate.path`, the download and rebuild files, marks of the session | recovery, `InstallDownloadedUpdate`, `SwapRebuild`, `BuildPack` | SD card, `AddSysplugin`, downloads | `UpdateJournal` (parsers, downloads and drawing are not) |
| Plugin scan (`modmenu_scan.c`, the list of `modmenu_manage.c`) | a scratch page shared by scanning threads, lock | `OpenPluginFile`, opening and leaving the Manage page, its list | memory helpers, SD card | `PluginScan` (which entry), `OnlineLibrary` (the calls) |
| Sources and HTTPS library (`modmenu_online.c`) | `sysplgfetch.txt`, the unpacked library, its loaded image, locks | opening the Online page; adding and removing sources | scan, memory helpers, SD card, the library | `OnlineLibrary`, `SourceList` |
| Downloads (`httpslib.c`) | sockets, a TLS heap | download, progress, cancel | network, the library | planned |
| mbedtls, `patcher.c`, build scripts | | | | not modelled: third-party or stock code, or tools without state |

What is hard in this code, and so what the properties are about:

* **Threads without a scheduler's help.** The bridge has senders, a worker, the
  launch thread and Rosalina's service thread. The worker reads its slot without
  the lock, and the busy flag is neither locked nor tested once only.
* **A port with one session.** Stock Loader asserts on its own connection; a
  bridge session in its way for too long stops the whole module.
* **Callbacks inside list walks.** Consumers' callbacks may change the list that
  is being walked; there is no lock and no reference count.
* **A card that loses power.** Swaps of plugin files, the boot records and the
  data store are sequences of calls that can be cut between any two.
* **Patched code.** An image that is unloaded while a call site of its host still
  leads into it is a branch into freed memory, and putting a site back can fail.
* **What was seen is not what is.** The menu page keeps a count, indices and a
  generation it read under a lock it has since released; a scan keeps a place in a
  file that may be replaced; a free range that was found may be taken.
* **Calls that fail** in the middle of such a sequence, and are undone, ignored
  or mistaken for something else.

`PROJECT.json` lists each hazard at its line with the properties that cover it,
or the reason why none does.

## 2. Modules

    BridgeChannel          what a sender may rely on: an ordered queue
       ^ refined by
    Bridge         <-- MCBridge (instances for TLC)
                   <-- BridgeProofs (theorems)
    LaunchDispatch <-- MCLaunchDispatch, LaunchProofs (theorems)
    LoaderHooks    <-- MCLoaderHooks
                   <-- LoaderHooksProofs (theorems)
    MenuPage       extended by
    MenuStart      <-- MCMenuStart, MenuProofs (theorems)
    UpdateJournal  <-- MCUpdateJournal, JournalProofs (theorems)
    SyspluginState <-- MCSyspluginState, SyspluginProofs (theorems)
    DataStore      <-- MCDataStore, DataStoreProofs (theorems)
    SourceList             what sysplgfetch.txt promises those who edit it
       ^ refined by
    OnlineLibrary  <-- MCOnlineLibrary, OnlineProofs (theorems)
       | extends
    PluginScan             which entry of the stacks is a plugin's

Operators are named after the functions they model. An operator marked "mutant"
is a plausible bug in the one that follows it; no specification uses it. It is
there to show that the property named with it in `PROJECT.json` would notice.

### Bridge

State: `queue`, `head`, `tail`, `count` are the ring; `lock` is the spin lock;
`event` the one-shot event; `ready` is `g_MENUBridgeReady`; `busy` is
`g_MENUStockPlgldrBusy`. Each thread has a program counter (`spc`, `wpc`, `stpc`,
`rpc`); `session` says who has the only session of the port.
A step ends wherever another thread could notice the difference: a send is
*lock, copy the message, commit the indices, signal*; the worker is *peek, test
the flag, test it again, connect, marshal, request, reply, account, pop*.
`stpc = "panic"` is Loader after a failed `assertSuccess`.

`BridgeChannel` states what all this is for. Its queue holds the messages that
were accepted; the head is delivered or given up, nothing is reordered, lost in
the middle or delivered twice. `Bridge!ImplementsChannel` maps the ring's
contents to that queue; it is checked as a property and proved. (A receiver may answer
"retry" after having acted: a callback that returns FALSE is not a delivery.)

### LaunchDispatch

The two lists are kept as the code keeps them: `first`, `last` and a `next` link
per registration. A walk is a cursor that follows links, and a callback is a
state of its own (`calling`), during which the callback may register and
unregister anything, its own node included. `menuEpoch` is the per-node epoch.
`epoch` wraps at `EpochLimit`, 2^32 in the code; `FirstEpoch` launches are over
when a behaviour begins, so that the wrap falls into it. `cut` remembers that a
callback has unlinked the node its walk stands on: the code then follows a link
that `unregister` has cleared, and the walk ends. A launch runs through
`patchCode`, the HOME walk, `prepare`, `svcCreateProcess`, which may fail,
`processCreated` and, for applications, the `plg:ldr` close; CXI loads enter it
without `patchCode`. `order` is a history, the members in registration order, that
the links are compared with.

### LoaderHooks

`code` is what each of the six sites holds: its own words (`host`: stock code, or
code in which the installer does not find its pattern) or the branch into MENU.
`address` and `saved` are the installer's records, `memory` the pages of the
scratch range. Installing or restoring a site is *locate or look up, find a free
range, lower guard, upper guard, alias, compare and swap the pair, unmap, account
for the result*, and each of these calls may fail. `loaded` is what `Main` decides.
The memory that a failed unmap keeps is lost, so later mappings may find no room,
and a rollback can fail for that reason alone. `PLUGIN_MENU_MapPage` is modelled
once, for the Loader half, where one thread uses it.

### MenuPage and MenuStart

`MenuPage` is the list of entries (`items`, `page`, `generation`) and the loop that
shows it. A step of the loop ends where it releases the list's lock: *look* (count
and generation), *draw* (which looks again, for the titles), *wait for a key*,
then either the lookup and call of the selected entry, or the move of the
highlight, which is redrawn row by row with a look for each row. Between any two
of these consumers add and remove entries. `screen` is what the rows show.

`MenuStart` adds `Main`: it lists MENU's own two entries, inserts one into
Rosalina's root menu, hooks the stock handler of `plg:ldr` and the drawing
function, and takes all that back when a step fails, as far as it can. The page
and the consumers run only over an image that stays; so the module composes the
two, and the promises of each are stated on the whole.

### UpdateJournal

One file-system call is one step. `target` is what lies at each plugin's path,
`backup` and `journal` are the two files of the swap; `staged` is the file about
to be moved in. `installed` remembers what was last put in place, which is what
the properties compare with. `Crash` may come between any two steps; `Fails` is
the other outcome of a step. `fileExists` answers "no" when it fails, so a failing
check is a step that takes the wrong branch; `spoiled` remembers which of the
failures that the code does not notice have happened, and the properties say
exactly which of them each promise does not survive.

### SyspluginState

A file is absent, the one the boot loaded, one installed since, or another.
The list is a record: snapshot, change, pending. A call is *lock and load, edit
and rename, save, undo*; reboots, installs and other threads' calls come in
between. `active` remembers what the boot loaded. An open that fails reads as a
missing list (`misread`), a save that fails half-way leaves a mixture, and the
list may be full; `hurt` names the records such a failure may have spoiled, and a
reboot clears it.

### DataStore

The file is a sequence of cells with the code's layout: count, table, blocks,
all at the offsets the code computes. `ValidateDataFile` and `Loads` read it as
the code does. `SaveData` is *scan; then either overwrite in place, or lay out
the temporary file, write its records one by one, resize the state file, copy
cell by cell; delete the temporary file*. The content that `SetSize` gives to a
longer file is `Junk`. `stored` remembers what each plugin saved with success, `torn` whose
record a cut or a failure may have cost, and `misread` that the old file was taken
for an invalid one because it could not be read.

### PluginScan, SourceList and OnlineLibrary

`PluginScan` is a pure module: `Best` and `Selected` are the two passes in which
`OpenPluginFile` finds a plugin's own entry, `Winners` is the single pass over the
sorted files by which the Manage page and the stock loader choose. The code of the
two has nothing in common, and `OpensWhatIsLoaded` says that they agree.

`OnlineLibrary` has the menu's thread open the Online page (*scan, unpack unless the
version is there, load, run, free; once more with a library unpacked anew if
loading fails*) while plugins scan for themselves and edit `sysplgfetch.txt`, as
the page may while it runs. `mem` is temporary memory as a set of blocks with
their owners: a range is found in one step and taken in the next, which the kernel
refuses if somebody was faster. The Manage page has its block there too, and takes
the scan's global pointer without the scan's lock; after they have met, a write
through the cleared pointer ends Rosalina (`WriteThroughNull`). A failing access, a power cut, a file that is
replaced and a library file that is damaged are steps too.

`SourceList` says what editors of the list rely on: an edit puts one entry where the
first of those it replaces was, or at the end, or takes out those of one title, and
keeps the others in order; only a failure can do otherwise. Its `risk` is there
because a process that goes down with an edit need not fail itself: a scan that has
met the Manage page may take it along. `OnlineLibrary!ImplementsSourceList` maps the
file, the list before it is overwritten (`Current`), the stage of the edit (`Stage`)
and `shared` to it.

## 3. What the runs check

| Run | Question | Instance | Distinct states |
|---|---|---|---|
| `bridge` | all safety properties of the bridge, and that it implements `BridgeChannel` | 3 messages, 2 senders, ring of 2, 2 attempts, 2 launches, 2 registry changes | 2.6 M |
| `bridge_live` | no lost wake-up: the queue drains; nothing queued is malformed | 3 messages (one too long), 1 sender, 1 launch, under fairness | 297 k |
| `bridge_startup` | expected violation, see section 6 | 1 message | |
| `launch` | lists stay sound, a walk calls each member once, callbacks belong to this launch, every launch ends | 3 title and 1 HOME registrations, 3 launches of any kind, 4 registry calls and 2 by callbacks, under fairness | 241 k |
| `hooks` | no branch into an unloaded image, all hooks or none, guarded aliases | 6 sites, each stock or foreign, 9 pages, 3 failing calls | 29 k |
| `menu` | the page shows and opens what the list holds; `Main` leaves all or nothing | 2 registrations, 2 pages they may hold, 3 rows, 4 registry calls, a root menu of 4 slots | 2.5 M |
| `launch_cxi` | expected violation, see section 6 | 1 registration | |
| `journal` | no pack is lost, half replaced or wrongly marked | 3 files, 2 plugins, 3 installs; 2 power cuts and 4 failing calls in any order | 1.8 M |
| `sysplugin` | records, reports and files agree | 2 names, 2 threads, 5 calls, 1 reboot, 1 failing call | 695 k |
| `sysplugin_pending` | expected violation, see section 6 | 1 name, 1 thread, 3 calls | |
| `datastore` | records are kept and found | 3 ids, payloads of 0, 1 and 2 cells, 3 saves, 1 power cut and 1 failing call | 994 k |
| `online` | memory, locks, scans and the list of sources stay right; the page opens and calls return | 2 threads, 3 files, 3 pages of memory, 2 openings of the Online or Manage page, 1 edit or scan by a plugin, 1 failure or power cut, 1 replaced file, under fairness | 690 k |

Why these bounds are enough to see something:

* The ring has two slots for three messages, so it fills, wraps and refuses. Two
  attempts are the fewest that tell "gave up" from "failed once". Two launches let
  a second busy period begin while a message from the first is still queued. Two
  senders are the fewest that contend for the lock, with the worker as a third.
* Three title registrations have a first, a middle and a last node, the three
  cases of the unlink code. `EpochLimit = 5` with `FirstEpoch = 3` makes the epoch
  wrap in three launches; a smaller limit would let an old epoch come round again
  within one behaviour, which takes 2^32 launches in the code.
* Nine pages hold three mappings that are never given back; three failing calls
  are enough for a failed install, a failed restore in the rollback after it, and
  one more, or for unmaps that fail until the range is full.
* Three pack files give the install loop a file before, at and after the one
  being swapped; two of them hold the same plugin. Two power cuts let the second
  hit the recovery from the first; four failing calls are the fewest that leave a
  backup without a journal by a restore that fails (section 5).
* A record concerns one name, but the list is read and written back whole: a second
  name shows what one call does to the record of another. Histories of more than
  two calls stay with one name (`FewCallsOfTwoNames`).
* Two registrations and MENU's own two make a list that is longer than, as long as
  and shorter than the three rows, so the page scrolls and shrinks. Four root slots
  let the root menu be full, empty of a miscellaneous entry, or fit.
* Memory of three scratch pages holds an image and one scratch page, so that a
  third block is refused. The two cards have the plugin and MENU in
  one file, two files of one priority and one of another, a stack that breaks off, and a list
  that is none.
* Three ids have a new record inserted before, between and after the old ones,
  and payloads of equal and unequal length choose both ways of saving. `MaxFile =
  10` makes the largest combination exceed the limit.

Deadlock checking is off everywhere: calls, launches and faults are bounded, so a
model stops when they are used up, and the programs themselves are idle when
nothing is asked of them. Symmetry is used for messages and senders that no
definition tells apart, for names and threads, and for registrations and their
pages, and never in a liveness run.

### The properties

* Bridge: `NoTornRead`, `OwnAttemptsOnly`, `StockComesFirst`,
  `AcceptedIsWellFormed`, `ImplementsChannel`, `QueueDrains`. The slot that the
  worker reads without the lock is not written meanwhile; a message is given up
  for its own failures; from the moment the flag is up, at most the one session
  already under way precedes the stock one, and a busy period costs the head
  message at most one attempt.
* LaunchDispatch: `ListsAreSound`, `CalledExactlyOnce`,
  `PatchedLaunchesSeeThemselves`, `LaunchEnds`. `CalledExactlyOnce` excepts a
  registration that is registered anew during the walk, and the members behind a
  node that its own callback unlinks.
* LoaderHooks: `UnloadedIsRestored`, `ReadyOrRefused`, `AliasesGuarded`. The first
  two are about what `Main` decides, the third about the pages around an alias, at
  every step.
* MenuStart: `SelectionIsShown`, `ScreenShowsList`, `OpensTheHighlighted` (the
  page), `UnloadedLeavesNothing`, `ResidentIsComplete` (`Main`).
* UpdateJournal: `NothingLost`, `MarkedEverywhere`, `RefusalNeedsEmptyJournal`.
  Failing calls are part of every history; what each promise does not survive is
  named in it, by the call that failed. The last says when recovery refuses to
  open the page although nothing fails while it looks: an empty journal, or a
  backup without a journal, which takes a delete, a restore or a check that failed
  before.
* SyspluginState: `PendingHasFile`, `ReportMatchesBoot`, `FailedCallKeepsFiles`. The
  first two except the names of `hurt`, the third is about a call that fails.
* DataStore: `RecordsKept`. It excepts the records of `torn`; a save that returned
  TRUE is found, whatever it met.
* OnlineLibrary: `ScratchIsMine` (a block in use is allocated, its user's own and
  locked, and a running library fits its host), `NothingLeaks`, `OpensWhatIsLoaded`,
  `TrueMeansDone`, `PageOpens`, `CallsReturn`, `ImplementsSourceList`.

## 4. Fairness

`Bridge!FairSpec` assumes weak fairness of each thread's own steps: the kernel
schedules runnable threads, and the worker runs at a priority just below Loader's
own thread on the same core, which sleeps between launches. It assumes that a
session the kernel has to reap is reaped, that a signalled or timed-out wait ends,
and that Rosalina answers a request it has received. It assumes that
Rosalina's service thread publishes its port: stock `plgldrInit` itself waits for
that without a limit (`loader.c:241`), and without it a launch would hold the busy
flag for ever. It does not assume that a sender sends, that a launch happens, that
a receiver exists or that a callback accepts: with none of these the message is
given up, and the queue still drains. A stock session that was opened is closed, for `loader.c` has
no way around the close but a panic, and `QueueDrains` excepts a panic.

`LaunchDispatch!FairSpec` assumes weak fairness of the launch thread: callbacks
return and system calls come back. It does not assume that a launch starts.

`OnlineLibrary!FairSpec` assumes weak fairness of the steps of each thread's call:
a thread that may go on does, and system calls come back. The two locks are words
that a waiting thread tests again after a sleep (`PLUGIN_MENU_LockWord`); weak
fairness of the attempt is enough, since the bounded number of calls lets nobody
take a lock for ever. It does not assume that anybody calls, that the user opens or
leaves a page, or that the card works. `MenuStart` has no fairness: its page waits for keys.

## 5. Proofs

Eight modules hold theorems, one for each part that has a specification.

### The bridge

`BridgeProofs` proves, for every ring size, retry count, set of senders and set
of messages that the assumptions of `Bridge` allow:

| Theorem | Statement |
|---|---|
| `BridgeInvariant` | `Spec => []IndInv` |
| `TypeCorrect` | `Spec => []TypeOK` |
| `SlotsAreStable` | `Spec => []NoTornRead` |
| `StockFirst` | `Spec => []StockComesFirst` |
| `AcceptedWellFormed` | `Spec => []AcceptedIsWellFormed` |
| `EachPaysForItself` | `Spec => []OwnAttemptsOnly` |
| `BridgeIsChannel` | `Spec => ImplementsChannel` |

The assumptions are those the module declares: a ring of at least one slot, at
least one attempt, "no message", "no target" and "no sender" that differ from any.

None of the safety properties is inductive. `IndInv` adds to `TypeOK`:

* `RingInv`: `tail` is `head + count`, less the ring size when that wraps, and the
  `count` slots from `head` on hold well-formed messages. `Occupied` says which
  slots these are without a modulus; the lemmas on `Advance` and on the occupied
  slots turn the modular arithmetic into two cases, wrap and no wrap, which the
  prover can use.
* `SenderInv`: a sender holds the lock exactly while it is between lock and commit,
  so there is one at most; while it copies, the ring is not full, and the message
  it carries is well formed. The slot it writes is the one at `tail`.
* `WorkerInv`: from the peek to the pop the worker's index is `head`, and the
  queue is not empty, because nobody else pops; the request that Rosalina reads is
  the message of that slot. With `RingInv` and `SenderInv` the slot it reads is not
  the free one a sender writes: that is `NoTornRead`, and the step that needs all
  three.
* `PriorityInv`: the flag is up exactly from the connect to the end of the close,
  and `intrusions` and `wasted` are still zero where the worker is about to add one.

The proof of `IndInv /\ [Next]_vars => IndInv'` has one step per action and under
it one per conjunct the action can disturb. `IndInv` holds on the instance of the
run `bridge` too: add it to the INVARIANTS of `MCBridge.cfg` to see it.

`EachPaysForItself` needs what ties the worker's one counter to the message it is
about. `OwnAttemptsOnly` alone is not inductive, since a message that was tried
before could come to the head again with an old count. `AttemptsInv` excludes that:
a message is in one slot, or with one sender, or nowhere (`Once`); only the head
has failures (`Untried`); and its failures are the counter, plus the one that the
worker has seen and not counted yet (`HeadPays`).

`BridgeIsChannel` is the refinement. The first part of its proof is about data: how a commit,
a pop and a step that does neither change `Contents`, the ring read as a
sequence. That is where the modulus is, and `IndInv` is what makes each index wrap
at most once. The second part maps every action to a step of the channel: the
commit to *accept*, the acknowledged reply to *deliver*, the pop after the last
attempt to *give up*, everything else to a stutter.

### The launch dispatcher

`LaunchProofs` proves, for every set of registrations, titles and callbacks, every
choice of titles that get a session, a HOME patch or a CXI load, and every number of
calls:

| Theorem | Statement |
|---|---|
| `LaunchInvariant` | `Spec => []LaunchInv` |
| `TypeCorrect` | `Spec => []TypeOK` |
| `ListsSound` | `Spec => []ListsAreSound` |
| `EachCalledOnce` | `Spec => []CalledExactlyOnce` |
| `PatchedLaunchesFresh` | `MaxLaunches + 1 < EpochLimit` gives `Spec => PatchedLaunchesSeeThemselves` |

`LaunchInv` is about a walk over a list that callbacks change under it:

* `OrderInv`: the members of a registry are a sequence without repetition, and an
  object that is no member has a cleared link. With `ListsAreSound` the links are that
  sequence; the code, which can only follow links, then looks through exactly the
  members (`ChainIsOrder`). `OnChain` is stated as "in every set closed under the
  links", and a node that such a set leaves out has a first one before it.
* `StageInv`, `EpochInv`: which callbacks can have run at a stage, and that an
  accepted registration carries this launch's epoch.
* `AheadInv`: the walk stands on a member, or on a node that its running callback has
  just unlinked; nothing further on has been called or accepted.
* `BehindInv`: unless the walk was cut, what it still has to call is further on.

A register or unregister call is one lemma about the sequence (what is appended,
what closes up) and one about the walk; a step of the walk is one about the place it
moves to (`LinkIsNext`).

`PatchedLaunchesFresh` needs one hypothesis: epochs come round, and a registration
that was accepted 2^32 - 1 launches ago and that every `prepare` walk since has
missed, being cut, would count as accepted; with as many launches as epochs TLC
finds that history. `FreshInv` says that every epoch in use is that of one of the launches so
far, and that from `patchCode` to its end a launch's own is carried by the
registrations accepted in it alone.

### The hook installer

`LoaderHooksProofs` proves, for every scratch range, every set of pages in use and
every number of failing calls:

| Theorem | Statement |
|---|---|
| `HookInvariant` | `Spec => []HookInv` |
| `NoBranchLeft` | `Spec => []UnloadedIsRestored` |
| `ReadyOrRefusedAlways` | `Spec => []ReadyOrRefused` |
| `TypeCorrect` | `Spec => []TypeOK` |
| `GuardedAlways` | `Spec => []AliasesGuarded` |

`UnloadedIsRestored` speaks only of the end. `HookInv` says what makes it true on
the way: a site is diverted exactly when its address is recorded, but for the one
whose pair was swapped a moment ago (`RecordInv`); installing records the sites
in order (`InstallInv`); and the recorded sites behind the one being restored are
those that refused (`RollbackInv`), so that none recorded at the end means none
diverted. The steps of the mapping share one lemma, for they touch neither a site
nor its record.

`AliasesGuarded` says too little of a mapping under way: freeing its guards must
not take a guard from an older alias that could not be unmapped. `GuardInv` says
what each step of `PLUGIN_MENU_MapPage` has put into the three pages (`TakenInv`),
and that an older alias has guards of its own outside them, which guard nothing
else (`OldAliasInv`, `OldGuardInv`).

### The updater

`JournalProofs` proves, for every set of files and plugins, whatever files hold
whatever plugins, and for every number of power cuts, failing calls and installs:

| Theorem | Statement |
|---|---|
| `JournalInvariant` | `Spec => []JournalInv` |
| `TypeCorrect` | `Spec => []TypeOK` |
| `NoFileLost` | `Spec => []NothingLost` |
| `MarkedMeansReplaced` | `Spec => []MarkedEverywhere` |
| `RefusalExplained` | `Spec => []RefusalNeedsEmptyJournal` |

The properties speak of the card, and a step of a swap relies on what the steps
before it did. `JournalInv` adds that:

* `SwapInv`: from the written journal on, the journal names the file of the swap;
  while the file is aside, the backup is what was last installed as it.
* `RecoveryInv`: a backup that a journal names may be put back, for its file is
  still there or it is what was last installed. A journal that outlived a failing
  delete names a file that is there, so its backup is dropped.
* `LostInv`, `BackupInv`: where the page may stand while a file is missing, and
  while there is a backup, unless a failure that the code does not see came before.
* `StagedInv`, `MarkInv`: the rebuilt file keeps the plugins that are new already;
  the files that the loop has passed have the plugin it installs, the one set
  aside counting as there. That the loop skips no file is `NextFileIsNext`, which
  needs that a set of numbers has a least one.

The proof corrected a property. `RefusalNeedsEmptyJournal` first said that a backup
without a journal takes a delete that failed. Four failing calls in a row break
that: the new file cannot be put in place, nor the old one restored; the next
install does not get rid of the backup, and fails to create its journal, having
deleted the old one. The run, then bounded by two failing calls, could not see it;
it now has four.

### The menu

`MenuProofs` proves, for every set of registrations and pages, every number of
rows, every size of the root menu and every number of calls:

| Theorem | Statement |
|---|---|
| `MenuInvariant` | `Spec => []MenuInv` |
| `TypeCorrect` | `Spec => []TypeOK` |
| `SelectionShown` | `Spec => []SelectionIsShown` |
| `ScreenFresh` | `Spec => []ScreenShowsList` |
| `HighlightOpened` | `Spec => OpensTheHighlighted` |
| `NothingLeft` | `Spec => []UnloadedLeavesNothing` |
| `ResidentComplete` | `Spec => []ResidentIsComplete` |

`MenuInv` is `TypeOK` with

* `PageInv`: a listed entry has its page and is listed once (`ListInv`); the page
  remembers no generation that is still to come (`GenerationInv`), so that an equal
  generation means an unchanged list; the highlight is inside the window and the
  window inside the list the page saw (`WindowInv`); and what the screen shows
  wherever the loop may come back to the wait without drawing, half-way through
  moving the highlight included (`ScreenInv`). `ScreenShowsList` speaks of the wait
  alone, and is not inductive without that.
* `Idle`, `EntriesInv`: the page runs and consumers call only over an image that
  stays, whose list begins with MENU's own two entries.
* `RootInv`: the root menu is the old one with MENU's entry at its recorded place,
  exactly between insertion and removal. A lemma on `CountOf` and one on
  `RootWithoutItem` show that closing the gap gives the old array back.
* `SiteInv`: which hook is in place at which point of `Main`.

`HighlightOpened` is an action property: it follows from the invariant before the
step, where the screen is the list and the lookup reads the same list.

### The boot-state records

`SyspluginProofs` proves, for every set of names and threads and every number of
calls, reboots, installs and failures:

| Theorem | Statement |
|---|---|
| `StateInvariant` | `Spec => []StateInv` |
| `TypeCorrect` | `Spec => []TypeOK` |
| `PendingAlwaysHasFile` | `Spec => []PendingHasFile` |
| `ReportAlwaysMatches` | `Spec => []ReportMatchesBoot` |
| `FailedCallsKeepFiles` | `MaxFaults <= 1` gives `Spec => FailedCallKeepsFiles` |

The properties speak of the moments at which nobody is inside a call. Inside one,
the list on the card, the copy the call edits and the files disagree; `StateInv`
says how:

* `BootedInv`: the file that was active at boot is in one place, under a name that
  was active.
* `ListInv`: a list has true records of the boot (`RecordsTrue`), and they fit the
  files (`RecordsFit`), but for the name whose file a call has just moved.
* `ScratchInv`: a copy that was edited fits the files as they are now, so saving it
  makes the list fit again; one that is still to be edited is the list.
* `RenamedInv`: a rename can be taken back, and the old list then fits.
* `BeforeInv`, `FaultInv`: for `FailedCallKeepsFiles`, what was there when the lock
  was taken is there until the call's own rename, and an undo takes a failure.

The hypothesis of `FailedCallsKeepFiles` is the property's own: with a second
failure the undo itself can fail, and the file stays where the rename put it.

### The data store

`DataStoreProofs` proves, for every set of plugins, every set of payloads, every
size of a file and every number of saves, crashes and failing calls:

| Theorem | Statement |
|---|---|
| `DataInvariant` | `Spec => []DataInv` |
| `TypeCorrect` | `Spec => []TypeOK` |
| `RecordsAlwaysKept` | `Spec => []RecordsKept` |

The first part is about the layout of a file. The ids and the offsets of a file that
validates ascend (`Ascends`, `ValidLayout`), so its blocks do not overlap, and a
payload written in place leaves the table and every other record as they are
(`InPlace`, `SameTable`). A record put after the first ones of a file under
construction leaves those alone and is laid out as validation asks (`PutRecord`);
when all have been put and the last ends with the file, the file validates and what
it holds is found (`CompleteValidates`). `FinalSize` is the value of a function
defined by recursion; `FinalSizeType` shows that the function exists.

The second part is about a save. `DataInv` says at each step:

* `KeptInv`: what plugins saved is in the state file, but for the record that is
  being overwritten in place, and but for the whole file while it is copied over.
* `PlaceInv`: how much of the new payload is in its place.
* `RecordInv`: the temporary file holds the old records before the one looked at,
  and the new one if that is written, in ascending order, and nothing else
  (`Rebuilt`). This is conditional on the sums being still within what they were
  promised to be, for the code checks them at the end only (`LastRecord`).
* `CopyInv`: the file that is copied has the new record and, if the old file could
  be read, all the others; the state file has a first part of it.

### The scan, the Online page and the sources

`OnlineProofs` proves, for every set of plugins, files, ids, entries, stacks, sources
and calls, every size of temporary memory and every number of failures, cuts, changed
files and opened pages:

| Theorem | Statement |
|---|---|
| `ScansAgree` | `Best` with `Selected` is `Loaded`, on every directory |
| `OnlineInvariant` | `Spec => []OnlineInv` |
| `TypeCorrect` | `Spec => []TypeOK` |
| `ScratchAlwaysMine` | `Spec => []ScratchIsMine` |
| `NothingEverLeaks` | `Spec => []NothingLeaks` |
| `TrueAlwaysMeansDone` | `Spec => []TrueMeansDone` |
| `NeverAnothersEntry` | `Spec => []OnlyOwnEntries` |
| `OpenInvariant` | `Spec => []OpenInv` |
| `AlwaysOpensWhatIsLoaded` | `Spec => []OpensWhatIsLoaded` |
| `PageAlwaysOpens` | `Spec => PageOpens` |
| `ImplementsList` | `Spec => ImplementsSourceList` |

The assumptions are those of `PluginScan` and `OnlineLibrary`: there are finitely many
files and ids; "none" is no thread, block, entry or place; stacks are sequences of
entries; the card the console starts with holds stacks and a list within its limit, or
no list.

*Data.* `Winners` and `NewList` are folds over sequences of any length. The library
defines a fold by recursion on sets of indices; for each of ours the proofs show that
this function exists (a smallest set without one would have a predecessor) and what it
is for one index more (`FoldStep`, `EntriesFoldStep`, `FilesFoldStep`,
`WithoutFoldStep`). A claim about a fold is then one about the first *k* elements, and
the least *k* it fails for gives the contradiction. There are four such lemmas where
one with an operator as parameter would do, which the provers cannot instantiate.

*The two scans.* `OpenPluginFile` never sorts: it takes the earliest entry of the id it
meets, then counts the ids that have an entry before that one, and gives up if they
fill the table. The walk sorts the files, takes the first entry of each id and stops
taking when the table is full. `ScansAgree` goes over `AreWinners`, which says of a
list of places what the walk leaves, whatever has been walked: entries of different
ids, in order, and an entry that has no place there has an earlier one of its id there,
or the table was full of earlier ones. The entry of the first pass is the earliest of
its id (`BestIsEarliest`); it is among the winners exactly if fewer ids than the limit
are before it, and a cardinality argument (`CountTo`, `FewImages`) ties the number of
those ids, which the second pass counts, to the length of the list.

*`OnlineInv`.* Neither memory nor locks can be reasoned about alone:

* `CallInv`, `LockInv`: who is where, and that the lock's word names the thread that is
  between the steps of its call.
* `BlockInv`: each block has a call that will free it, and where that call stands
  (`Accounted`). When all are idle there are none: `NothingLeaks`.
* `ScanScratchInv`: until a scan and the Manage page have met, only one of the two has
  `g_MENUScanScratch`, though neither asks for the other's lock.
* `ImageInv`, `EntryInv`, `EditInv`: the image that runs is the one loaded and of the
  right API; an opened entry is the thread's own; the list about to be written does
  what was asked for and is within the limit.

*`OpenInv`.* `ScanInv` says what the passes have found when nothing happened to the
thread's scan, `PageInv` what the page works with when nothing happened to the page:
from `EnsureHttpslib` on MENU's own entry, and on the second try the library of that
very entry. `PageOpens` is an action property: each step with which the page can give up
contradicts `PageInv`, or says that nothing would boot or that the APIs differ.

*`ImplementsList`.* `ListInv` says that an edit that knows the list is about to write
what `NewList` makes of it, and that one that could not open it writes its own entry
alone. All steps but seven leave the list aside (`Aside`). That `NewList` puts the
entry in the place of the first match and leaves the others in order is `AddedInPlace`.

The proof corrected the property. `SourceList` first allowed damage only in a step that
counts as a failure. That is false: with two plugins, one that edits the list and one
whose scan has met the Manage page, the scan's write through NULL ends the process in
the middle of the copy. The run allows one call of a plugin, and could not see it; with
two calls and one opened page TLC finds the history. `SourceList` now has `risk`, which
the mapping takes from `shared`.

### Not proved

Only model-checked: everything under fairness (`QueueDrains`, `LaunchEnds`,
`CallsReturn`), since neither fairness nor ENABLED is within the prover's reach. The
three properties of the runs that expect a violation do not hold. Everything else that
a run checks is a theorem.

## 6. Where code and documentation disagree

* `bridge_startup`, `WaitsForRosalina`: the README says that MENU "waits for
  Rosalina to become available". A message sent before Rosalina owns its port is
  given up after three attempts 100 ms apart (`menu_loader_bridge.c:190`).
* `launch_cxi`, `CallbacksSeeThisLaunch`: the comment at `menu_loader.c:276` says
  that later callbacks do not "use old results". A launch that does not reach the
  `plg:ldr` close, as of an applet, leaves its context valid, and a sysmodule then
  loaded from a CXI does not pass `patchCode`, so `PostCreateProcess` runs the
  applet's `processCreated` callbacks with the sysmodule's handle.
* `sysplugin_pending`, `PendingUntilReboot`: the README says that `AddSysplugin`
  records the pending-reboot state and that Disable and Enable "update the
  boot-state records consistently". Disable then Enable of a replaced plugin drops
  its pending record though the old file still runs.

Two weaknesses met while modelling contradict no document and so have no run of
their own; properties name them as their exceptions:

* A registration that unregisters itself from its callback ends the walk for that
  launch: the registrations behind it are not called (`CalledExactlyOnce`).
* `OpenPluginFile` takes a scratch that is already allocated for its own
  (`modmenu_scan.c:74`) and clears the pointer when it ends, under its lock; the
  Manage page sets and clears the same pointer without it (`modmenu_manage.c:15`,
  `:49`). A plugin that looks for its file while that page is open makes the page, or
  itself, write through NULL, or loses a page of memory. `shared` marks these
  histories in `OnlineLibrary`; `ScratchIsMine`, `NothingLeaks`, `OpensWhatIsLoaded`,
  `PageOpens` and `CallsReturn` say what still holds in them and what does not.

## 7. Left out

Not modelled at all: the vendored mbedtls, by far most of the lines under
`rosalina/httpslib_tls`, which is third-party code; `patcher.c` and the other files
of stock Luma3DS; the build scripts; drawing, input, text and logging; TLS and the
downloads of `httpslib.c` (planned).

Abstracted inside the modelled parts:

* Bridge and hooks: the stock handler behind the command wrapper is one external
  step; 3dsx titles, whose loader the hooks do not touch. The two words of a hooked
  site are replaced in one step; a thread that runs through the site meanwhile is
  not modelled.
* Menu: the unread mark and its dots, the text of an empty list; a title pointer is
  drawn after the lock is released, so its memory must outlive the entry, which is
  the consumer's duty. The page is not opened before `Main` has ended.
* Updater: the parsers of manifests and packs, and how a pack is rebuilt; the
  contents of a file are which plugins in it are new.
* Data store and boot records: bytes are cells, lines are records; the lock around
  the calls is a step order, not a state, in `DataStore`.
* Scan and library: two versions of an entry differ in the size or place of their
  metadata, which is all the code compares; an unfinished or damaged stack ends the
  walk as an unknown magic does; the outcome does not depend on the order of the
  directory, which the two passes make irrelevant; a file that is open is not
  replaced. `ExtractRawFile`, which nothing in the modelled paths calls, is left out.
  Two limits of the list, of entries and of bytes, lead to the same refusal and are
  one (`MaxSources`).
* The page's own reader of `sysplgfetch.txt` takes no lock and may see a list that
  is being written; it changes nothing.

## 8. Plan

Done: (1) `Bridge`, `BridgeChannel` and the proofs of the bridge's invariants;
(2) `LaunchDispatch`; (3) `UpdateJournal`; (4) `SyspluginState`; (5) `DataStore`;
(6) `LoaderHooks` and the proofs about it; (7) `MenuPage`, `MenuStart` and the
proofs about them; (8) `PluginScan`, `SourceList`, `OnlineLibrary` with temporary
memory; (9) the proofs of the bridge's refinement and attempts, of the guarded
aliases, of the updater and of the launch dispatcher; (10) the proofs of the
boot-state records and of the data store; (11) the proofs of the agreement of the two
scans and of the safety properties and the refinement of `OnlineLibrary`.

To do, in this order: the downloads of `httpslib.c` as a state machine of socket, buffer
and cancel around `OnlineLibrary`; pack parsing around `UpdateJournal`, as far as it
changes state; an atomic store that `DataStore` implements while nothing is cut.
