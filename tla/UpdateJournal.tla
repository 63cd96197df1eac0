--------------------------- MODULE UpdateJournal ---------------------------
(***************************************************************************)
(* How the Online pack page swaps plugin files on the SD card (online.c):  *)
(* the journalled swap of a rebuilt or downloaded stack, the loop that     *)
(* installs one plugin into every enabled file that holds it, and the      *)
(* recovery that runs before each page, after a crash anywhere.            *)
(*                                                                         *)
(* A step is one file-system call that changes the card.  A rename or a    *)
(* delete happens or does not; writing the journal creates an empty file   *)
(* first.  The download and rebuild files are one "staged" file: whichever *)
(* the swap renames.  It is deleted or rewritten before every use, so what *)
(* a crash or a failed delete leaves of it does not matter.                *)
(***************************************************************************)
EXTENDS Naturals

CONSTANTS
    FileCount,      \* plugin files, numbered in the order of their names
    Plugins,        \* plugins the manifest offers
    Holds,          \* the plugins in the stack of each file
    AtFirst,        \* the files that exist at first
    Histories,      \* bound: <<crashes, failing card calls>> of one history
    MaxInstalls,    \* bound: installs the user starts
    Missing,        \* no such file
    Empty,          \* a journal that was created and not written
    None            \* no plugin: a whole stack is being installed

Files == 1 .. FileCount

\* A whole file: which one it was built as, and its plugins at the new version.
Stacks == [of : Files, new : SUBSET Plugins]

ASSUME FileAssumption == FileCount \in Nat /\ AtFirst \subseteq Files
ASSUME HoldsAssumption == Holds \in [Files -> SUBSET Plugins]
ASSUME BoundAssumption == Histories \subseteq Nat \X Nat /\ MaxInstalls \in Nat
ASSUME DistinctAssumption ==
    /\ Missing \notin Stacks /\ Missing \notin Files
    /\ Empty \notin Files /\ Empty # Missing /\ None \notin Plugins

VARIABLES
    target,     \* what is at the path of each plugin file
    backup,     \* .plgupdate.backup
    journal,    \* .plgupdate.path: the file it names
    staged,     \* .plgupdate.rebuild or .plgupdate.download
    pc,         \* where the page is
    file,       \* the file being replaced; the install loop's "after" name
    plugin,     \* the plugin being installed
    ok,         \* the swap under way has put the new file in place
    touched,    \* the install loop's "updated" is not zero
    marked,     \* plugins marked installed while this page is open
    crashes, faults, installs,  \* bookkeeping of the bounds
    installed,  \* history: what was last put in place as each file
    spoiled     \* history: failing calls whose effect the code cannot see

card == <<target, backup, journal, staged>>
page == <<file, plugin, ok, touched, marked>>
bounds == <<crashes, faults, installs>>
history == <<installed, spoiled>>
vars == <<card, pc, page, bounds, history>>

Init ==
    /\ target = [f \in Files |-> IF f \in AtFirst THEN [of |-> f, new |-> {}]
                                            ELSE Missing]
    /\ installed = target
    /\ backup = Missing /\ journal = Missing /\ staged = Missing
    /\ pc = "closed" /\ file = 0 /\ plugin = None
    /\ ok = FALSE /\ touched = FALSE /\ marked = {}
    /\ crashes = 0 /\ faults = 0 /\ installs = 0 /\ spoiled = {}

Works == UNCHANGED bounds
Fails ==
    /\ <<crashes, faults + 1>> \in Histories
    /\ faults' = faults + 1
    /\ UNCHANGED <<crashes, installs>>

-----------------------------------------------------------------------------
(* PLUGIN_onln_RecoverInterruptedUpdate, when a page is opened *)

\* Mutant: the page opens without a recovery.
OpenPageAtOnce ==
    /\ pc = "closed" /\ pc' = "list"
    /\ staged' = Missing /\ marked' = {}
    /\ UNCHANGED <<target, backup, journal, file, plugin, ok, touched, bounds,
                   history>>

\* What the existence checks see and what follows from it.  A check that fails
\* counts as "no such file"; so does a journal that cannot be read.
CheckCard(sawBackup, sawJournal, readable) ==
    /\ IF /\ sawBackup = (backup # Missing)
          /\ sawJournal = (journal # Missing)
          /\ readable = (journal # Empty)
         THEN Works ELSE Fails
    /\ pc' = CASE ~sawBackup /\ ~sawJournal -> "list"
               [] sawBackup /\ ~sawJournal  -> "refused"
               [] sawJournal /\ ~readable   -> "refused"
               [] sawJournal /\ readable    ->
                     IF sawBackup THEN "recoverBackup" ELSE "recoverJournal"
    /\ spoiled' =
          (spoiled \ {"hidden", "opening"})
          \cup (IF faults' = faults THEN {} ELSE {"opening"})
          \cup (IF backup = Missing \/ sawBackup \/ pc' = "refused" THEN {}
                ELSE {"overlooked"})

OpenPage ==
    /\ pc = "closed"
    /\ \E b \in {FALSE, backup # Missing}, j \in {FALSE, journal # Missing},
          r \in {FALSE, journal # Empty} : CheckCard(b, j, r)
    /\ staged' = Missing
    /\ marked' = {}
    /\ UNCHANGED <<target, backup, journal, file, plugin, ok, touched, installed>>

\* Mutants: the backup is always put back; it is left where the file is there.
RecoverBackupAlways ==
    /\ pc = "recoverBackup" /\ pc' = "recoverJournal" /\ Works
    /\ target' = [target EXCEPT ![journal] = backup]
    /\ backup' = Missing
    /\ UNCHANGED <<journal, staged, page, history>>
RecoverBackupLeft ==
    /\ pc = "recoverBackup" /\ pc' = "recoverJournal" /\ Works
    /\ IF target[journal] = Missing
         THEN target' = [target EXCEPT ![journal] = backup] /\ backup' = Missing
         ELSE UNCHANGED <<target, backup>>
    /\ UNCHANGED <<journal, staged, page, history>>

\* The journalled file is missing: put the backup back, else drop the backup.
RecoverBackup ==
    /\ pc = "recoverBackup"
    /\ \/ /\ Works
          /\ target' = IF target[journal] = Missing
                         THEN [target EXCEPT ![journal] = backup] ELSE target
          /\ backup' = Missing
          /\ pc' = "recoverJournal" /\ UNCHANGED spoiled
       \/ /\ Fails /\ pc' = "refused" /\ spoiled' = spoiled \cup {"opening"}
          /\ UNCHANGED <<target, backup>>
    /\ UNCHANGED <<journal, staged, page, installed>>

\* A failing delete goes unnoticed here and in the swap.
RecoverJournal ==
    /\ pc = "recoverJournal"
    /\ \/ Works /\ journal' = Missing
       \/ Fails /\ UNCHANGED journal
    /\ pc' = "list"
    /\ UNCHANGED <<target, backup, staged, page, history>>

ClosePage ==
    /\ pc \in {"list", "refused"}
    /\ pc' = "closed"
    /\ UNCHANGED <<card, page, bounds, history>>

-----------------------------------------------------------------------------
(* Installing, from the list of a page *)

CountInstall ==
    installs < MaxInstalls /\ installs' = installs + 1 /\ UNCHANGED <<crashes, faults>>

\* UpdatePackComponents installs a pack's plugins one by one, each after its
\* download; the page stays open after a failure and may start another.
StartUpdate(p) ==
    /\ pc = "list" /\ CountInstall
    /\ plugin' = p /\ file' = 0 /\ touched' = FALSE
    /\ pc' = "next"
    /\ UNCHANGED <<card, ok, marked, history>>

\* BuildPack: a whole stack, built in the rebuild file, replaces the file or
\* becomes it.
StartStack(f) ==
    /\ pc = "list" /\ CountInstall
    /\ plugin' = None /\ file' = f /\ ok' = FALSE
    /\ staged' = [of |-> f, new |-> Holds[f]]
    /\ pc' = IF target[f] = Missing THEN "place" ELSE "dropOldBackup"
    /\ UNCHANGED <<target, backup, journal, touched, marked, history>>

PlaceStack ==
    /\ pc = "place"
    /\ \/ /\ Works
          /\ target' = [target EXCEPT ![file] = staged]
          /\ installed' = [installed EXCEPT ![file] = staged]
       \/ Fails /\ UNCHANGED <<target, installed>>
    /\ staged' = Missing
    /\ pc' = "list"
    /\ UNCHANGED <<backup, journal, page, spoiled>>

Following == {f \in Files : f > file /\ target[f] # Missing}

\* The next enabled file by name; one that holds the plugin is rebuilt, one
\* that does not parse cleanly, or cannot be read, is left as it is.
NextFile ==
    /\ pc = "next" /\ Following # {}
    /\ file' = CHOOSE f \in Following : \A g \in Following : f <= g
    /\ \/ /\ Works /\ pc' = IF plugin \in Holds[file'] THEN "rebuild" ELSE "next"
          /\ UNCHANGED spoiled
       \/ Fails /\ pc' = "next" /\ spoiled' = spoiled \cup {"hidden"}
    /\ UNCHANGED <<card, plugin, ok, touched, marked, installed>>

\* No file left: the install succeeded if some file held the plugin.
InstallEnds ==
    /\ pc = "next" /\ Following = {}
    /\ marked' = IF touched THEN marked \cup {plugin} ELSE marked
    /\ pc' = "list"
    /\ UNCHANGED <<card, file, plugin, ok, touched, bounds, history>>

Rebuild ==
    /\ pc = "rebuild"
    /\ ok' = FALSE
    /\ \/ /\ Works
          /\ staged' = [of |-> file, new |-> target[file].new \cup {plugin}]
          /\ pc' = "dropOldBackup"
       \/ Fails /\ pc' = "list" /\ UNCHANGED staged
    /\ UNCHANGED <<target, backup, journal, file, plugin, touched, marked, history>>

-----------------------------------------------------------------------------
(* PLUGIN_onln_SwapRebuild *)

\* Mutant: the swap begins without its journal.
DropOldBackupOnly ==
    /\ pc = "dropOldBackup" /\ pc' = "setAside" /\ Works
    /\ backup' = Missing
    /\ UNCHANGED <<target, journal, staged, page, history>>

DropOldBackup ==
    /\ pc = "dropOldBackup"
    /\ \/ Works /\ backup' = Missing
       \/ Fails /\ UNCHANGED backup
    /\ pc' = "createJournal"
    /\ UNCHANGED <<target, journal, staged, page, history>>

CreateJournal ==
    /\ pc = "createJournal"
    /\ \/ Works /\ journal' = Empty /\ pc' = "writeJournal"
       \/ Fails /\ journal' \in {Missing, Empty} /\ pc' = "list"
    /\ UNCHANGED <<target, backup, staged, page, history>>

WriteJournal ==
    /\ pc = "writeJournal"
    /\ \/ Works /\ journal' = file /\ pc' = "setAside"
       \/ Fails /\ journal' \in {Empty, file} /\ pc' = "list"
    /\ UNCHANGED <<target, backup, staged, page, history>>

\* A rename does not replace a file: it fails on a backup that is still there.
SetAside ==
    /\ pc = "setAside"
    /\ \/ /\ Works /\ backup = Missing
          /\ backup' = target[file]
          /\ target' = [target EXCEPT ![file] = Missing]
          /\ pc' = "putInPlace"
       \/ /\ IF backup = Missing THEN Fails ELSE Works
          /\ pc' = "dropJournal"
          /\ UNCHANGED <<backup, target>>
    /\ UNCHANGED <<journal, staged, page, history>>

\* Mutant: the result of the second rename is ignored.
PutInPlaceUnchecked ==
    /\ pc = "putInPlace" /\ pc' = "dropBackup" /\ ok' = TRUE
    /\ \/ /\ Works
          /\ target' = [target EXCEPT ![file] = staged]
          /\ installed' = [installed EXCEPT ![file] = staged]
       \/ Fails /\ UNCHANGED <<target, installed>>
    /\ UNCHANGED <<backup, journal, staged, file, plugin, touched, marked, spoiled>>

PutInPlace ==
    /\ pc = "putInPlace"
    /\ \/ /\ Works
          /\ target' = [target EXCEPT ![file] = staged]
          /\ installed' = [installed EXCEPT ![file] = staged]
          /\ staged' = Missing
          /\ ok' = TRUE
          /\ pc' = "dropBackup"
       \/ Fails /\ pc' = "restore" /\ UNCHANGED <<target, installed, staged, ok>>
    /\ UNCHANGED <<backup, journal, file, plugin, touched, marked, spoiled>>

\* When not even the restore works, backup and journal stay for a recovery.
Restore ==
    /\ pc = "restore"
    /\ \/ /\ Works
          /\ target' = [target EXCEPT ![file] = backup]
          /\ backup' = Missing
          /\ pc' = "dropJournal"
          /\ UNCHANGED spoiled
       \/ /\ Fails /\ pc' = "list" /\ spoiled' = spoiled \cup {"stranded"}
          /\ UNCHANGED <<target, backup>>
    /\ UNCHANGED <<journal, staged, page, installed>>

DropBackup ==
    /\ pc = "dropBackup"
    /\ \/ Works /\ backup' = Missing /\ UNCHANGED spoiled
       \/ Fails /\ spoiled' = spoiled \cup {"kept"} /\ UNCHANGED backup
    /\ pc' = "dropJournal"
    /\ UNCHANGED <<target, journal, staged, page, installed>>

\* Mutant: a plugin is marked installed after each file.
DropJournalMarks ==
    /\ pc = "dropJournal" /\ Works
    /\ journal' = Missing
    /\ touched' = (touched \/ ok)
    /\ marked' = IF ok THEN marked \cup {plugin} ELSE marked
    /\ pc' = IF ok /\ plugin # None THEN "next" ELSE "list"
    /\ UNCHANGED <<target, backup, staged, file, plugin, ok, history>>

\* The last call of every swap, which then reports success or failure.
DropJournal ==
    /\ pc = "dropJournal"
    /\ \/ Works /\ journal' = Missing
       \/ Fails /\ UNCHANGED journal
    /\ touched' = (touched \/ ok)
    /\ pc' = IF ok /\ plugin # None THEN "next" ELSE "list"
    /\ UNCHANGED <<target, backup, staged, file, plugin, ok, marked, history>>

\* The console goes down: the card keeps what was done, the page is gone.
Crash ==
    /\ pc # "closed" /\ <<crashes + 1, faults>> \in Histories
    /\ crashes' = crashes + 1
    /\ pc' = "closed"
    /\ UNCHANGED <<card, page, faults, installs, history>>

-----------------------------------------------------------------------------
Recovery == OpenPage \/ RecoverBackup \/ RecoverJournal

Install ==
    \/ \E p \in Plugins : StartUpdate(p)
    \/ \E f \in Files : StartStack(f)
    \/ PlaceStack \/ NextFile \/ InstallEnds \/ Rebuild

Swap ==
    \/ DropOldBackup \/ CreateJournal \/ WriteJournal \/ SetAside \/ PutInPlace
    \/ Restore \/ DropBackup \/ DropJournal

Next == Recovery \/ ClosePage \/ Install \/ Swap \/ Crash

Spec == Init /\ [][Next]_vars

-----------------------------------------------------------------------------
(* What is expected of it *)

MayLoseAFile == {"overlooked", "stranded"}

TypeOK ==
    /\ target \in [Files -> {Missing} \cup Stacks]
    /\ installed \in [Files -> {Missing} \cup Stacks]
    /\ backup \in {Missing} \cup Stacks
    /\ journal \in Files \cup {Missing, Empty}
    /\ staged \in {Missing} \cup Stacks
    /\ pc \in {"closed", "refused", "recoverBackup", "recoverJournal", "list",
               "next", "place", "rebuild", "dropOldBackup", "createJournal",
               "writeJournal", "setAside", "putInPlace", "restore", "dropBackup",
               "dropJournal"}
    /\ file \in 0 .. FileCount
    /\ plugin \in Plugins \cup {None}
    /\ ok \in BOOLEAN /\ touched \in BOOLEAN
    /\ marked \subseteq Plugins
    /\ <<crashes, faults>> \in Histories \cup {<<0, 0>>}
    /\ installs \in 0 .. MaxInstalls
    /\ spoiled \subseteq MayLoseAFile \cup {"hidden", "kept", "opening"}

\* A plugin file that is there is the one last put in place, whole: recovery
\* neither revives an old stack over a new one nor mixes up two files.
TargetIsLastInstalled ==
    \A f \in Files : target[f] # Missing => target[f] = installed[f]

\* Whenever the console goes down, a plugin file that was installed is there as
\* it was last put in place, or is the backup that the journal names, so that
\* recovery puts it back; and the page never stands in its list while a file is
\* missing.  Of all calls that may fail, before or after a crash, only two can
\* cost a file: the check for the backup in a recovery, which reads a failure as
\* "none", and the restore after a failing swap, since the page then goes on to
\* the next one.
NothingLost ==
    /\ TargetIsLastInstalled
    /\ spoiled \cap MayLoseAFile = {} => \A f \in Files :
           installed[f] # Missing /\ target[f] = Missing =>
               journal = f /\ backup = installed[f] /\ pc \notin {"list", "next"}

\* A plugin the page marks as installed has been replaced in every enabled file
\* that holds it, also after crashes and after installs that failed, unless the
\* loop of NextFile passed over a file that it could not read.
MarkedEverywhere ==
    "hidden" \notin spoiled =>
        \A p \in marked, f \in Files :
            target[f] # Missing /\ p \in Holds[f] => p \in target[f].new

\* Recovery that meets no failure itself gives up only after a crash or failure
\* in the one window of WriteJournal in which the journal exists and names
\* nothing yet, or when a backup was not deleted, not put back or not seen and
\* the journal went all the same: DropJournal does not look whether DropBackup
\* worked, and the swap after a stranded one takes the journal's name away.
RefusalNeedsEmptyJournal ==
    pc = "refused" /\ "opening" \notin spoiled =>
        journal = Empty
        \/ (journal = Missing /\ spoiled \cap {"kept", "overlooked", "stranded"} # {})
=============================================================================
