--------------------------- MODULE SyspluginState ---------------------------
(***************************************************************************)
(* The boot-state records of menutemplist.txt and the plugin files they    *)
(* describe: the four calls that write them after boot (modmenu_manage.c), *)
(* the snapshot MENU takes at boot (modmenu.c), and what the Manage page   *)
(* concludes from the records.                                             *)
(*                                                                         *)
(* A plugin file has a name, with ".d" appended while it is disabled; the  *)
(* records hold the name without it.  The calls may come from several      *)
(* threads and work under g_MENUSyspluginStateLock: load, file operation   *)
(* and save are steps of their own, so that reboots, card errors and other *)
(* threads' calls and installs fall between them.                          *)
(***************************************************************************)
EXTENDS Naturals, FiniteSets

CONSTANTS
    Names,      \* canonical names of plugin files
    Threads,    \* threads that call the API
    MaxOps,     \* bound: API calls
    MaxBoots,   \* bound: reboots, orderly or not
    MaxFaults,  \* bound: card operations and allocations that fail
    None        \* no thread, no call

ASSUME BoundAssumption == MaxOps \in Nat /\ MaxBoots \in Nat /\ MaxFaults \in Nat
ASSUME NoneAssumption == None \notin Threads

\* What a path holds: nothing, the file that was active when MENU started, a
\* file the Online page put there since, or any other.
Contents == {"absent", "booted", "new", "other"}

\* menutemplist.txt: plain lines, E| and D| lines, P| lines.
Lists == [snapshot : SUBSET Names, change : [Names -> {"none", "E", "D"}],
          pending : SUBSET Names]

Calls == [kind : {"add", "disable", "enable", "delete"}, name : Names, off : BOOLEAN]

VARIABLES
    files,      \* content by name and by whether ".d" is appended
    list,       \* menutemplist.txt
    lock,       \* g_MENUSyspluginStateLock: its holder, or None
    pc,         \* where each thread is in its call
    call,       \* each thread's call: the name it was given has ".d" if off
    scratch,    \* each thread's copy of the list
    active,     \* history: the names that were enabled at this boot
    added,      \* history: names whose present file AddSysplugin has recorded
    before,     \* history: the files when the lock was last taken
    failed,     \* history: the last call to end was refused or failed
    misread,    \* history: the call under the lock took the list for missing
    hurt,       \* history: the names whose records a failure may have spoiled
    ops, boots, faults  \* bookkeeping of the bounds

threadVars == <<pc, call, scratch>>
damage == <<misread, hurt>>
history == <<active, added, before, failed, damage>>
bounds == <<ops, boots, faults>>
vars == <<files, list, lock, threadVars, history, bounds>>

Exists(n, off) == files[<<n, off>>] # "absent"
NoChange == [n \in Names |-> "none"]
EmptyList == [snapshot |-> {}, change |-> NoChange, pending |-> {}]
AllIdle == [t \in Threads |-> "idle"]

\* MENU's Main on a fresh card: enabled files are active, and in the snapshot.
Init ==
    /\ files \in [Names \X BOOLEAN -> {"absent", "booted", "other"}]
    /\ \A n \in Names : files[<<n, FALSE>>] # "other" /\ files[<<n, TRUE>>] # "booted"
    /\ active = {n \in Names : Exists(n, FALSE)}
    /\ list = [EmptyList EXCEPT !.snapshot = active]
    /\ lock = None /\ pc = AllIdle
    /\ call = [t \in Threads |-> None] /\ scratch = [t \in Threads |-> EmptyList]
    /\ added = {} /\ before = files /\ failed = FALSE /\ misread = FALSE /\ hurt = {}
    /\ ops = 0 /\ boots = 0 /\ faults = 0

Works == UNCHANGED faults
Fails == faults < MaxFaults /\ faults' = faults + 1

\* A reboot at any moment.  A snapshot that cannot be built or saved is
\* replaced by an empty list, for which the file is deleted; without memory for
\* it, the list of the last boot stays.
Boot ==
    /\ boots < MaxBoots /\ boots' = boots + 1
    /\ files' = [f \in Names \X BOOLEAN |->
                    IF files[f] = "absent" THEN "absent"
                    ELSE IF f[2] THEN "other" ELSE "booted"]
    /\ active' = {n \in Names : Exists(n, FALSE)}
    /\ \/ Works /\ list' = [EmptyList EXCEPT !.snapshot = active'] /\ hurt' = {}
       \/ Fails /\ list' \in {EmptyList, list} /\ hurt' = Names
    /\ lock' = None /\ added' = {} /\ before' = files' /\ failed' = FALSE /\ misread' = FALSE
    /\ pc' = AllIdle /\ call' = [t \in Threads |-> None]
    /\ scratch' = [t \in Threads |-> EmptyList]
    /\ UNCHANGED ops

\* The Online page puts a new or replacement stack at an enabled name; it
\* refuses while the pack's components are disabled.
OnlineInstall(n) ==
    /\ ~Exists(n, TRUE)
    /\ files[<<n, FALSE>>] # "new"
    /\ files' = [files EXCEPT ![<<n, FALSE>>] = "new"]
    /\ added' = added \ {n}
    /\ UNCHANGED <<list, lock, threadVars, active, before, failed, damage, bounds>>

-----------------------------------------------------------------------------
(* The four calls *)

Begin(t, c) ==
    /\ pc[t] = "idle" /\ ops < MaxOps /\ ops' = ops + 1
    /\ c.kind = "disable" => ~c.off
    /\ c.kind = "enable" => c.off
    /\ call' = [call EXCEPT ![t] = c]
    /\ pc' = [pc EXCEPT ![t] = "lock"]
    /\ UNCHANGED <<files, list, lock, scratch, history, boots, faults>>

Goto(t, step) == pc' = [pc EXCEPT ![t] = step]

\* Every exit: the lock is released, the scratch freed and the result known.
Return(t, success) ==
    /\ pc' = [pc EXCEPT ![t] = "idle"]
    /\ call' = [call EXCEPT ![t] = None] /\ scratch' = [scratch EXCEPT ![t] = EmptyList]
    /\ lock' = None
    /\ failed' = ~success

\* Mutant: the lock is not taken.
LockAndLoadUnlocked(t) ==
    /\ pc[t] = "lock" /\ Works /\ Goto(t, "edit")
    /\ scratch' = [scratch EXCEPT ![t] = list]
    /\ before' = files
    /\ UNCHANGED <<files, list, lock, call, active, added, failed, damage, ops, boots>>

\* A list that cannot be opened is taken for one that does not exist.
LockAndLoad(t) ==
    /\ pc[t] = "lock" /\ lock = None
    /\ before' = files
    /\ \/ /\ Works /\ lock' = t /\ Goto(t, "edit") /\ UNCHANGED <<call, failed>>
          /\ scratch' = [scratch EXCEPT ![t] = list] /\ misread' = FALSE
       \/ /\ Fails /\ lock' = t /\ Goto(t, "edit") /\ UNCHANGED <<call, failed>>
          /\ scratch' = [scratch EXCEPT ![t] = EmptyList] /\ misread' = TRUE
       \/ Fails /\ Return(t, FALSE) /\ UNCHANGED misread
    /\ UNCHANGED <<files, list, active, added, hurt, ops, boots>>

\* The name's old E or D record decides; without one, the snapshot does.
WasEnabledByRecord(l, n) == l.change[n] = "E"    \* mutant: only the record
WasEnabledAtBoot(l, n) ==
    l.change[n] = "E" \/ (l.change[n] # "D" /\ n \in l.snapshot)

\* SetPending writes a name without its ".d".
PendingNameAsGiven(c) == IF c.off THEN <<c.name, "d">> ELSE c.name    \* mutant
PendingName(c) == c.name

\* The records after the call, by SetPending and SetChange.
Edited(l, c) ==
    LET n == c.name
        unpended == [l EXCEPT !.pending = @ \ {n}]
    IN  CASE c.kind = "add" -> [l EXCEPT !.pending = @ \cup {PendingName(c)}]
          [] c.kind = "disable" ->
                [unpended EXCEPT !.change[n] =
                    IF WasEnabledAtBoot(l, n) THEN "E" ELSE "none"]
          [] c.kind = "enable" ->
                [unpended EXCEPT !.change[n] =
                    IF WasEnabledAtBoot(l, n) THEN "none" ELSE "D"]
          [] c.kind = "delete" -> [unpended EXCEPT !.change[n] = "none"]

\* A record is replaced by one of its size; the list may be too full for more.
Records(l) == Cardinality(l.pending) + Cardinality({n \in Names : l.change[n] # "none"})
MayBeFull(l, c) == Records(Edited(l, c)) > Records(l)

\* The file operation between load and save; a rename needs a free name.
EditAndRename(t) ==
    LET c == call[t] IN
    /\ pc[t] = "edit"
    /\ IF Exists(c.name, c.off) /\ (c.kind \in {"disable", "enable"} =>
                                        ~Exists(c.name, ~c.off))
         THEN \/ /\ Works
                 /\ files' = CASE c.kind = "add" -> files
                               [] c.kind = "delete" ->
                                    [files EXCEPT ![<<c.name, c.off>>] = "absent"]
                               [] OTHER ->
                                    [files EXCEPT ![<<c.name, ~c.off>>] = files[<<c.name, c.off>>],
                                                  ![<<c.name, c.off>>] = "absent"]
                 /\ scratch' = [scratch EXCEPT ![t] = Edited(@, c)]
                 /\ Goto(t, "save") /\ UNCHANGED <<call, lock, failed>>
              \/ Fails /\ Return(t, FALSE) /\ UNCHANGED files
              \/ Works /\ MayBeFull(scratch[t], c) /\ Return(t, FALSE) /\ UNCHANGED files
         ELSE Works /\ Return(t, FALSE) /\ UNCHANGED files
    /\ UNCHANGED <<list, active, added, before, damage, ops, boots>>

\* ManageSaveExact sets the new size and then writes in place: what a failing
\* write leaves is made of old and new records, and may lack any of them.
Torn(old, new) ==
    {l \in Lists :
        /\ l.snapshot \subseteq old.snapshot \cup new.snapshot
        /\ l.pending \subseteq old.pending \cup new.pending
        /\ \A n \in Names : l.change[n] \in {"none", old.change[n], new.change[n]}}

\* An empty list is saved by deleting the file, whatever comes of that.
Save(t) ==
    LET c == call[t] IN
    /\ pc[t] = "save"
    /\ \/ /\ Works
          /\ list' = scratch[t]
          /\ hurt' = IF misread THEN Names ELSE hurt
          /\ added' = IF c.kind = "add" THEN added \cup {c.name} ELSE added
          /\ Return(t, TRUE)
       \/ /\ Fails /\ scratch[t] = EmptyList
          /\ Return(t, TRUE)
          /\ hurt' = IF misread THEN Names ELSE hurt \cup {c.name}
          /\ UNCHANGED <<list, added>>
       \/ /\ Fails
          /\ list' \in {list} \cup Torn(list, scratch[t])
          /\ hurt' = IF list' # list THEN Names
                     ELSE IF c.kind = "delete" THEN hurt \cup {c.name} ELSE hurt
          /\ IF c.kind \in {"disable", "enable"}
               THEN Goto(t, "undo") /\ UNCHANGED <<call, scratch, lock, failed>>
               ELSE Return(t, FALSE)
          /\ UNCHANGED added
    /\ UNCHANGED <<files, active, before, misread, ops, boots>>

\* Mutant: the rename is not undone.
UndoRenameSkipped(t) ==
    /\ pc[t] = "undo" /\ Works
    /\ Return(t, FALSE)
    /\ UNCHANGED <<files, list, active, added, before, damage, ops, boots>>

\* The renamed file gets its old name back, unless another has taken it.
UndoRename(t) ==
    LET c == call[t] IN
    /\ pc[t] = "undo"
    /\ \/ /\ Works /\ ~Exists(c.name, c.off) /\ Exists(c.name, ~c.off)
          /\ files' = [files EXCEPT ![<<c.name, c.off>>] = files[<<c.name, ~c.off>>],
                                    ![<<c.name, ~c.off>>] = "absent"]
          /\ UNCHANGED hurt
       \/ /\ Works /\ (Exists(c.name, c.off) \/ ~Exists(c.name, ~c.off))
          /\ hurt' = hurt \cup {c.name} /\ UNCHANGED files
       \/ Fails /\ hurt' = hurt \cup {c.name} /\ UNCHANGED files
    /\ Return(t, FALSE)
    /\ UNCHANGED <<list, active, added, before, misread, ops, boots>>

-----------------------------------------------------------------------------
Call(t) ==
    \/ \E c \in Calls : Begin(t, c)
    \/ LockAndLoad(t) \/ EditAndRename(t) \/ Save(t) \/ UndoRename(t)

Next ==
    \/ Boot
    \/ \E n \in Names : OnlineInstall(n)
    \/ \E t \in Threads : Call(t)

Spec == Init /\ [][Next]_vars

-----------------------------------------------------------------------------
(* What is expected of it *)

TypeOK ==
    /\ files \in [Names \X BOOLEAN -> Contents]
    /\ list \in Lists
    /\ lock \in Threads \cup {None}
    /\ pc \in [Threads -> {"idle", "lock", "edit", "save", "undo"}]
    /\ scratch \in [Threads -> Lists]
    /\ active \subseteq Names /\ added \subseteq Names /\ hurt \subseteq Names
    /\ misread \in BOOLEAN
    /\ ops \in 0 .. MaxOps /\ boots \in 0 .. MaxBoots /\ faults \in 0 .. MaxFaults

\* What PLUGIN_MENU_ManageBuildList takes for "was active at boot".
ReportedActive(n, off) ==
    IF off THEN list.change[n] = "E"
           ELSE list.change[n] # "D" /\ n \in list.snapshot

\* The Manage page is right about the running plugins whatever was added,
\* disabled, enabled, deleted and reinstalled since boot, in any order and from
\* any thread: an enabled file counts as active exactly when a file of its name
\* was, and the file that was active counts as such also when it is disabled.
\* Of the operations that can fail, only a list taken for missing, a write of
\* it cut short or a rename that is not undone spoils the report, only of the
\* names concerned, and the next boot makes it right again.
ReportMatchesBoot ==
    lock = None =>
        \A n \in Names \ hurt :
            /\ Exists(n, FALSE) => (ReportedActive(n, FALSE) <=> n \in active)
            /\ files[<<n, TRUE>>] = "booted" => ReportedActive(n, TRUE)

\* "Delete removes the file and its pending/change records": no pending record
\* is left or put back, by any thread, for a name that has no file.  Delete has
\* no way back from a failing save; that leaves only its own name pending, and
\* only until the next boot.
PendingHasFile ==
    lock = None =>
        \A n \in list.pending \ hurt : Exists(n, FALSE) \/ Exists(n, TRUE)

\* A disable or enable that fails leaves every file of its name under the path
\* it had, as long as only one card operation fails: the rename is undone when
\* the records cannot be saved.
FailedCallKeepsFiles ==
    [][\A t \in Threads :
        (/\ pc[t] # "idle" /\ pc'[t] = "idle" /\ failed' /\ boots' = boots
         /\ call[t].kind \in {"disable", "enable"} /\ lock = t)
            => \A off \in BOOLEAN : before[<<call[t].name, off>>] # "absent" =>
                                        files'[<<call[t].name, off>>] # "absent"]_vars

\* AddSysplugin "records the current-boot pending-reboot state": a replacement
\* that was added and is not yet running is pending, or reported as inactive.
PendingUntilReboot ==
    lock = None =>
        \A n \in added : files[<<n, FALSE>>] = "new" =>
            n \in list.pending \/ ~ReportedActive(n, FALSE)
=============================================================================
