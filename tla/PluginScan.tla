----------------------------- MODULE PluginScan -----------------------------
(***************************************************************************)
(* Which entry of the .3nx stacks on the SD card a plugin id stands for.   *)
(* A file's priority is part of its name and files are numbered in the     *)
(* order of their names, so a place <<file, index>> has its rank for good; *)
(* what a file holds may change.  OpenPluginFile finds the entry in two    *)
(* passes over the directory, in whatever order it lists the files;        *)
(* ManageBuildList finds all winners in one pass over the sorted files.    *)
(***************************************************************************)
EXTENDS Naturals, Sequences, FiniteSets, SequencesExt

CONSTANTS
    Files,        \* the names of .3nx files, in StringCompare's order
    PriorityOf,   \* the number in the name
    Ids,          \* plugin ids
    Versions,     \* versions of what an entry carries in its metadata
    MaxPlugins,   \* MENU_SYSPLUGIN_MAX_PLUGINS
    None          \* no file, no entry, no version

ASSUME FilesAreNumbered ==
    Files \subseteq Nat /\ IsFiniteSet(Files) /\ PriorityOf \in [Files -> Nat]
ASSUME IdsAreFinite == IsFiniteSet(Ids)
ASSUME MaxPluginsAssumption == MaxPlugins \in Nat \ {0}

Magics == {"MENU", "LDR", "bad"}
Entries == [magic : Magics, id : Ids, version : Versions]
Places == Files \X (Nat \ {0})
ASSUME NoneIsNothing == None \notin Entries /\ None \notin Places

\* A stack is walked until an entry has neither magic.
WalkedUpTo(stack) ==
    CHOOSE n \in 0 .. Len(stack) :
        /\ \A k \in 1 .. n : stack[k].magic # "bad"
        /\ n < Len(stack) => stack[n + 1].magic = "bad"

Present(dir) == {f \in Files : dir[f] # None}

EntryAt(dir, place) == dir[place[1]][place[2]]

\* The Rosalina entries that a pass sees in the files it could read.
Seen(dir, read) ==
    {p \in UNION {{<<f, k>> : k \in 1 .. WalkedUpTo(dir[f])} : f \in read} :
         EntryAt(dir, p).magic = "MENU"}

EarlierByName(a, b) == a[1] < b[1] \/ (a[1] = b[1] /\ a[2] < b[2])    \* mutant
IsEarlier(a, b) ==
    \/ PriorityOf[a[1]] < PriorityOf[b[1]]
    \/ PriorityOf[a[1]] = PriorityOf[b[1]]
       /\ (a[1] < b[1] \/ (a[1] = b[1] /\ a[2] < b[2]))

\* The first pass: the earliest entry of the id.
Best(dir, read, id) ==
    LET own == {p \in Seen(dir, read) : EntryAt(dir, p).id = id}
    IN  IF own = {} THEN None
        ELSE CHOOSE p \in own : \A q \in own \ {p} : IsEarlier(p, q)

\* The second pass: the entry's id must be among the first MaxPlugins ids.
SelectedLate(dir, read, id, best) ==    \* mutant
    Cardinality({EntryAt(dir, p).id : p \in {q \in Seen(dir, read) : IsEarlier(q, best)}}
                    \ {id}) <= MaxPlugins
Selected(dir, read, id, best) ==
    Cardinality({EntryAt(dir, p).id : p \in {q \in Seen(dir, read) : IsEarlier(q, best)}}
                    \ {id}) < MaxPlugins

StillSomething(dir, place, id, version) ==    \* mutant: whatever is there now
    dir[place[1]] # None /\ place[2] \in DOMAIN dir[place[1]]
\* "re-read after the scans in case the file changed underneath us"; two versions
\* differ in the size or the offset of their metadata.
StillThere(dir, place, id, version) ==
    /\ dir[place[1]] # None /\ place[2] \in DOMAIN dir[place[1]]
    /\ EntryAt(dir, place) = [magic |-> "MENU", id |-> id, version |-> version]

-----------------------------------------------------------------------------
(* ManageBuildList: "same order K11 uses: priority, filename, stack offset" *)

ComesBefore(f, g) ==
    PriorityOf[f] < PriorityOf[g] \/ (PriorityOf[f] = PriorityOf[g] /\ f < g)
SortedFiles(dir) ==
    CHOOSE s \in [1 .. Cardinality(Present(dir)) -> Present(dir)] :
        \A i, j \in DOMAIN s : i < j => ComesBefore(s[i], s[j])

\* One entry of the walk becomes a winner if its id has none and there is room.
Winning(dir, winners, place) ==
    LET entry == EntryAt(dir, place) IN
    IF /\ entry.magic = "MENU" /\ Len(winners) < MaxPlugins
       /\ \A i \in DOMAIN winners : EntryAt(dir, winners[i]).id # entry.id
      THEN Append(winners, place) ELSE winners

WinnersOfFile(dir, winners, f) ==
    FoldLeft(LAMBDA w, k : Winning(dir, w, <<f, k>>), winners,
             [k \in 1 .. WalkedUpTo(dir[f]) |-> k])
Winners(dir) ==
    FoldLeft(LAMBDA winners, f : WinnersOfFile(dir, winners, f), <<>>, SortedFiles(dir))

\* Where the plugin is that the console loads for an id; None when it is not.
Loaded(dir, id) ==
    LET winners == Winners(dir)
        own == {i \in DOMAIN winners : EntryAt(dir, winners[i]).id = id}
    IN  IF own = {} THEN None ELSE winners[CHOOSE i \in own : TRUE]
=============================================================================
