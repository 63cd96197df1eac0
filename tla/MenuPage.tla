------------------------------ MODULE MenuPage ------------------------------
(***************************************************************************)
(* Rosalina's list of menu entries and the page that shows it (modmenu.c). *)
(* Consumer plugins add and remove entries from their own threads at any   *)
(* time, under the list's lock; the page runs on the menu's thread, which  *)
(* holds the lock only to look and keeps what it saw: a count, indices and *)
(* a generation.  Drawing touches nothing another thread reads and is one  *)
(* step with the look before it.  MenuStart says when each may run.        *)
(***************************************************************************)
EXTENDS Naturals, Sequences, FiniteSets

CONSTANTS
    Regs,           \* registrations of the consumer plugins
    Manage, Online, \* g_MENUManageItem and g_MENUOnlineItem
    Pages,          \* what an entry may be: its title, color and callback
    PageOfBuiltin,  \* the page of Manage and of Online
    Visible,        \* MENU_VISIBLE_ITEMS
    MaxOps,         \* bound: AddItem and RemoveItem calls
    Null            \* NULL

Builtins == {Manage, Online}
Items == Regs \cup Builtins

ASSUME RegsAreApart == Manage # Online /\ Regs \cap Builtins = {}
ASSUME NullIsNoPage == Null \notin Pages
ASSUME BuiltinPages == PageOfBuiltin \in [Builtins -> Pages]
ASSUME VisibleAssumption == Visible \in Nat \ {0}
ASSUME OpsAssumption == MaxOps \in Nat

VARIABLES
    items,           \* the list from g_MENUFirstItem; its length is g_MENUItemCount
    page,            \* what each registration holds; Null when unlinked
    generation,      \* g_MENURegistryGeneration
    pc,              \* where PLUGIN_MENU_Open is
    count, seen,     \* its locals "count" and "generation"
    selected, first, \* the highlighted entry and the first one shown
    drawnCount, drawnGeneration,
    fullRedraw,
    oldSelected,     \* the parameter of RedrawSelection
    oldPage,         \* its locals oldTitle and oldColor
    screen,          \* the rows drawn
    opened,          \* the page whose callback runs
    ops              \* bookkeeping of the bound

registry == <<items, page, generation>>
view == <<count, seen, selected, first, drawnCount, drawnGeneration, fullRedraw,
          oldSelected, oldPage>>
pageVars == <<registry, view, pc, screen, opened, ops>>

Rows == 0 .. Visible - 1
Blank == [shows |-> Null, marked |-> FALSE]

PageInit ==
    /\ items = <<>> /\ page = [i \in Items |-> Null] /\ generation = 0
    /\ pc = "closed"
    /\ count = 0 /\ seen = 0 /\ selected = 0 /\ first = 0
    /\ drawnCount = 0 /\ drawnGeneration = 0 /\ fullRedraw = TRUE
    /\ oldSelected = 0 /\ oldPage = Null
    /\ screen = [k \in Rows |-> Blank] /\ opened = Null
    /\ ops = 0

-----------------------------------------------------------------------------
(* The list *)

Listed(r) == \E i \in DOMAIN items : items[i] = r

\* AppendInternal for both of MENU's own entries.
SetupItems ==
    /\ items' = items \o <<Manage, Online>>
    /\ page' = [i \in Items |-> IF i \in Builtins THEN PageOfBuiltin[i] ELSE page[i]]
    /\ generation' = generation + 2

ResetRegistry ==
    /\ items' = <<>>
    /\ page' = [i \in Items |-> IF Listed(i) THEN Null ELSE page[i]]
    /\ generation' = generation + 1

AddedQuietly(r) == IF Listed(r) THEN generation ELSE generation + 1    \* mutant
\* An entry that is registered again takes the new page and keeps its place.
Added(r) == generation + 1

AddItem(r, p) ==
    /\ ops < MaxOps
    /\ items' = IF Listed(r) THEN items ELSE Append(items, r)
    /\ page' = [page EXCEPT ![r] = p]
    /\ generation' = Added(r)
    /\ ops' = ops + 1
    /\ UNCHANGED <<view, pc, screen, opened>>

\* Manage is refused, and no consumer has Online.
RemoveItem(r) ==
    /\ ops < MaxOps
    /\ \E i \in DOMAIN items :
           /\ items[i] = r
           /\ items' = [j \in 1 .. Len(items) - 1 |->
                            IF j < i THEN items[j] ELSE items[j + 1]]
    /\ page' = [page EXCEPT ![r] = Null]
    /\ generation' = generation + 1
    /\ ops' = ops + 1
    /\ UNCHANGED <<view, pc, screen, opened>>

\* The entry at an index of the list as it is now.
GetPresentation(index) ==
    IF index < Len(items) THEN page[items[index + 1]] ELSE Null

-----------------------------------------------------------------------------
(* The page *)

Open ==
    /\ pc = "closed"
    /\ pc' = "look"
    /\ selected' = 0 /\ first' = 0
    /\ drawnCount' = 0 /\ drawnGeneration' = 0 /\ fullRedraw' = TRUE
    /\ UNCHANGED <<registry, count, seen, oldSelected, oldPage, screen, opened, ops>>

\* The selection and the first row for a list of n entries.
SelectionKept(n) == selected    \* mutant: the list never shrinks
SelectionIn(n) == IF selected >= n THEN n - 1 ELSE selected

FirstUnguarded(n, sel) ==    \* mutant: a short list is not told apart
    IF first > n - Visible THEN n - Visible ELSE first
FirstIn(n, sel) ==
    LET up == IF first > sel THEN sel ELSE first
        down == IF sel >= up + Visible THEN sel - Visible + 1 ELSE up
    IN  IF n <= Visible THEN 0
        ELSE IF down > n - Visible THEN n - Visible ELSE down

\* The top of the loop: one look at the count and the generation.
Look ==
    /\ pc = "look" /\ items # <<>>
    /\ LET n == Len(items) IN
           /\ count' = n /\ seen' = generation
           /\ selected' = SelectionIn(n)
           /\ first' = FirstIn(n, SelectionIn(n))
           /\ fullRedraw' = (fullRedraw \/ n # drawnCount \/ generation # drawnGeneration)
           /\ pc' = IF fullRedraw' THEN "draw" ELSE "wait"
    /\ UNCHANGED <<registry, drawnCount, drawnGeneration, oldSelected, oldPage,
                   screen, opened, ops>>

\* The titles come from a second look, by which the list may have changed; what
\* is remembered as drawn is the generation of the first.
Draw ==
    /\ pc = "draw"
    /\ screen' = [k \in Rows |->
           IF first + k < Len(items)
             THEN [shows |-> GetPresentation(first + k), marked |-> first + k = selected]
             ELSE Blank]
    /\ drawnCount' = count /\ drawnGeneration' = seen /\ fullRedraw' = FALSE
    /\ pc' = "wait"
    /\ UNCHANGED <<registry, count, seen, selected, first, oldSelected, oldPage,
                   opened, ops>>

\* menuShouldExit at the top or after the wait, an empty list, or KEY_B.
Leave ==
    /\ pc \in {"look", "wait"}
    /\ pc' = "closed"
    /\ UNCHANGED <<registry, view, screen, opened, ops>>

LookupOfFirst == GetPresentation(first)    \* mutant: the row, not the entry
\* The callback A finds: the lock is taken anew and the index counted again.
Lookup == GetPresentation(selected)

KeyA ==
    /\ pc = "wait"
    /\ IF Lookup = Null
         THEN pc' = "look" /\ UNCHANGED <<screen, opened>>
         ELSE /\ pc' = "callback" /\ opened' = Lookup
              /\ screen' = [k \in Rows |-> Blank]
    /\ UNCHANGED <<registry, view, ops>>

CallbackReturns ==
    /\ pc = "callback"
    /\ pc' = "look" /\ fullRedraw' = TRUE /\ opened' = Null
    /\ UNCHANGED <<registry, count, seen, selected, first, drawnCount,
                   drawnGeneration, oldSelected, oldPage, screen, ops>>

\* Down and Up go by the count of the last look, whatever the list is by now.
Moved(sel, from) ==
    /\ pc = "wait"
    /\ oldSelected' = selected /\ selected' = sel /\ first' = from
    /\ fullRedraw' = (from # first)
    /\ pc' = IF from = first /\ sel # selected THEN "reselect" ELSE "look"
    /\ UNCHANGED <<registry, count, seen, drawnCount, drawnGeneration, oldPage,
                   screen, opened, ops>>

KeyDown ==
    LET sel == selected + 1 IN
    IF sel >= count THEN Moved(0, 0)
    ELSE Moved(sel, IF sel >= first + Visible THEN first + 1 ELSE first)

KeyUp ==
    LET sel == selected - 1 IN
    IF selected = 0 THEN Moved(count - 1, IF count > Visible THEN count - Visible ELSE 0)
    ELSE Moved(sel, IF sel < first THEN first - 1 ELSE first)

KeyOther ==
    /\ pc = "wait" /\ pc' = "look"
    /\ UNCHANGED <<registry, view, screen, opened, ops>>

\* RedrawSelection: the lock is taken for the old row and again for the new one.
RedrawOld ==
    /\ pc = "reselect"
    /\ oldPage' = GetPresentation(oldSelected)
    /\ pc' = IF oldPage' = Null THEN "look" ELSE "reselectNew"
    /\ UNCHANGED <<registry, count, seen, selected, first, drawnCount,
                   drawnGeneration, fullRedraw, oldSelected, screen, opened, ops>>

RedrawNew ==
    /\ pc = "reselectNew"
    /\ screen' = IF GetPresentation(selected) = Null THEN screen
                 ELSE [screen EXCEPT
                         ![oldSelected - first] = [shows |-> oldPage, marked |-> FALSE],
                         ![selected - first] =
                             [shows |-> GetPresentation(selected), marked |-> TRUE]]
    /\ pc' = "look"
    /\ UNCHANGED <<registry, view, opened, ops>>

PageStep ==
    \/ Open \/ Look \/ Draw \/ Leave \/ KeyA \/ CallbackReturns
    \/ KeyDown \/ KeyUp \/ KeyOther \/ RedrawOld \/ RedrawNew

ConsumerCall == \E r \in Regs : RemoveItem(r) \/ \E p \in Pages : AddItem(r, p)

-----------------------------------------------------------------------------
(* What is expected of it *)

PageTypeOK ==
    /\ items \in Seq(Items)
    /\ page \in [Items -> Pages \cup {Null}]
    /\ {generation, count, seen, selected, first, oldSelected} \subseteq Nat
    /\ {drawnCount, drawnGeneration, ops} \subseteq Nat
    /\ pc \in {"closed", "look", "draw", "wait", "callback", "reselect", "reselectNew"}
    /\ fullRedraw \in BOOLEAN
    /\ {oldPage, opened} \subseteq Pages \cup {Null}
    /\ screen \in [Rows -> [shows : Pages \cup {Null}, marked : BOOLEAN]]

\* Rows are placed at (selected - first), unsigned: whenever the page draws or
\* waits, the highlighted entry is one of the list it saw and inside the rows
\* shown, no row is left empty below a hidden entry, and so is the entry the
\* highlight leaves.
SelectionIsShown ==
    pc \in {"draw", "wait", "reselect", "reselectNew"} =>
        /\ first <= selected /\ selected < first + Visible /\ selected < count
        /\ first = 0 \/ first + Visible <= count
        /\ pc \in {"reselect", "reselectNew"} =>
               first <= oldSelected /\ oldSelected < first + Visible

\* The rows from first on show the list as it is, with one entry highlighted.
ScreenIs(sel) ==
    \A k \in Rows : screen[k] =
        IF first + k < Len(items)
          THEN [shows |-> page[items[first + k + 1]], marked |-> first + k = sel]
          ELSE Blank

\* A page that waits for a key over an unchanged list shows that list: the
\* entries from first on, the selected one and no other highlighted, however
\* the list changed between the looks that led to this screen.
ScreenShowsList ==
    pc = "wait" /\ generation = drawnGeneration =>
        ScreenIs(selected)

\* The page reads the callback anew under the lock: unless the list changed
\* since it was drawn, A opens the entry that is highlighted on the screen.
OpensTheHighlighted ==
    [][pc = "wait" /\ pc' = "callback" /\ generation = drawnGeneration =>
           \E k \in Rows : screen[k].marked /\ screen[k].shows = opened']_pageVars

-----------------------------------------------------------------------------
(* What makes it inductive *)

InWindow(sel) == first <= sel /\ sel < first + Visible /\ sel < count
NoGap == first = 0 \/ first + Visible <= count

\* A listed registration has its page and is listed once.
ListInv ==
    /\ \A i \in DOMAIN items : page[items[i]] # Null
    /\ \A i, j \in DOMAIN items : items[i] = items[j] => i = j

\* The page remembers no generation that is still to come.
GenerationInv == seen <= generation /\ drawnGeneration <= generation

\* Where the highlight is, and where it was while it moves.
WindowInv ==
    /\ pc \in {"draw", "wait", "reselect", "reselectNew"} => InWindow(selected) /\ NoGap
    /\ pc \in {"reselect", "reselectNew"} => InWindow(oldSelected) /\ oldSelected # selected

\* What the screen shows wherever the loop may reach the wait without drawing.
ScreenInv ==
    /\ pc = "draw" /\ seen = generation => count = Len(items)
    /\ pc \in {"wait", "reselect", "reselectNew"} => ~fullRedraw
    /\ generation = drawnGeneration /\ (pc = "wait" \/ (pc = "look" /\ ~fullRedraw)) =>
           count = Len(items) /\ InWindow(selected) /\ NoGap /\ ScreenIs(selected)
    /\ generation = drawnGeneration /\ pc \in {"reselect", "reselectNew"} =>
           count = Len(items) /\ ScreenIs(oldSelected)
    /\ generation = drawnGeneration /\ pc = "reselectNew" =>
           oldPage = page[items[oldSelected + 1]]

PageInv == PageTypeOK /\ ListInv /\ GenerationInv /\ WindowInv /\ ScreenInv
=============================================================================
