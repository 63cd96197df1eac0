----------------------------- MODULE MenuProofs -----------------------------
(***************************************************************************)
(* Theorems about MenuStart and the page it starts, for every number of    *)
(* consumers, rows and root entries and every state of the host.           *)
(***************************************************************************)
EXTENDS MenuStart, SequenceTheorems, WellFoundedInduction, TLAPS

-----------------------------------------------------------------------------
(* The list *)

\* What is left of a list when the entry at one index is unlinked.
LEMMA Unlinked ==
    ASSUME NEW S, NEW seq \in Seq(S), NEW i \in DOMAIN seq
    PROVE  LET rest == [j \in 1 .. Len(seq) - 1 |-> IF j < i THEN seq[j] ELSE seq[j + 1]]
           IN  rest \in Seq(S) /\ Len(rest) = Len(seq) - 1
<1> DEFINE rest == [j \in 1 .. Len(seq) - 1 |-> IF j < i THEN seq[j] ELSE seq[j + 1]]
<1>1. Len(seq) \in Nat /\ DOMAIN seq = 1 .. Len(seq) /\ Len(seq) - 1 \in Nat
  BY LenProperties
<1>2. \A j \in 1 .. Len(seq) : seq[j] \in S
  BY ElementOfSeq
<1>3. rest \in [1 .. Len(seq) - 1 -> S]
  BY <1>1, <1>2
<1>4. rest \in Seq(S)
  BY <1>1, <1>3, SeqDef
<1>5. Len(rest) = Len(seq) - 1
  BY <1>1, <1>3, <1>4, LenProperties
<1> QED
  BY <1>4, <1>5

\* A consumer's call leaves a list of registrations that have pages, in which
\* no one is twice and MENU's own entries come first.
LEMMA CallKeepsList ==
    ASSUME PageTypeOK, ListInv, ConsumerCall
    PROVE  /\ items' \in Seq(Items) /\ page' \in [Items -> Pages \cup {Null}]
           /\ ListInv'
           /\ Len(items) >= 2 /\ items[1] = Manage /\ items[2] = Online =>
                  Len(items') >= 2 /\ items'[1] = Manage /\ items'[2] = Online
<1>1. /\ Len(items) \in Nat /\ DOMAIN items = 1 .. Len(items)
      /\ \A i \in 1 .. Len(items) : items[i] \in Items
  BY LenProperties, ElementOfSeq DEF PageTypeOK
<1>2. ASSUME NEW r \in Regs, RemoveItem(r)
      PROVE  /\ items' \in Seq(Items) /\ page' \in [Items -> Pages \cup {Null}]
             /\ ListInv'
             /\ Len(items) >= 2 /\ items[1] = Manage /\ items[2] = Online =>
                    Len(items') >= 2 /\ items'[1] = Manage /\ items'[2] = Online
  <2>1. PICK i \in DOMAIN items :
            /\ items[i] = r
            /\ items' = [j \in 1 .. Len(items) - 1 |->
                             IF j < i THEN items[j] ELSE items[j + 1]]
    BY <1>2 DEF RemoveItem
  <2>2. items' \in Seq(Items) /\ Len(items') = Len(items) - 1
    BY <2>1, Unlinked DEF PageTypeOK
  <2>3. DOMAIN items' = 1 .. Len(items) - 1
    BY <1>1, <2>1
  <2>4. page' = [page EXCEPT ![r] = Null] /\ r \in Items
    BY <1>2 DEF RemoveItem, Items
  <2>5. page' \in [Items -> Pages \cup {Null}]
    BY <2>4 DEF PageTypeOK
  <2>6. \A j \in 1 .. Len(items) - 1 :
            \E k \in 1 .. Len(items) : items'[j] = items[k] /\ k # i
    <3> TAKE j \in 1 .. Len(items) - 1
    <3>1. CASE j < i
      BY <1>1, <2>1, <3>1
    <3>2. CASE ~(j < i)
      BY <1>1, <2>1, <3>2
    <3> QED
      BY <3>1, <3>2
  <2>7. \A j \in DOMAIN items' : page'[items'[j]] # Null
    <3> TAKE j \in DOMAIN items'
    <3>1. PICK k \in 1 .. Len(items) : items'[j] = items[k] /\ k # i
      BY <2>3, <2>6
    <3>2. items[k] # r /\ items[k] \in Items /\ page[items[k]] # Null
      BY <1>1, <2>1, <3>1 DEF ListInv
    <3> QED
      BY <2>4, <3>1, <3>2 DEF PageTypeOK
  <2>8. \A j, k \in DOMAIN items' : items'[j] = items'[k] => j = k
    <3> SUFFICES ASSUME NEW j \in 1 .. Len(items) - 1, NEW k \in 1 .. Len(items) - 1,
                        items'[j] = items'[k]
                 PROVE  j = k
      BY <2>3
    <3> DEFINE old(m) == IF m < i THEN m ELSE m + 1
    <3>1. items'[j] = items[old(j)] /\ items'[k] = items[old(k)]
      BY <2>1
    <3>2. old(j) \in DOMAIN items /\ old(k) \in DOMAIN items
      BY <1>1
    <3>3. old(j) = old(k)
      BY <3>1, <3>2 DEF ListInv
    <3> QED
      BY <1>1, <2>1, <3>3
  <2>9. ASSUME Len(items) >= 2, items[1] = Manage, items[2] = Online
        PROVE  Len(items') >= 2 /\ items'[1] = Manage /\ items'[2] = Online
    <3>1. i # 1 /\ i # 2
      BY <2>1, <2>9, RegsAreApart DEF Builtins
    <3>2. i \in 3 .. Len(items)
      BY <1>1, <3>1
    <3>3. Len(items) - 1 >= 2 /\ 1 < i /\ 2 < i
      BY <1>1, <3>2
    <3>4. 1 \in 1 .. Len(items) - 1 /\ 2 \in 1 .. Len(items) - 1
      BY <1>1, <3>3
    <3>5. items'[1] = items[1] /\ items'[2] = items[2]
      BY <2>1, <3>3, <3>4
    <3> QED
      BY <2>2, <2>9, <3>3, <3>5
  <2> QED
    BY <2>2, <2>5, <2>7, <2>8, <2>9 DEF ListInv
<1>3. ASSUME NEW r \in Regs, NEW p \in Pages, AddItem(r, p)
      PROVE  /\ items' \in Seq(Items) /\ page' \in [Items -> Pages \cup {Null}]
             /\ ListInv'
             /\ Len(items) >= 2 /\ items[1] = Manage /\ items[2] = Online =>
                    Len(items') >= 2 /\ items'[1] = Manage /\ items'[2] = Online
  <2>1. page' = [page EXCEPT ![r] = p] /\ r \in Items /\ p # Null
    BY <1>3, NullIsNoPage DEF AddItem, Items
  <2>2. page' \in [Items -> Pages \cup {Null}] /\ page'[r] = p
    BY <2>1 DEF PageTypeOK
  <2>3. \A x \in Items : page[x] # Null => page'[x] # Null
    BY <2>1 DEF PageTypeOK
  <2>4. CASE Listed(r)
    <3>1. items' = items
      BY <1>3, <2>4 DEF AddItem
    <3> QED
      BY <1>1, <2>2, <2>3, <3>1 DEF ListInv, PageTypeOK
  <2>5. CASE ~Listed(r)
    <3>1. items' = Append(items, r)
      BY <1>3, <2>5 DEF AddItem
    <3>2. items' \in Seq(Items) /\ Len(items') = Len(items) + 1
      BY <2>1, <3>1, AppendProperties DEF PageTypeOK
    <3>3. /\ \A j \in 1 .. Len(items) : items'[j] = items[j]
          /\ items'[Len(items) + 1] = r
      BY <2>1, <3>1, AppendProperties DEF PageTypeOK
    <3>4. DOMAIN items' = 1 .. Len(items) + 1
      BY <3>2, LenProperties
    <3>5. \A j \in 1 .. Len(items) : items[j] # r
      BY <1>1, <2>5 DEF Listed
    <3>6. \A j \in DOMAIN items' : page'[items'[j]] # Null
      BY <1>1, <2>1, <2>2, <2>3, <3>3, <3>4 DEF ListInv
    <3>7. \A j, k \in DOMAIN items' : items'[j] = items'[k] => j = k
      BY <1>1, <3>3, <3>4, <3>5 DEF ListInv
    <3> QED
      BY <1>1, <2>2, <3>2, <3>3, <3>6, <3>7 DEF ListInv
  <2> QED
    BY <2>4, <2>5
<1> QED
  BY <1>2, <1>3 DEF ConsumerCall

-----------------------------------------------------------------------------
(* The page *)

\* What the list looks like at the places the page uses.
LEMMA ListFacts ==
    ASSUME PageTypeOK
    PROVE  /\ Len(items) \in Nat /\ DOMAIN items = 1 .. Len(items)
           /\ \A i \in 1 .. Len(items) : items[i] \in Items
           /\ items # <<>> => Len(items) >= 1
<1> QED
  BY LenProperties, ElementOfSeq, EmptySeq DEF PageTypeOK

\* An index into the list finds the page of an entry, one beyond it NULL.
LEMMA PresentationType ==
    ASSUME PageTypeOK, NEW index \in Nat
    PROVE  /\ GetPresentation(index) \in Pages \cup {Null}
           /\ ListInv /\ index < Len(items) => GetPresentation(index) # Null
<1>1. CASE index < Len(items)
  <2>1. index + 1 \in 1 .. Len(items) /\ items[index + 1] \in Items
    BY <1>1, ListFacts
  <2> QED
    BY <1>1, <2>1, ListFacts DEF GetPresentation, PageTypeOK, ListInv
<1>2. CASE ~(index < Len(items))
  BY <1>2 DEF GetPresentation
<1> QED
  BY <1>1, <1>2

\* The top of the loop brings any selection into the window of any list, and
\* leaves one alone that is in it.
LEMMA Clamped ==
    ASSUME PageTypeOK, NEW n \in Nat \ {0}
    PROVE  LET s == SelectionIn(n)
               f == FirstIn(n, s)
           IN  /\ s \in Nat /\ f \in Nat
               /\ f <= s /\ s < f + Visible /\ s < n
               /\ f = 0 \/ f + Visible <= n
               /\ /\ first <= selected /\ selected < first + Visible /\ selected < n
                  /\ first = 0 \/ first + Visible <= n
                  => s = selected /\ f = first
<1>1. selected \in Nat /\ first \in Nat /\ Visible \in Nat \ {0}
  BY VisibleAssumption DEF PageTypeOK
<1>2. SelectionIn(n) \in Nat /\ SelectionIn(n) < n
  BY <1>1 DEF SelectionIn
<1>3. selected < n => SelectionIn(n) = selected
  BY <1>1 DEF SelectionIn
<1> QED
  BY <1>1, <1>2, <1>3 DEF FirstIn

\* Where the loop goes on when it has moved the highlight.
LEMMA MovedKeeps ==
    ASSUME PageInv, NEW sel \in Nat, NEW from \in Nat, Moved(sel, from),
           from = first => InWindow(sel)
    PROVE  PageInv'
<1> USE DEF Moved, registry
<1>1. PageTypeOK'
  BY DEF PageInv, PageTypeOK
<1>2. ListInv' /\ GenerationInv'
  BY DEF PageInv, ListInv, GenerationInv
<1>3. InWindow(selected) /\ NoGap
  BY DEF PageInv, WindowInv
<1>4. CASE pc' = "reselect"
  <2>1. from = first /\ sel # selected /\ ~fullRedraw'
    BY <1>4
  <2>2. WindowInv'
    BY <1>3, <1>4, <2>1 DEF WindowInv, InWindow, NoGap
  <2>3. generation = drawnGeneration => count = Len(items) /\ ScreenIs(selected)
    BY DEF PageInv, ScreenInv
  <2>4. ScreenInv'
    BY <1>4, <2>1, <2>3 DEF ScreenInv, ScreenIs
  <2> QED
    BY <1>1, <1>2, <2>2, <2>4 DEF PageInv
<1>5. CASE pc' = "look"
  <2>1. WindowInv'
    BY <1>5 DEF WindowInv
  <2>2. ~fullRedraw' => selected' = selected /\ first' = first
    BY <1>5
  <2>3. ScreenInv'
    BY <1>3, <1>5, <2>2 DEF PageInv, ScreenInv, ScreenIs, InWindow, NoGap
  <2> QED
    BY <1>1, <1>2, <2>1, <2>3 DEF PageInv
<1> QED
  BY <1>4, <1>5

\* A step of the page keeps its part of the invariant.
LEMMA PageStepKeeps ==
    ASSUME PageInv, PageStep
    PROVE  PageInv'
<1> USE DEF registry, view
<1>1. ASSUME Open
      PROVE  PageInv'
  BY <1>1 DEF Open, PageInv, PageTypeOK, ListInv, GenerationInv, WindowInv, ScreenInv
<1>2. ASSUME Look
      PROVE  PageInv'
  <2> USE <1>2 DEF Look
  <2> DEFINE n == Len(items)
             s == SelectionIn(n)
             f == FirstIn(n, s)
  <2>1. n \in Nat \ {0}
    BY ListFacts DEF PageInv
  <2>2. /\ s \in Nat /\ f \in Nat
        /\ f <= s /\ s < f + Visible /\ s < n
        /\ f = 0 \/ f + Visible <= n
        /\ (/\ first <= selected /\ selected < first + Visible /\ selected < n
            /\ first = 0 \/ first + Visible <= n)
           => s = selected /\ f = first
    BY <2>1, Clamped DEF PageInv
  <2>3. count' = n /\ seen' = generation /\ selected' = s /\ first' = f
    OBVIOUS
  <2>4. fullRedraw' \in BOOLEAN /\ pc' = IF fullRedraw' THEN "draw" ELSE "wait"
    OBVIOUS
  <2>5. ~fullRedraw' => ~fullRedraw /\ generation = drawnGeneration
    OBVIOUS
  <2> HIDE DEF n, s, f
  <2>6. PageTypeOK'
    BY <2>1, <2>2, <2>3, <2>4 DEF PageInv, PageTypeOK
  <2>7. ListInv' /\ GenerationInv'
    BY <2>3 DEF PageInv, ListInv, GenerationInv, PageTypeOK
  <2>8. WindowInv'
    BY <2>2, <2>3, <2>4 DEF WindowInv, InWindow, NoGap
  <2>9. ScreenInv'
    <3>1. CASE fullRedraw'
      BY <2>3, <2>4, <3>1 DEF ScreenInv, n
    <3>2. CASE ~fullRedraw'
      <4>1. pc' = "wait"
        BY <2>4, <3>2
      <4>2. count = n /\ InWindow(selected) /\ NoGap /\ ScreenIs(selected)
        BY <2>5, <3>2 DEF PageInv, ScreenInv, n
      <4>3. selected' = selected /\ first' = first
        BY <2>2, <2>3, <4>2 DEF InWindow, NoGap
      <4> QED
        BY <2>3, <3>2, <4>1, <4>2, <4>3 DEF ScreenInv, ScreenIs, InWindow, NoGap, n
    <3> QED
      BY <2>4, <3>1, <3>2
  <2> QED
    BY <2>6, <2>7, <2>8, <2>9 DEF PageInv
<1>3. ASSUME Draw
      PROVE  PageInv'
  <2> USE <1>3 DEF Draw
  <2>1. \A k \in Rows : first + k < Len(items) =>
            /\ GetPresentation(first + k) = page[items[first + k + 1]]
            /\ GetPresentation(first + k) \in Pages \cup {Null}
    <3> TAKE k \in Rows
    <3>1. first + k \in Nat
      BY VisibleAssumption DEF Rows, PageInv, PageTypeOK
    <3> QED
      BY <3>1, PresentationType DEF GetPresentation, PageInv
  <2>2. screen' \in [Rows -> [shows : Pages \cup {Null}, marked : BOOLEAN]]
    BY <2>1 DEF Blank
  <2>3. PageTypeOK'
    BY <2>2 DEF PageInv, PageTypeOK
  <2>4. ListInv' /\ GenerationInv'
    BY DEF PageInv, ListInv, GenerationInv
  <2>5. InWindow(selected) /\ NoGap
    BY DEF PageInv, WindowInv
  <2>6. WindowInv'
    BY <2>5 DEF WindowInv, InWindow, NoGap
  <2>7. ScreenIs(selected)'
    BY <2>1 DEF ScreenIs, Blank
  <2>8. seen = generation => count = Len(items)
    BY DEF PageInv, ScreenInv
  <2>9. ScreenInv'
    BY <2>5, <2>7, <2>8 DEF ScreenInv, InWindow, NoGap
  <2> QED
    BY <2>3, <2>4, <2>6, <2>9 DEF PageInv
<1>4. ASSUME Leave
      PROVE  PageInv'
  BY <1>4 DEF Leave, PageInv, PageTypeOK, ListInv, GenerationInv, WindowInv, ScreenInv
<1>5. ASSUME KeyA
      PROVE  PageInv'
  <2> USE <1>5 DEF KeyA
  <2>1. Lookup \in Pages \cup {Null}
    BY PresentationType DEF Lookup, PageInv, PageTypeOK
  <2>2. screen' \in [Rows -> [shows : Pages \cup {Null}, marked : BOOLEAN]]
    <3>1. [k \in Rows |-> Blank] \in [Rows -> [shows : Pages \cup {Null}, marked : BOOLEAN]]
      BY DEF Blank
    <3>2. screen' = screen \/ screen' = [k \in Rows |-> Blank]
      OBVIOUS
    <3> QED
      BY <3>1, <3>2 DEF PageInv, PageTypeOK
  <2>3. PageTypeOK'
    BY <2>1, <2>2 DEF PageInv, PageTypeOK
  <2>4. ListInv' /\ GenerationInv' /\ WindowInv'
    BY DEF PageInv, ListInv, GenerationInv, WindowInv
  <2>5. CASE pc' = "look"
    <3>1. screen' = screen
      BY <2>5
    <3>2. ScreenInv'
      BY <2>5, <3>1 DEF PageInv, ScreenInv, ScreenIs, InWindow, NoGap
    <3> QED
      BY <2>3, <2>4, <3>2 DEF PageInv
  <2>6. CASE pc' = "callback"
    BY <2>3, <2>4, <2>6 DEF PageInv, ScreenInv
  <2> QED
    BY <2>5, <2>6
<1>6. ASSUME CallbackReturns
      PROVE  PageInv'
  BY <1>6
  DEF CallbackReturns, PageInv, PageTypeOK, ListInv, GenerationInv, WindowInv, ScreenInv
<1>7. ASSUME KeyDown
      PROVE  PageInv'
  <2>1. selected \in Nat /\ first \in Nat /\ count \in Nat /\ Visible \in Nat \ {0}
    BY VisibleAssumption DEF PageInv, PageTypeOK
  <2>2. pc = "wait"
    BY <1>7 DEF KeyDown, Moved
  <2>3. InWindow(selected)
    BY <2>2 DEF PageInv, WindowInv
  <2>4. CASE selected + 1 >= count
    <3>1. Moved(0, 0)
      BY <1>7, <2>4 DEF KeyDown
    <3>2. 0 = first => InWindow(0)
      BY <2>1, <2>3 DEF InWindow
    <3> QED
      BY <3>1, <3>2, MovedKeeps
  <2>5. CASE ~(selected + 1 >= count)
    <3> DEFINE from == IF selected + 1 >= first + Visible THEN first + 1 ELSE first
    <3>1. Moved(selected + 1, from)
      BY <1>7, <2>5 DEF KeyDown
    <3>2. from = first => InWindow(selected + 1)
      BY <2>1, <2>3, <2>5 DEF InWindow
    <3>3. from \in Nat /\ selected + 1 \in Nat
      BY <2>1
    <3> HIDE DEF from
    <3> QED
      BY <3>1, <3>2, <3>3, MovedKeeps
  <2> QED
    BY <2>4, <2>5
<1>8. ASSUME KeyUp
      PROVE  PageInv'
  <2>1. selected \in Nat /\ first \in Nat /\ count \in Nat /\ Visible \in Nat \ {0}
    BY VisibleAssumption DEF PageInv, PageTypeOK
  <2>2. pc = "wait"
    BY <1>8 DEF KeyUp, Moved
  <2>3. InWindow(selected) /\ NoGap
    BY <2>2 DEF PageInv, WindowInv
  <2>4. CASE selected = 0
    <3> DEFINE from == IF count > Visible THEN count - Visible ELSE 0
    <3>1. Moved(count - 1, from)
      BY <1>8, <2>4 DEF KeyUp
    <3>2. from = first => InWindow(count - 1)
      BY <2>1, <2>3, <2>4 DEF InWindow
    <3>3. from \in Nat /\ count - 1 \in Nat
      BY <2>1, <2>3 DEF InWindow
    <3> HIDE DEF from
    <3> QED
      BY <3>1, <3>2, <3>3, MovedKeeps
  <2>5. CASE selected # 0
    <3> DEFINE from == IF selected - 1 < first THEN first - 1 ELSE first
    <3>1. Moved(selected - 1, from)
      BY <1>8, <2>5 DEF KeyUp
    <3>2. from = first => InWindow(selected - 1)
      BY <2>1, <2>3, <2>5 DEF InWindow
    <3>3. from \in Nat /\ selected - 1 \in Nat
      BY <2>1, <2>3, <2>5 DEF InWindow
    <3> HIDE DEF from
    <3> QED
      BY <3>1, <3>2, <3>3, MovedKeeps
  <2> QED
    BY <2>4, <2>5
<1>9. ASSUME KeyOther
      PROVE  PageInv'
  <2> USE <1>9 DEF KeyOther
  <2>1. PageTypeOK' /\ ListInv' /\ GenerationInv' /\ WindowInv'
    BY DEF PageInv, PageTypeOK, ListInv, GenerationInv, WindowInv
  <2>2. ScreenInv'
    BY DEF PageInv, ScreenInv, ScreenIs, InWindow, NoGap
  <2> QED
    BY <2>1, <2>2 DEF PageInv
<1>10. ASSUME RedrawOld
       PROVE  PageInv'
  <2> USE <1>10 DEF RedrawOld
  <2>1. oldPage' = GetPresentation(oldSelected) /\ oldPage' \in Pages \cup {Null}
    BY PresentationType DEF PageInv, PageTypeOK
  <2>2. PageTypeOK' /\ ListInv' /\ GenerationInv' /\ WindowInv'
    BY <2>1 DEF PageInv, PageTypeOK, ListInv, GenerationInv, WindowInv, InWindow, NoGap
  <2>3. InWindow(oldSelected) /\ ~fullRedraw
    BY DEF PageInv, WindowInv, ScreenInv
  <2>4. generation = drawnGeneration => count = Len(items) /\ ScreenIs(oldSelected)
    BY DEF PageInv, ScreenInv
  <2>5. generation = drawnGeneration =>
            pc' = "reselectNew" /\ oldPage' = page[items[oldSelected + 1]]
    BY <2>1, <2>3, <2>4, PresentationType
    DEF PageInv, PageTypeOK, InWindow, GetPresentation
  <2>6. ScreenInv'
    BY <2>3, <2>4, <2>5 DEF ScreenInv, ScreenIs
  <2> QED
    BY <2>2, <2>6 DEF PageInv
<1>11. ASSUME RedrawNew
       PROVE  PageInv'
  <2> USE <1>11 DEF RedrawNew
  <2>1. /\ selected \in Nat /\ oldSelected \in Nat /\ first \in Nat
        /\ Visible \in Nat \ {0} /\ oldPage \in Pages \cup {Null}
        /\ screen \in [Rows -> [shows : Pages \cup {Null}, marked : BOOLEAN]]
    BY VisibleAssumption DEF PageInv, PageTypeOK
  <2>2. InWindow(selected) /\ NoGap /\ InWindow(oldSelected) /\ oldSelected # selected
    BY DEF PageInv, WindowInv
  <2>3. selected - first \in Rows /\ oldSelected - first \in Rows
    BY <2>1, <2>2 DEF InWindow, Rows
  <2>4. GetPresentation(selected) \in Pages \cup {Null}
    BY <2>1, PresentationType DEF PageInv
  <2>5. PageTypeOK'
    BY <2>1, <2>4 DEF PageInv, PageTypeOK
  <2>6. ListInv' /\ GenerationInv' /\ WindowInv'
    BY DEF PageInv, ListInv, GenerationInv, WindowInv
  <2>7. ASSUME generation = drawnGeneration
        PROVE  count = Len(items) /\ ScreenIs(selected)'
    <3>1. count = Len(items) /\ ScreenIs(oldSelected)
          /\ oldPage = page[items[oldSelected + 1]]
      BY <2>7 DEF PageInv, ScreenInv
    <3>2. selected < Len(items) /\ oldSelected < Len(items)
      BY <2>2, <3>1 DEF InWindow
    <3>3. GetPresentation(selected) = page[items[selected + 1]]
          /\ GetPresentation(selected) # Null
      BY <2>1, <3>2, PresentationType DEF PageInv, GetPresentation
    <3>4. screen' = [screen EXCEPT
                       ![oldSelected - first] = [shows |-> oldPage, marked |-> FALSE],
                       ![selected - first] =
                           [shows |-> GetPresentation(selected), marked |-> TRUE]]
      BY <3>3
    <3>5. ASSUME NEW k \in Rows
          PROVE  screen'[k] =
                     IF first + k < Len(items)
                       THEN [shows |-> page[items[first + k + 1]],
                             marked |-> first + k = selected]
                       ELSE Blank
      <4>1. k \in Nat
        BY <2>1 DEF Rows
      <4>2. CASE k = selected - first
        <5>1. first + k = selected
          BY <2>1, <4>1, <4>2
        <5> QED
          BY <2>1, <2>3, <3>2, <3>3, <3>4, <4>2, <5>1
      <4>3. CASE k = oldSelected - first
        <5>1. first + k = oldSelected /\ k # selected - first
          BY <2>1, <2>2, <4>1, <4>3
        <5> QED
          BY <2>1, <2>2, <2>3, <3>1, <3>2, <3>4, <4>3, <5>1
      <4>4. CASE k # selected - first /\ k # oldSelected - first
        <5>1. first + k # selected /\ first + k # oldSelected
          BY <2>1, <4>1, <4>4
        <5>2. screen'[k] = screen[k]
          BY <2>1, <2>3, <3>4, <4>4
        <5> QED
          BY <3>1, <5>1, <5>2 DEF ScreenIs
      <4> QED
        BY <4>2, <4>3, <4>4
    <3>6. UNCHANGED <<items, page, first, selected>>
      OBVIOUS
    <3> HIDE DEF RedrawNew
    <3> QED
      BY <3>1, <3>5, <3>6 DEF ScreenIs
  <2>8. ScreenInv'
    BY <2>2, <2>7 DEF ScreenInv, InWindow, NoGap
  <2> QED
    BY <2>5, <2>6, <2>8 DEF PageInv
<1> QED
  BY <1>1, <1>2, <1>3, <1>4, <1>5, <1>6, <1>7, <1>8, <1>9, <1>10, <1>11
  DEF PageStep

\* A call from another thread only makes what the page remembers older.
LEMMA CallKeeps ==
    ASSUME PageInv, ConsumerCall
    PROVE  PageInv'
<1>1. /\ generation' = generation + 1 /\ ops' = ops + 1
      /\ UNCHANGED <<view, pc, screen, opened>>
  BY DEF ConsumerCall, AddItem, RemoveItem, Added
<1>2. PageTypeOK' /\ ListInv'
  <2>1. items' \in Seq(Items) /\ page' \in [Items -> Pages \cup {Null}] /\ ListInv'
    BY CallKeepsList DEF PageInv
  <2>2. generation' \in Nat /\ ops' \in Nat
    BY <1>1 DEF PageInv, PageTypeOK
  <2> QED
    BY <1>1, <2>1, <2>2 DEF PageInv, PageTypeOK, view
<1>3. generation' # drawnGeneration' /\ generation' # seen' /\ GenerationInv'
  BY <1>1 DEF PageInv, GenerationInv, PageTypeOK, view
<1>4. WindowInv'
  BY <1>1 DEF PageInv, WindowInv, InWindow, NoGap, view
<1>5. ScreenInv'
  BY <1>1, <1>3 DEF PageInv, ScreenInv, view
<1> QED
  BY <1>2, <1>3, <1>4, <1>5 DEF PageInv

-----------------------------------------------------------------------------
(* The root menu and the hooks *)

\* Every nonempty set of slots has a least one.
LEMMA LeastSlot ==
    ASSUME NEW T \in SUBSET Nat, T # {}
    PROVE  \E i \in T : \A j \in T : i <= j
<1> DEFINE less == {ss \in Nat \X Nat : ss[1] < ss[2]}
<1>1. IsWellFoundedOn(less, Nat)
  BY NatLessThanWellFounded DEF OpToRel
<1> HIDE DEF less
<1>2. PICK i \in T : \A j \in T : <<j, i>> \notin less
  BY <1>1, WFMin
<1>3. \A j \in T : ~(j < i)
  BY <1>2 DEF less
<1> QED
  BY <1>3

\* The terminator of a host's root menu is where CountOf says.
LEMMA CountFacts ==
    ASSUME NEW r \in HostRoots
    PROVE  CountOf(r) \in Slots /\ \A i \in Slots : r[i] = "end" <=> i >= CountOf(r)
<1> DEFINE Ends(n) == r[n] = "end" /\ \A i \in 0 .. n - 1 : r[i] # "end"
           c == CountOf(r)
<1>1. PICK n \in Slots : \A i \in Slots : r[i] = "end" <=> i >= n
  BY DEF HostRoots
<1>2. Ends(n)
  BY <1>1, RootAssumption DEF Slots
<1>3. c \in Slots /\ Ends(c)
  BY <1>2 DEF CountOf
<1>4. c = n
  <2> HIDE DEF c
  <2>1. c >= n
    BY <1>1, <1>3
  <2>2. ASSUME c > n
        PROVE  FALSE
    <3>1. n \in 0 .. c - 1
      BY <1>3, <2>2, RootAssumption DEF Slots
    <3> QED
      BY <1>2, <1>3, <3>1
  <2> QED
    BY <1>3, <2>1, <2>2, RootAssumption DEF Slots
<1> QED
  BY <1>1, <1>4

\* Closing the gap gives the host its root menu back.
LEMMA RootRestored ==
    ASSUME RootInv, TypeOK, RemoveRootItem, UNCHANGED rootBefore
    PROVE  root' = rootBefore /\ ~rootInserted'
<1> USE DEF RemoveRootItem
<1>1. CASE ~rootInserted
  BY <1>1 DEF RootInv
<1>2. CASE rootInserted
  <2> DEFINE n == rootOriginalCount
  <2>1. /\ root = RootWithItem /\ n = CountOf(rootBefore) /\ n < RootSlots - 1
        /\ rootIndex < n /\ rootBefore \in HostRoots
        /\ rootIndex \in Nat /\ n \in Nat
    BY <1>2, RootAssumption DEF RootInv, TypeOK, Slots
  <2>2. \A i \in Slots : rootBefore[i] = "end" <=> i >= n
    BY <2>1, CountFacts, RootAssumption DEF Slots
  <2>3. rootBefore \in [Slots -> {"misc", "other", "end"}]
    BY <2>1 DEF HostRoots
  <2>4. rootIndex \in Slots
    BY <2>1, RootAssumption DEF Slots
  <2>5. root[rootIndex] = "menu"
    BY <2>1, <2>4 DEF RootWithItem
  <2>6. root' = RootWithoutItem
    BY <1>2, <2>5
  <2>7. \A i \in Slots : RootWithoutItem[i] = rootBefore[i]
    <3> TAKE i \in Slots
    <3>1. i \in Nat
      BY RootAssumption DEF Slots
    <3>2. CASE rootIndex <= i /\ i <= n
      <4>1. i + 1 \in Slots /\ i + 1 # rootIndex /\ rootIndex < i + 1 /\ i + 1 <= n + 1
        BY <2>1, <3>1, <3>2, RootAssumption DEF Slots
      <4>2. RootWithItem[i + 1] = rootBefore[i]
        BY <3>1, <4>1 DEF RootWithItem
      <4> QED
        BY <2>1, <3>2, <4>2 DEF RootWithoutItem
    <3>3. CASE i < rootIndex
      BY <2>1, <3>1, <3>3 DEF RootWithoutItem, RootWithItem
    <3>4. CASE i > n
      <4>1. RootWithoutItem[i] = root[i] /\ rootBefore[i] = "end"
        BY <2>1, <2>2, <3>1, <3>4 DEF RootWithoutItem
      <4>2. CASE i = n + 1
        <5>1. n \in Slots
          BY <2>1, RootAssumption DEF Slots
        <5>2. RootWithItem[i] = rootBefore[n] /\ rootBefore[n] = "end"
          BY <2>1, <2>2, <4>2, <5>1 DEF RootWithItem
        <5> QED
          BY <2>1, <4>1, <5>2
      <4>3. CASE i > n + 1
        BY <2>1, <3>1, <4>1, <4>3 DEF RootWithItem
      <4> QED
        BY <2>1, <3>1, <3>4, <4>2, <4>3
    <3> QED
      BY <2>1, <3>1, <3>2, <3>3, <3>4
  <2>8. RootWithoutItem = rootBefore
    BY <2>3, <2>7 DEF RootWithoutItem
  <2> QED
    BY <2>6, <2>8
<1> QED
  BY <1>1, <1>2

\* Giving the list up while the page is closed.
LEMMA ResetKeeps ==
    ASSUME TypeOK, PageInv, pc = "closed", ResetRegistry,
           \A i \in Items : page[i] # Null => Listed(i), UNCHANGED others
    PROVE  PageInv' /\ items' = <<>> /\ \A i \in Items : page'[i] = Null
<1> USE DEF ResetRegistry, others, view
<1>1. items' = <<>> /\ items' \in Seq(Items) /\ Len(items') = 0
  BY EmptySeq
<1>2. page' \in [Items -> Pages \cup {Null}] /\ \A i \in Items : page'[i] = Null
  BY DEF TypeOK, PageTypeOK
<1>3. generation' = generation + 1 /\ generation \in Nat
  BY DEF PageInv, PageTypeOK
<1>4. PageTypeOK'
  BY <1>1, <1>2, <1>3 DEF PageInv, PageTypeOK
<1>5. ListInv'
  BY <1>1 DEF ListInv
<1>6. GenerationInv'
  BY <1>3 DEF PageInv, GenerationInv, PageTypeOK
<1>7. WindowInv' /\ ScreenInv'
  BY DEF WindowInv, ScreenInv
<1> QED
  BY <1>1, <1>2, <1>4, <1>5, <1>6, <1>7 DEF PageInv

\* A step of Main that leaves the list alone leaves the page's invariant alone.
LEMMA ListKept ==
    ASSUME MenuInv, UNCHANGED registry, UNCHANGED others
    PROVE  PageInv' /\ UNCHANGED pageVars
<1> QED
  BY DEF MenuInv, PageInv, PageTypeOK, ListInv, GenerationInv, WindowInv, ScreenInv,
         ScreenIs, InWindow, NoGap, registry, others, view, pageVars

\* MENU's own entries are listed first, with their pages.
LEMMA AppendKeeps ==
    ASSUME MenuInv, AppendItems
    PROVE  MenuInv'
<1> USE DEF AppendItems, SetupItems, others, view
<1>1. items = <<>> /\ \A i \in Items : page[i] = Null
  BY DEF MenuInv, EntriesInv
<1>2. /\ items' = <<Manage, Online>> /\ items' \in Seq(Items) /\ Len(items') = 2
      /\ items'[1] = Manage /\ items'[2] = Online /\ DOMAIN items' = 1 .. 2
  <2>1. <<Manage, Online>> \in Seq(Items)
    BY DEF Items, Builtins
  <2>2. <<>> \o <<Manage, Online>> = <<Manage, Online>>
    BY <2>1, ConcatEmptySeq
  <2> QED
    BY <1>1, <2>1, <2>2
<1>3. /\ page' \in [Items -> Pages \cup {Null}]
      /\ page'[Manage] \in Pages /\ page'[Online] \in Pages
  BY BuiltinPages DEF MenuInv, TypeOK, PageTypeOK, Items, Builtins
<1>4. generation' = generation + 2 /\ generation \in Nat
  BY DEF MenuInv, TypeOK, PageTypeOK
<1>5. PageTypeOK'
  BY <1>2, <1>3, <1>4 DEF MenuInv, PageInv, PageTypeOK
<1>6. ListInv'
  <2>1. \A i \in DOMAIN items' : i = 1 \/ i = 2
    BY <1>2
  <2>2. page'[Manage] # Null /\ page'[Online] # Null
    BY <1>3, NullIsNoPage
  <2>3. \A i \in DOMAIN items' : page'[items'[i]] # Null
    BY <1>2, <2>1, <2>2
  <2>4. \A i, j \in DOMAIN items' : items'[i] = items'[j] => i = j
    BY <1>2, <2>1, RegsAreApart
  <2> QED
    BY <2>3, <2>4 DEF ListInv
<1>7. GenerationInv'
  BY <1>4 DEF MenuInv, PageInv, GenerationInv, PageTypeOK
<1>8. pc = "closed"
  BY DEF MenuInv, Idle
<1>9. WindowInv' /\ ScreenInv'
  BY <1>8 DEF WindowInv, ScreenInv
<1>10. PageInv'
  BY <1>5, <1>6, <1>7, <1>9 DEF PageInv
<1>11. TypeOK'
  BY <1>5 DEF MenuInv, TypeOK
<1>12. \A r \in Regs : page'[r] = Null
  BY <1>1, RegsAreApart DEF MenuInv, TypeOK, PageTypeOK, Items
<1>13. Idle' /\ EntriesInv'
  BY <1>2, <1>8, <1>12 DEF Idle, EntriesInv
<1>14. RootInv' /\ SiteInv'
  BY DEF MenuInv, RootInv, SiteInv, RootWithItem
<1> QED
  BY <1>10, <1>11, <1>13, <1>14 DEF MenuInv

\* What Main gives up: the list, and MENU's entry of the root menu if it is in.
LEMMA GivingUpKeeps ==
    ASSUME MenuInv, main \in {"root", "bridge", "rollback"}, main' = "unloaded",
           ResetRegistry, root' = rootBefore, rootInserted' = FALSE,
           UNCHANGED <<rootIndex, rootOriginalCount>>, UNCHANGED others,
           site' = siteBefore, bridgeAddress' = FALSE
    PROVE  MenuInv'
<1>1. pc = "closed"
  BY DEF MenuInv, Idle
<1>2. PageInv' /\ items' = <<>> /\ \A i \in Items : page'[i] = Null
  <2>1. items = <<Manage, Online>> /\ \A r \in Regs : page[r] = Null
    BY DEF MenuInv, EntriesInv
  <2>2. Listed(Manage) /\ Listed(Online)
    BY <2>1 DEF Listed
  <2>3. \A i \in Items : page[i] # Null => Listed(i)
    BY <2>1, <2>2 DEF Items, Builtins
  <2> QED
    BY <1>1, <2>3, ResetKeeps DEF MenuInv
<1>3. TypeOK'
  BY <1>2 DEF MenuInv, TypeOK, PageInv, others
<1>4. Idle' /\ EntriesInv'
  BY <1>1, <1>2 DEF Idle, EntriesInv, others
<1>5. RootInv' /\ SiteInv'
  BY DEF MenuInv, RootInv, SiteInv, others
<1> QED
  BY <1>2, <1>3, <1>4, <1>5 DEF MenuInv

\* MENU's entry goes in front of the first entry of the miscellaneous menu.
LEMMA InsertKeeps ==
    ASSUME MenuInv, InsertRootItem
    PROVE  MenuInv'
<1> DEFINE n == CountOf(root)
           misc == {i \in 0 .. n - 1 : root[i] = "misc"}
           index == CHOOSE i \in misc : \A j \in misc : i <= j
<1>1. main = "root" /\ root = rootBefore /\ ~rootInserted /\ rootBefore \in HostRoots
  BY DEF InsertRootItem, MenuInv, RootInv
<1>2. n \in Slots /\ n \in Nat
  BY <1>1, CountFacts, RootAssumption DEF Slots
<1>3. UNCHANGED <<others, bridgeAddress, site>>
  BY DEF InsertRootItem
<1>4. CASE n < RootSlots - 1 /\ misc # {}
  <2>1. index \in misc
    <3>1. misc \in SUBSET Nat
      BY <1>2
    <3> HIDE DEF misc
    <3>2. \E i \in misc : \A j \in misc : i <= j
      BY <1>4, <3>1, LeastSlot
    <3> QED
      BY <3>2
  <2>2. /\ root' = [i \in Slots |->
              IF i = index THEN "menu"
              ELSE IF index < i /\ i <= n + 1 THEN root[i - 1] ELSE root[i]]
        /\ rootInserted' = TRUE /\ rootIndex' = index /\ rootOriginalCount' = n
        /\ main' = "bridge" /\ UNCHANGED registry
    BY <1>4 DEF InsertRootItem
  <2>3. index \in Nat /\ index < n /\ root[index] = "misc"
    BY <1>2, <2>1
  <2> HIDE DEF index, misc
  <2>4. index \in Slots
    BY <1>2, <2>3, RootAssumption DEF Slots
  <2>5. RootInv'
    BY <1>1, <1>3, <1>4, <2>2, <2>3 DEF RootInv, RootWithItem, others
  <2>6. root' \in [Slots -> {"misc", "other", "menu", "end"}]
    <3>1. rootBefore \in [Slots -> {"misc", "other", "end"}]
      BY <1>1 DEF HostRoots
    <3>2. \A i \in Slots : index < i => i - 1 \in Slots
      BY <2>3, RootAssumption DEF Slots
    <3> QED
      BY <1>1, <2>2, <3>1, <3>2
  <2>7. PageInv' /\ UNCHANGED pageVars
    BY <1>3, <2>2, ListKept
  <2>8. TypeOK'
    BY <1>2, <1>3, <2>2, <2>4, <2>6, <2>7 DEF MenuInv, TypeOK, PageInv, others
  <2>9. Idle' /\ EntriesInv' /\ SiteInv'
    BY <1>1, <1>3, <2>2 DEF MenuInv, Idle, EntriesInv, SiteInv, others, registry
  <2> QED
    BY <2>5, <2>7, <2>8, <2>9 DEF MenuInv
<1>5. CASE ~(n < RootSlots - 1 /\ misc # {})
  <2>1. /\ ResetRegistry /\ main' = "unloaded"
        /\ UNCHANGED <<root, rootInserted, rootIndex, rootOriginalCount>>
    BY <1>5 DEF InsertRootItem
  <2>2. site = siteBefore /\ ~bridgeAddress
    BY <1>1 DEF MenuInv, SiteInv, TypeOK, Sites
  <2>3. bridgeAddress' = FALSE /\ rootInserted' = FALSE
    BY <1>1, <1>3, <2>1, <2>2 DEF MenuInv, TypeOK
  <2> QED
    BY <1>1, <1>3, <2>1, <2>2, <2>3, GivingUpKeeps
<1> QED
  BY <1>4, <1>5

\* The branch into the stock handler.
LEMMA BridgeKeeps ==
    ASSUME MenuInv, NEW mapped \in BOOLEAN, InstallBridgeHook(mapped)
    PROVE  MenuInv'
<1>1. main = "bridge" /\ UNCHANGED others
  BY DEF InstallBridgeHook
<1>2. ~bridgeAddress /\ site = siteBefore
  BY <1>1 DEF MenuInv, SiteInv, TypeOK, Sites
<1>3. CASE mapped /\ site["bridge"] = "stock"
  <2>1. /\ site' = [site EXCEPT !["bridge"] = "ours"] /\ bridgeAddress' = TRUE
        /\ main' = "draw"
        /\ UNCHANGED <<registry, root, rootInserted, rootIndex, rootOriginalCount>>
    BY <1>3 DEF InstallBridgeHook
  <2>2. PageInv' /\ UNCHANGED pageVars
    BY <1>1, <2>1, ListKept
  <2>3. TypeOK'
    BY <1>1, <2>1, <2>2 DEF MenuInv, TypeOK, PageInv, others, Sites
  <2>4. Idle' /\ EntriesInv' /\ RootInv'
    BY <1>1, <2>1
    DEF MenuInv, Idle, EntriesInv, RootInv, RootWithItem, others, registry
  <2>5. SiteInv'
    BY <1>1, <1>2, <1>3, <2>1 DEF MenuInv, SiteInv, TypeOK, Sites, others
  <2> QED
    BY <2>2, <2>3, <2>4, <2>5 DEF MenuInv
<1>4. CASE ~(mapped /\ site["bridge"] = "stock")
  <2>1. /\ RemoveRootItem /\ ResetRegistry /\ main' = "unloaded"
        /\ UNCHANGED <<site, bridgeAddress>>
    BY <1>4 DEF InstallBridgeHook
  <2>2. root' = rootBefore /\ rootInserted' = FALSE
        /\ UNCHANGED <<rootIndex, rootOriginalCount>>
    BY <1>1, <2>1, RootRestored DEF MenuInv, RemoveRootItem, others
  <2>3. site' = siteBefore /\ bridgeAddress' = FALSE
    BY <1>2, <2>1 DEF MenuInv, TypeOK
  <2> QED
    BY <1>1, <2>1, <2>2, <2>3, GivingUpKeeps
<1> QED
  BY <1>3, <1>4

\* The branch into Draw_DrawString, after which nothing fails.
LEMMA DrawStringKeeps ==
    ASSUME MenuInv, NEW mapped \in BOOLEAN, InstallDrawStringHook(mapped)
    PROVE  MenuInv'
<1>1. /\ main = "draw" /\ UNCHANGED others
      /\ UNCHANGED <<registry, root, rootInserted, rootIndex, rootOriginalCount,
                     bridgeAddress>>
  BY DEF InstallDrawStringHook
<1>a. \/ site' = [site EXCEPT !["draw"] = "ours"] /\ main' = "resident"
      \/ site' = site /\ main' = "rollback"
  BY DEF InstallDrawStringHook
<1>2. PageInv' /\ UNCHANGED pageVars
  BY <1>1, ListKept
<1>3. TypeOK'
  BY <1>1, <1>a, <1>2 DEF MenuInv, TypeOK, PageInv, others, Sites
<1>4. items = <<Manage, Online>> => Len(items) >= 2 /\ items[1] = Manage /\ items[2] = Online
  OBVIOUS
<1>5. EntriesInv'
  BY <1>1, <1>a, <1>4 DEF MenuInv, EntriesInv, registry
<1>6. Idle' /\ RootInv'
  BY <1>1, <1>a DEF MenuInv, Idle, RootInv, RootWithItem, others
<1>7. SiteInv'
  BY <1>1, <1>a DEF MenuInv, SiteInv, TypeOK, Sites, others
<1> QED
  BY <1>2, <1>3, <1>5, <1>6, <1>7 DEF MenuInv

\* The rollback of the first hook when the second cannot be written.
LEMMA RollBackKeeps ==
    ASSUME MenuInv, NEW mapped \in BOOLEAN, RollBack(mapped)
    PROVE  MenuInv'
<1>1. main = "rollback" /\ UNCHANGED others
  BY DEF RollBack
<1>2. bridgeAddress = TRUE /\ site["bridge"] = "ours" /\ site["draw"] = siteBefore["draw"]
      /\ siteBefore["bridge"] = "stock"
  BY <1>1 DEF MenuInv, SiteInv, TypeOK
<1>3. CASE mapped
  <2>1. /\ site' = [site EXCEPT !["bridge"] = "stock"] /\ bridgeAddress' = FALSE
        /\ RemoveRootItem /\ ResetRegistry /\ main' = "unloaded"
    BY <1>2, <1>3 DEF RollBack, Leaves
  <2>2. root' = rootBefore /\ rootInserted' = FALSE
        /\ UNCHANGED <<rootIndex, rootOriginalCount>>
    BY <1>1, <2>1, RootRestored DEF MenuInv, RemoveRootItem, others
  <2>3. site' = siteBefore
    <3>1. site \in [Sites -> {"stock", "foreign", "ours"}]
          /\ siteBefore \in [Sites -> {"stock", "foreign", "ours"}]
      BY DEF MenuInv, TypeOK
    <3> QED
      BY <1>2, <2>1, <3>1 DEF Sites
  <2> QED
    BY <1>1, <2>1, <2>2, <2>3, GivingUpKeeps
<1>4. CASE ~mapped
  <2>1. /\ main' = "resident" /\ UNCHANGED <<site, bridgeAddress>>
        /\ UNCHANGED <<registry, root, rootInserted, rootIndex, rootOriginalCount>>
    BY <1>2, <1>4 DEF RollBack, Leaves
  <2>2. PageInv' /\ UNCHANGED pageVars
    BY <1>1, <2>1, ListKept
  <2>3. TypeOK'
    BY <1>1, <2>1, <2>2 DEF MenuInv, TypeOK, PageInv, others
  <2>4. items = <<Manage, Online>> => Len(items) >= 2 /\ items[1] = Manage /\ items[2] = Online
    OBVIOUS
  <2>5. EntriesInv'
    BY <1>1, <2>1, <2>4 DEF MenuInv, EntriesInv, registry
  <2>6. Idle' /\ RootInv' /\ SiteInv'
    BY <1>1, <2>1 DEF MenuInv, Idle, RootInv, SiteInv, RootWithItem, others
  <2> QED
    BY <2>2, <2>3, <2>5, <2>6 DEF MenuInv
<1> QED
  BY <1>3, <1>4

-----------------------------------------------------------------------------
(* The invariant *)

LEMMA InitiallyInv ==
    ASSUME Init
    PROVE  MenuInv
<1> USE DEF Init, PageInit
<1>1. items \in Seq(Items) /\ Len(items) = 0 /\ DOMAIN items = {}
  BY EmptySeq
<1>2. PageTypeOK /\ PageInv
  <2>1. PageTypeOK
    BY <1>1 DEF PageTypeOK, Blank
  <2>2. ListInv
    BY <1>1 DEF ListInv
  <2>3. GenerationInv /\ WindowInv /\ ScreenInv
    BY DEF GenerationInv, WindowInv, ScreenInv
  <2> QED
    BY <2>1, <2>2, <2>3 DEF PageInv
<1>3. TypeOK
  <2>1. root \in [Slots -> {"misc", "other", "menu", "end"}]
    BY DEF HostRoots
  <2>2. 0 \in Slots
    BY RootAssumption DEF Slots
  <2> QED
    BY <1>2, <2>1, <2>2 DEF TypeOK
<1>4. Idle /\ EntriesInv /\ RootInv
  BY DEF Idle, EntriesInv, RootInv
<1>5. SiteInv
  BY DEF SiteInv
<1> QED
  BY <1>2, <1>3, <1>4, <1>5 DEF MenuInv

\* Once Main has returned TRUE, neither the page nor a consumer touches the host.
LEMMA ResidentKeeps ==
    ASSUME MenuInv, main = "resident", PageStep \/ ConsumerCall, UNCHANGED startVars
    PROVE  MenuInv'
<1>1. PageInv'
  BY PageStepKeeps, CallKeeps DEF MenuInv
<1>2. PageTypeOK'
  BY <1>1 DEF PageInv
<1>3. TypeOK'
  BY <1>2 DEF MenuInv, TypeOK, startVars, Slots
<1>4. Len(items) >= 2 /\ items[1] = Manage /\ items[2] = Online
  BY DEF MenuInv, EntriesInv
<1>5. Len(items') >= 2 /\ items'[1] = Manage /\ items'[2] = Online
  <2>1. CASE ConsumerCall
    BY <1>4, <2>1, CallKeepsList DEF MenuInv, PageInv
  <2>2. CASE PageStep
    <3>1. items' = items
      BY <2>2
      DEF PageStep, Open, Look, Draw, Leave, KeyA, CallbackReturns, KeyDown, KeyUp,
          Moved, KeyOther, RedrawOld, RedrawNew, registry
    <3> QED
      BY <1>4, <3>1
  <2> QED
    BY <2>1, <2>2
<1>6. EntriesInv' /\ Idle'
  BY <1>5 DEF EntriesInv, Idle, startVars
<1>7. RootInv' /\ SiteInv'
  BY DEF MenuInv, RootInv, SiteInv, RootWithItem, startVars
<1> QED
  BY <1>1, <1>3, <1>6, <1>7 DEF MenuInv

LEMMA StepKeepsInv ==
    ASSUME MenuInv, [Next]_vars
    PROVE  MenuInv'
<1>1. CASE AppendItems
  BY <1>1, AppendKeeps
<1>2. CASE InsertRootItem
  BY <1>2, InsertKeeps
<1>3. CASE \E mapped \in BOOLEAN : InstallBridgeHook(mapped)
  BY <1>3, BridgeKeeps
<1>4. CASE \E mapped \in BOOLEAN : InstallDrawStringHook(mapped)
  BY <1>4, DrawStringKeeps
<1>5. CASE \E mapped \in BOOLEAN : RollBack(mapped)
  BY <1>5, RollBackKeeps
<1>6. CASE main = "resident" /\ (PageStep \/ ConsumerCall) /\ UNCHANGED startVars
  BY <1>6, ResidentKeeps
<1>7. CASE UNCHANGED vars
  <2>1. PageInv'
    BY <1>7
    DEF MenuInv, PageInv, PageTypeOK, ListInv, GenerationInv, WindowInv, ScreenInv,
        ScreenIs, InWindow, NoGap, registry, view, pageVars, vars
  <2>2. TypeOK'
    BY <1>7, <2>1 DEF MenuInv, PageInv, TypeOK, startVars, vars
  <2>3. Idle' /\ EntriesInv' /\ RootInv' /\ SiteInv'
    BY <1>7
    DEF MenuInv, Idle, EntriesInv, RootInv, SiteInv, RootWithItem, registry, pageVars,
        startVars, vars
  <2> QED
    BY <2>1, <2>2, <2>3 DEF MenuInv
<1> QED
  BY <1>1, <1>2, <1>3, <1>4, <1>5, <1>6, <1>7 DEF Next, Main

\* The invariant holds however consumers, the page and failures of Main interleave.
THEOREM MenuInvariant == Spec => []MenuInv
<1>1. Init => MenuInv
  BY InitiallyInv
<1>2. MenuInv /\ [Next]_vars => MenuInv'
  BY StepKeepsInv
<1> QED
  BY <1>1, <1>2, PTL DEF Spec

-----------------------------------------------------------------------------
(* What follows from it *)

\* Counts, indices and generations of the list, the page and the root menu keep
\* their types: in particular no index of the root menu leaves its array.
THEOREM TypeCorrect == Spec => []TypeOK
<1>1. MenuInv => TypeOK
  BY DEF MenuInv
<1> QED
  BY <1>1, MenuInvariant, PTL

\* Row numbers are computed as (selected - first) without a sign: however
\* consumers shrink and grow the list, the highlighted entry is in the rows shown.
THEOREM SelectionShown == Spec => []SelectionIsShown
<1>1. MenuInv => SelectionIsShown
  BY DEF MenuInv, PageInv, WindowInv, InWindow, NoGap, SelectionIsShown
<1> QED
  BY <1>1, MenuInvariant, PTL

\* The generation that Draw remembers is older than the titles it draws, so a
\* page that waits over an unchanged list shows that list.
THEOREM ScreenFresh == Spec => []ScreenShowsList
<1>1. MenuInv => ScreenShowsList
  BY DEF MenuInv, PageInv, ScreenInv, ScreenShowsList
<1> QED
  BY <1>1, MenuInvariant, PTL

\* A opens what is highlighted, unless the list changed since it was drawn.
THEOREM HighlightOpened == Spec => OpensTheHighlighted
<1> DEFINE Opens == pc = "wait" /\ pc' = "callback" /\ generation = drawnGeneration =>
                        \E k \in Rows : screen[k].marked /\ screen[k].shows = opened'
<1>1. ASSUME MenuInv, [Next]_vars, pc = "wait", pc' = "callback",
             generation = drawnGeneration
      PROVE  \E k \in Rows : screen[k].marked /\ screen[k].shows = opened'
  <2>1. KeyA /\ Lookup # Null /\ opened' = Lookup
    BY <1>1
    DEF Next, Main, AppendItems, InsertRootItem, InstallBridgeHook,
        InstallDrawStringHook, RollBack, others, PageStep, Open, Look, Draw, Leave,
        KeyA, CallbackReturns, KeyDown, KeyUp, Moved, KeyOther, RedrawOld, RedrawNew,
        ConsumerCall, AddItem, RemoveItem, vars, pageVars
  <2>2. /\ count = Len(items) /\ InWindow(selected) /\ ScreenIs(selected)
        /\ {count, selected, first} \subseteq Nat
    BY <1>1 DEF MenuInv, PageInv, ScreenInv, PageTypeOK
  <2>3. selected - first \in Rows /\ first + (selected - first) = selected
        /\ selected < Len(items)
    BY <2>2, VisibleAssumption DEF InWindow, Rows
  <2>4. screen[selected - first] = [shows |-> page[items[selected + 1]], marked |-> TRUE]
    BY <2>2, <2>3 DEF ScreenIs
  <2>5. opened' = page[items[selected + 1]]
    BY <2>1, <2>3 DEF Lookup, GetPresentation
  <2> QED
    BY <2>3, <2>4, <2>5
<1>2. MenuInv /\ [Next]_vars => [Opens]_pageVars
  BY <1>1
<1> QED
  BY <1>2, MenuInvariant, PTL DEF Spec, OpensTheHighlighted

\* A Main that fails leaves the host as it found it, so the loader may unload it.
THEOREM NothingLeft == Spec => []UnloadedLeavesNothing
<1>1. ASSUME MenuInv PROVE UnloadedLeavesNothing
  <2> SUFFICES ASSUME main = "unloaded"
               PROVE  /\ site = siteBefore
                      /\ \E n \in Slots : root[n] = "end"
                      /\ ShownRoot(root) = ShownRoot(rootBefore)
                      /\ items = <<>> /\ \A i \in Items : page[i] = Null
    BY DEF UnloadedLeavesNothing
  <2>1. root = rootBefore /\ rootBefore \in HostRoots
    BY <1>1 DEF MenuInv, RootInv
  <2>2. \E n \in Slots : root[n] = "end"
    BY <2>1, CountFacts, RootAssumption DEF Slots
  <2>3. site = siteBefore
    <3>1. /\ site \in [Sites -> {"stock", "foreign", "ours"}]
          /\ siteBefore \in [Sites -> {"stock", "foreign", "ours"}]
      BY <1>1 DEF MenuInv, TypeOK
    <3>2. site["bridge"] = siteBefore["bridge"] /\ site["draw"] = siteBefore["draw"]
      BY <1>1 DEF MenuInv, SiteInv
    <3> QED
      BY <3>1, <3>2 DEF Sites
  <2>4. items = <<>> /\ \A i \in Items : page[i] = Null
    BY <1>1 DEF MenuInv, EntriesInv
  <2> QED
    BY <2>1, <2>2, <2>3, <2>4
<1> QED
  BY <1>1, MenuInvariant, PTL

\* An image that stays, a failed rollback included, has its branch, its root
\* entry in an otherwise unchanged root menu, and its own two pages.
THEOREM ResidentComplete == Spec => []ResidentIsComplete
<1>1. ASSUME MenuInv PROVE ResidentIsComplete
  <2> SUFFICES ASSUME main = "resident"
               PROVE  ResidentIsComplete
    BY DEF ResidentIsComplete
  <2> DEFINE n == CountOf(rootBefore)
  <2>1. /\ root = RootWithItem /\ rootBefore \in HostRoots
        /\ rootOriginalCount = n /\ n < RootSlots - 1
        /\ rootIndex < n /\ rootBefore[rootIndex] = "misc" /\ rootIndex \in Nat
    BY <1>1 DEF MenuInv, RootInv, TypeOK, Slots
  <2>2. n \in Slots /\ rootBefore[n] = "end"
    BY <2>1, CountFacts, RootAssumption DEF Slots
  <2> HIDE DEF n
  <2>3. n \in Nat /\ n + 1 \in Slots /\ rootIndex + 1 \in Slots /\ rootIndex \in Slots
    BY <2>1, <2>2, RootAssumption DEF Slots
  <2>4. root[n + 1] = "end"
    BY <2>1, <2>2, <2>3 DEF RootWithItem
  <2>5. root[rootIndex] = "menu" /\ root[rootIndex + 1] = "misc"
    BY <2>1, <2>3 DEF RootWithItem
  <2>6. \A i \in 0 .. n - 1 : root[IF i < rootIndex THEN i ELSE i + 1] = rootBefore[i]
    <3> TAKE i \in 0 .. n - 1
    <3>1. i \in Slots /\ i + 1 \in Slots /\ i + 1 <= n
      BY <2>2, <2>3, RootAssumption DEF Slots
    <3>2. CASE i < rootIndex
      BY <2>1, <2>3, <3>1, <3>2 DEF RootWithItem
    <3>3. CASE ~(i < rootIndex)
      <4>1. i + 1 # rootIndex /\ rootIndex < i + 1 /\ i + 1 - 1 = i
        BY <2>1, <2>3, <3>3
      <4>2. root[i + 1] = rootBefore[i]
        <5>1. root[i + 1] = IF i + 1 = rootIndex THEN "menu"
                            ELSE IF rootIndex < i + 1 /\ i + 1 <= rootOriginalCount + 1
                              THEN rootBefore[i + 1 - 1] ELSE rootBefore[i + 1]
          BY <2>1, <3>1 DEF RootWithItem
        <5>2. i + 1 <= rootOriginalCount + 1
          BY <2>1, <2>3, <3>1
        <5> QED
          BY <4>1, <5>1, <5>2
      <4> QED
        BY <3>3, <4>2
    <3> QED
      BY <3>2, <3>3
  <2>7. site["bridge"] = "ours" /\ Len(items) >= 2 /\ items[1] = Manage /\ items[2] = Online
    BY <1>1 DEF MenuInv, SiteInv, EntriesInv
  <2> QED
    BY <2>3, <2>4, <2>5, <2>6, <2>7 DEF ResidentIsComplete, n
<1> QED
  BY <1>1, MenuInvariant, PTL
=============================================================================
