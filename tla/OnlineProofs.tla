---------------------------- MODULE OnlineProofs ----------------------------
(***************************************************************************)
(* Theorems about the scan, the Online page and the list of sources, for   *)
(* every set of plugins, files, entries, sources and calls, every size of  *)
(* temporary memory and every number of failures, cuts and changed files.  *)
(*                                                                         *)
(* First what the operators return: the scans, the walk over the sorted    *)
(* files and the edit of a list, which are folds.  A fold over a sequence  *)
(* is a function on the sets of its indices; that the function exists, and *)
(* what it is for one index more, is shown for each fold on its own.       *)
(* Then OnlineInv, about locks, memory and who is where; OpenInv, about a  *)
(* scan and a page to which nothing happens; and ListInv, with which the   *)
(* edits of the list implement SourceList.  Each action has a lemma.       *)
(***************************************************************************)
EXTENDS OnlineLibrary, WellFoundedInduction, SequenceTheorems, FiniteSetTheorems, TLAPS

-----------------------------------------------------------------------------
(* Numbers *)

\* A set of numbers has a least one.
LEMMA LeastExists ==
    ASSUME NEW T \in SUBSET Nat, T # {}
    PROVE  \E m \in T : \A n \in T : m <= n
<1> DEFINE R == OpToRel(<, Nat)
<1>1. IsWellFoundedOn(R, Nat)
  BY NatLessThanWellFounded
<1>2. \E x \in T : \A y \in T : ~ (<<y, x>> \in R)
  <2> HIDE DEF R
  <2> QED
    BY <1>1, WFMin
<1>3. \A x, y \in Nat : ~ (<<y, x>> \in R) => x <= y
  BY DEF OpToRel
<1> QED
  BY <1>2, <1>3

LEMMA LastIsMax ==
    ASSUME NEW n \in Nat, NEW s \in SUBSET (1 .. n + 1), n + 1 \in s
    PROVE  Max(s) = n + 1
<1>1. \A y \in s : n + 1 >= y
  OBVIOUS
<1>2. \A x \in s : (\A y \in s : x >= y) => x = n + 1
  OBVIOUS
<1> QED
  BY <1>1, <1>2 DEF Max

-----------------------------------------------------------------------------
(* The files in order *)

\* The directory holds stacks.
IsDir(d) == \A f \in Files : d[f] # None => d[f] \in Seq(Entries)

\* A stack is walked up to one of its entries.
LEMMA WalkIsInStack ==
    ASSUME NEW stack \in Seq(Entries)
    PROVE  WalkedUpTo(stack) \in 0 .. Len(stack)
<1> DEFINE T == {n \in 0 .. Len(stack) : n < Len(stack) => stack[n + 1].magic = "bad"}
<1>1. Len(stack) \in T /\ T \in SUBSET Nat
  OBVIOUS
<1>2. PICK n \in T : \A m \in T : n <= m
  BY <1>1, LeastExists
<1>3. \A k \in 1 .. n : stack[k].magic # "bad"
  <2> SUFFICES ASSUME NEW k \in 1 .. n, stack[k].magic = "bad"
               PROVE  FALSE
    OBVIOUS
  <2>1. k - 1 \in 0 .. Len(stack) /\ (k - 1) + 1 = k /\ ~ (n <= k - 1)
    BY <1>1, <1>2
  <2>2. k - 1 \in T
    BY <2>1
  <2> QED
    BY <1>2, <2>1, <2>2
<1> QED
  BY <1>2, <1>3 DEF WalkedUpTo

\* Any set of files can be put in order.
InOrder(s, S) ==
    /\ s \in [1 .. Cardinality(S) -> S]
    /\ \A i, j \in 1 .. Cardinality(S) : i < j => ComesBefore(s[i], s[j])

LEMMA FirstFile ==
    ASSUME NEW S \in SUBSET Files, S # {}
    PROVE  \E f \in S : \A g \in S \ {f} : ComesBefore(f, g)
<1>1. S \subseteq Nat /\ \A f \in S : PriorityOf[f] \in Nat
  BY FilesAreNumbered
<1>2. PICK f1 \in S : \A g \in S : PriorityOf[f1] <= PriorityOf[g]
  <2> DEFINE T == {PriorityOf[g] : g \in S}
  <2>1. T \in SUBSET Nat /\ T # {}
    BY <1>1
  <2>2. PICK m \in T : \A n \in T : m <= n
    BY <2>1, LeastExists
  <2> QED
    BY <2>2
<1> DEFINE S2 == {g \in S : PriorityOf[g] = PriorityOf[f1]}
<1>3. PICK f2 \in S2 : \A g \in S2 : f2 <= g
  BY <1>1, LeastExists
<1>4. \A g \in S \ {f2} : ComesBefore(f2, g)
  <2> SUFFICES ASSUME NEW g \in S \ {f2}
               PROVE  ComesBefore(f2, g)
    OBVIOUS
  <2>1. CASE g \in S2
    BY <1>1, <1>3, <2>1 DEF ComesBefore
  <2>2. CASE g \notin S2
    BY <1>1, <1>2, <1>3, <2>2 DEF ComesBefore
  <2> QED
    BY <2>1, <2>2
<1> QED
  BY <1>4

LEMMA SortedExists ==
    ASSUME NEW S \in SUBSET Files
    PROVE  \E s : InOrder(s, S)
<1> DEFINE Bad == {n \in Nat : \E R \in SUBSET Files : Cardinality(R) = n /\
        ~ \E s : InOrder(s, R)}
<1>1. \A R \in SUBSET Files : IsFiniteSet(R) /\ Cardinality(R) \in Nat
  BY FilesAreNumbered, FS_Subset, FS_CardinalityType
<1>2. ASSUME Bad # {}
      PROVE  FALSE
  <2>1. PICK n \in Bad : \A m \in Bad : n <= m
    BY <1>2, LeastExists
  <2>2. PICK R \in SUBSET Files : Cardinality(R) = n /\ ~ \E s : InOrder(s, R)
    BY <2>1
  <2>3. R # {}
    <3> SUFFICES ASSUME R = {}
                 PROVE  FALSE
      OBVIOUS
    <3>1. Cardinality(R) = 0 /\ 1 .. 0 = {}
      BY FS_EmptySet
    <3>2. <<>> \in [1 .. 0 -> R]
      BY <3>1
    <3> QED
      BY <2>2, <3>1, <3>2 DEF InOrder
  <2>4. PICK f \in R : \A g \in R \ {f} : ComesBefore(f, g)
    BY <2>3, FirstFile
  <2>5. n # 0 /\ n - 1 \in Nat /\ Cardinality(R \ {f}) = n - 1 /\ R \ {f} \in SUBSET Files
    <3>1. IsFiniteSet(R) /\ Cardinality(R \ {f}) = n - 1 /\ Cardinality(R \ {f}) \in Nat
      BY <1>1, <2>2, <2>4, FS_RemoveElement
    <3> QED
      BY <3>1
  <2>6. PICK s : InOrder(s, R \ {f})
    <3>1. n - 1 \notin Bad
      BY <2>1, <2>5
    <3> QED
      BY <2>5, <3>1
  <2> DEFINE t == [i \in 1 .. n |-> IF i = 1 THEN f ELSE s[i - 1]]
  <2>7. \A i \in 1 .. n : i # 1 => i - 1 \in 1 .. n - 1 /\ t[i] = s[i - 1] /\ t[i] \in R \ {f}
    <3> SUFFICES ASSUME NEW i \in 1 .. n, i # 1
                 PROVE  i - 1 \in 1 .. n - 1 /\ t[i] = s[i - 1] /\ t[i] \in R \ {f}
      OBVIOUS
    <3>1. i - 1 \in 1 .. n - 1 /\ t[i] = s[i - 1]
      BY <2>1
    <3>2. s \in [1 .. n - 1 -> R \ {f}]
      BY <2>5, <2>6 DEF InOrder
    <3> QED
      BY <3>1, <3>2
  <2>8. t \in [1 .. n -> R]
    BY <2>4, <2>7
  <2>9. \A i, j \in 1 .. n : i < j => ComesBefore(t[i], t[j])
    <3> SUFFICES ASSUME NEW i \in 1 .. n, NEW j \in 1 .. n, i < j
                 PROVE  ComesBefore(t[i], t[j])
      OBVIOUS
    <3>1. j # 1
      OBVIOUS
    <3>2. CASE i = 1
      <4>1. t[i] = f /\ t[j] \in R \ {f}
        BY <2>7, <3>1, <3>2
      <4> HIDE DEF t
      <4> QED
        BY <2>4, <4>1
    <3>3. CASE i # 1
      <4>1. /\ i - 1 \in 1 .. n - 1 /\ j - 1 \in 1 .. n - 1 /\ i - 1 < j - 1
            /\ t[i] = s[i - 1] /\ t[j] = s[j - 1]
        BY <2>5, <2>7, <3>1, <3>3
      <4> HIDE DEF t
      <4> QED
        BY <2>5, <2>6, <4>1 DEF InOrder
    <3> QED
      BY <3>2, <3>3
  <2> HIDE DEF t
  <2> QED
    BY <2>2, <2>8, <2>9 DEF InOrder
<1> QED
  BY <1>1, <1>2

\* SortedFiles lists each file once, in order.
LEMMA FilesAreSorted ==
    ASSUME NEW d
    PROVE  LET s == SortedFiles(d)
               n == Cardinality(Present(d))
           IN  /\ n \in Nat /\ s \in [1 .. n -> Present(d)] /\ s \in Seq(Files) /\ Len(s) = n
               /\ \A i, j \in 1 .. n : i < j => ComesBefore(s[i], s[j])
               /\ \A f \in Present(d) : \E i \in 1 .. n : s[i] = f
<1> DEFINE s == SortedFiles(d)
           n == Cardinality(Present(d))
<1>1. Present(d) \in SUBSET Files /\ IsFiniteSet(Present(d)) /\ n \in Nat
  <2>1. Present(d) \in SUBSET Files
    BY DEF Present
  <2> QED
    BY <2>1, FilesAreNumbered, FS_Subset, FS_CardinalityType
<1>2. InOrder(s, Present(d))
  <2>1. PICK u : InOrder(u, Present(d))
    BY <1>1, SortedExists
  <2>2. \A t \in [1 .. n -> Present(d)] : DOMAIN t = 1 .. n
    OBVIOUS
  <2>3. \E t \in [1 .. n -> Present(d)] : \A i, j \in DOMAIN t : i < j => ComesBefore(t[i], t[j])
    BY <2>1, <2>2 DEF InOrder
  <2>4. s \in [1 .. n -> Present(d)] /\ \A i, j \in DOMAIN s : i < j => ComesBefore(s[i], s[j])
    BY <2>3 DEF SortedFiles
  <2> HIDE DEF s
  <2> QED
    BY <2>2, <2>4 DEF InOrder
<1> HIDE DEF s
<1>3. \A i, j \in 1 .. n : s[i] = s[j] => i = j
  <2> SUFFICES ASSUME NEW i \in 1 .. n, NEW j \in 1 .. n, i < j, s[i] = s[j]
               PROVE  FALSE
    BY <1>1
  <2>1. ComesBefore(s[i], s[j]) /\ s[j] \in Files
    BY <1>1, <1>2 DEF InOrder
  <2>2. PriorityOf[s[j]] \in Nat /\ s[j] \in Nat
    BY <2>1, FilesAreNumbered
  <2> QED
    BY <2>1, <2>2 DEF ComesBefore
<1>4. \A f \in Present(d) : \E i \in 1 .. n : s[i] = f
  <2>1. s \in Injection(1 .. n, Present(d))
    BY <1>2, <1>3 DEF InOrder, Injection, IsInjective
  <2>2. IsFiniteSet(1 .. n) /\ Cardinality(1 .. n) = n
    BY <1>1, FS_Interval
  <2>3. s \in Surjection(1 .. n, Present(d))
    BY <1>1, <2>1, <2>2, FS_Injection
  <2> QED
    BY <2>3 DEF Surjection
<1>5. s \in Seq(Files) /\ Len(s) = n
  <2>1. s \in Seq(Present(d)) /\ Len(s) = n
    BY <1>1, <1>2 DEF InOrder
  <2> QED
    BY <1>1, <2>1
<1> QED
  BY <1>1, <1>2, <1>4, <1>5 DEF InOrder, s

-----------------------------------------------------------------------------
(* The winners of a walk *)

IdAt(d, p) == EntryAt(d, p).id

\* What the winners of the places P say of each of them: its id has a winner that
\* is not later, or there was no room left when its turn came.
AreWinners(d, w, P) ==
    /\ w \in Seq(P) /\ Len(w) <= MaxPlugins
    /\ \A i, j \in 1 .. Len(w) : IdAt(d, w[i]) = IdAt(d, w[j]) => i = j
    /\ \A q \in P :
           \/ \E i \in 1 .. Len(w) :
                  IdAt(d, w[i]) = IdAt(d, q) /\ (w[i] = q \/ IsEarlier(w[i], q))
           \/ Len(w) = MaxPlugins /\ \A i \in 1 .. Len(w) : IsEarlier(w[i], q)

\* The next place of the walk.
LEMMA WinningKeeps ==
    ASSUME NEW d, NEW P, NEW w, AreWinners(d, w, P), NEW p,
           \A q \in P : IsEarlier(q, p)
    PROVE  AreWinners(d, Winning(d, w, p), P \cup {x \in {p} : EntryAt(d, x).magic = "MENU"})
<1>1. /\ w \in Seq(P) /\ Len(w) \in Nat /\ DOMAIN w = 1 .. Len(w) /\ Len(w) <= MaxPlugins
      /\ \A i \in 1 .. Len(w) : w[i] \in P
  BY DEF AreWinners
<1>2. CASE EntryAt(d, p).magic # "MENU"
  <2>1. Winning(d, w, p) = w /\ P \cup {x \in {p} : EntryAt(d, x).magic = "MENU"} = P
    BY <1>2 DEF Winning
  <2> QED
    BY <2>1
<1>3. CASE EntryAt(d, p).magic = "MENU"
  <2> DEFINE Q == P \cup {p}
  <2>1. P \cup {x \in {p} : EntryAt(d, x).magic = "MENU"} = Q
    BY <1>3
  <2>2. CASE Len(w) < MaxPlugins /\ \A i \in DOMAIN w : IdAt(d, w[i]) # IdAt(d, p)
    <3> DEFINE v == Append(w, p)
    <3>1. Winning(d, w, p) = v
      BY <1>3, <2>2 DEF Winning, IdAt
    <3>2. w \in Seq(Q) /\ p \in Q
      BY <1>1
    <3>3. /\ v \in Seq(Q) /\ Len(v) = Len(w) + 1 /\ v[Len(w) + 1] = p
          /\ \A i \in 1 .. Len(w) : v[i] = w[i]
      BY <3>2, <1>1
    <3> HIDE DEF v
    <3>4. Len(v) <= MaxPlugins
      BY <1>1, <2>2, <3>3, MaxPluginsAssumption
    <3>5. \A i, j \in 1 .. Len(v) : IdAt(d, v[i]) = IdAt(d, v[j]) => i = j
      <4> SUFFICES ASSUME NEW i \in 1 .. Len(v), NEW j \in 1 .. Len(v), i < j,
                          IdAt(d, v[i]) = IdAt(d, v[j])
                   PROVE  FALSE
        BY <1>1, <3>3
      <4>1. i \in 1 .. Len(w) /\ v[i] = w[i]
        BY <1>1, <3>3
      <4>2. CASE j \in 1 .. Len(w)
        BY <3>3, <4>1, <4>2 DEF AreWinners
      <4>3. CASE j = Len(w) + 1
        BY <1>1, <2>2, <3>3, <4>1, <4>3
      <4> QED
        BY <1>1, <3>3, <4>2, <4>3
    <3>6. ASSUME NEW q \in Q
          PROVE  \/ \E i \in 1 .. Len(v) :
                           IdAt(d, v[i]) = IdAt(d, q) /\ (v[i] = q \/ IsEarlier(v[i], q))
                 \/ Len(v) = MaxPlugins /\ \A i \in 1 .. Len(v) : IsEarlier(v[i], q)
      <4>1. \A i \in 1 .. Len(w) : i \in 1 .. Len(v)
        BY <1>1, <3>3
      <4>2. CASE q = p
        <5>1. Len(v) \in 1 .. Len(v) /\ v[Len(v)] = p
          BY <1>1, <3>3
        <5> QED
          BY <4>2, <5>1
      <4>3. CASE q \in P
        <5>1. Len(w) # MaxPlugins
          <6>1. Len(w) < MaxPlugins /\ Len(w) \in Nat /\ MaxPlugins \in Nat
            BY <1>1, <2>2, MaxPluginsAssumption
          <6> QED
            BY <6>1
        <5>2. PICK i \in 1 .. Len(w) :
                  IdAt(d, w[i]) = IdAt(d, q) /\ (w[i] = q \/ IsEarlier(w[i], q))
          BY <4>3, <5>1 DEF AreWinners
        <5> QED
          BY <3>3, <4>1, <5>2
      <4> QED
        BY <4>2, <4>3
    <3> QED
      BY <2>1, <3>1, <3>3, <3>4, <3>5, <3>6 DEF AreWinners
  <2>3. CASE ~ (Len(w) < MaxPlugins /\ \A i \in DOMAIN w : IdAt(d, w[i]) # IdAt(d, p))
    <3>1. Winning(d, w, p) = w
      BY <1>3, <2>3 DEF Winning, IdAt
    <3>2. w \in Seq(Q)
      BY <1>1
    <3>3. \/ \E i \in 1 .. Len(w) : IdAt(d, w[i]) = IdAt(d, p) /\ IsEarlier(w[i], p)
          \/ Len(w) = MaxPlugins /\ \A i \in 1 .. Len(w) : IsEarlier(w[i], p)
      <4>1. Len(w) \in Nat /\ MaxPlugins \in Nat /\ Len(w) <= MaxPlugins
        BY <1>1, MaxPluginsAssumption
      <4>2. Len(w) = MaxPlugins \/ Len(w) < MaxPlugins
        BY <4>1
      <4>3. \A i \in 1 .. Len(w) : IsEarlier(w[i], p)
        BY <1>1
      <4> QED
        BY <1>1, <2>3, <4>2, <4>3
    <3>4. \A q \in Q :
              \/ \E i \in 1 .. Len(w) :
                        IdAt(d, w[i]) = IdAt(d, q) /\ (w[i] = q \/ IsEarlier(w[i], q))
              \/ Len(w) = MaxPlugins /\ \A i \in 1 .. Len(w) : IsEarlier(w[i], q)
      BY <3>3 DEF AreWinners
    <3> QED
      BY <2>1, <3>1, <3>2, <3>4 DEF AreWinners
  <2> QED
    BY <2>2, <2>3
<1> QED
  BY <1>2, <1>3

-----------------------------------------------------------------------------
(* The walk as a fold over files and entries *)

\* The walk over the entries of a file.
EntriesFoldTo(g, S, old, d, w, f) ==
    g = [s \in SUBSET S |->
             IF s = {} THEN w ELSE Winning(d, g[s \ {Max(s)}], <<f, old[Max(s)]>>)]
EntriesFold(old, d, w, f) ==
    FoldLeft(LAMBDA v, k : Winning(d, v, <<f, k>>), w, old)
EntriesFolded(old, d, w, f) ==
    CHOOSE g : g = [s \in SUBSET DOMAIN old |->
                       IF s = {} THEN w ELSE Winning(d, g[s \ {Max(s)}], <<f, old[Max(s)]>>)]

\* It exists for every prefix of the stack.
LEMMA EntriesFoldExists ==
    ASSUME NEW old, NEW d, NEW w, NEW f, NEW n \in Nat
    PROVE  \E g : EntriesFoldTo(g, 1 .. n, old, d, w, f)
<1> DEFINE Bad == {m \in Nat : ~ \E g : EntriesFoldTo(g, 1 .. m, old, d, w, f)}
<1>1. ASSUME Bad # {}
      PROVE  FALSE
  <2>1. PICK m \in Bad : \A k \in Bad : m <= k
    BY <1>1, LeastExists
  <2>2. m # 0
    <3> SUFFICES \E g : EntriesFoldTo(g, {}, old, d, w, f)
      BY <2>1
    <3> DEFINE g == [s \in SUBSET {} |-> w]
    <3>1. g = [s \in SUBSET {} |->
                  IF s = {} THEN w ELSE Winning(d, g[s \ {Max(s)}], <<f, old[Max(s)]>>)]
      OBVIOUS
    <3> HIDE DEF g
    <3> QED
      BY <3>1 DEF EntriesFoldTo
  <2>3. PICK k \in Nat : m = k + 1 /\ k \notin Bad
    <3>1. m - 1 \in Nat /\ m = (m - 1) + 1 /\ ~ (m <= m - 1)
      BY <2>1, <2>2
    <3> QED
      BY <2>1, <3>1
  <2>4. PICK g : EntriesFoldTo(g, 1 .. k, old, d, w, f)
    BY <2>3
  <2> DEFINE h == [s \in SUBSET (1 .. m) |->
                      IF m \in s THEN Winning(d, g[s \ {m}], <<f, old[m]>>) ELSE g[s]]
  <2>5. \A s \in SUBSET (1 .. m) :
            h[s] = IF s = {} THEN w ELSE Winning(d, h[s \ {Max(s)}], <<f, old[Max(s)]>>)
    <3> SUFFICES ASSUME NEW s \in SUBSET (1 .. m)
                 PROVE  h[s] = IF s = {} THEN w
                               ELSE Winning(d, h[s \ {Max(s)}], <<f, old[Max(s)]>>)
      OBVIOUS
    <3>1. CASE m \in s
      <4>1. Max(s) = m
        BY <2>3, <3>1, LastIsMax
      <4>2. h[s \ {m}] = g[s \ {m}]
        OBVIOUS
      <4> QED
        BY <3>1, <4>1, <4>2
    <3>2. CASE m \notin s
      <4>1. s \in SUBSET (1 .. k)
        BY <2>3, <3>2
      <4>2. h[s] = g[s] /\ h[s \ {Max(s)}] = g[s \ {Max(s)}]
        BY <3>2
      <4> QED
        BY <2>4, <4>1, <4>2 DEF EntriesFoldTo
    <3> QED
      BY <3>1, <3>2
  <2>6. EntriesFoldTo(h, 1 .. m, old, d, w, f)
    <3>1. h = [s \in SUBSET (1 .. m) |-> h[s]]
      OBVIOUS
    <3> HIDE DEF h
    <3> QED
      BY <2>5, <3>1 DEF EntriesFoldTo
  <2> QED
    BY <2>1, <2>6
<1> QED
  BY <1>1

\* The step from one entry to the next.
LEMMA EntriesFoldStep ==
    ASSUME NEW old \in Seq(Nat), NEW d, NEW w, NEW f
    PROVE  /\ EntriesFold(old, d, w, f) = EntriesFolded(old, d, w, f)[1 .. Len(old)]
           /\ EntriesFolded(old, d, w, f)[{}] = w
           /\ \A k \in Nat : k + 1 <= Len(old) =>
                  EntriesFolded(old, d, w, f)[1 .. k + 1] =
                      Winning(d, EntriesFolded(old, d, w, f)[1 .. k], <<f, old[k + 1]>>)
<1> DEFINE it == EntriesFolded(old, d, w, f)
<1>1. DOMAIN old = 1 .. Len(old) /\ Len(old) \in Nat
  OBVIOUS
<1>2. EntriesFold(old, d, w, f) = it[DOMAIN old]
  BY DEF EntriesFold, EntriesFolded, FoldLeft, MapThenFoldSet
<1>3. EntriesFoldTo(it, DOMAIN old, old, d, w, f)
  <2>1. \E g : EntriesFoldTo(g, DOMAIN old, old, d, w, f)
    BY <1>1, EntriesFoldExists
  <2>2. EntriesFolded(old, d, w, f) = CHOOSE g : EntriesFoldTo(g, DOMAIN old, old, d, w, f)
    BY Zenon DEF EntriesFolded, EntriesFoldTo
  <2> HIDE DEF it
  <2>3. EntriesFoldTo(EntriesFolded(old, d, w, f), DOMAIN old, old, d, w, f)
    BY <2>1, <2>2, Zenon
  <2> QED
    BY <2>3 DEF it
<1> HIDE DEF it
<1>4. it[{}] = w
  BY <1>3 DEF EntriesFoldTo
<1>5. ASSUME NEW k \in Nat, k + 1 <= Len(old)
      PROVE  it[1 .. k + 1] = Winning(d, it[1 .. k], <<f, old[k + 1]>>)
  <2>1. 1 .. k + 1 \in SUBSET DOMAIN old /\ 1 .. k + 1 # {} /\ k + 1 \in 1 .. k + 1
    <3>1. k + 1 \in 1 .. k + 1
      BY <1>5
    <3>2. \A i \in 1 .. k + 1 : i \in 1 .. Len(old)
      BY <1>1, <1>5
    <3> QED
      BY <1>1, <3>1, <3>2
  <2>2. Max(1 .. k + 1) = k + 1
    BY <2>1, LastIsMax
  <2>3. (1 .. k + 1) \ {k + 1} = 1 .. k
    OBVIOUS
  <2>4. it[1 .. k + 1] = Winning(d, it[(1 .. k + 1) \ {Max(1 .. k + 1)}], <<f,
            old[Max(1 .. k + 1)]>>)
    BY <1>3, <2>1 DEF EntriesFoldTo
  <2> QED
    BY <2>2, <2>3, <2>4
<1> QED
  BY <1>1, <1>2, <1>4, <1>5 DEF it

\* The walk over the files.
FilesFoldTo(g, S, old, d) ==
    g = [s \in SUBSET S |->
             IF s = {} THEN <<>> ELSE WinnersOfFile(d, g[s \ {Max(s)}], old[Max(s)])]
FilesFold(old, d) ==
    FoldLeft(LAMBDA winners, f : WinnersOfFile(d, winners, f), <<>>, old)
FilesFolded(old, d) ==
    CHOOSE g : g = [s \in SUBSET DOMAIN old |->
                       IF s = {} THEN <<>> ELSE WinnersOfFile(d, g[s \ {Max(s)}], old[Max(s)])]

\* It exists for every first part of the files.
LEMMA FilesFoldExists ==
    ASSUME NEW old, NEW d, NEW n \in Nat
    PROVE  \E g : FilesFoldTo(g, 1 .. n, old, d)
<1> DEFINE Bad == {m \in Nat : ~ \E g : FilesFoldTo(g, 1 .. m, old, d)}
<1>1. ASSUME Bad # {}
      PROVE  FALSE
  <2>1. PICK m \in Bad : \A k \in Bad : m <= k
    BY <1>1, LeastExists
  <2>2. m # 0
    <3> SUFFICES \E g : FilesFoldTo(g, {}, old, d)
      BY <2>1
    <3> DEFINE g == [s \in SUBSET {} |-> <<>>]
    <3>1. g = [s \in SUBSET {} |->
                  IF s = {} THEN <<>> ELSE WinnersOfFile(d, g[s \ {Max(s)}], old[Max(s)])]
      OBVIOUS
    <3> HIDE DEF g
    <3> QED
      BY <3>1 DEF FilesFoldTo
  <2>3. PICK k \in Nat : m = k + 1 /\ k \notin Bad
    <3>1. m - 1 \in Nat /\ m = (m - 1) + 1 /\ ~ (m <= m - 1)
      BY <2>1, <2>2
    <3> QED
      BY <2>1, <3>1
  <2>4. PICK g : FilesFoldTo(g, 1 .. k, old, d)
    BY <2>3
  <2> DEFINE h == [s \in SUBSET (1 .. m) |->
                      IF m \in s THEN WinnersOfFile(d, g[s \ {m}], old[m]) ELSE g[s]]
  <2>5. \A s \in SUBSET (1 .. m) :
            h[s] = IF s = {} THEN <<>> ELSE WinnersOfFile(d, h[s \ {Max(s)}], old[Max(s)])
    <3> SUFFICES ASSUME NEW s \in SUBSET (1 .. m)
                 PROVE  h[s] = IF s = {} THEN <<>>
                               ELSE WinnersOfFile(d, h[s \ {Max(s)}], old[Max(s)])
      OBVIOUS
    <3>1. CASE m \in s
      <4>1. Max(s) = m
        BY <2>3, <3>1, LastIsMax
      <4>2. h[s \ {m}] = g[s \ {m}]
        OBVIOUS
      <4> QED
        BY <3>1, <4>1, <4>2
    <3>2. CASE m \notin s
      <4>1. s \in SUBSET (1 .. k)
        BY <2>3, <3>2
      <4>2. h[s] = g[s] /\ h[s \ {Max(s)}] = g[s \ {Max(s)}]
        BY <3>2
      <4> QED
        BY <2>4, <4>1, <4>2 DEF FilesFoldTo
    <3> QED
      BY <3>1, <3>2
  <2>6. FilesFoldTo(h, 1 .. m, old, d)
    <3>1. h = [s \in SUBSET (1 .. m) |-> h[s]]
      OBVIOUS
    <3> HIDE DEF h
    <3> QED
      BY <2>5, <3>1 DEF FilesFoldTo
  <2> QED
    BY <2>1, <2>6
<1> QED
  BY <1>1

\* The step from one file to the next.
LEMMA FilesFoldStep ==
    ASSUME NEW old \in Seq(Files), NEW d
    PROVE  /\ FilesFold(old, d) = FilesFolded(old, d)[1 .. Len(old)]
           /\ FilesFolded(old, d)[{}] = <<>>
           /\ \A k \in Nat : k + 1 <= Len(old) =>
                  FilesFolded(old, d)[1 .. k + 1] =
                      WinnersOfFile(d, FilesFolded(old, d)[1 .. k], old[k + 1])
<1> DEFINE it == FilesFolded(old, d)
<1>1. DOMAIN old = 1 .. Len(old) /\ Len(old) \in Nat
  OBVIOUS
<1>2. FilesFold(old, d) = it[DOMAIN old]
  BY DEF FilesFold, FilesFolded, FoldLeft, MapThenFoldSet
<1>3. FilesFoldTo(it, DOMAIN old, old, d)
  <2>1. \E g : FilesFoldTo(g, DOMAIN old, old, d)
    BY <1>1, FilesFoldExists
  <2>2. FilesFolded(old, d) = CHOOSE g : FilesFoldTo(g, DOMAIN old, old, d)
    BY Zenon DEF FilesFolded, FilesFoldTo
  <2> HIDE DEF it
  <2>3. FilesFoldTo(FilesFolded(old, d), DOMAIN old, old, d)
    BY <2>1, <2>2, Zenon
  <2> QED
    BY <2>3 DEF it
<1> HIDE DEF it
<1>4. it[{}] = <<>>
  BY <1>3 DEF FilesFoldTo
<1>5. ASSUME NEW k \in Nat, k + 1 <= Len(old)
      PROVE  it[1 .. k + 1] = WinnersOfFile(d, it[1 .. k], old[k + 1])
  <2>1. 1 .. k + 1 \in SUBSET DOMAIN old /\ 1 .. k + 1 # {} /\ k + 1 \in 1 .. k + 1
    <3>1. k + 1 \in 1 .. k + 1
      BY <1>5
    <3>2. \A i \in 1 .. k + 1 : i \in 1 .. Len(old)
      BY <1>1, <1>5
    <3> QED
      BY <1>1, <3>1, <3>2
  <2>2. Max(1 .. k + 1) = k + 1
    BY <2>1, LastIsMax
  <2>3. (1 .. k + 1) \ {k + 1} = 1 .. k
    OBVIOUS
  <2>4. it[1 .. k + 1] = WinnersOfFile(d, it[(1 .. k + 1) \ {Max(1 .. k + 1)}],
            old[Max(1 .. k + 1)])
    BY <1>3, <2>1 DEF FilesFoldTo
  <2> QED
    BY <2>2, <2>3, <2>4
<1> QED
  BY <1>1, <1>2, <1>4, <1>5 DEF it

-----------------------------------------------------------------------------
(* One walk over the sorted files finds the winners of all of them *)

\* The entries of a file up to one of them.
Walked(d, f, n) == {p \in {<<f, k>> : k \in 1 .. n} : EntryAt(d, p).magic = "MENU"}

LEMMA FileKeeps ==
    ASSUME NEW d, IsDir(d), NEW f \in Present(d), NEW P, NEW w, AreWinners(d, w, P),
           \A q \in P : \A k \in Nat : IsEarlier(q, <<f, k>>)
    PROVE  AreWinners(d, WinnersOfFile(d, w, f), P \cup Walked(d, f, WalkedUpTo(d[f])))
<1> DEFINE N == WalkedUpTo(d[f])
           old == [k \in 1 .. N |-> k]
           it == EntriesFolded(old, d, w, f)
<1>1. N \in Nat /\ f \in Nat /\ PriorityOf[f] \in Nat
  <2>1. d[f] \in Seq(Entries) /\ f \in Files
    BY DEF Present, IsDir
  <2>2. N \in 0 .. Len(d[f])
    BY <2>1, WalkIsInStack
  <2>3. Len(d[f]) \in Nat
    BY <2>1
  <2> HIDE DEF N
  <2> QED
    BY <2>1, <2>2, <2>3, FilesAreNumbered
<1>2. WinnersOfFile(d, w, f) = EntriesFold(old, d, w, f)
  BY DEF WinnersOfFile, EntriesFold
<1> HIDE DEF N
<1>3. old \in Seq(Nat) /\ Len(old) = N /\ \A k \in 1 .. N : old[k] = k
  BY <1>1
<1> HIDE DEF old
<1>4. /\ WinnersOfFile(d, w, f) = it[1 .. N] /\ it[{}] = w
      /\ \A k \in Nat : k + 1 <= N => it[1 .. k + 1] = Winning(d, it[1 .. k], <<f, k + 1>>)
  <2>1. /\ EntriesFold(old, d, w, f) = it[1 .. Len(old)]
        /\ it[{}] = w
        /\ \A k \in Nat : k + 1 <= Len(old) =>
               it[1 .. k + 1] = Winning(d, it[1 .. k], <<f, old[k + 1]>>)
    BY <1>3, EntriesFoldStep
  <2> HIDE DEF it
  <2>2. ASSUME NEW k \in Nat, k + 1 <= N
        PROVE  it[1 .. k + 1] = Winning(d, it[1 .. k], <<f, k + 1>>)
    <3>1. old[k + 1] = k + 1
      BY <1>1, <1>3, <2>2
    <3> QED
      BY <1>3, <2>1, <2>2, <3>1
  <2> QED
    BY <1>2, <1>3, <2>1, <2>2
<1> HIDE DEF it
<1> DEFINE Good(k) == AreWinners(d, it[1 .. k], P \cup Walked(d, f, k))
           Bad == {k \in 0 .. N : ~Good(k)}
<1>5. Bad = {}
  <2> SUFFICES ASSUME Bad # {}
               PROVE  FALSE
    OBVIOUS
  <2>1. Bad \in SUBSET Nat
    BY <1>1
  <2>2. PICK m \in Bad : \A k \in Bad : m <= k
    BY <2>1, LeastExists
  <2>3. CASE m = 0
    <3>1. 1 .. 0 = {} /\ Walked(d, f, 0) = {} /\ P \cup {} = P
      BY DEF Walked
    <3>2. AreWinners(d, it[1 .. m], P \cup Walked(d, f, m))
      BY <1>4, <2>3, <3>1
    <3> QED
      BY <2>2, <3>2
  <2>4. CASE m # 0
    <3>1. PICK k \in Nat : m = k + 1 /\ k \in 0 .. N /\ k + 1 <= N
      <4>1. m - 1 \in Nat /\ m = (m - 1) + 1 /\ m - 1 \in 0 .. N /\ m <= N
        BY <1>1, <2>2, <2>4
      <4> QED
        BY <4>1
    <3> DEFINE Q == P \cup Walked(d, f, k)
               p == <<f, k + 1>>
    <3>2. Good(k)
      <4> HIDE DEF Good
      <4> QED
        BY <2>2, <3>1
    <3>3. \A q \in Q : IsEarlier(q, p)
      <4>1. \A q \in Walked(d, f, k) : IsEarlier(q, p)
        BY <1>1, <3>1 DEF Walked, IsEarlier
      <4> QED
        BY <3>1, <4>1
    <3>4. it[1 .. m] = Winning(d, it[1 .. k], p)
      BY <1>4, <3>1
    <3>5. Q \cup {x \in {p} : EntryAt(d, x).magic = "MENU"} = P \cup Walked(d, f, m)
      <4>1. 1 .. m = (1 .. k) \cup {k + 1}
        BY <3>1
      <4>2. {<<f, i>> : i \in 1 .. m} = {<<f, i>> : i \in 1 .. k} \cup {p}
        BY <4>1
      <4> QED
        BY <4>2 DEF Walked
    <3>6. AreWinners(d, it[1 .. m], P \cup Walked(d, f, m))
      <4>1. AreWinners(d, it[1 .. k], Q)
        BY <3>2
      <4> HIDE DEF Q, p, Good
      <4>2. AreWinners(d, Winning(d, it[1 .. k], p),
                       Q \cup {x \in {p} : EntryAt(d, x).magic = "MENU"})
        BY <3>3, <4>1, WinningKeeps
      <4> QED
        BY <3>4, <3>5, <4>2
    <3> QED
      BY <2>2, <3>6
  <2> QED
    BY <2>3, <2>4
<1>6. Good(N)
  <2> HIDE DEF Good
  <2> QED
    BY <1>1, <1>5
<1> QED
  BY <1>4, <1>6 DEF N

\* What ManageBuildList lists are the winners of the directory.
LEMMA WinnersWin ==
    ASSUME NEW d, IsDir(d)
    PROVE  AreWinners(d, Winners(d), Seen(d, Present(d)))
<1> DEFINE s == SortedFiles(d)
           n == Cardinality(Present(d))
           it == FilesFolded(s, d)
           Upto(k) == UNION {Walked(d, s[i], WalkedUpTo(d[s[i]])) : i \in 1 .. k}
<1>1. /\ n \in Nat /\ s \in [1 .. n -> Present(d)] /\ s \in Seq(Files) /\ Len(s) = n
      /\ \A i, j \in 1 .. n : i < j => ComesBefore(s[i], s[j])
      /\ \A f \in Present(d) : \E i \in 1 .. n : s[i] = f
  BY FilesAreSorted
<1>2. Winners(d) = FilesFold(s, d)
  BY DEF Winners, FilesFold
<1> HIDE DEF s
<1>3. /\ Winners(d) = it[1 .. n] /\ it[{}] = <<>>
      /\ \A k \in Nat : k + 1 <= n => it[1 .. k + 1] = WinnersOfFile(d, it[1 .. k], s[k + 1])
  BY <1>1, <1>2, FilesFoldStep
<1> HIDE DEF it
<1> DEFINE Good(k) == AreWinners(d, it[1 .. k], Upto(k))
           Bad == {k \in 0 .. n : ~Good(k)}
<1>4. Bad = {}
  <2> SUFFICES ASSUME Bad # {}
               PROVE  FALSE
    OBVIOUS
  <2>1. Bad \in SUBSET Nat
    BY <1>1
  <2>2. PICK m \in Bad : \A k \in Bad : m <= k
    BY <2>1, LeastExists
  <2>3. CASE m = 0
    <3>1. 1 .. 0 = {} /\ Upto(0) = {}
      OBVIOUS
    <3>2. AreWinners(d, <<>>, {})
      BY MaxPluginsAssumption DEF AreWinners
    <3>3. AreWinners(d, it[1 .. m], Upto(m))
      BY <1>3, <2>3, <3>1, <3>2
    <3> QED
      BY <2>2, <3>3
  <2>4. CASE m # 0
    <3>1. PICK k \in Nat : m = k + 1 /\ k \in 0 .. n /\ k + 1 <= n
      <4>1. m - 1 \in Nat /\ m = (m - 1) + 1 /\ m - 1 \in 0 .. n /\ m <= n
        BY <1>1, <2>2, <2>4
      <4> QED
        BY <4>1
    <3>2. Good(k)
      <4> HIDE DEF Good
      <4> QED
        BY <2>2, <3>1
    <3>3. k + 1 \in 1 .. n /\ s[k + 1] \in Present(d) /\ s[k + 1] \in Files
      BY <1>1, <3>1 DEF Present
    <3>4. \A q \in Upto(k) : \A j \in Nat : IsEarlier(q, <<s[k + 1], j>>)
      <4> SUFFICES ASSUME NEW i \in 1 .. k, NEW q \in Walked(d, s[i], WalkedUpTo(d[s[i]])),
                          NEW j \in Nat
                   PROVE  IsEarlier(q, <<s[k + 1], j>>)
        OBVIOUS
      <4>1. q[1] = s[i]
        BY DEF Walked
      <4>2. i \in 1 .. n /\ i < k + 1
        BY <1>1, <3>1
      <4>3. ComesBefore(s[i], s[k + 1])
        BY <1>1, <3>3, <4>2
      <4> QED
        BY <4>1, <4>3 DEF IsEarlier, ComesBefore
    <3>5. Upto(m) = Upto(k) \cup Walked(d, s[k + 1], WalkedUpTo(d[s[k + 1]]))
      <4>1. 1 .. m = (1 .. k) \cup {k + 1}
        BY <3>1
      <4> QED
        BY <4>1
    <3>6. AreWinners(d, it[1 .. m], Upto(m))
      <4>1. it[1 .. m] = WinnersOfFile(d, it[1 .. k], s[k + 1])
        BY <1>3, <3>1
      <4> HIDE DEF Upto
      <4>2. AreWinners(d, WinnersOfFile(d, it[1 .. k], s[k + 1]),
                       Upto(k) \cup Walked(d, s[k + 1], WalkedUpTo(d[s[k + 1]])))
        BY <3>2, <3>3, <3>4, FileKeeps
      <4> QED
        BY <3>5, <4>1, <4>2
    <3> QED
      BY <2>2, <3>6
  <2> QED
    BY <2>3, <2>4
<1>5. Upto(n) = Seen(d, Present(d))
  <2>1. \A f \in Present(d) : \E i \in 1 .. n : s[i] = f
    BY <1>1
  <2>2. \A i \in 1 .. n : s[i] \in Present(d)
    BY <1>1
  <2> QED
    BY <2>1, <2>2 DEF Walked, Seen
<1>6. Good(n)
  <2> HIDE DEF Good
  <2> QED
    BY <1>1, <1>4
<1> QED
  BY <1>3, <1>5, <1>6

-----------------------------------------------------------------------------
(* The two scans agree *)

\* A scan sees places in files it has read, with entries of the files.
LEMMA SeenArePlaces ==
    ASSUME NEW d, NEW read \in SUBSET Files, NEW p \in Seen(d, read)
    PROVE  /\ p = <<p[1], p[2]>> /\ p[1] \in read /\ p[1] \in Nat /\ p[2] \in Nat \ {0}
           /\ PriorityOf[p[1]] \in Nat /\ p \in Places
           /\ p[2] \in 1 .. WalkedUpTo(d[p[1]]) /\ EntryAt(d, p).magic = "MENU"
<1>1. PICK f \in read : \E k \in 1 .. WalkedUpTo(d[f]) : p = <<f, k>>
  BY DEF Seen
<1>2. EntryAt(d, p).magic = "MENU"
  BY DEF Seen
<1> QED
  BY <1>1, <1>2, FilesAreNumbered DEF Places

\* The first pass returns the earliest entry of the id, if it saw one.
LEMMA BestIsEarliest ==
    ASSUME NEW d, NEW read \in SUBSET Files, NEW id
    PROVE  LET chosen == Best(d, read, id) IN
           /\ chosen = None => \A p \in Seen(d, read) : IdAt(d, p) # id
           /\ chosen # None =>
                  /\ chosen \in Seen(d, read) /\ IdAt(d, chosen) = id
                  /\ \A q \in Seen(d, read) : IdAt(d, q) = id =>
                         q = chosen \/ IsEarlier(chosen, q)
<1> DEFINE own == {p \in Seen(d, read) : EntryAt(d, p).id = id}
<1>1. CASE own = {}
  <2>1. Best(d, read, id) = None
    BY <1>1 DEF Best
  <2> QED
    BY <1>1, <2>1 DEF IdAt
<1>2. CASE own # {}
  <2>1. \A p \in own : p[1] \in Nat /\ p[2] \in Nat /\ PriorityOf[p[1]] \in Nat
                       /\ p = <<p[1], p[2]>> /\ p \in Places
    BY SeenArePlaces
  <2>2. Best(d, read, id) = CHOOSE p \in own : \A q \in own \ {p} : IsEarlier(p, q)
    BY <1>2 DEF Best
  <2>3. \A p \in own : p \in Seen(d, read) /\ IdAt(d, p) = id
    BY DEF IdAt
  <2>4. \A p \in Seen(d, read) : IdAt(d, p) = id => p \in own
    BY DEF IdAt
  <2> HIDE DEF own
  <2>5. PICK p1 \in own : \A q \in own : PriorityOf[p1[1]] <= PriorityOf[q[1]]
    <3> DEFINE T == {PriorityOf[p[1]] : p \in own}
    <3>1. T \in SUBSET Nat /\ T # {}
      BY <1>2, <2>1
    <3>2. PICK m \in T : \A n \in T : m <= n
      BY <3>1, LeastExists
    <3> QED
      BY <3>2
  <2> DEFINE own2 == {p \in own : PriorityOf[p[1]] = PriorityOf[p1[1]]}
  <2>6. PICK p2 \in own2 : \A q \in own2 : p2[1] <= q[1]
    <3> DEFINE T == {p[1] : p \in own2}
    <3>1. T \in SUBSET Nat /\ T # {}
      BY <2>1, <2>5
    <3>2. PICK m \in T : \A n \in T : m <= n
      BY <3>1, LeastExists
    <3> QED
      BY <3>2
  <2> DEFINE own3 == {p \in own2 : p[1] = p2[1]}
  <2>7. PICK p3 \in own3 : \A q \in own3 : p3[2] <= q[2]
    <3> DEFINE T == {p[2] : p \in own3}
    <3>1. T \in SUBSET Nat /\ T # {}
      BY <2>1, <2>6
    <3>2. PICK m \in T : \A n \in T : m <= n
      BY <3>1, LeastExists
    <3> QED
      BY <3>2
  <2>8. \A q \in own \ {p3} : IsEarlier(p3, q)
    <3> SUFFICES ASSUME NEW q \in own \ {p3}
                 PROVE  IsEarlier(p3, q)
      OBVIOUS
    <3>1. PriorityOf[p3[1]] = PriorityOf[p1[1]] /\ p3[1] = p2[1] /\ p3 \in own
      BY <2>7
    <3>2. CASE q \notin own2
      BY <2>1, <2>5, <3>1, <3>2 DEF IsEarlier
    <3>3. CASE q \in own2 /\ q \notin own3
      BY <2>1, <2>6, <3>1, <3>3 DEF IsEarlier
    <3>4. CASE q \in own3
      BY <2>1, <2>7, <3>1, <3>4 DEF IsEarlier
    <3> QED
      BY <3>2, <3>3, <3>4
  <2>9. p3 \in own
    BY <2>7
  <2> DEFINE chosen == Best(d, read, id)
  <2>10. chosen \in own /\ \A q \in own \ {chosen} : IsEarlier(chosen, q)
    BY <2>2, <2>8, <2>9
  <2>11. chosen # None
    BY <2>1, <2>10, NoneIsNothing
  <2> HIDE DEF chosen
  <2>12. \A q \in Seen(d, read) : IdAt(d, q) = id => q = chosen \/ IsEarlier(chosen, q)
    BY <2>4, <2>10
  <2> QED
    BY <2>3, <2>10, <2>11, <2>12 DEF chosen
<1> QED
  BY <1>1, <1>2

\* The order of the places is strict.
LEMMA EarlierIsStrict ==
    ASSUME NEW p \in Places, NEW q \in Places, IsEarlier(p, q)
    PROVE  ~IsEarlier(q, p) /\ p # q
<1>1. /\ p[1] \in Nat /\ p[2] \in Nat /\ PriorityOf[p[1]] \in Nat
      /\ q[1] \in Nat /\ q[2] \in Nat /\ PriorityOf[q[1]] \in Nat
  BY FilesAreNumbered DEF Places
<1>2. ~IsEarlier(q, p)
  BY <1>1 DEF IsEarlier
<1> QED
  BY <1>2

LEMMA CountTo ==
    ASSUME NEW n \in Nat
    PROVE  IsFiniteSet(1 .. n) /\ Cardinality(1 .. n) = n
BY FS_Interval

\* The images of numbers are no more than the numbers.
LEMMA FewImages ==
    ASSUME NEW S, IsFiniteSet(S), NEW T, NEW g \in [S -> T], \A y \in T : \E x \in S : g[x] = y
    PROVE  IsFiniteSet(T) /\ Cardinality(T) <= Cardinality(S)
<1>1. g \in Surjection(S, T)
  BY DEF Surjection
<1> QED
  BY <1>1, FS_Surjection

\* The ids that come before an entry's are finitely many.
Rivals(d, read, id, chosen) ==
    {EntryAt(d, p).id : p \in {q \in Seen(d, read) : IsEarlier(q, chosen)}} \ {id}

LEMMA RivalsAreIds ==
    ASSUME NEW d, IsDir(d), NEW id, NEW chosen
    PROVE  LET R == Rivals(d, Present(d), id, chosen) IN
           R \subseteq Ids /\ IsFiniteSet(R) /\ Cardinality(R) \in Nat
<1>1. Present(d) \in SUBSET Files
  BY DEF Present
<1>2. ASSUME NEW p \in Seen(d, Present(d))
      PROVE  EntryAt(d, p).id \in Ids
  <2>1. p[1] \in Present(d) /\ p[2] \in 1 .. WalkedUpTo(d[p[1]])
    BY <1>1, SeenArePlaces
  <2>2. d[p[1]] \in Seq(Entries)
    BY <2>1 DEF IsDir, Present
  <2>3. WalkedUpTo(d[p[1]]) \in 0 .. Len(d[p[1]]) /\ Len(d[p[1]]) \in Nat
    BY <2>2, WalkIsInStack
  <2>4. p[2] \in 1 .. Len(d[p[1]])
    BY <2>1, <2>3
  <2>5. EntryAt(d, p) \in Entries
    BY <2>2, <2>4 DEF EntryAt
  <2> QED
    BY <2>5 DEF Entries
<1>3. Rivals(d, Present(d), id, chosen) \in SUBSET Ids
  BY <1>2 DEF Rivals
<1> QED
  BY <1>3, IdsAreFinite, FS_Subset, FS_CardinalityType

\* OpenPluginFile's two passes find the entry that ManageBuildList lists, and
\* nothing if it lists none of the id.
THEOREM ScansAgree ==
    ASSUME NEW d, IsDir(d), NEW id
    PROVE  LET chosen == Best(d, Present(d), id) IN
           Loaded(d, id) = IF chosen # None /\ Selected(d, Present(d), id, chosen)
                             THEN chosen ELSE None
<1> DEFINE w == Winners(d)
           P == Seen(d, Present(d))
           chosen == Best(d, Present(d), id)
           own == {i \in DOMAIN w : EntryAt(d, w[i]).id = id}
           R == Rivals(d, Present(d), id, chosen)
<1>1. AreWinners(d, w, P)
  BY WinnersWin
<1>2. Present(d) \in SUBSET Files
  BY DEF Present
<1>3. P \subseteq Places
  BY <1>2, SeenArePlaces
<1>4. /\ chosen = None => \A p \in P : IdAt(d, p) # id
      /\ chosen # None =>
             /\ chosen \in P /\ IdAt(d, chosen) = id
             /\ \A q \in P : IdAt(d, q) = id => q = chosen \/ IsEarlier(chosen, q)
  BY <1>2, BestIsEarliest
<1>5. IsFiniteSet(R) /\ Cardinality(R) \in Nat
  BY RivalsAreIds
<1>6. Selected(d, Present(d), id, chosen) <=> Cardinality(R) < MaxPlugins
  BY DEF Selected, Rivals
<1>7. Loaded(d, id) = IF own = {} THEN None ELSE w[CHOOSE i \in own : TRUE]
  BY DEF Loaded
<1>8. R = {IdAt(d, p) : p \in {q \in P : IsEarlier(q, chosen)}} \ {id}
  BY DEF Rivals, IdAt
<1> HIDE DEF w, P, chosen, R
<1>9. /\ w \in Seq(P) /\ Len(w) \in Nat /\ DOMAIN w = 1 .. Len(w) /\ Len(w) <= MaxPlugins
      /\ \A i \in 1 .. Len(w) : w[i] \in P
      /\ MaxPlugins \in Nat
  BY <1>1, MaxPluginsAssumption DEF AreWinners
<1>10. own = {i \in 1 .. Len(w) : IdAt(d, w[i]) = id}
  BY <1>9 DEF IdAt
<1> HIDE DEF own
<1>11. CASE chosen = None
  <2>1. own = {}
    BY <1>4, <1>9, <1>10, <1>11
  <2> QED
    BY <1>7, <1>11, <2>1 DEF chosen
<1>12. CASE chosen # None /\ \E i \in 1 .. Len(w) : IdAt(d, w[i]) = id
  <2>1. PICK i \in 1 .. Len(w) : IdAt(d, w[i]) = id
    BY <1>12
  <2>2. w[i] = chosen
    <3>1. CASE \E j \in 1 .. Len(w) :
                   IdAt(d, w[j]) = IdAt(d, chosen) /\ (w[j] = chosen \/ IsEarlier(w[j], chosen))
      <4>1. PICK j \in 1 .. Len(w) :
                     IdAt(d, w[j]) = IdAt(d, chosen) /\ (w[j] = chosen \/ IsEarlier(w[j],
                         chosen))
        BY <3>1
      <4>2. i = j
        BY <1>1, <1>4, <1>12, <2>1, <4>1 DEF AreWinners
      <4>3. w[i] = chosen \/ IsEarlier(chosen, w[i])
        BY <1>4, <1>9, <1>12, <2>1
      <4> QED
        BY <1>3, <1>4, <1>9, <1>12, <4>1, <4>2, <4>3, EarlierIsStrict
    <3>2. CASE \A j \in 1 .. Len(w) : IsEarlier(w[j], chosen)
      <4>1. IsEarlier(w[i], chosen) /\ w[i] \in Places /\ chosen \in Places
        BY <1>3, <1>4, <1>9, <1>12, <3>2
      <4>2. w[i] = chosen \/ IsEarlier(chosen, w[i])
        BY <1>4, <1>9, <1>12, <2>1
      <4> QED
        BY <4>1, <4>2, EarlierIsStrict
    <3> QED
      BY <1>1, <1>4, <1>12, <3>1, <3>2 DEF AreWinners
  <2>3. own = {i}
    BY <1>1, <1>10, <2>1 DEF AreWinners
  <2>4. Loaded(d, id) = chosen
    BY <1>7, <2>2, <2>3
  <2>5. \A p \in P : IsEarlier(p, chosen) /\ IdAt(d, p) # id =>
            \E j \in (1 .. Len(w)) \ {i} : IdAt(d, w[j]) = IdAt(d, p)
    <3> SUFFICES ASSUME NEW p \in P, IsEarlier(p, chosen), IdAt(d, p) # id
                 PROVE  \E j \in (1 .. Len(w)) \ {i} : IdAt(d, w[j]) = IdAt(d, p)
      OBVIOUS
    <3>1. ~IsEarlier(w[i], p)
      BY <1>3, <1>4, <1>12, <2>2, EarlierIsStrict
    <3>2. \E j \in 1 .. Len(w) : IdAt(d, w[j]) = IdAt(d, p)
      BY <1>1, <3>1 DEF AreWinners
    <3> QED
      BY <2>1, <3>2
  <2>6. Cardinality(R) < MaxPlugins
    <3> DEFINE S == (1 .. Len(w)) \ {i}
               T == {IdAt(d, w[j]) : j \in S}
    <3>1. IsFiniteSet(S) /\ Cardinality(S) = Len(w) - 1
      <4>1. IsFiniteSet(1 .. Len(w)) /\ Cardinality(1 .. Len(w)) = Len(w)
        BY <1>9, CountTo
      <4> QED
        BY <4>1, FS_RemoveElement
    <3>2. IsFiniteSet(T) /\ Cardinality(T) <= Cardinality(S)
      <4> DEFINE g == [j \in S |-> IdAt(d, w[j])]
      <4>1. g \in [S -> T] /\ \A y \in T : \E x \in S : g[x] = y
        OBVIOUS
      <4> HIDE DEF g, S, T
      <4> QED
        BY <3>1, <4>1, FewImages
    <3>3. R \subseteq T
      BY <1>8, <2>5
    <3>4. Cardinality(R) <= Cardinality(T) /\ Cardinality(T) \in Nat
      BY <3>2, <3>3, FS_Subset, FS_CardinalityType
    <3> HIDE DEF S, T
    <3> QED
      BY <1>5, <1>9, <3>1, <3>2, <3>4
  <2> QED
    BY <1>6, <1>12, <2>4, <2>6 DEF chosen
<1>13. CASE chosen # None /\ \A i \in 1 .. Len(w) : IdAt(d, w[i]) # id
  <2>1. Loaded(d, id) = None
    BY <1>7, <1>10, <1>13
  <2>2. Len(w) = MaxPlugins /\ \A i \in 1 .. Len(w) : IsEarlier(w[i], chosen)
    BY <1>1, <1>4, <1>13 DEF AreWinners
  <2>3. Cardinality(R) >= MaxPlugins
    <3> DEFINE g == [i \in 1 .. Len(w) |-> IdAt(d, w[i])]
    <3>1. \A i \in 1 .. Len(w) : IdAt(d, w[i]) \in R
      BY <1>8, <1>9, <1>13, <2>2
    <3>2. g \in [1 .. Len(w) -> R]
      BY <3>1
    <3>3. \A i, j \in 1 .. Len(w) : g[i] = g[j] => i = j
      BY <1>1 DEF AreWinners
    <3> HIDE DEF g
    <3>4. g \in Injection(1 .. Len(w), R)
      BY <3>2, <3>3 DEF Injection, IsInjective
    <3>5. Cardinality(1 .. Len(w)) <= Cardinality(R)
      BY <1>5, <3>4, FS_Injection
    <3>6. Cardinality(1 .. Len(w)) = Len(w)
      BY <1>9, CountTo
    <3> QED
      BY <1>5, <1>9, <2>2, <3>5, <3>6
  <2> QED
    BY <1>5, <1>6, <1>9, <2>1, <2>3 DEF chosen
<1> QED
  BY <1>11, <1>12, <1>13

-----------------------------------------------------------------------------
\* Where a call has a lock, or looks for memory with it.
Finding(t, u) == pc[t] \in {"find", "take"} /\ use[t] = u
Scanning(t) == Finding(t, "scan") \/ pc[t] \in {"pass1", "pass2", "reopen", "scanFree",
    "scanUnlock"}
EditRuns(t) == Finding(t, "edit") \/ pc[t] \in {"parse", "writeTemp", "openTarget", "copy"}
Editing(t) == EditRuns(t) \/ pc[t] \in {"editFree", "editUnlock"}
Unpacking == Finding(Page, "unpack") \/ pc[Page] \in {"unpackLock", "unpack"}

\* The library is in memory.
HasImage == pc[Page] \in {"init", "run", "unload"} \/ back[Page] = "run"

Where == {"idle", "scanLock", "find", "take", "pass1", "pass2", "reopen", "scanFree",
          "scanUnlock", "editLock", "parse", "writeTemp", "openTarget", "copy", "editFree",
          "editUnlock"}
WhereOnPage == {"ensure", "unpackLock", "unpack", "unpackUnlock", "unpackFree", "ensured",
                "load", "init", "run", "unload", "loadFailed", "manageScan", "managing"}

-----------------------------------------------------------------------------
(* The invariant *)

\* Only the menu's thread is on the page; an edit knows where it returns to.
CallInv ==
    /\ pc \in [Threads -> Where \cup WhereOnPage] /\ back \in [Threads -> {"idle", "run"}]
    /\ entry \in [Threads -> Entries \cup {None}] /\ call \in [Threads -> Calls \cup {None}]
    /\ ok \in [Threads -> BOOLEAN]
    /\ \A t \in Plugins : pc[t] \in Where /\ use[t] \in {"scan", "edit"}
    /\ \A t \in Threads : pc[t] = "take" => found[t] \in 0 .. MemPages
    /\ \A t \in Threads :
           /\ back[t] = "run" => t = Page
           /\ Editing(t) \/ pc[t] = "editLock" =>
                  call[t] \in Calls /\ (t = Page <=> back[t] = "run")
           /\ back[t] = "run" => Editing(t) \/ pc[t] = "editLock"

LockInv ==
    \A t \in Threads :
        /\ Scanning(t) <=> pluginFileLock = t
        /\ Editing(t) \/ pc[t] \in {"unpack", "unpackUnlock"} <=> fetchLock = t

\* Every block of temporary memory has a call that will free it, but for the
\* page of a scan that has met the Manage page.
Accounted(x) ==
    /\ x.use \in {"unpack", "image", "manage"} => x.by = Page
    /\ x.use = "unpack" => pc[Page] \in {"unpackLock", "unpack", "unpackUnlock", "unpackFree"}
    /\ x.use = "image" => HasImage
    /\ x.use = "manage" => Managing
    /\ x.use = "edit" =>
           /\ x = fetchScratch /\ x.by = fetchLock
           /\ pc[x.by] \in {"parse", "writeTemp", "openTarget", "copy", "editFree"}
    /\ x.use = "scan" /\ ~shared =>
           /\ x = scanScratch /\ x.by = pluginFileLock
           /\ pc[x.by] \in {"pass1", "pass2", "reopen", "scanFree"}
BlockInv == \A x \in mem : Accounted(x)

\* The scratch of a scan and that of the Manage page are not there at once until
\* the two have met.
ScanScratchInv ==
    ~shared =>
        /\ Managing => ~PluginScans /\ scanScratch \in Mine(Page, "manage")
        /\ \A t \in Threads :
               pc[t] \in {"pass1", "pass2", "reopen"} => scanScratch \in Mine(t, "scan")
        /\ scanScratch # None =>
               Managing \/ \E t \in Threads : pc[t] \in {"pass1", "pass2", "reopen", "scanFree"}

\* The library that runs is the one loaded, of the MENU's API.
ImageInv ==
    /\ pc[Page] = "init" => Mine(Page, "image") # {}
    /\ pc[Page] = "run" \/ back[Page] = "run" =>
           openOnline \in Mine(Page, "image") /\ ApiOf[loading] = ApiOf[running]

\* The place a scan has chosen is one of the directory, and an entry that was
\* opened is of the thread's own id.
EntryInv ==
    /\ \A t \in Threads : pc[t] \in {"pass2", "reopen"} => best.place[1] \in Files
    /\ \A t \in Threads : entry[t] # None => entry[t].id = IdOf[t] /\ entry[t].magic = "MENU"
    /\ Unpacking \/ pc[Page] = "ensure" => entry[Page] # None

Done(list, c) ==
    IF c.kind = "add" THEN \E i \in DOMAIN list : list[i] = c.source
    ELSE \A i \in DOMAIN list : list[i].title # c.source.title

\* An edit works in its own scratch; the list it writes is as asked for.
EditInv ==
    /\ fetchScratch # None => fetchScratch.use = "edit"
    /\ \A t \in Threads :
        /\ pc[t] \in {"parse", "writeTemp", "openTarget", "copy"} =>
               fetchScratch \in Mine(t, "edit")
        /\ EditRuns(t) => ~ok[t]
        /\ pc[t] \in {"writeTemp", "openTarget", "copy"} =>
               edited \in Seq(Sources) /\ Len(edited) <= MaxSources /\ Done(edited, call[t])
        /\ pc[t] = "editFree" /\ ok[t] /\ ~blind => Done(sources, call[t])

OnlineInv ==
    /\ TypeOK /\ CallInv /\ LockInv /\ BlockInv /\ ScanScratchInv /\ ImageInv /\ EntryInv
    /\ EditInv

-----------------------------------------------------------------------------
(* What the operators of the model return *)

\* FindFreeRange returns a free range of the region.
LEMMA FirstFit ==
    ASSUME NEW fits \in SUBSET (0 .. MemPages), fits # {}
    PROVE  (CHOOSE b \in fits : \A c \in fits : b <= c) \in 0 .. MemPages
<1>1. fits \in SUBSET Nat
  BY SizesAssumption
<1>2. \E b \in fits : \A c \in fits : b <= c
  BY <1>1, LeastExists
<1> QED
  BY <1>2

\* The entry that is read again is of the id, and one of the file's.
LEMMA ReadAgain ==
    ASSUME NEW d \in [Files -> Stacks \cup {None}], NEW place, place[1] \in Files,
           NEW id, NEW version, StillThere(d, place, id, version)
    PROVE  /\ EntryAt(d, place) \in Entries
           /\ EntryAt(d, place).id = id /\ EntryAt(d, place).magic = "MENU"
<1>1. d[place[1]] \in Seq(Entries) /\ place[2] \in DOMAIN d[place[1]]
  BY StacksAssumption DEF StillThere
<1>2. EntryAt(d, place) \in Entries
  BY <1>1 DEF EntryAt
<1> QED
  BY <1>2 DEF StillThere

\* What a write leaves is a list that fits or none.
LEMMA DamagedIsList ==
    ASSUME edited \in Seq(Sources), Len(edited) <= MaxSources, NEW l \in Damaged
    PROVE  l = Unreadable \/ (l \in Seq(Sources) /\ Len(l) <= MaxSources)
<1>1. CASE l = Unreadable
  BY <1>1
<1>2. CASE l # Unreadable
  <2>1. PICK n \in 0 .. Len(edited) : l = SubSeq(edited, 1, n)
    BY <1>2 DEF Damaged
  <2>2. Len(edited) \in Nat /\ n \in Nat /\ n <= Len(edited)
    OBVIOUS
  <2>3. l \in Seq(Sources) /\ Len(l) = n
    BY <2>1, <2>2
  <2> QED
    BY <2>2, <2>3, SizesAssumption
<1> QED
  BY <1>1, <1>2

\* The list that NewList folds its step over, for each set of the old list's indices.
FoldsTo(g, S, old, c) ==
    g = [s \in SUBSET S |->
             IF s = {} THEN <<>> ELSE Replaced(g[s \ {Max(s)}], old[Max(s)], c)]
FoldOver(old, c) ==
    CHOOSE g : g = [s \in SUBSET DOMAIN old |->
                       IF s = {} THEN <<>> ELSE Replaced(g[s \ {Max(s)}], old[Max(s)], c)]

\* There is such a list for every prefix.
LEMMA FoldExists ==
    ASSUME NEW old, NEW c, NEW n \in Nat
    PROVE  \E g : FoldsTo(g, 1 .. n, old, c)
<1> DEFINE Bad == {m \in Nat : ~ \E g : FoldsTo(g, 1 .. m, old, c)}
<1>1. ASSUME Bad # {}
      PROVE  FALSE
  <2>1. PICK m \in Bad : \A k \in Bad : m <= k
    BY <1>1, LeastExists
  <2>2. m # 0
    <3> SUFFICES \E g : FoldsTo(g, {}, old, c)
      BY <2>1
    <3> DEFINE g == [s \in SUBSET {} |-> <<>>]
    <3>1. g = [s \in SUBSET {} |->
                  IF s = {} THEN <<>> ELSE Replaced(g[s \ {Max(s)}], old[Max(s)], c)]
      OBVIOUS
    <3> HIDE DEF g
    <3> QED
      BY <3>1 DEF FoldsTo
  <2>3. PICK k \in Nat : m = k + 1 /\ k \notin Bad
    <3>1. m - 1 \in Nat /\ m = (m - 1) + 1 /\ ~ (m <= m - 1)
      BY <2>1, <2>2
    <3> QED
      BY <2>1, <3>1
  <2>4. PICK g : FoldsTo(g, 1 .. k, old, c)
    BY <2>3
  <2> DEFINE h == [s \in SUBSET (1 .. m) |->
                      IF m \in s THEN Replaced(g[s \ {m}], old[m], c) ELSE g[s]]
  <2>5. \A s \in SUBSET (1 .. m) :
            h[s] = IF s = {} THEN <<>> ELSE Replaced(h[s \ {Max(s)}], old[Max(s)], c)
    <3> SUFFICES ASSUME NEW s \in SUBSET (1 .. m)
                 PROVE  h[s] = IF s = {} THEN <<>>
                               ELSE Replaced(h[s \ {Max(s)}], old[Max(s)], c)
      OBVIOUS
    <3>1. CASE m \in s
      <4>1. Max(s) = m
        BY <2>3, <3>1, LastIsMax
      <4>2. h[s \ {m}] = g[s \ {m}]
        OBVIOUS
      <4> QED
        BY <3>1, <4>1, <4>2
    <3>2. CASE m \notin s
      <4>1. s \in SUBSET (1 .. k)
        BY <2>3, <3>2
      <4>2. h[s] = g[s] /\ h[s \ {Max(s)}] = g[s \ {Max(s)}]
        BY <3>2
      <4> QED
        BY <2>4, <4>1, <4>2 DEF FoldsTo
    <3> QED
      BY <3>1, <3>2
  <2>6. FoldsTo(h, 1 .. m, old, c)
    <3>1. h = [s \in SUBSET (1 .. m) |-> h[s]]
      OBVIOUS
    <3> HIDE DEF h
    <3> QED
      BY <2>5, <3>1 DEF FoldsTo
  <2> QED
    BY <2>1, <2>6
<1> QED
  BY <1>1

\* The step from one prefix of the old list to the next.
LEMMA FoldStep ==
    ASSUME NEW old \in Seq(Sources), NEW c
    PROVE  /\ FoldLeft(LAMBDA acc, s : Replaced(acc, s, c), <<>>, old) =
                  FoldOver(old, c)[1 .. Len(old)]
           /\ FoldOver(old, c)[{}] = <<>>
           /\ \A k \in Nat : k + 1 <= Len(old) =>
                  FoldOver(old, c)[1 .. k + 1] =
                      Replaced(FoldOver(old, c)[1 .. k], old[k + 1], c)
<1> DEFINE it == FoldOver(old, c)
<1>1. DOMAIN old = 1 .. Len(old) /\ Len(old) \in Nat
  OBVIOUS
<1>2. FoldLeft(LAMBDA acc, s : Replaced(acc, s, c), <<>>, old) = it[DOMAIN old]
  BY DEF FoldOver, FoldLeft, MapThenFoldSet
<1>3. FoldsTo(it, DOMAIN old, old, c)
  <2>1. \E g : FoldsTo(g, DOMAIN old, old, c)
    BY <1>1, FoldExists
  <2>2. FoldOver(old, c) = CHOOSE g : FoldsTo(g, DOMAIN old, old, c)
    BY Zenon DEF FoldOver, FoldsTo
  <2> HIDE DEF it
  <2>3. FoldsTo(FoldOver(old, c), DOMAIN old, old, c)
    BY <2>1, <2>2, Zenon
  <2> QED
    BY <2>3 DEF it
<1> HIDE DEF it
<1>4. it[{}] = <<>>
  BY <1>3 DEF FoldsTo
<1>5. ASSUME NEW k \in Nat, k + 1 <= Len(old)
      PROVE  it[1 .. k + 1] = Replaced(it[1 .. k], old[k + 1], c)
  <2>1. 1 .. k + 1 \in SUBSET DOMAIN old /\ 1 .. k + 1 # {} /\ k + 1 \in 1 .. k + 1
    <3>1. k + 1 \in 1 .. k + 1
      BY <1>5
    <3>2. \A i \in 1 .. k + 1 : i \in 1 .. Len(old)
      BY <1>1, <1>5
    <3> QED
      BY <1>1, <3>1, <3>2
  <2>2. Max(1 .. k + 1) = k + 1
    BY <2>1, LastIsMax
  <2>3. (1 .. k + 1) \ {k + 1} = 1 .. k
    OBVIOUS
  <2>4. it[1 .. k + 1] = Replaced(it[(1 .. k + 1) \ {Max(1 .. k + 1)}], old[Max(1 .. k + 1)], c)
    BY <1>3, <2>1 DEF FoldsTo
  <2> QED
    BY <2>2, <2>3, <2>4
<1> QED
  BY <1>1, <1>2, <1>4, <1>5 DEF it

\* What the new list has of the first k entries of the old one.
PrefixDone(l, old, c, k) ==
    /\ l \in Seq(Sources)
    /\ c.kind = "add" /\ (\E i \in 1 .. k : Matches(old[i], c)) =>
           \E j \in 1 .. Len(l) : l[j] = c.source
    /\ c.kind # "add" => \A j \in 1 .. Len(l) : l[j].title # c.source.title

LEMMA ReplacedKeeps ==
    ASSUME NEW old \in Seq(Sources), NEW c \in Calls, NEW k \in Nat, k + 1 <= Len(old),
           NEW l, PrefixDone(l, old, c, k)
    PROVE  PrefixDone(Replaced(l, old[k + 1], c), old, c, k + 1)
<1>1. /\ old[k + 1] \in Sources /\ c.source \in Sources /\ l \in Seq(Sources)
      /\ c.kind \in {"add", "remove"} /\ Len(l) \in Nat /\ DOMAIN l = 1 .. Len(l)
  BY CallsAreEdits DEF PrefixDone
<1>2. \A s \in Sources :
          /\ Append(l, s) \in Seq(Sources) /\ Len(Append(l, s)) = Len(l) + 1
          /\ Append(l, s)[Len(l) + 1] = s
          /\ \A j \in 1 .. Len(l) : Append(l, s)[j] = l[j]
  BY <1>1
<1> DEFINE new == Replaced(l, old[k + 1], c)
<1>3. \/ new = Append(l, old[k + 1]) /\ ~Matches(old[k + 1], c)
      \/ new = Append(l, c.source) /\ c.kind = "add"
      \/ new = l /\ c.kind = "add" /\ \E j \in 1 .. Len(l) : l[j] = c.source
      \/ new = l /\ c.kind # "add"
  BY <1>1 DEF Replaced
<1> SUFFICES PrefixDone(new, old, c, k + 1)
  OBVIOUS
<1> HIDE DEF new
<1>4. new \in Seq(Sources)
  BY <1>1, <1>2, <1>3
<1>5. CASE c.kind = "add"
  <2>1. CASE new = Append(l, old[k + 1]) /\ ~Matches(old[k + 1], c)
    <3>1. ASSUME \E i \in 1 .. k + 1 : Matches(old[i], c)
          PROVE  \E j \in 1 .. Len(new) : new[j] = c.source
      <4>1. \E i \in 1 .. k : Matches(old[i], c)
        BY <2>1, <3>1
      <4>2. PICK j \in 1 .. Len(l) : l[j] = c.source
        BY <1>5, <4>1 DEF PrefixDone
      <4> QED
        BY <1>1, <1>2, <2>1, <4>2
    <3> QED
      BY <1>4, <1>5, <3>1 DEF PrefixDone
  <2>2. CASE new = Append(l, c.source)
    <3>1. Len(new) = Len(l) + 1 /\ new[Len(l) + 1] = c.source
      BY <1>1, <1>2, <2>2
    <3> QED
      BY <1>1, <1>4, <1>5, <3>1 DEF PrefixDone
  <2>3. CASE new = l /\ \E j \in 1 .. Len(l) : l[j] = c.source
    BY <1>4, <1>5, <2>3 DEF PrefixDone
  <2> QED
    BY <1>3, <1>5, <2>1, <2>2, <2>3
<1>6. CASE c.kind # "add"
  <2>1. \A j \in 1 .. Len(l) : l[j].title # c.source.title
    BY <1>6 DEF PrefixDone
  <2>2. CASE new = Append(l, old[k + 1]) /\ ~Matches(old[k + 1], c)
    <3>1. old[k + 1].title # c.source.title
      BY <1>6, <2>2 DEF Matches
    <3>2. \A j \in 1 .. Len(new) : new[j].title # c.source.title
      BY <1>1, <1>2, <2>1, <2>2, <3>1
    <3> QED
      BY <1>4, <1>6, <3>2 DEF PrefixDone
  <2>3. CASE new = l
    BY <1>4, <1>6, <2>1, <2>3 DEF PrefixDone
  <2> QED
    BY <1>3, <1>6, <2>2, <2>3
<1> QED
  BY <1>5, <1>6

\* The list that is written has what was asked for.
LEMMA NewListIsDone ==
    ASSUME NEW old \in Seq(Sources), NEW c \in Calls
    PROVE  NewList(old, c) \in Seq(Sources) /\ Done(NewList(old, c), c)
<1> DEFINE it == FoldOver(old, c)
           kept == FoldLeft(LAMBDA acc, s : Replaced(acc, s, c), <<>>, old)
<1>1. /\ kept = it[1 .. Len(old)] /\ it[{}] = <<>>
      /\ \A k \in Nat : k + 1 <= Len(old) => it[1 .. k + 1] = Replaced(it[1 .. k], old[k + 1], c)
  BY FoldStep
<1>2. /\ Len(old) \in Nat /\ DOMAIN old = 1 .. Len(old) /\ c.source \in Sources
      /\ c.kind \in {"add", "remove"}
  BY CallsAreEdits
<1>3. NewList(old, c) = IF c.kind = "add" /\ \A i \in DOMAIN old : ~Matches(old[i], c)
                          THEN Append(kept, c.source) ELSE kept
  BY DEF NewList
<1> HIDE DEF it, kept
<1> DEFINE Bad == {k \in 0 .. Len(old) : ~PrefixDone(it[1 .. k], old, c, k)}
<1>4. Bad = {}
  <2> SUFFICES ASSUME Bad # {}
               PROVE  FALSE
    OBVIOUS
  <2>1. Bad \in SUBSET Nat
    BY <1>2
  <2>2. PICK m \in Bad : \A k \in Bad : m <= k
    BY <2>1, LeastExists
  <2>3. CASE m = 0
    <3>1. 1 .. 0 = {} /\ <<>> \in Seq(Sources) /\ Len(<<>>) = 0
      OBVIOUS
    <3>2. PrefixDone(<<>>, old, c, 0)
      BY <3>1 DEF PrefixDone
    <3> QED
      BY <1>1, <2>2, <2>3, <3>1, <3>2
  <2>4. CASE m # 0
    <3>1. PICK k \in Nat : m = k + 1 /\ k \in 0 .. Len(old) /\ k + 1 <= Len(old)
      <4>1. m - 1 \in Nat /\ m = (m - 1) + 1 /\ m - 1 \in 0 .. Len(old) /\ m <= Len(old)
        BY <1>2, <2>2, <2>4
      <4> QED
        BY <4>1
    <3>2. PrefixDone(it[1 .. k], old, c, k)
      BY <2>2, <3>1
    <3>3. PrefixDone(it[1 .. m], old, c, m)
      BY <1>1, <3>1, <3>2, ReplacedKeeps
    <3> QED
      BY <2>2, <3>3
  <2> QED
    BY <2>3, <2>4
<1>5. PrefixDone(kept, old, c, Len(old))
  BY <1>1, <1>2, <1>4
<1>6. kept \in Seq(Sources) /\ Len(kept) \in Nat /\ DOMAIN kept = 1 .. Len(kept)
  BY <1>5 DEF PrefixDone
<1>7. CASE c.kind = "add" /\ \A i \in DOMAIN old : ~Matches(old[i], c)
  <2>1. /\ Append(kept, c.source) \in Seq(Sources)
        /\ Append(kept, c.source)[Len(kept) + 1] = c.source
        /\ Len(kept) + 1 \in DOMAIN Append(kept, c.source)
    BY <1>2, <1>6
  <2> QED
    BY <1>3, <1>7, <2>1 DEF Done
<1>8. CASE c.kind = "add" /\ \E i \in DOMAIN old : Matches(old[i], c)
  BY <1>2, <1>3, <1>5, <1>6, <1>8 DEF Done, PrefixDone
<1>9. CASE c.kind # "add"
  BY <1>2, <1>3, <1>5, <1>6, <1>9 DEF Done, PrefixDone
<1> QED
  BY <1>7, <1>8, <1>9

-----------------------------------------------------------------------------
(* Each step keeps the invariant *)

LEMMA FindFreeRangeKeeps ==
    ASSUME OnlineInv, NEW t \in Threads, FindFreeRange(t)
    PROVE  OnlineInv'
<1>1. /\ TypeOK /\ CallInv /\ LockInv /\ BlockInv /\ ScanScratchInv /\ ImageInv /\ EntryInv
      /\ EditInv
  BY DEF OnlineInv
<1>2. /\ use \in [Threads -> Uses] /\ mem \subseteq Blocks
      /\ Page \in Threads /\ (\A u \in Threads : u # Page => u \in Plugins)
  BY <1>1 DEF TypeOK, Threads
<1>3. TypeOK'
  <2> DEFINE fits == {b \in 0 .. MemPages : FreeAt(b, SizeOf[use[t]])}
  <2>1. fits # {} => (CHOOSE b \in fits : \A c \in fits : b <= c) \in 0 .. MemPages
    <3> fits \in SUBSET (0 .. MemPages)
      OBVIOUS
    <3> HIDE DEF fits
    <3> QED
      BY FirstFit
  <2>2. /\ fits # {} => found' = [found EXCEPT ![t] = CHOOSE b \in fits : \A c \in fits : b <= c]
        /\ fits = {} => UNCHANGED found
        /\ pc' = [pc EXCEPT ![t] = IF fits = {} THEN Refused[use[t]] ELSE "take"]
    BY DEF FindFreeRange, Goto
  <2> HIDE DEF fits
  <2>3. UNCHANGED <<dir, lib, sources, mem, scanScratch, fetchScratch, openOnline,
            pluginFileLock, fetchLock, ready, force, shared, use, entry, call>>
    BY DEF FindFreeRange, card, memory, locks, scan, pageState, edit, spent, session
  <2>4. found' \in [Threads -> 0 .. MemPages \cup {None}]
    BY <1>1, <2>1, <2>2 DEF TypeOK
  <2> QED
    BY <1>1, <2>3, <2>4 DEF TypeOK
<1>4. CallInv'
  <2> DEFINE fits == {b \in 0 .. MemPages : FreeAt(b, SizeOf[use[t]])}
  <2>1. fits # {} => (CHOOSE b \in fits : \A c \in fits : b <= c) \in 0 .. MemPages
    <3> fits \in SUBSET (0 .. MemPages)
      OBVIOUS
    <3> HIDE DEF fits
    <3> QED
      BY FirstFit
  <2>2. /\ fits # {} => found' = [found EXCEPT ![t] = CHOOSE b \in fits : \A c \in fits : b <= c]
        /\ fits = {} => UNCHANGED found
        /\ pc' = [pc EXCEPT ![t] = IF fits = {} THEN Refused[use[t]] ELSE "take"]
    BY DEF FindFreeRange, Goto
  <2> HIDE DEF fits
  <2>3. UNCHANGED <<use, back, entry, call, ok>>
    BY DEF FindFreeRange, card, memory, locks, scan, pageState, edit, spent, session
  <2>4. \A u \in Threads : pc'[u] = "take" => found'[u] \in 0 .. MemPages
    <3>1. Refused[use[t]] # "take"
      BY <1>2 DEF Refused, Uses
    <3>2. found'[t] \in 0 .. MemPages \/ pc'[t] # "take"
      BY <1>1, <2>1, <2>2, <3>1 DEF TypeOK, CallInv
    <3>3. \A u \in Threads : u # t => pc'[u] = pc[u] /\ found'[u] = found[u]
      BY <1>1, <2>2 DEF TypeOK, CallInv
    <3> QED
      BY <1>1, <3>2, <3>3 DEF CallInv
  <2> QED
    BY <1>1, <1>2, <2>2, <2>3, <2>4
       DEF FindFreeRange, Refused, CallInv, Editing, EditRuns, Finding, Where, WhereOnPage,
       Threads, Uses
<1>5. LockInv'
  BY <1>1, <1>2, ThreadsAreApart
     DEF FindFreeRange, scan, edit, Goto, Refused, locks, LockInv, Scanning, Editing,
         EditRuns, Finding, CallInv, Uses
<1>6. BlockInv'
  <2> SUFFICES ASSUME NEW x \in mem'
               PROVE  Accounted(x)'
    BY DEF BlockInv
  <2>1. x \in mem /\ x.by \in Threads /\ x.use \in Uses /\ Accounted(x)
    BY <1>1, <1>2 DEF BlockInv, Blocks, FindFreeRange, memory
  <2> QED
    BY <1>1, <1>2, <2>1, ThreadsAreApart
       DEF FindFreeRange, scan, edit, Goto, Refused, memory, locks, session, Accounted,
           HasImage, Managing, CallInv
<1>7. ScanScratchInv'
  BY <1>1, <1>2, ThreadsAreApart
     DEF FindFreeRange, scan, Goto, Refused, memory, session, ScanScratchInv, Managing,
         PluginScans, Mine, CallInv, Threads, Uses
<1>8. ImageInv'
  BY <1>1, <1>2, ThreadsAreApart
     DEF FindFreeRange, edit, Goto, Refused, memory, pageState, session, ImageInv, Mine,
         CallInv, Uses
<1>9. EntryInv'
  BY <1>1, <1>2, ThreadsAreApart
     DEF FindFreeRange, scan, Goto, Refused, EntryInv, Unpacking, Finding, CallInv, Uses
<1>10. EditInv'
  BY <1>1, <1>2, ThreadsAreApart
     DEF FindFreeRange, edit, Goto, Refused, card, memory, EditInv, EditRuns, Mine,
         Finding, CallInv, Uses
<1> QED
  BY <1>3, <1>4, <1>5, <1>6, <1>7, <1>8, <1>9, <1>10 DEF OnlineInv

LEMMA TakeRangeKeeps ==
    ASSUME OnlineInv, NEW t \in Threads, TakeRange(t)
    PROVE  OnlineInv'
<1>1. /\ TypeOK /\ CallInv /\ LockInv /\ BlockInv /\ ScanScratchInv /\ ImageInv /\ EntryInv
      /\ EditInv
  BY DEF OnlineInv
<1>2. /\ use \in [Threads -> Uses] /\ mem \subseteq Blocks
      /\ Page \in Threads /\ (\A u \in Threads : u # Page => u \in Plugins)
  BY <1>1 DEF TypeOK, Threads
<1>3. TypeOK'
  <2> DEFINE block == [base |-> found[t], size |-> SizeOf[use[t]], by |-> t, use |-> use[t]]
  <2>1. block \in Blocks /\ block.by = t /\ block.use = use[t]
    BY <1>1, <1>2 DEF TakeRange, CallInv, Blocks, SizeOf, Uses
  <2>2. \/ /\ mem' = mem \cup {block} /\ pc' = [pc EXCEPT ![t] = Granted[use[t]]]
           /\ scanScratch' = IF use[t] \in {"scan", "manage"} THEN block ELSE scanScratch
           /\ fetchScratch' = IF use[t] = "edit" THEN block ELSE fetchScratch
           /\ shared' = IF use[t] = "manage" THEN shared \/ PluginScans ELSE shared
        \/ /\ pc' = [pc EXCEPT ![t] = Refused[use[t]]]
           /\ UNCHANGED <<mem, scanScratch, fetchScratch, shared>>
    BY <1>1 DEF TakeRange, Goto, memory, TypeOK
  <2> HIDE DEF block
  <2>3. /\ found' \in [Threads -> 0 .. MemPages \cup {None}]
        /\ mem' \subseteq Blocks /\ shared' \in BOOLEAN
        /\ {scanScratch', fetchScratch'} \subseteq Blocks \cup {None}
    <3>1. found' \in [Threads -> 0 .. MemPages \cup {None}]
      BY <1>1 DEF TypeOK, TakeRange
    <3>2. shared' \in BOOLEAN
      BY <1>1, <2>2 DEF TypeOK, PluginScans
    <3>3. mem' \subseteq Blocks /\ {scanScratch', fetchScratch'} \subseteq Blocks \cup {None}
      BY <1>1, <2>1, <2>2 DEF TypeOK
    <3> QED
      BY <3>1, <3>2, <3>3
  <2>4. UNCHANGED <<dir, lib, sources, openOnline, locks, ready, force, use, entry, call>>
    BY DEF TakeRange, card, scan, pageState, edit
  <2> QED
    BY <1>1, <2>3, <2>4 DEF TypeOK, locks
<1>4. CallInv'
  BY <1>1, <1>2, ThreadsAreApart
     DEF TakeRange, scan, edit, Goto, Granted, Refused, CallInv, Editing, EditRuns,
         Finding, Where, WhereOnPage, Threads, Uses
<1>5. LockInv'
  BY <1>1, <1>2, ThreadsAreApart
     DEF TakeRange, scan, edit, Goto, Granted, Refused, locks, LockInv, Scanning, Editing,
         EditRuns, Finding, CallInv, Uses
<1>6. BlockInv'
  <2> DEFINE block == [base |-> found[t], size |-> SizeOf[use[t]], by |-> t, use |-> use[t]]
  <2>1. block \in Blocks /\ block.by = t /\ block.use = use[t]
    BY <1>1, <1>2 DEF TakeRange, CallInv, Blocks, SizeOf, Uses
  <2>2. \/ /\ mem' = mem \cup {block} /\ pc' = [pc EXCEPT ![t] = Granted[use[t]]]
           /\ scanScratch' = IF use[t] \in {"scan", "manage"} THEN block ELSE scanScratch
           /\ fetchScratch' = IF use[t] = "edit" THEN block ELSE fetchScratch
           /\ shared' = IF use[t] = "manage" THEN shared \/ PluginScans ELSE shared
        \/ /\ pc' = [pc EXCEPT ![t] = Refused[use[t]]]
           /\ UNCHANGED <<mem, scanScratch, fetchScratch, shared>>
    BY <1>1 DEF TakeRange, Goto, memory, TypeOK
  <2> HIDE DEF block
  <2>3. pc[t] = "take" /\ UNCHANGED <<use, pluginFileLock, fetchLock, back, openOnline,
            loading, running>>
    BY DEF TakeRange, locks, edit, pageState
  <2> SUFFICES ASSUME NEW x \in mem'
               PROVE  Accounted(x)'
    BY DEF BlockInv
  <2>4. CASE x \in mem
    <3>1. x.by \in Threads /\ x.use \in Uses /\ Accounted(x)
      BY <1>1, <1>2, <2>4 DEF BlockInv, Blocks
    <3>2. CASE UNCHANGED <<mem, scanScratch, fetchScratch,
                   shared>> /\ pc' = [pc EXCEPT ![t] = Refused[use[t]]]
      BY <1>1, <1>2, <2>3, <3>1, <3>2, ThreadsAreApart
         DEF Refused, Accounted, HasImage, Managing, LockInv, CallInv, Uses
    <3>3. CASE use[t] = "scan" /\ pc' = [pc EXCEPT ![t] = "pass1"] /\ scanScratch' = block
               /\ fetchScratch' = fetchScratch /\ shared' = shared
      BY <1>1, <1>2, <2>3, <3>1, <3>3, ThreadsAreApart
         DEF Accounted, HasImage, Managing, LockInv, Scanning, Finding, CallInv
    <3>4. CASE use[t] = "edit" /\ pc' = [pc EXCEPT ![t] = "parse"] /\ fetchScratch' = block
               /\ scanScratch' = scanScratch /\ shared' = shared
      BY <1>1, <1>2, <2>3, <3>1, <3>4, ThreadsAreApart
         DEF Accounted, HasImage, Managing, LockInv, Editing, EditRuns, Finding, CallInv
    <3>5. CASE use[t] = "manage" /\ pc' = [pc EXCEPT ![t] = "manageScan"] /\ scanScratch' = block
               /\ fetchScratch' = fetchScratch /\ shared' = (shared \/ PluginScans)
      BY <1>1, <1>2, <2>3, <3>1, <3>5, ThreadsAreApart
         DEF Accounted, HasImage, Managing, PluginScans, CallInv
    <3>6. CASE use[t] \in {"unpack", "image"} /\ pc' = [pc EXCEPT ![t] = Granted[use[t]]]
               /\ UNCHANGED <<scanScratch, fetchScratch, shared>>
      BY <1>1, <1>2, <2>3, <3>1, <3>6, ThreadsAreApart
         DEF Granted, Accounted, HasImage, Managing, CallInv
    <3> QED
      BY <1>2, <2>2, <3>2, <3>3, <3>4, <3>5, <3>6 DEF Granted, Uses
  <2>5. CASE x \notin mem
    <3>1. x = block /\ pc' = [pc EXCEPT ![t] = Granted[use[t]]]
      BY <2>2, <2>5
    <3>2. use[t] \in {"unpack", "image", "manage"} => t = Page
      BY <1>1, <1>2 DEF CallInv
    <3> QED
      BY <1>1, <1>2, <2>1, <2>2, <2>3, <2>5, <3>1, <3>2, ThreadsAreApart
         DEF Granted, Accounted, HasImage, Managing, LockInv, Scanning, Editing, EditRuns,
             Finding, CallInv, Where, WhereOnPage, Uses
  <2> QED
    BY <2>4, <2>5
<1>7. ScanScratchInv'
  <2> DEFINE block == [base |-> found[t], size |-> SizeOf[use[t]], by |-> t, use |-> use[t]]
  <2>1. block \in Blocks /\ block.by = t /\ block.use = use[t]
    BY <1>1, <1>2 DEF TakeRange, CallInv, Blocks, SizeOf, Uses
  <2>2. \/ /\ mem' = mem \cup {block} /\ pc' = [pc EXCEPT ![t] = Granted[use[t]]]
           /\ scanScratch' = IF use[t] \in {"scan", "manage"} THEN block ELSE scanScratch
           /\ fetchScratch' = IF use[t] = "edit" THEN block ELSE fetchScratch
           /\ shared' = IF use[t] = "manage" THEN shared \/ PluginScans ELSE shared
        \/ /\ pc' = [pc EXCEPT ![t] = Refused[use[t]]]
           /\ UNCHANGED <<mem, scanScratch, fetchScratch, shared>>
    BY <1>1 DEF TakeRange, Goto, memory, TypeOK
  <2> HIDE DEF block
  <2>3. pc[t] = "take" /\ UNCHANGED <<use, pluginFileLock, fetchLock, back, openOnline,
            loading, running>>
    BY DEF TakeRange, locks, edit, pageState
  <2> USE
    DEF ScanScratchInv, Managing, PluginScans, Mine, LockInv, Scanning, Finding, CallInv, Threads
  <2>4. CASE UNCHANGED <<mem, scanScratch, fetchScratch,
                 shared>> /\ pc' = [pc EXCEPT ![t] = Refused[use[t]]]
    BY <1>1, <1>2, <2>3, <2>4, ThreadsAreApart DEF Refused, Uses
  <2>5. CASE use[t] = "scan" /\ pc' = [pc EXCEPT ![t] = "pass1"] /\ scanScratch' = block
             /\ mem' = mem \cup {block} /\ shared' = shared
    BY <1>1, <1>2, <2>1, <2>3, <2>5, ThreadsAreApart
  <2>6. CASE use[t] = "manage" /\ pc' = [pc EXCEPT ![t] = "manageScan"] /\ scanScratch' = block
             /\ mem' = mem \cup {block} /\ shared' = (shared \/ PluginScans)
    BY <1>1, <1>2, <2>1, <2>3, <2>6, ThreadsAreApart
  <2>7. CASE use[t] \in {"unpack", "image", "edit"} /\ pc' = [pc EXCEPT ![t] = Granted[use[t]]]
             /\ mem' = mem \cup {block} /\ UNCHANGED <<scanScratch, shared>>
    BY <1>1, <1>2, <2>3, <2>7, ThreadsAreApart DEF Granted
  <2> QED
    BY <1>2, <2>2, <2>4, <2>5, <2>6, <2>7 DEF Granted, Uses
<1>8. ImageInv'
  <2> DEFINE block == [base |-> found[t], size |-> SizeOf[use[t]], by |-> t, use |-> use[t]]
  <2>1. block \in Blocks /\ block.by = t /\ block.use = use[t]
    BY <1>1, <1>2 DEF TakeRange, CallInv, Blocks, SizeOf, Uses
  <2>2. \/ /\ mem' = mem \cup {block} /\ pc' = [pc EXCEPT ![t] = Granted[use[t]]]
           /\ scanScratch' = IF use[t] \in {"scan", "manage"} THEN block ELSE scanScratch
           /\ fetchScratch' = IF use[t] = "edit" THEN block ELSE fetchScratch
           /\ shared' = IF use[t] = "manage" THEN shared \/ PluginScans ELSE shared
        \/ /\ pc' = [pc EXCEPT ![t] = Refused[use[t]]]
           /\ UNCHANGED <<mem, scanScratch, fetchScratch, shared>>
    BY <1>1 DEF TakeRange, Goto, memory, TypeOK
  <2> HIDE DEF block
  <2>3. pc[t] = "take" /\ UNCHANGED <<use, pluginFileLock, fetchLock, back, openOnline,
            loading, running>>
    BY DEF TakeRange, locks, edit, pageState
  <2> QED
    BY <1>1, <1>2, <2>1, <2>2, <2>3
       DEF ImageInv, Granted, Refused, Mine, CallInv, Editing, EditRuns, Finding, Threads, Uses
<1>9. EntryInv'
  BY <1>1, <1>2, ThreadsAreApart
     DEF TakeRange, scan, Goto, Granted, Refused, EntryInv, Unpacking, Finding, CallInv,
         Uses
<1>10. EditInv'
  <2> DEFINE block == [base |-> found[t], size |-> SizeOf[use[t]], by |-> t, use |-> use[t]]
  <2>1. block \in Blocks /\ block.by = t /\ block.use = use[t]
    BY <1>1, <1>2 DEF TakeRange, CallInv, Blocks, SizeOf, Uses
  <2>2. \/ /\ mem' = mem \cup {block} /\ pc' = [pc EXCEPT ![t] = Granted[use[t]]]
           /\ scanScratch' = IF use[t] \in {"scan", "manage"} THEN block ELSE scanScratch
           /\ fetchScratch' = IF use[t] = "edit" THEN block ELSE fetchScratch
           /\ shared' = IF use[t] = "manage" THEN shared \/ PluginScans ELSE shared
        \/ /\ pc' = [pc EXCEPT ![t] = Refused[use[t]]]
           /\ UNCHANGED <<mem, scanScratch, fetchScratch, shared>>
    BY <1>1 DEF TakeRange, Goto, memory, TypeOK
  <2> HIDE DEF block
  <2>3. pc[t] = "take" /\ UNCHANGED <<use, pluginFileLock, fetchLock, call, ok, blind, edited,
            sources>>
    BY DEF TakeRange, locks, edit, card
  <2> USE DEF EditInv, EditRuns, Editing, Mine, Finding, CallInv, LockInv, Threads
  <2>4. CASE UNCHANGED <<mem, fetchScratch>> /\ pc' = [pc EXCEPT ![t] = Refused[use[t]]]
    BY <1>1, <1>2, <2>3, <2>4, ThreadsAreApart DEF Refused, Uses
  <2>5. CASE use[t] = "edit" /\ pc' = [pc EXCEPT ![t] = "parse"] /\ fetchScratch' = block
             /\ mem' = mem \cup {block}
    BY <1>1, <1>2, <2>1, <2>3, <2>5, ThreadsAreApart
  <2>6. CASE use[t] # "edit" /\ pc' = [pc EXCEPT ![t] = Granted[use[t]]]
             /\ mem' = mem \cup {block} /\ UNCHANGED fetchScratch
    BY <1>1, <1>2, <2>3, <2>6, ThreadsAreApart DEF Granted, Uses
  <2> QED
    BY <1>2, <2>2, <2>4, <2>5, <2>6 DEF Granted, Uses
<1> QED
  BY <1>3, <1>4, <1>5, <1>6, <1>7, <1>8, <1>9, <1>10 DEF OnlineInv

LEMMA LockPluginFileKeeps ==
    ASSUME OnlineInv, NEW t \in Threads, LockPluginFile(t)
    PROVE  OnlineInv'
<1>1. /\ TypeOK /\ CallInv /\ LockInv /\ BlockInv /\ ScanScratchInv /\ ImageInv /\ EntryInv
      /\ EditInv
  BY DEF OnlineInv
<1>2. /\ use \in [Threads -> Uses] /\ mem \subseteq Blocks
      /\ Page \in Threads /\ (\A u \in Threads : u # Page => u \in Plugins)
  BY <1>1 DEF TypeOK, Threads
<1>3. TypeOK'
  BY <1>1, <1>2, ThreadsAreApart
     DEF LockPluginFile, ScanLocks, scan, Goto, card, memory, pageState, edit, TypeOK, Uses
<1>4. CallInv'
  BY <1>1, <1>2, ThreadsAreApart
     DEF LockPluginFile, ScanLocks, scan, Goto, edit, CallInv, Editing, EditRuns, Finding,
         Where, WhereOnPage
<1>5. LockInv'
  BY <1>1, <1>2, ThreadsAreApart
     DEF LockPluginFile, ScanLocks, scan, Goto, edit, LockInv, Scanning, Editing, EditRuns,
         Finding, CallInv
<1>6. BlockInv'
  <2> SUFFICES ASSUME NEW x \in mem'
               PROVE  Accounted(x)'
    BY DEF BlockInv
  <2>1. x \in mem /\ x.by \in Threads /\ x.use \in Uses /\ Accounted(x)
    BY <1>1, <1>2 DEF BlockInv, Blocks, LockPluginFile, memory
  <2>2. x.use = "scan" => shared
    BY <2>1, ThreadsAreApart DEF Accounted, LockPluginFile, ScanLocks
  <2> QED
    <3>1. /\ pc[t] = "scanLock" /\ UNCHANGED <<fetchLock, fetchScratch, scanScratch, back>>
          /\ shared => shared'
          /\ Goto(t, IF scanScratch = None THEN "find" ELSE "pass1")
      BY DEF LockPluginFile, memory, edit
    <3>2. \A u \in Threads : pc[u] # "scanLock" => pc'[u] = pc[u]
      BY <1>1, <3>1 DEF Goto, CallInv
    <3> QED
      BY <1>1, <1>2, <2>1, <2>2, <3>1, <3>2 DEF Accounted, HasImage, Managing
<1>7. ScanScratchInv'
  <2>1. /\ pc[t] = "scanLock" /\ pluginFileLock = None /\ UNCHANGED <<mem, scanScratch>>
        /\ use' = [use EXCEPT ![t] = "scan"] /\ shared' = (shared \/ Managing)
        /\ Goto(t, IF scanScratch = None THEN "find" ELSE "pass1")
    BY DEF LockPluginFile, ScanLocks, memory
  <2>2. \A u \in Threads : ~Scanning(u)
    BY <1>1, <2>1, ThreadsAreApart DEF LockInv
  <2>3. CASE shared \/ Managing
    BY <2>1, <2>3 DEF ScanScratchInv
  <2>4. CASE ~shared /\ ~Managing
    <3>1. scanScratch = None
      BY <1>1, <2>2, <2>4 DEF ScanScratchInv, Scanning
    <3>2. ~Managing'
      BY <1>1, <1>2, <2>1, <2>4, <3>1 DEF Managing, Goto, CallInv
    <3>3. \A u \in Threads : pc'[u] \notin {"pass1", "pass2", "reopen"}
      BY <1>1, <2>1, <2>2, <3>1 DEF Scanning, Goto, CallInv
    <3> QED
      BY <2>1, <3>1, <3>2, <3>3 DEF ScanScratchInv
  <2> QED
    BY <2>3, <2>4
<1>8. ImageInv'
  BY <1>1, <1>2, ThreadsAreApart
     DEF LockPluginFile, ScanLocks, Goto, memory, pageState, edit, ImageInv, Mine
<1>9. EntryInv'
  BY <1>1, <1>2, ThreadsAreApart
     DEF LockPluginFile, ScanLocks, scan, Goto, EntryInv, Unpacking, Finding
<1>10. EditInv'
  BY <1>1, <1>2, ThreadsAreApart
     DEF LockPluginFile, ScanLocks, Goto, card, memory, edit, EditInv, EditRuns, Mine,
         Finding
<1> QED
  BY <1>3, <1>4, <1>5, <1>6, <1>7, <1>8, <1>9, <1>10 DEF OnlineInv

LEMMA FirstPassKeeps ==
    ASSUME OnlineInv, NEW t \in Threads, FirstPass(t)
    PROVE  OnlineInv'
<1>1. /\ TypeOK /\ CallInv /\ LockInv /\ BlockInv /\ ScanScratchInv /\ ImageInv /\ EntryInv
      /\ EditInv
  BY DEF OnlineInv
<1>2. /\ use \in [Threads -> Uses] /\ mem \subseteq Blocks
      /\ Page \in Threads /\ (\A u \in Threads : u # Page => u \in Plugins)
  BY <1>1 DEF TypeOK, Threads
<1>3. TypeOK'
  BY <1>1, <1>2, ThreadsAreApart
     DEF FirstPass, Goto, card, memory, locks, alloc, pageState, edit, session, TypeOK
<1>4. CallInv'
  BY <1>1, <1>2, ThreadsAreApart
     DEF FirstPass, Goto, alloc, edit, CallInv, Editing, EditRuns, Finding, Where,
         WhereOnPage, Threads
<1>5. LockInv'
  BY <1>1, <1>2, ThreadsAreApart
     DEF FirstPass, Goto, locks, alloc, edit, LockInv, Scanning, Editing, EditRuns,
         Finding, CallInv
<1>6. BlockInv'
  <2> SUFFICES ASSUME NEW x \in mem'
               PROVE  Accounted(x)'
    BY DEF BlockInv
  <2>1. x \in mem /\ x.by \in Threads /\ x.use \in Uses /\ Accounted(x)
    BY <1>1, <1>2 DEF BlockInv, Blocks, FirstPass, memory
  <2> QED
    BY <1>1, <1>2, <2>1, ThreadsAreApart
       DEF FirstPass, Goto, memory, locks, alloc, edit, session, Accounted, HasImage,
           Managing, CallInv
<1>7. ScanScratchInv'
  BY <1>1, <1>2, ThreadsAreApart
     DEF FirstPass, Goto, memory, alloc, session, ScanScratchInv, Managing, Mine, CallInv
<1>8. ImageInv'
  BY <1>1, <1>2, ThreadsAreApart
     DEF FirstPass, Goto, memory, alloc, pageState, edit, session, ImageInv, Mine, CallInv
<1>9. EntryInv'
  <2>1. \A read \in SUBSET Present(dir) :
            Best(dir, read, IdOf[t]) # None => Best(dir, read, IdOf[t])[1] \in Files
    BY BestIsEarliest, SeenArePlaces DEF Present
  <2> QED
    BY <1>1, <1>2, <2>1, ThreadsAreApart
       DEF FirstPass, Goto, alloc, EntryInv, Unpacking, Finding, CallInv
<1>10. EditInv'
  BY <1>1, <1>2, ThreadsAreApart
     DEF FirstPass, Goto, card, memory, alloc, edit, EditInv, EditRuns, Mine, Finding,
         CallInv
<1> QED
  BY <1>3, <1>4, <1>5, <1>6, <1>7, <1>8, <1>9, <1>10 DEF OnlineInv

LEMMA SecondPassKeeps ==
    ASSUME OnlineInv, NEW t \in Threads, SecondPass(t)
    PROVE  OnlineInv'
<1>1. /\ TypeOK /\ CallInv /\ LockInv /\ BlockInv /\ ScanScratchInv /\ ImageInv /\ EntryInv
      /\ EditInv
  BY DEF OnlineInv
<1>2. /\ use \in [Threads -> Uses] /\ mem \subseteq Blocks
      /\ Page \in Threads /\ (\A u \in Threads : u # Page => u \in Plugins)
  BY <1>1 DEF TypeOK, Threads
<1>3. TypeOK'
  BY <1>1, <1>2, ThreadsAreApart
     DEF SecondPass, Goto, card, memory, locks, alloc, scan, pageState, edit, session,
         TypeOK
<1>4. CallInv'
  BY <1>1, <1>2, ThreadsAreApart
     DEF SecondPass, Goto, alloc, scan, edit, CallInv, Editing, EditRuns, Finding, Where,
         WhereOnPage
<1>5. LockInv'
  BY <1>1, <1>2, ThreadsAreApart
     DEF SecondPass, Goto, locks, alloc, scan, edit, LockInv, Scanning, Editing, EditRuns,
         Finding
<1>6. BlockInv'
  <2> SUFFICES ASSUME NEW x \in mem'
               PROVE  Accounted(x)'
    BY DEF BlockInv
  <2>1. x \in mem /\ x.by \in Threads /\ x.use \in Uses /\ Accounted(x)
    BY <1>1, <1>2 DEF BlockInv, Blocks, SecondPass, memory
  <2> QED
    BY <1>1, <1>2, <2>1, ThreadsAreApart
       DEF SecondPass, Goto, memory, locks, alloc, scan, edit, session, Accounted,
           HasImage, Managing
<1>7. ScanScratchInv'
  BY <1>1, <1>2, ThreadsAreApart
     DEF SecondPass, Goto, memory, alloc, scan, session, ScanScratchInv, Managing, Mine
<1>8. ImageInv'
  BY <1>1, <1>2, ThreadsAreApart
     DEF SecondPass, Goto, memory, alloc, pageState, edit, session, ImageInv, Mine
<1>9. EntryInv'
  BY <1>1, <1>2, ThreadsAreApart
     DEF SecondPass, Goto, alloc, scan, EntryInv, Unpacking, Finding
<1>10. EditInv'
  BY <1>1, <1>2, ThreadsAreApart
     DEF SecondPass, Goto, card, memory, alloc, edit, EditInv, EditRuns, Mine, Finding
<1> QED
  BY <1>3, <1>4, <1>5, <1>6, <1>7, <1>8, <1>9, <1>10 DEF OnlineInv

LEMMA ReopenKeeps ==
    ASSUME OnlineInv, NEW t \in Threads, Reopen(t)
    PROVE  OnlineInv'
<1>1. /\ TypeOK /\ CallInv /\ LockInv /\ BlockInv /\ ScanScratchInv /\ ImageInv /\ EntryInv
      /\ EditInv
  BY DEF OnlineInv
<1>2. /\ use \in [Threads -> Uses] /\ mem \subseteq Blocks
      /\ Page \in Threads /\ (\A u \in Threads : u # Page => u \in Plugins)
  BY <1>1 DEF TypeOK, Threads
<1>3. TypeOK'
  <2>1. pc[t] = "reopen" /\ best.place[1] \in Files /\ dir \in [Files -> Stacks \cup {None}]
    BY <1>1 DEF Reopen, EntryInv, TypeOK
  <2>2. StillThere(dir, best.place, IdOf[t], best.version) =>
            /\ EntryAt(dir, best.place) \in Entries
            /\ EntryAt(dir, best.place).id = IdOf[t] /\ EntryAt(dir, best.place).magic = "MENU"
    BY <2>1, ReadAgain
  <2> QED
    BY <1>1, <1>2, <2>1, <2>2, ThreadsAreApart
       DEF Reopen, Goto, card, memory, locks, alloc, pageState, edit, session, TypeOK, CallInv
<1>4. CallInv'
  <2>1. pc[t] = "reopen" /\ best.place[1] \in Files /\ dir \in [Files -> Stacks \cup {None}]
    BY <1>1 DEF Reopen, EntryInv, TypeOK
  <2>2. StillThere(dir, best.place, IdOf[t], best.version) =>
            /\ EntryAt(dir, best.place) \in Entries
            /\ EntryAt(dir, best.place).id = IdOf[t] /\ EntryAt(dir, best.place).magic = "MENU"
    BY <2>1, ReadAgain
  <2> QED
    BY <1>1, <1>2, <2>1, <2>2, ThreadsAreApart
       DEF Reopen, Goto, alloc, edit, CallInv, Editing, EditRuns, Finding, Where,
           WhereOnPage
<1>5. LockInv'
  BY <1>1, <1>2, ThreadsAreApart
     DEF Reopen, Goto, locks, alloc, edit, LockInv, Scanning, Editing, EditRuns, Finding
<1>6. BlockInv'
  <2> SUFFICES ASSUME NEW x \in mem'
               PROVE  Accounted(x)'
    BY DEF BlockInv
  <2>1. x \in mem /\ x.by \in Threads /\ x.use \in Uses /\ Accounted(x)
    BY <1>1, <1>2 DEF BlockInv, Blocks, Reopen, memory
  <2> QED
    BY <1>1, <1>2, <2>1, ThreadsAreApart
       DEF Reopen, Goto, memory, locks, alloc, edit, session, Accounted, HasImage, Managing
<1>7. ScanScratchInv'
  BY <1>1, <1>2, ThreadsAreApart
     DEF Reopen, Goto, memory, alloc, session, ScanScratchInv, Managing, Mine
<1>8. ImageInv'
  BY <1>1, <1>2, ThreadsAreApart
     DEF Reopen, Goto, memory, alloc, pageState, edit, session, ImageInv, Mine
<1>9. EntryInv'
  <2>1. pc[t] = "reopen" /\ best.place[1] \in Files /\ dir \in [Files -> Stacks \cup {None}]
    BY <1>1 DEF Reopen, EntryInv, TypeOK
  <2>2. StillThere(dir, best.place, IdOf[t], best.version) =>
            /\ EntryAt(dir, best.place) \in Entries
            /\ EntryAt(dir, best.place).id = IdOf[t] /\ EntryAt(dir, best.place).magic = "MENU"
    BY <2>1, ReadAgain
  <2> QED
    BY <1>1, <1>2, <2>1, <2>2, ThreadsAreApart
       DEF Reopen, Goto, alloc, EntryInv, Unpacking, Finding, CallInv
<1>10. EditInv'
  BY <1>1, <1>2, ThreadsAreApart
     DEF Reopen, Goto, card, memory, alloc, edit, EditInv, EditRuns, Mine, Finding
<1> QED
  BY <1>3, <1>4, <1>5, <1>6, <1>7, <1>8, <1>9, <1>10 DEF OnlineInv

LEMMA FreeScanScratchKeeps ==
    ASSUME OnlineInv, NEW t \in Threads, FreeScanScratch(t)
    PROVE  OnlineInv'
<1>1. /\ TypeOK /\ CallInv /\ LockInv /\ BlockInv /\ ScanScratchInv /\ ImageInv /\ EntryInv
      /\ EditInv
  BY DEF OnlineInv
<1>2. /\ use \in [Threads -> Uses] /\ mem \subseteq Blocks
      /\ Page \in Threads /\ (\A u \in Threads : u # Page => u \in Plugins)
  BY <1>1 DEF TypeOK, Threads
<1>3. TypeOK'
  BY <1>1, <1>2, ThreadsAreApart
     DEF FreeScanScratch, scan, Goto, card, locks, alloc, pageState, edit, session, TypeOK
<1>4. CallInv'
  BY <1>1, <1>2, ThreadsAreApart
     DEF FreeScanScratch, scan, Goto, alloc, edit, CallInv, Editing, EditRuns, Finding,
         Where, WhereOnPage
<1>5. LockInv'
  BY <1>1, <1>2, ThreadsAreApart
     DEF FreeScanScratch, scan, Goto, locks, alloc, edit, LockInv, Scanning, Editing,
         EditRuns, Finding
<1>6. BlockInv'
  <2> SUFFICES ASSUME NEW x \in mem'
               PROVE  Accounted(x)'
    BY DEF BlockInv
  <2>1. x \in mem /\ x.by \in Threads /\ x.use \in Uses /\ Accounted(x)
    BY <1>1, <1>2 DEF BlockInv, Blocks, FreeScanScratch
  <2> QED
    BY <1>1, <1>2, <2>1, ThreadsAreApart
       DEF FreeScanScratch, scan, Goto, locks, alloc, edit, session, Accounted, HasImage,
           Managing
<1>7. ScanScratchInv'
  BY <1>1, <1>2, ThreadsAreApart
     DEF FreeScanScratch, scan, Goto, alloc, session, ScanScratchInv, Managing,
         PluginScans, LockInv, Scanning
<1>8. ImageInv'
  BY <1>1, <1>2, ThreadsAreApart
     DEF FreeScanScratch, Goto, alloc, pageState, edit, session, ImageInv, Mine
<1>9. EntryInv'
  BY <1>1, <1>2, ThreadsAreApart
     DEF FreeScanScratch, scan, Goto, alloc, EntryInv, Unpacking, Finding
<1>10. EditInv'
  BY <1>1, <1>2, ThreadsAreApart
     DEF FreeScanScratch, Goto, card, alloc, edit, EditInv, EditRuns, Mine, Finding
<1> QED
  BY <1>3, <1>4, <1>5, <1>6, <1>7, <1>8, <1>9, <1>10 DEF OnlineInv

LEMMA UnlockPluginFileKeeps ==
    ASSUME OnlineInv, NEW t \in Threads, UnlockPluginFile(t)
    PROVE  OnlineInv'
<1>1. /\ TypeOK /\ CallInv /\ LockInv /\ BlockInv /\ ScanScratchInv /\ ImageInv /\ EntryInv
      /\ EditInv
  BY DEF OnlineInv
<1>2. /\ use \in [Threads -> Uses] /\ mem \subseteq Blocks
      /\ Page \in Threads /\ (\A u \in Threads : u # Page => u \in Plugins)
  BY <1>1 DEF TypeOK, Threads
<1>3. TypeOK'
  BY <1>1, <1>2, ThreadsAreApart
     DEF UnlockPluginFile, Goto, card, memory, alloc, pageState, edit, session, TypeOK
<1>4. CallInv'
  BY <1>1, <1>2, ThreadsAreApart
     DEF UnlockPluginFile, Goto, alloc, edit, CallInv, Editing, EditRuns, Finding, Where,
         WhereOnPage
<1>5. LockInv'
  BY <1>1, <1>2, ThreadsAreApart
     DEF UnlockPluginFile, Goto, alloc, edit, LockInv, Scanning, Editing, EditRuns,
         Finding, CallInv
<1>6. BlockInv'
  <2> SUFFICES ASSUME NEW x \in mem'
               PROVE  Accounted(x)'
    BY DEF BlockInv
  <2>1. x \in mem /\ x.by \in Threads /\ x.use \in Uses /\ Accounted(x)
    BY <1>1, <1>2 DEF BlockInv, Blocks, UnlockPluginFile, memory
  <2> QED
    BY <1>1, <1>2, <2>1, ThreadsAreApart
       DEF UnlockPluginFile, Goto, memory, alloc, edit, session, Accounted, HasImage,
           Managing, LockInv, Scanning
<1>7. ScanScratchInv'
  BY <1>1, <1>2, ThreadsAreApart
     DEF UnlockPluginFile, Goto, memory, alloc, session, ScanScratchInv, Managing,
         PluginScans, Mine
<1>8. ImageInv'
  BY <1>1, <1>2, ThreadsAreApart
     DEF UnlockPluginFile, Goto, memory, alloc, pageState, edit, session, ImageInv, Mine
<1>9. EntryInv'
  BY <1>1, <1>2, ThreadsAreApart
     DEF UnlockPluginFile, Goto, alloc, EntryInv, Unpacking, Finding, LockInv, Scanning
<1>10. EditInv'
  BY <1>1, <1>2, ThreadsAreApart
     DEF UnlockPluginFile, Goto, card, memory, alloc, edit, EditInv, EditRuns, Mine,
         Finding
<1> QED
  BY <1>3, <1>4, <1>5, <1>6, <1>7, <1>8, <1>9, <1>10 DEF OnlineInv

LEMMA PluginOpensFileKeeps ==
    ASSUME OnlineInv, NEW t \in Threads, PluginOpensFile(t)
    PROVE  OnlineInv'
<1>1. /\ TypeOK /\ CallInv /\ LockInv /\ BlockInv /\ ScanScratchInv /\ ImageInv /\ EntryInv
      /\ EditInv
  BY DEF OnlineInv
<1>2. /\ use \in [Threads -> Uses] /\ mem \subseteq Blocks
      /\ Page \in Threads /\ (\A u \in Threads : u # Page => u \in Plugins)
  BY <1>1 DEF TypeOK, Threads
<1>3. TypeOK'
  BY <1>1, <1>2, ThreadsAreApart
     DEF PluginOpensFile, Goto, card, memory, locks, alloc, scan, pageState, edit, session,
         TypeOK
<1>4. CallInv'
  BY <1>1, <1>2, ThreadsAreApart
     DEF PluginOpensFile, Goto, alloc, scan, edit, CallInv, Editing, EditRuns, Finding,
         Where, WhereOnPage
<1>5. LockInv'
  BY <1>1, <1>2, ThreadsAreApart
     DEF PluginOpensFile, Goto, locks, alloc, scan, edit, LockInv, Scanning, Editing,
         EditRuns, Finding
<1>6. BlockInv'
  <2> SUFFICES ASSUME NEW x \in mem'
               PROVE  Accounted(x)'
    BY DEF BlockInv
  <2>1. x \in mem /\ x.by \in Threads /\ x.use \in Uses /\ Accounted(x)
    BY <1>1, <1>2 DEF BlockInv, Blocks, PluginOpensFile, memory
  <2> QED
    BY <1>1, <1>2, <2>1, ThreadsAreApart
       DEF PluginOpensFile, Goto, memory, locks, alloc, scan, edit, session, Accounted,
           HasImage, Managing
<1>7. ScanScratchInv'
  BY <1>1, <1>2, ThreadsAreApart
     DEF PluginOpensFile, Goto, memory, alloc, scan, session, ScanScratchInv, Managing,
         PluginScans, Mine
<1>8. ImageInv'
  BY <1>1, <1>2, ThreadsAreApart
     DEF PluginOpensFile, Goto, memory, alloc, pageState, edit, session, ImageInv, Mine
<1>9. EntryInv'
  BY <1>1, <1>2, ThreadsAreApart
     DEF PluginOpensFile, Goto, alloc, scan, EntryInv, Unpacking, Finding
<1>10. EditInv'
  BY <1>1, <1>2, ThreadsAreApart
     DEF PluginOpensFile, Goto, card, memory, alloc, edit, EditInv, EditRuns, Mine, Finding
<1> QED
  BY <1>3, <1>4, <1>5, <1>6, <1>7, <1>8, <1>9, <1>10 DEF OnlineInv

LEMMA OpenPageKeeps ==
    ASSUME OnlineInv, OpenPage
    PROVE  OnlineInv'
<1>1. /\ TypeOK /\ CallInv /\ LockInv /\ BlockInv /\ ScanScratchInv /\ ImageInv /\ EntryInv
      /\ EditInv
  BY DEF OnlineInv
<1>2. /\ use \in [Threads -> Uses] /\ mem \subseteq Blocks
      /\ Page \in Threads /\ (\A u \in Threads : u # Page => u \in Plugins)
  BY <1>1 DEF TypeOK, Threads
<1>3. TypeOK'
  BY <1>1, <1>2, ThreadsAreApart
     DEF OpenPage, Goto, card, memory, locks, alloc, scan, edit, session, TypeOK
<1>4. CallInv'
  BY <1>1, <1>2, ThreadsAreApart
     DEF OpenPage, Goto, alloc, scan, edit, CallInv, Editing, EditRuns, Finding, Where,
         WhereOnPage
<1>5. LockInv'
  BY <1>1, <1>2, ThreadsAreApart
     DEF OpenPage, Goto, locks, alloc, scan, edit, LockInv, Scanning, Editing, EditRuns,
         Finding
<1>6. BlockInv'
  <2> SUFFICES ASSUME NEW x \in mem'
               PROVE  Accounted(x)'
    BY DEF BlockInv
  <2>1. x \in mem /\ x.by \in Threads /\ x.use \in Uses /\ Accounted(x)
    BY <1>1, <1>2 DEF BlockInv, Blocks, OpenPage, memory
  <2> QED
    BY <1>1, <1>2, <2>1, ThreadsAreApart
       DEF OpenPage, Goto, memory, locks, alloc, scan, edit, session, Accounted, HasImage,
           Managing
<1>7. ScanScratchInv'
  BY <1>1, <1>2, ThreadsAreApart
     DEF OpenPage, Goto, memory, alloc, scan, session, ScanScratchInv, Managing, Mine
<1>8. ImageInv'
  BY <1>1, <1>2, ThreadsAreApart
     DEF OpenPage, Goto, memory, alloc, edit, session, ImageInv, Mine
<1>9. EntryInv'
  BY <1>1, <1>2, ThreadsAreApart
     DEF OpenPage, Goto, alloc, scan, EntryInv, Unpacking, Finding
<1>10. EditInv'
  BY <1>1, <1>2, ThreadsAreApart
     DEF OpenPage, Goto, card, memory, alloc, edit, EditInv, EditRuns, Mine, Finding
<1> QED
  BY <1>3, <1>4, <1>5, <1>6, <1>7, <1>8, <1>9, <1>10 DEF OnlineInv

LEMMA EnsureKeeps ==
    ASSUME OnlineInv, Ensure
    PROVE  OnlineInv'
<1>1. /\ TypeOK /\ CallInv /\ LockInv /\ BlockInv /\ ScanScratchInv /\ ImageInv /\ EntryInv
      /\ EditInv
  BY DEF OnlineInv
<1>2. /\ use \in [Threads -> Uses] /\ mem \subseteq Blocks
      /\ Page \in Threads /\ (\A u \in Threads : u # Page => u \in Plugins)
  BY <1>1 DEF TypeOK, Threads
<1>3. TypeOK'
  BY <1>1, <1>2, ThreadsAreApart
     DEF Ensure, Goto, card, memory, locks, scan, pageState, session, TypeOK, Uses
<1>4. CallInv'
  <2>1. ok' \in [Threads -> BOOLEAN]
    <3>1. \E b \in BOOLEAN : ok' = [ok EXCEPT ![Page] = b]
      BY DEF Ensure, Kept
    <3> QED
      BY <1>1, <3>1 DEF CallInv
  <2>2. UNCHANGED <<back, entry, call, found>> /\ pc[Page] = "ensure"
        /\ use' = [use EXCEPT ![Page] = "unpack"] /\ \E w \in {"ensured", "find"} : Goto(Page, w)
    BY DEF Ensure, scan
  <2> QED
    BY <1>1, <1>2, <2>1, <2>2, ThreadsAreApart
       DEF Goto, CallInv, Editing, EditRuns, Finding, Where, WhereOnPage, Threads, Uses
<1>5. LockInv'
  BY <1>1, <1>2, ThreadsAreApart
     DEF Ensure, Goto, locks, scan, LockInv, Scanning, Editing, EditRuns, Finding, CallInv
<1>6. BlockInv'
  <2> SUFFICES ASSUME NEW x \in mem'
               PROVE  Accounted(x)'
    BY DEF BlockInv
  <2>1. x \in mem /\ x.by \in Threads /\ x.use \in Uses /\ Accounted(x)
    BY <1>1, <1>2 DEF BlockInv, Blocks, Ensure, memory
  <2> QED
    BY <1>1, <1>2, <2>1, ThreadsAreApart
       DEF Ensure, Goto, memory, locks, scan, session, Accounted, HasImage, Managing,
           CallInv
<1>7. ScanScratchInv'
  BY <1>1, <1>2, ThreadsAreApart
     DEF Ensure, Goto, memory, scan, session, ScanScratchInv, Managing, Mine, CallInv
<1>8. ImageInv'
  BY <1>1, <1>2, ThreadsAreApart
     DEF Ensure, Goto, memory, pageState, session, ImageInv, Mine, CallInv
<1>9. EntryInv'
  BY <1>1, <1>2, ThreadsAreApart
     DEF Ensure, Goto, scan, EntryInv, CallInv
<1>10. EditInv'
  BY <1>1, <1>2, ThreadsAreApart
     DEF Ensure, Goto, card, memory, EditInv, EditRuns, Mine, Finding, CallInv
<1> QED
  BY <1>3, <1>4, <1>5, <1>6, <1>7, <1>8, <1>9, <1>10 DEF OnlineInv

LEMMA UnpackStartKeeps ==
    ASSUME OnlineInv, UnpackStart
    PROVE  OnlineInv'
<1>1. /\ TypeOK /\ CallInv /\ LockInv /\ BlockInv /\ ScanScratchInv /\ ImageInv /\ EntryInv
      /\ EditInv
  BY DEF OnlineInv
<1>2. /\ use \in [Threads -> Uses] /\ mem \subseteq Blocks
      /\ Page \in Threads /\ (\A u \in Threads : u # Page => u \in Plugins)
  BY <1>1 DEF TypeOK, Threads
<1>3. TypeOK'
  BY <1>1, <1>2, ThreadsAreApart
     DEF UnpackStart, NoLibrary, Goto, memory, alloc, scan, pageState, session, TypeOK
<1>4. CallInv'
  BY <1>1, <1>2, ThreadsAreApart
     DEF UnpackStart, NoLibrary, Goto, alloc, scan, CallInv, Editing, EditRuns, Finding,
         Where, WhereOnPage, Threads
<1>5. LockInv'
  BY <1>1, <1>2, ThreadsAreApart
     DEF UnpackStart, NoLibrary, Goto, alloc, scan, LockInv, Scanning, Editing, EditRuns,
         Finding, CallInv
<1>6. BlockInv'
  <2> SUFFICES ASSUME NEW x \in mem'
               PROVE  Accounted(x)'
    BY DEF BlockInv
  <2>1. x \in mem /\ x.by \in Threads /\ x.use \in Uses /\ Accounted(x)
    BY <1>1, <1>2 DEF BlockInv, Blocks, UnpackStart, memory
  <2> QED
    BY <1>1, <1>2, <2>1, ThreadsAreApart
       DEF UnpackStart, NoLibrary, Goto, memory, alloc, scan, session, Accounted, HasImage,
           Managing, CallInv
<1>7. ScanScratchInv'
  BY <1>1, <1>2, ThreadsAreApart
     DEF UnpackStart, NoLibrary, Goto, memory, alloc, scan, session, ScanScratchInv,
         Managing, Mine, CallInv
<1>8. ImageInv'
  BY <1>1, <1>2, ThreadsAreApart
     DEF UnpackStart, NoLibrary, Goto, memory, alloc, pageState, session, ImageInv, Mine,
         CallInv
<1>9. EntryInv'
  BY <1>1, <1>2, ThreadsAreApart
     DEF UnpackStart, NoLibrary, Goto, alloc, scan, EntryInv, Unpacking, CallInv
<1>10. EditInv'
  BY <1>1, <1>2, ThreadsAreApart
     DEF UnpackStart, NoLibrary, Goto, memory, alloc, EditInv, EditRuns, Mine, Finding,
         CallInv
<1> QED
  BY <1>3, <1>4, <1>5, <1>6, <1>7, <1>8, <1>9, <1>10 DEF OnlineInv

LEMMA UnpackWriteKeeps ==
    ASSUME OnlineInv, UnpackWrite
    PROVE  OnlineInv'
<1>1. /\ TypeOK /\ CallInv /\ LockInv /\ BlockInv /\ ScanScratchInv /\ ImageInv /\ EntryInv
      /\ EditInv
  BY DEF OnlineInv
<1>2. /\ use \in [Threads -> Uses] /\ mem \subseteq Blocks
      /\ Page \in Threads /\ (\A u \in Threads : u # Page => u \in Plugins)
  BY <1>1 DEF TypeOK, Threads
<1>3. TypeOK'
  <2>1. entry[Page] \in Entries
    BY <1>1, <1>2 DEF UnpackWrite, TypeOK, EntryInv, Unpacking
  <2>2. entry[Page].version \in Versions
    BY <2>1 DEF Entries
  <2>3. lib' \in [version : Versions \cup {None}, whole : BOOLEAN]
    <3>1. lib' = lib \/ lib' = [version |-> entry[Page].version, whole |-> TRUE]
      BY DEF UnpackWrite
    <3>2. lib \in [version : Versions \cup {None}, whole : BOOLEAN]
      BY <1>1 DEF TypeOK
    <3>3. [version |-> entry[Page].version,
              whole |-> TRUE] \in [version : Versions \cup {None}, whole : BOOLEAN]
      BY <2>2
    <3> QED
      BY <3>1, <3>2, <3>3, Zenon
  <2>4. UNCHANGED <<dir, sources, memory, openOnline, locks, ready, force, shared, use, found,
            entry, call>>
    BY DEF UnpackWrite, alloc, scan, pageState, session
  <2> QED
    BY <1>1, <2>3, <2>4 DEF TypeOK, memory, locks
<1>4. CallInv'
  <2>1. /\ ok' \in [Threads -> BOOLEAN] /\ UNCHANGED <<back, entry, call, use, found>>
        /\ pc[Page] = "unpack" /\ Goto(Page, "unpackUnlock")
    BY <1>1 DEF UnpackWrite, alloc, scan, CallInv
  <2> QED
    BY <1>1, <1>2, <2>1, ThreadsAreApart
       DEF Goto, CallInv, Editing, EditRuns, Finding, Where, WhereOnPage, Threads, Uses
<1>5. LockInv'
  BY <1>1, <1>2, ThreadsAreApart
     DEF UnpackWrite, Goto, locks, alloc, scan, LockInv, Scanning, Editing, EditRuns,
         Finding
<1>6. BlockInv'
  <2> SUFFICES ASSUME NEW x \in mem'
               PROVE  Accounted(x)'
    BY DEF BlockInv
  <2>1. x \in mem /\ x.by \in Threads /\ x.use \in Uses /\ Accounted(x)
    BY <1>1, <1>2 DEF BlockInv, Blocks, UnpackWrite, memory
  <2> QED
    BY <1>1, <1>2, <2>1, ThreadsAreApart
       DEF UnpackWrite, Goto, memory, locks, alloc, scan, session, Accounted, HasImage,
           Managing
<1>7. ScanScratchInv'
  BY <1>1, <1>2, ThreadsAreApart
     DEF UnpackWrite, Goto, memory, alloc, scan, session, ScanScratchInv, Managing, Mine
<1>8. ImageInv'
  BY <1>1, <1>2, ThreadsAreApart
     DEF UnpackWrite, Goto, memory, alloc, pageState, session, ImageInv, Mine
<1>9. EntryInv'
  BY <1>1, <1>2, ThreadsAreApart
     DEF UnpackWrite, Goto, alloc, scan, EntryInv, Unpacking
<1>10. EditInv'
  BY <1>1, <1>2, ThreadsAreApart
     DEF UnpackWrite, Goto, memory, alloc, EditInv, EditRuns, Mine, Finding, CallInv
<1> QED
  BY <1>3, <1>4, <1>5, <1>6, <1>7, <1>8, <1>9, <1>10 DEF OnlineInv

LEMMA UnpackUnlockKeeps ==
    ASSUME OnlineInv, UnpackUnlock
    PROVE  OnlineInv'
<1>1. /\ TypeOK /\ CallInv /\ LockInv /\ BlockInv /\ ScanScratchInv /\ ImageInv /\ EntryInv
      /\ EditInv
  BY DEF OnlineInv
<1>2. /\ use \in [Threads -> Uses] /\ mem \subseteq Blocks
      /\ Page \in Threads /\ (\A u \in Threads : u # Page => u \in Plugins)
  BY <1>1 DEF TypeOK, Threads
<1>3. TypeOK'
  BY <1>1, <1>2, ThreadsAreApart
     DEF UnpackUnlock, Goto, card, memory, alloc, scan, pageState, edit, session, TypeOK
<1>4. CallInv'
  BY <1>1, <1>2, ThreadsAreApart
     DEF UnpackUnlock, Goto, alloc, scan, edit, CallInv, Editing, EditRuns, Finding, Where,
         WhereOnPage
<1>5. LockInv'
  BY <1>1, <1>2, ThreadsAreApart
     DEF UnpackUnlock, Goto, alloc, scan, edit, LockInv, Scanning, Editing, EditRuns,
         Finding, CallInv
<1>6. BlockInv'
  <2> SUFFICES ASSUME NEW x \in mem'
               PROVE  Accounted(x)'
    BY DEF BlockInv
  <2>1. x \in mem /\ x.by \in Threads /\ x.use \in Uses /\ Accounted(x)
    BY <1>1, <1>2 DEF BlockInv, Blocks, UnpackUnlock, memory
  <2> QED
    BY <1>1, <1>2, <2>1, ThreadsAreApart
       DEF UnpackUnlock, Goto, memory, alloc, scan, edit, session, Accounted, HasImage,
           Managing, LockInv
<1>7. ScanScratchInv'
  BY <1>1, <1>2, ThreadsAreApart
     DEF UnpackUnlock, Goto, memory, alloc, scan, session, ScanScratchInv, Managing, Mine
<1>8. ImageInv'
  BY <1>1, <1>2, ThreadsAreApart
     DEF UnpackUnlock, Goto, memory, alloc, pageState, edit, session, ImageInv, Mine
<1>9. EntryInv'
  BY <1>1, <1>2, ThreadsAreApart
     DEF UnpackUnlock, Goto, alloc, scan, EntryInv, Unpacking, Finding
<1>10. EditInv'
  BY <1>1, <1>2, ThreadsAreApart
     DEF UnpackUnlock, Goto, card, memory, alloc, edit, EditInv, EditRuns, Mine, Finding
<1> QED
  BY <1>3, <1>4, <1>5, <1>6, <1>7, <1>8, <1>9, <1>10 DEF OnlineInv

LEMMA UnpackFreeKeeps ==
    ASSUME OnlineInv, UnpackFree
    PROVE  OnlineInv'
<1>1. /\ TypeOK /\ CallInv /\ LockInv /\ BlockInv /\ ScanScratchInv /\ ImageInv /\ EntryInv
      /\ EditInv
  BY DEF OnlineInv
<1>2. /\ use \in [Threads -> Uses] /\ mem \subseteq Blocks
      /\ Page \in Threads /\ (\A u \in Threads : u # Page => u \in Plugins)
  BY <1>1 DEF TypeOK, Threads
<1>3. TypeOK'
  BY <1>1, <1>2, ThreadsAreApart
     DEF UnpackFree, Goto, card, locks, alloc, scan, pageState, edit, session, TypeOK
<1>4. CallInv'
  BY <1>1, <1>2, ThreadsAreApart
     DEF UnpackFree, Goto, alloc, scan, edit, CallInv, Editing, EditRuns, Finding, Where,
         WhereOnPage
<1>5. LockInv'
  BY <1>1, <1>2, ThreadsAreApart
     DEF UnpackFree, Goto, locks, alloc, scan, edit, LockInv, Scanning, Editing, EditRuns,
         Finding
<1>6. BlockInv'
  <2> SUFFICES ASSUME NEW x \in mem'
               PROVE  Accounted(x)'
    BY DEF BlockInv
  <2>1. x \in mem /\ x.by \in Threads /\ x.use \in Uses /\ Accounted(x)
    BY <1>1, <1>2 DEF BlockInv, Blocks, UnpackFree, Mine
  <2> QED
    BY <1>1, <1>2, <2>1, ThreadsAreApart
       DEF UnpackFree, Mine, Goto, locks, alloc, scan, edit, session, Accounted, HasImage,
           Managing
<1>7. ScanScratchInv'
  BY <1>1, <1>2, ThreadsAreApart
     DEF UnpackFree, Mine, Goto, alloc, scan, session, ScanScratchInv, Managing
<1>8. ImageInv'
  BY <1>1, <1>2, ThreadsAreApart
     DEF UnpackFree, Mine, Goto, alloc, pageState, edit, session, ImageInv
<1>9. EntryInv'
  BY <1>1, <1>2, ThreadsAreApart
     DEF UnpackFree, Goto, alloc, scan, EntryInv, Unpacking, Finding
<1>10. EditInv'
  BY <1>1, <1>2, ThreadsAreApart
     DEF UnpackFree, Mine, Goto, card, alloc, edit, EditInv, EditRuns, Finding
<1> QED
  BY <1>3, <1>4, <1>5, <1>6, <1>7, <1>8, <1>9, <1>10 DEF OnlineInv

LEMMA EnsuredKeeps ==
    ASSUME OnlineInv, Ensured
    PROVE  OnlineInv'
<1>1. /\ TypeOK /\ CallInv /\ LockInv /\ BlockInv /\ ScanScratchInv /\ ImageInv /\ EntryInv
      /\ EditInv
  BY DEF OnlineInv
<1>2. /\ use \in [Threads -> Uses] /\ mem \subseteq Blocks
      /\ Page \in Threads /\ (\A u \in Threads : u # Page => u \in Plugins)
  BY <1>1 DEF TypeOK, Threads
<1>3. TypeOK'
  <2>1. ready' \in BOOLEAN
    BY <1>1, <1>2 DEF Ensured, TypeOK, CallInv
  <2>2. force' \in BOOLEAN /\ shared' \in BOOLEAN /\ UNCHANGED <<dir, lib, sources, mem,
            scanScratch, fetchScratch, openOnline, locks, use, found, call>>
        /\ entry' = [entry EXCEPT ![Page] = None]
    BY <1>1 DEF Ensured, TypeOK, card, memory, alloc, session
  <2> QED
    BY <1>1, <1>2, <2>1, <2>2 DEF TypeOK, CallInv, locks
<1>4. CallInv'
  BY <1>1, <1>2, ThreadsAreApart
     DEF Ensured, Goto, alloc, CallInv, Editing, EditRuns, Finding, Where, WhereOnPage
<1>5. LockInv'
  BY <1>1, <1>2, ThreadsAreApart
     DEF Ensured, Goto, locks, alloc, LockInv, Scanning, Editing, EditRuns, Finding
<1>6. BlockInv'
  <2> SUFFICES ASSUME NEW x \in mem'
               PROVE  Accounted(x)'
    BY DEF BlockInv
  <2>1. x \in mem /\ x.by \in Threads /\ x.use \in Uses /\ Accounted(x)
    BY <1>1, <1>2 DEF BlockInv, Blocks, Ensured, memory
  <2> QED
    BY <1>1, <1>2, <2>1, ThreadsAreApart
       DEF Ensured, Goto, memory, locks, alloc, session, Accounted, HasImage, Managing
<1>7. ScanScratchInv'
  BY <1>1, <1>2, ThreadsAreApart
     DEF Ensured, Goto, memory, alloc, session, ScanScratchInv, Managing, Mine
<1>8. ImageInv'
  BY <1>1, <1>2, ThreadsAreApart
     DEF Ensured, Goto, memory, alloc, session, ImageInv, Mine
<1>9. EntryInv'
  BY <1>1, <1>2, ThreadsAreApart
     DEF Ensured, Goto, alloc, EntryInv, Unpacking, Finding
<1>10. EditInv'
  BY <1>1, <1>2, ThreadsAreApart
     DEF Ensured, Goto, card, memory, alloc, EditInv, EditRuns, Mine, Finding
<1> QED
  BY <1>3, <1>4, <1>5, <1>6, <1>7, <1>8, <1>9, <1>10 DEF OnlineInv

LEMMA LoadKeeps ==
    ASSUME OnlineInv, Load
    PROVE  OnlineInv'
<1>1. /\ TypeOK /\ CallInv /\ LockInv /\ BlockInv /\ ScanScratchInv /\ ImageInv /\ EntryInv
      /\ EditInv
  BY DEF OnlineInv
<1>2. /\ use \in [Threads -> Uses] /\ mem \subseteq Blocks
      /\ Page \in Threads /\ (\A u \in Threads : u # Page => u \in Plugins)
  BY <1>1 DEF TypeOK, Threads
<1>3. TypeOK'
  BY <1>1, <1>2, ThreadsAreApart
     DEF Load, Goto, card, memory, locks, scan, edit, session, TypeOK, Uses
<1>4. CallInv'
  BY <1>1, <1>2, ThreadsAreApart
     DEF Load, Goto, scan, edit, CallInv, Editing, EditRuns, Finding, Where, WhereOnPage,
         Threads
<1>5. LockInv'
  BY <1>1, <1>2, ThreadsAreApart
     DEF Load, Goto, locks, scan, edit, LockInv, Scanning, Editing, EditRuns, Finding,
         CallInv
<1>6. BlockInv'
  <2> SUFFICES ASSUME NEW x \in mem'
               PROVE  Accounted(x)'
    BY DEF BlockInv
  <2>1. x \in mem /\ x.by \in Threads /\ x.use \in Uses /\ Accounted(x)
    BY <1>1, <1>2 DEF BlockInv, Blocks, Load, memory
  <2> QED
    BY <1>1, <1>2, <2>1, ThreadsAreApart
       DEF Load, Goto, memory, locks, scan, edit, session, Accounted, HasImage, Managing,
           CallInv
<1>7. ScanScratchInv'
  BY <1>1, <1>2, ThreadsAreApart
     DEF Load, Goto, memory, scan, session, ScanScratchInv, Managing, Mine, CallInv
<1>8. ImageInv'
  BY <1>1, <1>2, ThreadsAreApart
     DEF Load, Goto, edit, session, ImageInv, CallInv, Editing, EditRuns, Finding
<1>9. EntryInv'
  BY <1>1, <1>2, ThreadsAreApart
     DEF Load, Goto, scan, EntryInv, Unpacking, Finding, CallInv
<1>10. EditInv'
  BY <1>1, <1>2, ThreadsAreApart
     DEF Load, Goto, card, memory, edit, EditInv, EditRuns, Mine, Finding, CallInv
<1> QED
  BY <1>3, <1>4, <1>5, <1>6, <1>7, <1>8, <1>9, <1>10 DEF OnlineInv

LEMMA StartLibraryKeeps ==
    ASSUME OnlineInv, StartLibrary
    PROVE  OnlineInv'
<1>1. /\ TypeOK /\ CallInv /\ LockInv /\ BlockInv /\ ScanScratchInv /\ ImageInv /\ EntryInv
      /\ EditInv
  BY DEF OnlineInv
<1>2. /\ use \in [Threads -> Uses] /\ mem \subseteq Blocks
      /\ Page \in Threads /\ (\A u \in Threads : u # Page => u \in Plugins)
  BY <1>1 DEF TypeOK, Threads
<1>3. TypeOK'
  <2>1. (CHOOSE x \in Mine(Page, "image") : TRUE) \in Mine(Page, "image")
    BY <1>1 DEF StartLibrary, ImageInv
  <2> QED
    BY <1>1, <1>2, <2>1, ThreadsAreApart
       DEF StartLibrary, ApiFits, Mine, Goto, ImageFreed, card, locks, alloc, scan, edit,
           session, TypeOK
<1>4. CallInv'
  BY <1>1, <1>2, ThreadsAreApart
     DEF StartLibrary, ApiFits, Goto, ImageFreed, alloc, scan, edit, CallInv, Editing,
         EditRuns, Finding, Where, WhereOnPage, Threads
<1>5. LockInv'
  BY <1>1, <1>2, ThreadsAreApart
     DEF StartLibrary, ApiFits, Goto, ImageFreed, locks, alloc, scan, edit, LockInv,
         Scanning, Editing, EditRuns, Finding, CallInv
<1>6. BlockInv'
  <2> SUFFICES ASSUME NEW x \in mem'
               PROVE  Accounted(x)'
    BY DEF BlockInv
  <2>1. x \in mem /\ x.by \in Threads /\ x.use \in Uses /\ Accounted(x)
    BY <1>1, <1>2 DEF BlockInv, Blocks, StartLibrary, Mine, ImageFreed
  <2> QED
    BY <1>1, <1>2, <2>1, ThreadsAreApart
       DEF StartLibrary, ApiFits, Mine, Goto, ImageFreed, locks, alloc, scan, edit,
           session, Accounted, HasImage, Managing, CallInv
<1>7. ScanScratchInv'
  BY <1>1, <1>2, ThreadsAreApart
     DEF StartLibrary, ApiFits, Mine, Goto, ImageFreed, alloc, scan, session,
         ScanScratchInv, Managing, CallInv
<1>8. ImageInv'
  <2>1. (CHOOSE x \in Mine(Page, "image") : TRUE) \in Mine(Page, "image")
    BY <1>1 DEF StartLibrary, ImageInv
  <2> QED
    BY <1>1, <1>2, <2>1, ThreadsAreApart
       DEF StartLibrary, ApiFits, Mine, Goto, ImageFreed, alloc, edit, session, ImageInv,
           CallInv, Editing, EditRuns, Finding
<1>9. EntryInv'
  BY <1>1, <1>2, ThreadsAreApart
     DEF StartLibrary, ApiFits, Goto, ImageFreed, alloc, scan, EntryInv, Unpacking,
         Finding, CallInv
<1>10. EditInv'
  BY <1>1, <1>2, ThreadsAreApart
     DEF StartLibrary, ApiFits, Mine, Goto, ImageFreed, card, alloc, edit, EditInv,
         EditRuns, Finding, CallInv
<1> QED
  BY <1>3, <1>4, <1>5, <1>6, <1>7, <1>8, <1>9, <1>10 DEF OnlineInv

LEMMA LoadFailedKeeps ==
    ASSUME OnlineInv, LoadFailed
    PROVE  OnlineInv'
<1>1. /\ TypeOK /\ CallInv /\ LockInv /\ BlockInv /\ ScanScratchInv /\ ImageInv /\ EntryInv
      /\ EditInv
  BY DEF OnlineInv
<1>2. /\ use \in [Threads -> Uses] /\ mem \subseteq Blocks
      /\ Page \in Threads /\ (\A u \in Threads : u # Page => u \in Plugins)
  BY <1>1 DEF TypeOK, Threads
<1>3. TypeOK'
  BY <1>1, <1>2, ThreadsAreApart
     DEF LoadFailed, Goto, card, memory, locks, alloc, scan, edit, session, TypeOK
<1>4. CallInv'
  BY <1>1, <1>2, ThreadsAreApart
     DEF LoadFailed, Goto, alloc, scan, edit, CallInv, Editing, EditRuns, Finding, Where,
         WhereOnPage, Threads
<1>5. LockInv'
  BY <1>1, <1>2, ThreadsAreApart
     DEF LoadFailed, Goto, locks, alloc, scan, edit, LockInv, Scanning, Editing, EditRuns,
         Finding, CallInv
<1>6. BlockInv'
  <2> SUFFICES ASSUME NEW x \in mem'
               PROVE  Accounted(x)'
    BY DEF BlockInv
  <2>1. x \in mem /\ x.by \in Threads /\ x.use \in Uses /\ Accounted(x)
    BY <1>1, <1>2 DEF BlockInv, Blocks, LoadFailed, memory
  <2> QED
    BY <1>1, <1>2, <2>1, ThreadsAreApart
       DEF LoadFailed, Goto, memory, locks, alloc, scan, edit, session, Accounted,
           HasImage, Managing, CallInv
<1>7. ScanScratchInv'
  BY <1>1, <1>2, ThreadsAreApart
     DEF LoadFailed, Goto, memory, alloc, scan, session, ScanScratchInv, Managing, Mine,
         CallInv
<1>8. ImageInv'
  BY <1>1, <1>2, ThreadsAreApart
     DEF LoadFailed, Goto, alloc, edit, session, ImageInv, CallInv, Editing, EditRuns,
         Finding
<1>9. EntryInv'
  BY <1>1, <1>2, ThreadsAreApart
     DEF LoadFailed, Goto, alloc, scan, EntryInv, Unpacking, Finding, CallInv
<1>10. EditInv'
  BY <1>1, <1>2, ThreadsAreApart
     DEF LoadFailed, Goto, card, memory, alloc, edit, EditInv, EditRuns, Mine, Finding,
         CallInv
<1> QED
  BY <1>3, <1>4, <1>5, <1>6, <1>7, <1>8, <1>9, <1>10 DEF OnlineInv

LEMMA UnloadKeeps ==
    ASSUME OnlineInv, Unload
    PROVE  OnlineInv'
<1>1. /\ TypeOK /\ CallInv /\ LockInv /\ BlockInv /\ ScanScratchInv /\ ImageInv /\ EntryInv
      /\ EditInv
  BY DEF OnlineInv
<1>2. /\ use \in [Threads -> Uses] /\ mem \subseteq Blocks
      /\ Page \in Threads /\ (\A u \in Threads : u # Page => u \in Plugins)
  BY <1>1 DEF TypeOK, Threads
<1>3. TypeOK'
  BY <1>1, <1>2, ThreadsAreApart
     DEF Unload, Goto, card, memory, locks, alloc, scan, edit, session, TypeOK
<1>4. CallInv'
  BY <1>1, <1>2, ThreadsAreApart
     DEF Unload, Goto, alloc, scan, edit, CallInv, Editing, EditRuns, Finding, Where,
         WhereOnPage
<1>5. LockInv'
  BY <1>1, <1>2, ThreadsAreApart
     DEF Unload, Goto, locks, alloc, scan, edit, LockInv, Scanning, Editing, EditRuns,
         Finding
<1>6. BlockInv'
  <2> SUFFICES ASSUME NEW x \in mem'
               PROVE  Accounted(x)'
    BY DEF BlockInv
  <2>1. x \in mem /\ x.by \in Threads /\ x.use \in Uses /\ Accounted(x)
    BY <1>1, <1>2 DEF BlockInv, Blocks, Unload, memory
  <2> QED
    BY <1>1, <1>2, <2>1, ThreadsAreApart
       DEF Unload, Goto, memory, locks, alloc, scan, edit, session, Accounted, HasImage,
           Managing
<1>7. ScanScratchInv'
  BY <1>1, <1>2, ThreadsAreApart
     DEF Unload, Goto, memory, alloc, scan, session, ScanScratchInv, Managing, Mine
<1>8. ImageInv'
  BY <1>1, <1>2, ThreadsAreApart
     DEF Unload, Goto, alloc, edit, session, ImageInv, CallInv, Editing, EditRuns, Finding
<1>9. EntryInv'
  BY <1>1, <1>2, ThreadsAreApart
     DEF Unload, Goto, alloc, scan, EntryInv, Unpacking, Finding
<1>10. EditInv'
  BY <1>1, <1>2, ThreadsAreApart
     DEF Unload, Goto, card, memory, alloc, edit, EditInv, EditRuns, Mine, Finding
<1> QED
  BY <1>3, <1>4, <1>5, <1>6, <1>7, <1>8, <1>9, <1>10 DEF OnlineInv

LEMMA FreeImageKeeps ==
    ASSUME OnlineInv, FreeImage
    PROVE  OnlineInv'
<1>1. /\ TypeOK /\ CallInv /\ LockInv /\ BlockInv /\ ScanScratchInv /\ ImageInv /\ EntryInv
      /\ EditInv
  BY DEF OnlineInv
<1>2. /\ use \in [Threads -> Uses] /\ mem \subseteq Blocks
      /\ Page \in Threads /\ (\A u \in Threads : u # Page => u \in Plugins)
  BY <1>1 DEF TypeOK, Threads
<1>3. TypeOK'
  BY <1>1, <1>2, ThreadsAreApart
     DEF FreeImage, ImageFreed, Goto, card, locks, alloc, scan, edit, session, TypeOK
<1>4. CallInv'
  BY <1>1, <1>2, ThreadsAreApart
     DEF FreeImage, ImageFreed, Goto, alloc, scan, edit, CallInv, Editing, EditRuns,
         Finding, Where, WhereOnPage
<1>5. LockInv'
  BY <1>1, <1>2, ThreadsAreApart
     DEF FreeImage, ImageFreed, Goto, locks, alloc, scan, edit, LockInv, Scanning, Editing,
         EditRuns, Finding
<1>6. BlockInv'
  <2> SUFFICES ASSUME NEW x \in mem'
               PROVE  Accounted(x)'
    BY DEF BlockInv
  <2>1. x \in mem /\ x.by \in Threads /\ x.use \in Uses /\ Accounted(x)
    BY <1>1, <1>2 DEF BlockInv, Blocks, FreeImage, ImageFreed, Mine
  <2> QED
    BY <1>1, <1>2, <2>1, ThreadsAreApart
       DEF FreeImage, ImageFreed, Mine, Goto, locks, alloc, scan, edit, session, Accounted,
           Managing
<1>7. ScanScratchInv'
  BY <1>1, <1>2, ThreadsAreApart
     DEF FreeImage, ImageFreed, Mine, Goto, alloc, scan, session, ScanScratchInv, Managing
<1>8. ImageInv'
  BY <1>1, <1>2, ThreadsAreApart
     DEF FreeImage, ImageFreed, Goto, alloc, edit, session, ImageInv, CallInv, Editing,
         EditRuns, Finding
<1>9. EntryInv'
  BY <1>1, <1>2, ThreadsAreApart
     DEF FreeImage, ImageFreed, Goto, alloc, scan, EntryInv, Unpacking, Finding
<1>10. EditInv'
  BY <1>1, <1>2, ThreadsAreApart
     DEF FreeImage, ImageFreed, Mine, Goto, card, alloc, edit, EditInv, EditRuns, Finding
<1> QED
  BY <1>3, <1>4, <1>5, <1>6, <1>7, <1>8, <1>9, <1>10 DEF OnlineInv

LEMMA OpenManageKeeps ==
    ASSUME OnlineInv, OpenManage
    PROVE  OnlineInv'
<1>1. /\ TypeOK /\ CallInv /\ LockInv /\ BlockInv /\ ScanScratchInv /\ ImageInv /\ EntryInv
      /\ EditInv
  BY DEF OnlineInv
<1>2. /\ use \in [Threads -> Uses] /\ mem \subseteq Blocks
      /\ Page \in Threads /\ (\A u \in Threads : u # Page => u \in Plugins)
  BY <1>1 DEF TypeOK, Threads
<1>3. TypeOK'
  BY <1>1, <1>2, ThreadsAreApart
     DEF OpenManage, Goto, card, memory, locks, scan, pageState, edit, session, TypeOK,
         Uses
<1>4. CallInv'
  BY <1>1, <1>2, ThreadsAreApart
     DEF OpenManage, Goto, scan, edit, CallInv, Editing, EditRuns, Finding, Where,
         WhereOnPage
<1>5. LockInv'
  BY <1>1, <1>2, ThreadsAreApart
     DEF OpenManage, Goto, locks, scan, edit, LockInv, Scanning, Editing, EditRuns, Finding
<1>6. BlockInv'
  <2> SUFFICES ASSUME NEW x \in mem'
               PROVE  Accounted(x)'
    BY DEF BlockInv
  <2>1. x \in mem /\ x.by \in Threads /\ x.use \in Uses /\ Accounted(x)
    BY <1>1, <1>2 DEF BlockInv, Blocks, OpenManage, memory
  <2> QED
    BY <1>1, <1>2, <2>1, ThreadsAreApart
       DEF OpenManage, Goto, memory, locks, scan, edit, session, Accounted, HasImage,
           Managing
<1>7. ScanScratchInv'
  BY <1>1, <1>2, ThreadsAreApart
     DEF OpenManage, Goto, memory, scan, session, ScanScratchInv, Managing, Mine
<1>8. ImageInv'
  BY <1>1, <1>2, ThreadsAreApart
     DEF OpenManage, Goto, memory, pageState, edit, session, ImageInv, Mine
<1>9. EntryInv'
  BY <1>1, <1>2, ThreadsAreApart
     DEF OpenManage, Goto, scan, EntryInv, Unpacking, Finding
<1>10. EditInv'
  BY <1>1, <1>2, ThreadsAreApart
     DEF OpenManage, Goto, card, memory, edit, EditInv, EditRuns, Mine, Finding
<1> QED
  BY <1>3, <1>4, <1>5, <1>6, <1>7, <1>8, <1>9, <1>10 DEF OnlineInv

LEMMA BuildListKeeps ==
    ASSUME OnlineInv, BuildList
    PROVE  OnlineInv'
<1>1. /\ TypeOK /\ CallInv /\ LockInv /\ BlockInv /\ ScanScratchInv /\ ImageInv /\ EntryInv
      /\ EditInv
  BY DEF OnlineInv
<1>2. /\ use \in [Threads -> Uses] /\ mem \subseteq Blocks
      /\ Page \in Threads /\ (\A u \in Threads : u # Page => u \in Plugins)
  BY <1>1 DEF TypeOK, Threads
<1>3. TypeOK'
  BY <1>1, <1>2, ThreadsAreApart
     DEF BuildList, Goto, card, memory, locks, alloc, scan, pageState, edit, session,
         TypeOK
<1>4. CallInv'
  BY <1>1, <1>2, ThreadsAreApart
     DEF BuildList, Goto, alloc, scan, edit, CallInv, Editing, EditRuns, Finding, Where,
         WhereOnPage
<1>5. LockInv'
  BY <1>1, <1>2, ThreadsAreApart
     DEF BuildList, Goto, locks, alloc, scan, edit, LockInv, Scanning, Editing, EditRuns,
         Finding
<1>6. BlockInv'
  <2> SUFFICES ASSUME NEW x \in mem'
               PROVE  Accounted(x)'
    BY DEF BlockInv
  <2>1. x \in mem /\ x.by \in Threads /\ x.use \in Uses /\ Accounted(x)
    BY <1>1, <1>2 DEF BlockInv, Blocks, BuildList, memory
  <2> QED
    BY <1>1, <1>2, <2>1, ThreadsAreApart
       DEF BuildList, Goto, memory, locks, alloc, scan, edit, session, Accounted, HasImage,
           Managing
<1>7. ScanScratchInv'
  BY <1>1, <1>2, ThreadsAreApart
     DEF BuildList, Goto, memory, alloc, scan, session, ScanScratchInv, Managing,
         PluginScans, Mine
<1>8. ImageInv'
  BY <1>1, <1>2, ThreadsAreApart
     DEF BuildList, Goto, memory, alloc, pageState, edit, session, ImageInv, Mine
<1>9. EntryInv'
  BY <1>1, <1>2, ThreadsAreApart
     DEF BuildList, Goto, alloc, scan, EntryInv, Unpacking, Finding
<1>10. EditInv'
  BY <1>1, <1>2, ThreadsAreApart
     DEF BuildList, Goto, card, memory, alloc, edit, EditInv, EditRuns, Mine, Finding
<1> QED
  BY <1>3, <1>4, <1>5, <1>6, <1>7, <1>8, <1>9, <1>10 DEF OnlineInv

LEMMA BuildAgainKeeps ==
    ASSUME OnlineInv, BuildAgain
    PROVE  OnlineInv'
<1>1. /\ TypeOK /\ CallInv /\ LockInv /\ BlockInv /\ ScanScratchInv /\ ImageInv /\ EntryInv
      /\ EditInv
  BY DEF OnlineInv
<1>2. /\ use \in [Threads -> Uses] /\ mem \subseteq Blocks
      /\ Page \in Threads /\ (\A u \in Threads : u # Page => u \in Plugins)
  BY <1>1 DEF TypeOK, Threads
<1>3. TypeOK'
  BY <1>1, <1>2, ThreadsAreApart
     DEF BuildAgain, Goto, card, memory, locks, alloc, scan, pageState, edit, session,
         TypeOK
<1>4. CallInv'
  BY <1>1, <1>2, ThreadsAreApart
     DEF BuildAgain, Goto, alloc, scan, edit, CallInv, Editing, EditRuns, Finding, Where,
         WhereOnPage
<1>5. LockInv'
  BY <1>1, <1>2, ThreadsAreApart
     DEF BuildAgain, Goto, locks, alloc, scan, edit, LockInv, Scanning, Editing, EditRuns,
         Finding
<1>6. BlockInv'
  <2> SUFFICES ASSUME NEW x \in mem'
               PROVE  Accounted(x)'
    BY DEF BlockInv
  <2>1. x \in mem /\ x.by \in Threads /\ x.use \in Uses /\ Accounted(x)
    BY <1>1, <1>2 DEF BlockInv, Blocks, BuildAgain, memory
  <2> QED
    BY <1>1, <1>2, <2>1, ThreadsAreApart
       DEF BuildAgain, Goto, memory, locks, alloc, scan, edit, session, Accounted,
           HasImage, Managing
<1>7. ScanScratchInv'
  BY <1>1, <1>2, ThreadsAreApart
     DEF BuildAgain, Goto, memory, alloc, scan, session, ScanScratchInv, Managing,
         PluginScans, Mine
<1>8. ImageInv'
  BY <1>1, <1>2, ThreadsAreApart
     DEF BuildAgain, Goto, memory, alloc, pageState, edit, session, ImageInv, Mine
<1>9. EntryInv'
  BY <1>1, <1>2, ThreadsAreApart
     DEF BuildAgain, Goto, alloc, scan, EntryInv, Unpacking, Finding
<1>10. EditInv'
  BY <1>1, <1>2, ThreadsAreApart
     DEF BuildAgain, Goto, card, memory, alloc, edit, EditInv, EditRuns, Mine, Finding
<1> QED
  BY <1>3, <1>4, <1>5, <1>6, <1>7, <1>8, <1>9, <1>10 DEF OnlineInv

LEMMA LeaveManageKeeps ==
    ASSUME OnlineInv, LeaveManage
    PROVE  OnlineInv'
<1>1. /\ TypeOK /\ CallInv /\ LockInv /\ BlockInv /\ ScanScratchInv /\ ImageInv /\ EntryInv
      /\ EditInv
  BY DEF OnlineInv
<1>2. /\ use \in [Threads -> Uses] /\ mem \subseteq Blocks
      /\ Page \in Threads /\ (\A u \in Threads : u # Page => u \in Plugins)
  BY <1>1 DEF TypeOK, Threads
<1>3. TypeOK'
  BY <1>1, <1>2, ThreadsAreApart
     DEF LeaveManage, ManageFreesBlock, Goto, card, locks, alloc, scan, pageState, edit,
         session, TypeOK
<1>4. CallInv'
  BY <1>1, <1>2, ThreadsAreApart
     DEF LeaveManage, ManageFreesBlock, Goto, alloc, scan, edit, CallInv, Editing,
         EditRuns, Finding, Where, WhereOnPage
<1>5. LockInv'
  BY <1>1, <1>2, ThreadsAreApart
     DEF LeaveManage, ManageFreesBlock, Goto, locks, alloc, scan, edit, LockInv, Scanning,
         Editing, EditRuns, Finding
<1>6. BlockInv'
  <2> SUFFICES ASSUME NEW x \in mem'
               PROVE  Accounted(x)'
    BY DEF BlockInv
  <2>1. x \in mem /\ x.by \in Threads /\ x.use \in Uses /\ Accounted(x) /\ ~(x.by = Page /\
            x.use = "manage")
    BY <1>1, <1>2 DEF BlockInv, Blocks, LeaveManage, ManageFreesBlock, Mine
  <2>2. x.use = "scan" => shared
    BY <1>1, <1>2, <2>1 DEF Accounted, ScanScratchInv, LeaveManage, Managing, Mine
  <2> QED
    BY <1>1, <1>2, <2>1, <2>2, ThreadsAreApart
       DEF LeaveManage, ManageFreesBlock, Goto, locks, alloc, scan, edit, session,
           Accounted, HasImage
<1>7. ScanScratchInv'
  BY <1>1, <1>2, ThreadsAreApart
     DEF LeaveManage, ManageFreesBlock, Mine, Goto, alloc, scan, session, ScanScratchInv,
         Managing, CallInv
<1>8. ImageInv'
  BY <1>1, <1>2, ThreadsAreApart
     DEF LeaveManage, ManageFreesBlock, Mine, Goto, alloc, pageState, edit, session,
         ImageInv
<1>9. EntryInv'
  BY <1>1, <1>2, ThreadsAreApart
     DEF LeaveManage, ManageFreesBlock, Goto, alloc, scan, EntryInv, Unpacking, Finding
<1>10. EditInv'
  BY <1>1, <1>2, ThreadsAreApart
     DEF LeaveManage, ManageFreesBlock, Mine, Goto, card, alloc, edit, EditInv, EditRuns,
         Finding
<1> QED
  BY <1>3, <1>4, <1>5, <1>6, <1>7, <1>8, <1>9, <1>10 DEF OnlineInv

LEMMA EditSourcesKeeps ==
    ASSUME OnlineInv, NEW t \in Threads, EditSources(t)
    PROVE  OnlineInv'
<1>1. /\ TypeOK /\ CallInv /\ LockInv /\ BlockInv /\ ScanScratchInv /\ ImageInv /\ EntryInv
      /\ EditInv
  BY DEF OnlineInv
<1>2. /\ use \in [Threads -> Uses] /\ mem \subseteq Blocks
      /\ Page \in Threads /\ (\A u \in Threads : u # Page => u \in Plugins)
  BY <1>1 DEF TypeOK, Threads
<1>3. TypeOK'
  BY <1>1, <1>2, ThreadsAreApart
     DEF EditSources, Goto, card, memory, locks, alloc, scan, pageState, session, TypeOK
<1>4. CallInv'
  BY <1>1, <1>2, ThreadsAreApart
     DEF EditSources, Goto, alloc, scan, CallInv, Editing, EditRuns, Finding, Where,
         WhereOnPage
<1>5. LockInv'
  BY <1>1, <1>2, ThreadsAreApart
     DEF EditSources, Goto, locks, alloc, scan, LockInv, Scanning, Editing, EditRuns,
         Finding
<1>6. BlockInv'
  <2> SUFFICES ASSUME NEW x \in mem'
               PROVE  Accounted(x)'
    BY DEF BlockInv
  <2>1. x \in mem /\ x.by \in Threads /\ x.use \in Uses /\ Accounted(x)
    BY <1>1, <1>2 DEF BlockInv, Blocks, EditSources, memory
  <2> QED
    BY <1>1, <1>2, <2>1, ThreadsAreApart
       DEF EditSources, Goto, memory, locks, alloc, scan, session, Accounted, HasImage,
           Managing, CallInv
<1>7. ScanScratchInv'
  BY <1>1, <1>2, ThreadsAreApart
     DEF EditSources, Goto, memory, alloc, scan, session, ScanScratchInv, Managing,
         PluginScans, Mine
<1>8. ImageInv'
  BY <1>1, <1>2, ThreadsAreApart
     DEF EditSources, Goto, memory, alloc, pageState, session, ImageInv, Mine
<1>9. EntryInv'
  BY <1>1, <1>2, ThreadsAreApart
     DEF EditSources, Goto, alloc, scan, EntryInv, Unpacking, Finding
<1>10. EditInv'
  BY <1>1, <1>2, ThreadsAreApart
     DEF EditSources, Goto, card, memory, alloc, EditInv, EditRuns, Mine, Finding
<1> QED
  BY <1>3, <1>4, <1>5, <1>6, <1>7, <1>8, <1>9, <1>10 DEF OnlineInv

LEMMA LockFetchKeeps ==
    ASSUME OnlineInv, NEW t \in Threads, LockFetch(t)
    PROVE  OnlineInv'
<1>1. /\ TypeOK /\ CallInv /\ LockInv /\ BlockInv /\ ScanScratchInv /\ ImageInv /\ EntryInv
      /\ EditInv
  BY DEF OnlineInv
<1>2. /\ use \in [Threads -> Uses] /\ mem \subseteq Blocks
      /\ Page \in Threads /\ (\A u \in Threads : u # Page => u \in Plugins)
  BY <1>1 DEF TypeOK, Threads
<1>3. TypeOK'
  BY <1>1, <1>2, ThreadsAreApart
     DEF LockFetch, edit, Goto, card, memory, scan, pageState, session, TypeOK, Uses
<1>4. CallInv'
  BY <1>1, <1>2, ThreadsAreApart
     DEF LockFetch, edit, Goto, scan, CallInv, Editing, EditRuns, Finding, Where,
         WhereOnPage
<1>5. LockInv'
  BY <1>1, <1>2, ThreadsAreApart
     DEF LockFetch, edit, Goto, scan, LockInv, Scanning, Editing, EditRuns, Finding,
         CallInv
<1>6. BlockInv'
  <2> SUFFICES ASSUME NEW x \in mem'
               PROVE  Accounted(x)'
    BY DEF BlockInv
  <2>1. x \in mem /\ x.by \in Threads /\ x.use \in Uses /\ Accounted(x)
    BY <1>1, <1>2 DEF BlockInv, Blocks, LockFetch, memory
  <2> QED
    BY <1>1, <1>2, <2>1, ThreadsAreApart
       DEF LockFetch, edit, Goto, memory, scan, session, Accounted, HasImage, Managing
<1>7. ScanScratchInv'
  BY <1>1, <1>2, ThreadsAreApart
     DEF LockFetch, Goto, memory, scan, session, ScanScratchInv, Managing, PluginScans,
         Mine
<1>8. ImageInv'
  BY <1>1, <1>2, ThreadsAreApart
     DEF LockFetch, edit, Goto, memory, pageState, session, ImageInv, Mine
<1>9. EntryInv'
  BY <1>1, <1>2, ThreadsAreApart
     DEF LockFetch, Goto, scan, EntryInv, Unpacking, Finding
<1>10. EditInv'
  BY <1>1, <1>2, ThreadsAreApart
     DEF LockFetch, edit, Goto, memory, EditInv, EditRuns, Finding, CallInv, LockInv,
         Editing
<1> QED
  BY <1>3, <1>4, <1>5, <1>6, <1>7, <1>8, <1>9, <1>10 DEF OnlineInv

LEMMA ParseSourcesKeeps ==
    ASSUME OnlineInv, NEW t \in Threads, ParseSources(t)
    PROVE  OnlineInv'
<1>1. /\ TypeOK /\ CallInv /\ LockInv /\ BlockInv /\ ScanScratchInv /\ ImageInv /\ EntryInv
      /\ EditInv
  BY DEF OnlineInv
<1>2. /\ use \in [Threads -> Uses] /\ mem \subseteq Blocks
      /\ Page \in Threads /\ (\A u \in Threads : u # Page => u \in Plugins)
  BY <1>1 DEF TypeOK, Threads
<1>3. TypeOK'
  BY <1>1, <1>2, ThreadsAreApart
     DEF ParseSources, Decide, Goto, card, memory, locks, alloc, scan, pageState, session,
         TypeOK
<1>4. CallInv'
  <2>1. ok' \in [Threads -> BOOLEAN]
    <3>1. \E b \in BOOLEAN : ok' = [ok EXCEPT ![t] = b] \/ UNCHANGED ok
      BY DEF ParseSources, Decide, Already
    <3> QED
      BY <1>1, <3>1 DEF CallInv
  <2>2. UNCHANGED <<back, entry, call, found, use>> /\ pc[t] = "parse"
        /\ \E w \in {"editFree", "writeTemp"} : Goto(t, w)
    BY DEF ParseSources, Decide, scan, alloc
  <2> QED
    BY <1>1, <1>2, <2>1, <2>2, ThreadsAreApart
       DEF Goto, CallInv, Editing, EditRuns, Finding, Where, WhereOnPage, Threads, Uses
<1>5. LockInv'
  BY <1>1, <1>2, ThreadsAreApart
     DEF ParseSources, Decide, Goto, locks, alloc, scan, LockInv, Scanning, Editing,
         EditRuns, Finding, CallInv
<1>6. BlockInv'
  <2> SUFFICES ASSUME NEW x \in mem'
               PROVE  Accounted(x)'
    BY DEF BlockInv
  <2>1. x \in mem /\ x.by \in Threads /\ x.use \in Uses /\ Accounted(x)
    BY <1>1, <1>2 DEF BlockInv, Blocks, ParseSources, memory
  <2> QED
    BY <1>1, <1>2, <2>1, ThreadsAreApart
       DEF ParseSources, Decide, Goto, memory, locks, alloc, scan, session, Accounted,
           HasImage, Managing, CallInv
<1>7. ScanScratchInv'
  BY <1>1, <1>2, ThreadsAreApart
     DEF ParseSources, Decide, Goto, memory, alloc, scan, session, ScanScratchInv,
         Managing, PluginScans, Mine, CallInv, Threads
<1>8. ImageInv'
  BY <1>1, <1>2, ThreadsAreApart
     DEF ParseSources, Decide, Goto, memory, alloc, pageState, session, ImageInv, Mine,
         CallInv
<1>9. EntryInv'
  BY <1>1, <1>2, ThreadsAreApart
     DEF ParseSources, Decide, Goto, alloc, scan, EntryInv, Unpacking, Finding, CallInv
<1>10. EditInv'
  <2>1. /\ pc[t] = "parse" /\ call[t] \in Calls /\ fetchLock = t /\ ~ok[t] /\ Len(<<>>) = 0 /\
            ok \in [Threads -> BOOLEAN]
        /\ fetchScratch \in Mine(t, "edit")
    BY <1>1 DEF ParseSources, CallInv, LockInv, Editing, EditRuns, EditInv
  <2>2. UNCHANGED <<sources, mem, fetchScratch, fetchLock, use, call>>
    BY DEF ParseSources, card, memory, locks, alloc
  <2>3. \A u \in Threads : u # t =>
            /\ pc'[u] = pc[u] /\ ok'[u] = ok[u]
            /\ ~Editing(u)
    BY <1>1, <2>1 DEF ParseSources, Decide, Goto, CallInv, LockInv
  <2>4. ASSUME NEW old \in Seq(Sources), Decide(t, old),
               blind' \/ (old = sources /\ UNCHANGED blind)
        PROVE  /\ ok'[t] = Already(old, call[t])
               /\ pc'[t] = "editFree" \/ (pc'[t] = "writeTemp" /\ ~ok'[t])
               /\ pc'[t] = "writeTemp" =>
                      /\ edited' \in Seq(Sources) /\ Done(edited', call[t])
                      /\ Len(edited') <= MaxSources
    <3>1. NewList(old, call[t]) \in Seq(Sources) /\ Done(NewList(old, call[t]), call[t])
      BY <2>1, NewListIsDone
    <3>2. Len(NewList(old, call[t])) \in Nat
      BY <3>1
    <3> QED
      BY <1>1, <2>1, <2>4, <3>1, <3>2, SizesAssumption DEF Decide, Goto, CallInv, TooMany
  <2>5. ASSUME NEW old \in Seq(Sources), Already(old, call[t])
        PROVE  Done(old, call[t])
    BY <2>5 DEF Already, Done
  <2>6. \/ pc'[t] = "editFree" /\ ~ok'[t]
        \/ /\ pc'[t] = "editFree" \/ (pc'[t] = "writeTemp" /\ ~ok'[t])
           /\ pc'[t] = "writeTemp" => edited' \in Seq(Sources) /\ Done(edited',
                  call[t]) /\ Len(edited') <= MaxSources
           /\ ok'[t] /\ ~blind' => Done(sources, call[t])
    <3>1. CASE sources # Unreadable /\ Decide(t, sources) /\ UNCHANGED blind
      <4>1. sources \in Seq(Sources)
        BY <1>1, <3>1 DEF TypeOK
      <4> QED
        BY <2>4, <2>5, <3>1, <4>1
    <3>2. CASE Goto(t, "editFree") /\ UNCHANGED ok
      BY <1>1, <2>1, <3>2 DEF Goto, CallInv
    <3>3. CASE Decide(t, <<>>) /\ blind' = TRUE
      <4>1. <<>> \in Seq(Sources)
        OBVIOUS
      <4> QED
        BY <2>4, <3>3, <4>1
    <3> QED
      BY <3>1, <3>2, <3>3 DEF ParseSources
  <2> QED
    BY <1>1, <1>2, <2>1, <2>2, <2>3, <2>6
       DEF EditInv, EditRuns, Editing, Finding, Mine, LockInv
<1> QED
  BY <1>3, <1>4, <1>5, <1>6, <1>7, <1>8, <1>9, <1>10 DEF OnlineInv

LEMMA WriteTempKeeps ==
    ASSUME OnlineInv, NEW t \in Threads, WriteTemp(t)
    PROVE  OnlineInv'
<1>1. /\ TypeOK /\ CallInv /\ LockInv /\ BlockInv /\ ScanScratchInv /\ ImageInv /\ EntryInv
      /\ EditInv
  BY DEF OnlineInv
<1>2. /\ use \in [Threads -> Uses] /\ mem \subseteq Blocks
      /\ Page \in Threads /\ (\A u \in Threads : u # Page => u \in Plugins)
  BY <1>1 DEF TypeOK, Threads
<1>3. TypeOK'
  BY <1>1, <1>2, ThreadsAreApart
     DEF WriteTemp, Goto, card, memory, locks, alloc, scan, pageState, edit, session,
         TypeOK
<1>4. CallInv'
  BY <1>1, <1>2, ThreadsAreApart
     DEF WriteTemp, Goto, alloc, scan, edit, CallInv, Editing, EditRuns, Finding, Where,
         WhereOnPage, Threads
<1>5. LockInv'
  BY <1>1, <1>2, ThreadsAreApart
     DEF WriteTemp, Goto, locks, alloc, scan, edit, LockInv, Scanning, Editing, EditRuns,
         Finding, CallInv
<1>6. BlockInv'
  <2> SUFFICES ASSUME NEW x \in mem'
               PROVE  Accounted(x)'
    BY DEF BlockInv
  <2>1. x \in mem /\ x.by \in Threads /\ x.use \in Uses /\ Accounted(x)
    BY <1>1, <1>2 DEF BlockInv, Blocks, WriteTemp, memory
  <2> QED
    BY <1>1, <1>2, <2>1, ThreadsAreApart
       DEF WriteTemp, Goto, memory, locks, alloc, scan, edit, session, Accounted, HasImage,
           Managing, CallInv
<1>7. ScanScratchInv'
  BY <1>1, <1>2, ThreadsAreApart
     DEF WriteTemp, Goto, memory, alloc, scan, session, ScanScratchInv, Managing,
         PluginScans, Mine, CallInv, Threads
<1>8. ImageInv'
  BY <1>1, <1>2, ThreadsAreApart
     DEF WriteTemp, Goto, memory, alloc, pageState, edit, session, ImageInv, Mine, CallInv
<1>9. EntryInv'
  BY <1>1, <1>2, ThreadsAreApart
     DEF WriteTemp, Goto, alloc, scan, EntryInv, Unpacking, Finding, CallInv
<1>10. EditInv'
  BY <1>1, <1>2, ThreadsAreApart
     DEF WriteTemp, Goto, card, memory, alloc, edit, EditInv, EditRuns, Mine, Finding,
         CallInv
<1> QED
  BY <1>3, <1>4, <1>5, <1>6, <1>7, <1>8, <1>9, <1>10 DEF OnlineInv

LEMMA OpenTargetKeeps ==
    ASSUME OnlineInv, NEW t \in Threads, OpenTarget(t)
    PROVE  OnlineInv'
<1>1. /\ TypeOK /\ CallInv /\ LockInv /\ BlockInv /\ ScanScratchInv /\ ImageInv /\ EntryInv
      /\ EditInv
  BY DEF OnlineInv
<1>2. /\ use \in [Threads -> Uses] /\ mem \subseteq Blocks
      /\ Page \in Threads /\ (\A u \in Threads : u # Page => u \in Plugins)
  BY <1>1 DEF TypeOK, Threads
<1>3. TypeOK'
  BY <1>1, <1>2, ThreadsAreApart
     DEF OpenTarget, Goto, memory, locks, alloc, scan, pageState, session, TypeOK
<1>4. CallInv'
  BY <1>1, <1>2, ThreadsAreApart
     DEF OpenTarget, Goto, alloc, scan, CallInv, Editing, EditRuns, Finding, Where,
         WhereOnPage, Threads
<1>5. LockInv'
  BY <1>1, <1>2, ThreadsAreApart
     DEF OpenTarget, Goto, locks, alloc, scan, LockInv, Scanning, Editing, EditRuns,
         Finding, CallInv
<1>6. BlockInv'
  <2> SUFFICES ASSUME NEW x \in mem'
               PROVE  Accounted(x)'
    BY DEF BlockInv
  <2>1. x \in mem /\ x.by \in Threads /\ x.use \in Uses /\ Accounted(x)
    BY <1>1, <1>2 DEF BlockInv, Blocks, OpenTarget, memory
  <2> QED
    BY <1>1, <1>2, <2>1, ThreadsAreApart
       DEF OpenTarget, Goto, memory, locks, alloc, scan, session, Accounted, HasImage,
           Managing, CallInv
<1>7. ScanScratchInv'
  BY <1>1, <1>2, ThreadsAreApart
     DEF OpenTarget, Goto, memory, alloc, scan, session, ScanScratchInv, Managing,
         PluginScans, Mine, CallInv, Threads
<1>8. ImageInv'
  BY <1>1, <1>2, ThreadsAreApart
     DEF OpenTarget, Goto, memory, alloc, pageState, session, ImageInv, Mine, CallInv
<1>9. EntryInv'
  BY <1>1, <1>2, ThreadsAreApart
     DEF OpenTarget, Goto, alloc, scan, EntryInv, Unpacking, Finding, CallInv
<1>10. EditInv'
  BY <1>1, <1>2, ThreadsAreApart
     DEF OpenTarget, Goto, memory, alloc, EditInv, EditRuns, Mine, Finding, CallInv,
         LockInv, Editing
<1> QED
  BY <1>3, <1>4, <1>5, <1>6, <1>7, <1>8, <1>9, <1>10 DEF OnlineInv

LEMMA CopyToTargetKeeps ==
    ASSUME OnlineInv, NEW t \in Threads, CopyToTarget(t)
    PROVE  OnlineInv'
<1>1. /\ TypeOK /\ CallInv /\ LockInv /\ BlockInv /\ ScanScratchInv /\ ImageInv /\ EntryInv
      /\ EditInv
  BY DEF OnlineInv
<1>2. /\ use \in [Threads -> Uses] /\ mem \subseteq Blocks
      /\ Page \in Threads /\ (\A u \in Threads : u # Page => u \in Plugins)
  BY <1>1 DEF TypeOK, Threads
<1>3. TypeOK'
  <2>1. edited \in Seq(Sources) /\ Len(edited) <= MaxSources
    BY <1>1 DEF CopyToTarget, EditInv
  <2>2. \A l \in Damaged : l = Unreadable \/ (l \in Seq(Sources) /\ Len(l) <= MaxSources)
    BY <2>1, DamagedIsList
  <2> QED
    BY <1>1, <1>2, <2>1, <2>2, ThreadsAreApart
       DEF CopyToTarget, Goto, memory, locks, alloc, scan, pageState, session, TypeOK
<1>4. CallInv'
  <2>1. /\ ok' \in [Threads -> BOOLEAN] /\ UNCHANGED <<back, entry, call, use, found>>
        /\ pc[t] = "copy" /\ Goto(t, "editFree")
    BY <1>1 DEF CopyToTarget, alloc, scan, CallInv
  <2> QED
    BY <1>1, <1>2, <2>1, ThreadsAreApart
       DEF Goto, CallInv, Editing, EditRuns, Finding, Where, WhereOnPage, Threads, Uses
<1>5. LockInv'
  BY <1>1, <1>2, ThreadsAreApart
     DEF CopyToTarget, Goto, locks, alloc, scan, LockInv, Scanning, Editing, EditRuns,
         Finding
<1>6. BlockInv'
  <2> SUFFICES ASSUME NEW x \in mem'
               PROVE  Accounted(x)'
    BY DEF BlockInv
  <2>1. x \in mem /\ x.by \in Threads /\ x.use \in Uses /\ Accounted(x)
    BY <1>1, <1>2 DEF BlockInv, Blocks, CopyToTarget, memory
  <2> QED
    BY <1>1, <1>2, <2>1, ThreadsAreApart
       DEF CopyToTarget, Goto, memory, locks, alloc, scan, session, Accounted, HasImage,
           Managing
<1>7. ScanScratchInv'
  BY <1>1, <1>2, ThreadsAreApart
     DEF CopyToTarget, Goto, memory, alloc, scan, session, ScanScratchInv, Managing,
         PluginScans, Mine
<1>8. ImageInv'
  BY <1>1, <1>2, ThreadsAreApart
     DEF CopyToTarget, Goto, memory, alloc, pageState, session, ImageInv, Mine
<1>9. EntryInv'
  BY <1>1, <1>2, ThreadsAreApart
     DEF CopyToTarget, Goto, alloc, scan, EntryInv, Unpacking, Finding
<1>10. EditInv'
  BY <1>1, <1>2, ThreadsAreApart
     DEF CopyToTarget, Goto, memory, alloc, EditInv, EditRuns, Finding, CallInv, LockInv,
         Editing
<1> QED
  BY <1>3, <1>4, <1>5, <1>6, <1>7, <1>8, <1>9, <1>10 DEF OnlineInv

LEMMA FreeFetchScratchKeeps ==
    ASSUME OnlineInv, NEW t \in Threads, FreeFetchScratch(t)
    PROVE  OnlineInv'
<1>1. /\ TypeOK /\ CallInv /\ LockInv /\ BlockInv /\ ScanScratchInv /\ ImageInv /\ EntryInv
      /\ EditInv
  BY DEF OnlineInv
<1>2. /\ use \in [Threads -> Uses] /\ mem \subseteq Blocks
      /\ Page \in Threads /\ (\A u \in Threads : u # Page => u \in Plugins)
  BY <1>1 DEF TypeOK, Threads
<1>3. TypeOK'
  BY <1>1, <1>2, ThreadsAreApart
     DEF FreeFetchScratch, Goto, card, locks, alloc, scan, pageState, edit, session, TypeOK
<1>4. CallInv'
  BY <1>1, <1>2, ThreadsAreApart
     DEF FreeFetchScratch, Goto, alloc, scan, edit, CallInv, Editing, EditRuns, Finding,
         Where, WhereOnPage
<1>5. LockInv'
  BY <1>1, <1>2, ThreadsAreApart
     DEF FreeFetchScratch, Goto, locks, alloc, scan, edit, LockInv, Scanning, Editing,
         EditRuns, Finding
<1>6. BlockInv'
  <2> SUFFICES ASSUME NEW x \in mem'
               PROVE  Accounted(x)'
    BY DEF BlockInv
  <2>1. x \in mem /\ x.by \in Threads /\ x.use \in Uses /\ Accounted(x)
    BY <1>1, <1>2 DEF BlockInv, Blocks, FreeFetchScratch
  <2> QED
    BY <1>1, <1>2, <2>1, ThreadsAreApart
       DEF FreeFetchScratch, Goto, locks, alloc, scan, edit, session, Accounted, HasImage,
           Managing
<1>7. ScanScratchInv'
  <2>1. \A x \in mem : x.use # "edit" => x \in mem'
    BY <1>1, <1>2, NoneIsNoBlock DEF FreeFetchScratch, EditInv
  <2>2. mem' \subseteq mem
    BY DEF FreeFetchScratch
  <2>3. /\ pc[t] = "editFree" /\ pc' = [pc EXCEPT ![t] = "editUnlock"]
        /\ UNCHANGED <<scanScratch, pluginFileLock, shared, use, back, openOnline, loading,
               running>>
    BY DEF FreeFetchScratch, Goto, locks, alloc, pageState, edit, session
  <2> QED
    BY <1>1, <1>2, <2>1, <2>2, <2>3, ThreadsAreApart
       DEF ScanScratchInv, Managing, PluginScans, Mine, LockInv, Scanning, Finding, CallInv,
       Where, WhereOnPage, Threads
<1>8. ImageInv'
  <2>1. \A x \in mem : x.use # "edit" => x \in mem'
    BY <1>1, <1>2, NoneIsNoBlock DEF FreeFetchScratch, EditInv
  <2>2. mem' \subseteq mem
    BY DEF FreeFetchScratch
  <2>3. /\ pc[t] = "editFree" /\ pc' = [pc EXCEPT ![t] = "editUnlock"]
        /\ UNCHANGED <<scanScratch, pluginFileLock, shared, use, back, openOnline, loading,
               running>>
    BY DEF FreeFetchScratch, Goto, locks, alloc, pageState, edit, session
  <2> QED
    BY <1>1, <1>2, <2>1, <2>2, <2>3, ThreadsAreApart
       DEF ImageInv, Mine, CallInv, Editing, EditRuns, Finding, Where, WhereOnPage, Threads
<1>9. EntryInv'
  BY <1>1, <1>2, ThreadsAreApart
     DEF FreeFetchScratch, Goto, alloc, scan, EntryInv, Unpacking, Finding
<1>10. EditInv'
  BY <1>1, <1>2, ThreadsAreApart
     DEF FreeFetchScratch, Goto, card, alloc, edit, EditInv, EditRuns, Finding, LockInv,
         Editing
<1> QED
  BY <1>3, <1>4, <1>5, <1>6, <1>7, <1>8, <1>9, <1>10 DEF OnlineInv

LEMMA UnlockFetchKeeps ==
    ASSUME OnlineInv, NEW t \in Threads, UnlockFetch(t)
    PROVE  OnlineInv'
<1>1. /\ TypeOK /\ CallInv /\ LockInv /\ BlockInv /\ ScanScratchInv /\ ImageInv /\ EntryInv
      /\ EditInv
  BY DEF OnlineInv
<1>2. /\ use \in [Threads -> Uses] /\ mem \subseteq Blocks
      /\ Page \in Threads /\ (\A u \in Threads : u # Page => u \in Plugins)
  BY <1>1 DEF TypeOK, Threads
<1>3. TypeOK'
  BY <1>1, <1>2, ThreadsAreApart
     DEF UnlockFetch, Goto, card, memory, alloc, scan, pageState, session, TypeOK
<1>4. CallInv'
  BY <1>1, <1>2, ThreadsAreApart
     DEF UnlockFetch, Goto, alloc, scan, CallInv, Editing, EditRuns, Finding, Where,
         WhereOnPage
<1>5. LockInv'
  BY <1>1, <1>2, ThreadsAreApart
     DEF UnlockFetch, Goto, alloc, scan, LockInv, Scanning, Editing, EditRuns, Finding,
         CallInv
<1>6. BlockInv'
  <2> SUFFICES ASSUME NEW x \in mem'
               PROVE  Accounted(x)'
    BY DEF BlockInv
  <2>1. x \in mem /\ x.by \in Threads /\ x.use \in Uses /\ Accounted(x)
    BY <1>1, <1>2 DEF BlockInv, Blocks, UnlockFetch, memory
  <2> QED
    BY <1>1, <1>2, <2>1, ThreadsAreApart
       DEF UnlockFetch, Goto, memory, alloc, scan, session, Accounted, HasImage, Managing,
           LockInv, Editing, CallInv
<1>7. ScanScratchInv'
  BY <1>1, <1>2, ThreadsAreApart
     DEF UnlockFetch, Goto, memory, alloc, scan, session, ScanScratchInv, Managing,
         PluginScans, Mine, CallInv
<1>8. ImageInv'
  BY <1>1, <1>2, ThreadsAreApart
     DEF UnlockFetch, Goto, memory, alloc, pageState, session, ImageInv, Mine, CallInv
<1>9. EntryInv'
  BY <1>1, <1>2, ThreadsAreApart
     DEF UnlockFetch, Goto, alloc, scan, EntryInv, Unpacking, Finding, CallInv
<1>10. EditInv'
  BY <1>1, <1>2, ThreadsAreApart
     DEF UnlockFetch, Goto, memory, alloc, EditInv, EditRuns, Finding, CallInv, LockInv,
         Editing
<1> QED
  BY <1>3, <1>4, <1>5, <1>6, <1>7, <1>8, <1>9, <1>10 DEF OnlineInv

LEMMA ReplaceFileKeeps ==
    ASSUME OnlineInv, ReplaceFile
    PROVE  OnlineInv'
<1>1. /\ TypeOK /\ CallInv /\ LockInv /\ BlockInv /\ ScanScratchInv /\ ImageInv /\ EntryInv
      /\ EditInv
  BY DEF OnlineInv
<1>2. /\ use \in [Threads -> Uses] /\ mem \subseteq Blocks
      /\ Page \in Threads /\ (\A u \in Threads : u # Page => u \in Plugins)
  BY <1>1 DEF TypeOK, Threads
<1>3. TypeOK'
  <2>1. dir' \in [Files -> Stacks \cup {None}]
    BY <1>1, StacksAssumption DEF ReplaceFile, TypeOK
  <2>2. lib' \in [version : Versions \cup {None}, whole : BOOLEAN]
    BY <1>1 DEF ReplaceFile, TypeOK
  <2>3. UNCHANGED <<sources, mem, scanScratch, fetchScratch, openOnline, locks, ready, force,
            shared, use, found, entry, call>>
    BY DEF ReplaceFile, memory, alloc, scan, pageState, edit, session
  <2> QED
    BY <1>1, <2>1, <2>2, <2>3 DEF TypeOK, locks
<1>4. CallInv'
  BY <1>1, <1>2, ThreadsAreApart
     DEF ReplaceFile, alloc, scan, edit, CallInv, Editing, EditRuns, Finding
<1>5. LockInv'
  BY <1>1, <1>2, ThreadsAreApart
     DEF ReplaceFile, locks, alloc, scan, edit, LockInv, Scanning, Editing, EditRuns,
         Finding
<1>6. BlockInv'
  <2> SUFFICES ASSUME NEW x \in mem'
               PROVE  Accounted(x)'
    BY DEF BlockInv
  <2>1. x \in mem /\ x.by \in Threads /\ x.use \in Uses /\ Accounted(x)
    BY <1>1, <1>2 DEF BlockInv, Blocks, ReplaceFile, memory
  <2> QED
    BY <1>1, <1>2, <2>1, ThreadsAreApart
       DEF ReplaceFile, memory, locks, alloc, scan, edit, session, Accounted, HasImage,
           Managing
<1>7. ScanScratchInv'
  BY <1>1, <1>2, ThreadsAreApart
     DEF ReplaceFile, memory, alloc, scan, session, ScanScratchInv, Managing, PluginScans,
         Mine
<1>8. ImageInv'
  BY <1>1, <1>2, ThreadsAreApart
     DEF ReplaceFile, memory, alloc, pageState, edit, session, ImageInv, Mine
<1>9. EntryInv'
  BY <1>1, <1>2, ThreadsAreApart
     DEF ReplaceFile, alloc, scan, EntryInv, Unpacking, Finding
<1>10. EditInv'
  BY <1>1, <1>2, ThreadsAreApart
     DEF ReplaceFile, memory, alloc, edit, EditInv, EditRuns, Mine, Finding
<1> QED
  BY <1>3, <1>4, <1>5, <1>6, <1>7, <1>8, <1>9, <1>10 DEF OnlineInv

-----------------------------------------------------------------------------
(* The theorems *)

\* All threads are idle, nothing is allocated and no lock is held.
AtRest ==
    /\ mem = {} /\ scanScratch = None /\ fetchScratch = None
    /\ pluginFileLock = None /\ fetchLock = None
    /\ ready = FALSE /\ openOnline = None
    /\ pc = Each("idle") /\ back = Each("idle")
    /\ use = Each("scan") /\ found = Each(None)
    /\ entry = Each(None) /\ force = FALSE
    /\ call = Each(None) /\ ok = Each(FALSE)
    /\ shared = FALSE

CardIsTyped ==
    /\ dir \in [Files -> Stacks \cup {None}]
    /\ lib \in [version : Versions \cup {None}, whole : BOOLEAN]
    /\ sources = Unreadable \/ (sources \in Seq(Sources) /\ Len(sources) <= MaxSources)

LEMMA RestIsSound ==
    ASSUME AtRest, CardIsTyped
    PROVE  OnlineInv
<1>1. Page \in Threads /\ \A t \in Threads : pc[t] = "idle" /\ back[t] = "idle" /\
          entry[t] = None
          /\ found[t] = None /\ use[t] = "scan" /\ call[t] = None /\ ok[t] = FALSE
  BY DEF AtRest, Each, Threads
<1>2. TypeOK
  BY <1>1 DEF TypeOK, AtRest, CardIsTyped, Each, Uses
<1>3. CallInv
  <2>1. /\ pc \in [Threads -> Where \cup WhereOnPage] /\ back \in [Threads -> {"idle", "run"}]
        /\ entry \in [Threads -> Entries \cup {None}] /\ call \in [Threads -> Calls \cup {None}]
        /\ ok \in [Threads -> BOOLEAN]
    BY DEF AtRest, Each, Where
  <2> QED
    BY <1>1, <2>1 DEF CallInv, Editing, EditRuns, Finding, Where, Threads
<1>4. LockInv
  BY <1>1, ThreadsAreApart DEF LockInv, AtRest, Scanning, Editing, EditRuns, Finding
<1>5. BlockInv /\ ScanScratchInv /\ ImageInv
  BY <1>1 DEF BlockInv, ScanScratchInv, ImageInv, AtRest, Managing
<1>6. EntryInv /\ EditInv
  BY <1>1 DEF EntryInv, EditInv, AtRest, Unpacking, EditRuns, Finding
<1> QED
  BY <1>2, <1>3, <1>4, <1>5, <1>6 DEF OnlineInv

LEMMA InitEstablishes == Init => OnlineInv
<1> SUFFICES ASSUME Init
             PROVE  OnlineInv
  OBVIOUS
<1>1. CardIsTyped
  BY CardsAssumption DEF Init, CardIsTyped, NoLibrary
<1>2. AtRest
  BY DEF Init, AtRest
<1> QED
  BY <1>1, <1>2, RestIsSound

\* A power cut, or an access through NULL: the card is what it was or what a
\* write has left of the list.
LEMMA RestartPreserves ==
    ASSUME OnlineInv, Restart
    PROVE  OnlineInv'
<1>1. AtRest'
  BY DEF Restart, AtRest, Each
<1>2. CardIsTyped'
  <2>1. TypeOK /\ EditInv
    BY DEF OnlineInv
  <2>2. sources' = Unreadable \/ (sources' \in Seq(Sources) /\ Len(sources') <= MaxSources)
    <3>1. CASE \E t \in Threads : pc[t] = "copy"
      <4>1. edited \in Seq(Sources) /\ Len(edited) <= MaxSources
        BY <2>1, <3>1 DEF EditInv
      <4>2. sources' \in Damaged
        BY <3>1 DEF Restart
      <4> QED
        BY <4>1, <4>2, DamagedIsList
    <3>2. CASE ~ \E t \in Threads : pc[t] = "copy"
      BY <2>1, <3>2 DEF Restart, TypeOK
    <3> QED
      BY <3>1, <3>2
  <2> QED
    BY <2>1, <2>2 DEF CardIsTyped, TypeOK, Restart
<1>3. AtRest' /\ CardIsTyped' => OnlineInv'
  BY RestIsSound, PTL
<1> QED
  BY <1>1, <1>2, <1>3

LEMMA StepPreserves == OnlineInv /\ [Next]_vars => OnlineInv'
<1> SUFFICES ASSUME OnlineInv, [Next]_vars
             PROVE  OnlineInv'
  OBVIOUS
<1>1. CASE OpenPage \/ Unload \/ OpenManage \/ BuildAgain \/ LeaveManage
  BY <1>1, OpenPageKeeps, UnloadKeeps, OpenManageKeeps, BuildAgainKeeps, LeaveManageKeeps
<1>2. ASSUME NEW t \in Threads, FindFreeRange(t) \/ TakeRange(t)
      PROVE  OnlineInv'
  BY <1>2, FindFreeRangeKeeps, TakeRangeKeeps
<1>3. ASSUME NEW t \in Threads, OpenPluginFile(t)
      PROVE  OnlineInv'
  BY <1>3, LockPluginFileKeeps, FirstPassKeeps, SecondPassKeeps, ReopenKeeps,
     FreeScanScratchKeeps, UnlockPluginFileKeeps
     DEF OpenPluginFile
<1>4. ASSUME NEW t \in Threads, EditSteps(t)
      PROVE  OnlineInv'
  BY <1>4, LockFetchKeeps, ParseSourcesKeeps, WriteTempKeeps, OpenTargetKeeps,
     CopyToTargetKeeps, FreeFetchScratchKeeps, UnlockFetchKeeps
     DEF EditSteps
<1>5. CASE PageSteps \/ BuildList
  BY <1>5, EnsureKeeps, UnpackStartKeeps, UnpackWriteKeeps, UnpackUnlockKeeps,
     UnpackFreeKeeps, EnsuredKeeps, LoadKeeps, StartLibraryKeeps, LoadFailedKeeps,
     FreeImageKeeps, BuildListKeeps
     DEF PageSteps
<1>6. ASSUME NEW t \in Threads, EditSources(t) \/ PluginOpensFile(t)
      PROVE  OnlineInv'
  BY <1>6, EditSourcesKeeps, PluginOpensFileKeeps
<1>7. CASE ReplaceFile
  BY <1>7, ReplaceFileKeeps
<1>8. CASE PowerCut \/ WriteThroughNull
  BY <1>8, RestartPreserves DEF PowerCut, WriteThroughNull
<1>9. CASE UNCHANGED vars
  BY <1>9 DEF vars, card, memory, locks, alloc, scan, pageState, edit, spent, history,
     session, OnlineInv, TypeOK, CallInv, LockInv, BlockInv, Accounted, ScanScratchInv,
     ImageInv, EntryInv, EditInv, Finding, Scanning, EditRuns, Editing, Unpacking, HasImage,
     Managing, PluginScans, Mine
<1> QED
  BY <1>1, <1>2, <1>3, <1>4, <1>5, <1>6, <1>7, <1>8, <1>9 DEF Next, ThreadSteps

\* The invariant holds for any number of plugins, calls, failures and changed
\* files (the code is all of modmenu_online.c that the model has, and the scan).
THEOREM OnlineInvariant == Spec => []OnlineInv
<1>1. Init => OnlineInv
  BY InitEstablishes
<1>2. OnlineInv /\ [Next]_vars => OnlineInv'
  BY StepPreserves
<1> QED
  BY <1>1, <1>2, PTL DEF Spec

\* Every variable keeps its type: no entry, list, library or block of memory that
\* a call works with is anything but what it takes it for.
THEOREM TypeCorrect == Spec => []TypeOK
<1>1. OnlineInv => TypeOK
  BY DEF OnlineInv
<1> QED
  BY <1>1, OnlineInvariant, PTL

\* Whoever scans, edits, manages or runs the library does so in allocated memory
\* of its own (FindFreeRange and the system call that takes the range are two
\* steps), and under the lock; only a scan and the Manage page may meet.
THEOREM ScratchAlwaysMine == Spec => []ScratchIsMine
<1>1. OnlineInv => ScratchIsMine
  <2> SUFFICES ASSUME OnlineInv, NEW t \in Threads
               PROVE  /\ pc[t] \in {"pass1", "pass2", "reopen"} =>
                             pluginFileLock = t /\ (shared \/ scanScratch \in Mine(t, "scan"))
                      /\ pc[t] \in {"manageScan", "managing"} =>
                             shared \/ scanScratch \in Mine(t, "manage")
                      /\ pc[t] \in {"parse", "writeTemp", "openTarget", "copy"} =>
                             fetchLock = t /\ fetchScratch \in Mine(t, "edit")
                      /\ back[t] = "run" \/ pc[t] = "run" =>
                             openOnline \in Mine(t, "image") /\ ApiOf[loading] = ApiOf[running]
    BY DEF ScratchIsMine
  <2>1. t \in Plugins => pc[t] \in Where /\ back[t] # "run"
    BY ThreadsAreApart DEF OnlineInv, CallInv
  <2>2. pc[t] \in {"manageScan", "managing", "run"} \/ back[t] = "run" => t = Page
    BY <2>1 DEF Threads, Where
  <2> QED
    BY <2>2 DEF OnlineInv, LockInv, ScanScratchInv, EditInv, ImageInv, Scanning, Editing,
       EditRuns, Managing
<1> QED
  BY <1>1, OnlineInvariant, PTL

\* When all calls have returned, by whatever path, both locks are free and so is
\* all of temporary memory, but for a scan's page that the Manage page has lost.
THEOREM NothingEverLeaks == Spec => []NothingLeaks
<1>1. OnlineInv => NothingLeaks
  <2> SUFFICES ASSUME OnlineInv, \A t \in Threads : pc[t] = "idle"
               PROVE  /\ pluginFileLock = None /\ fetchLock = None
                      /\ \A x \in mem : shared /\ x.use = "scan"
    BY DEF NothingLeaks
  <2>1. Page \in Threads /\ mem \subseteq Blocks
    BY DEF OnlineInv, TypeOK, Threads
  <2>2. \A t \in Threads : ~Scanning(t) /\ ~Editing(t)
    BY DEF Scanning, Editing, EditRuns, Finding
  <2>3. pluginFileLock = None /\ fetchLock = None
    BY <2>2 DEF OnlineInv, TypeOK, LockInv
  <2>4. ASSUME NEW x \in mem
        PROVE  shared /\ x.use = "scan"
    <3>1. x.use \in Uses /\ x.by \in Threads /\ Accounted(x)
      BY <2>1 DEF OnlineInv, BlockInv, Blocks
    <3>2. ~HasImage /\ ~Managing
      BY <2>1, <2>2 DEF HasImage, Managing, OnlineInv, CallInv
    <3> QED
      BY <2>1, <3>1, <3>2 DEF Accounted, Uses
  <2> QED
    BY <2>3, <2>4
<1> QED
  BY <1>1, OnlineInvariant, PTL

\* AddOnlineEntry and RemoveOnlineEntry tell the truth: an edit that is about to
\* return TRUE has its entry in the file, or none with its title, if it could open
\* the list.
THEOREM TrueAlwaysMeansDone == Spec => []TrueMeansDone
<1>1. OnlineInv => TrueMeansDone
  BY DEF OnlineInv, EditInv, TrueMeansDone, Done
<1> QED
  BY <1>1, OnlineInvariant, PTL

\* An entry that OpenPluginFile has opened is of the id that was asked for, even
\* when the file was replaced between its two scans and the reading.
OnlyOwnEntries ==
    \A t \in Threads : entry[t] # None => entry[t].id = IdOf[t] /\ entry[t].magic = "MENU"

THEOREM NeverAnothersEntry == Spec => []OnlyOwnEntries
<1>1. OnlineInv => OnlyOwnEntries
  BY DEF OnlineInv, EntryInv, OnlyOwnEntries
<1> QED
  BY <1>1, OnlineInvariant, PTL

-----------------------------------------------------------------------------
(* The invariant of a call that nothing happens to *)

\* Nothing happened to the scan of a thread, nor to the page if it is the page's.
CleanFor(t) == scanClean \/ (t = Page /\ clean)

\* The entry that the console loads for the thread's id.
Wanted(t) == LET p == Loaded(dir, IdOf[t]) IN IF p = None THEN None ELSE EntryAt(dir, p)

\* What the passes have found so far is what a walk over the whole directory finds.
ScanInv ==
    \A t \in Threads :
        /\ Finding(t, "scan") \/ pc[t] \in {"pass1", "pass2", "reopen"} => entry[t] = None
        /\ CleanFor(t) =>
               /\ pc[t] \in {"pass2", "reopen"} =>
                      /\ best.place = Best(dir, Present(dir), IdOf[t]) /\ best.place # None
                      /\ best.version = EntryAt(dir, best.place).version
               /\ pc[t] = "reopen" => Selected(dir, Present(dir), IdOf[t], best.place)
               /\ pc[t] = "scanFree" => entry[t] = Wanted(t)

\* EnsureHttpslib runs, and what it leaves on the card when it unpacks.
Ensuring ==
    Unpacking \/ pc[Page] \in {"ensure", "unpackUnlock", "unpackFree", "ensured"}
Fresh == lib.whole /\ lib.version = entry[Page].version

\* The page works with MENU's own entry, and its second try with the library of
\* that entry.
PageInv ==
    clean =>
        /\ pc[Page] = "scanUnlock" \/ Ensuring => entry[Page] = Wanted(Page)
        /\ Ensuring => entry[Page] # None
        /\ pc[Page] \in {"unpackUnlock", "unpackFree"} => ok[Page] /\ Fresh
        /\ pc[Page] = "ensured" => IF ok[Page] THEN force =>
               Fresh ELSE entry[Page].version = None
        /\ force =>
               /\ pc[Page] = "load" => lib.whole /\ lib.version = Booted(dir)
               /\ Finding(Page, "image") \/ pc[Page] = "init" => loading = Booted(dir)
               /\ pc[Page] = "loadFailed" => ApiOf[Booted(dir)] # ApiOf[running]

OpenInv == ScanInv /\ PageInv

-----------------------------------------------------------------------------
(* What the scans find *)

LEMMA DirOfStacks ==
    ASSUME TypeOK
    PROVE  IsDir(dir)
BY StacksAssumption DEF TypeOK, IsDir

\* A scan of the whole directory finds what is wanted, and it is still there when it
\* is read again.
LEMMA FindsWanted ==
    ASSUME TypeOK, NEW t \in Threads
    PROVE  LET place == Best(dir, Present(dir), IdOf[t]) IN
           /\ place # None =>
                  /\ EntryAt(dir, place) \in Entries
                  /\ StillThere(dir, place, IdOf[t], EntryAt(dir, place).version)
           /\ Wanted(t) = IF place # None /\ Selected(dir, Present(dir), IdOf[t], place)
                            THEN EntryAt(dir, place) ELSE None
<1> DEFINE place == Best(dir, Present(dir), IdOf[t])
<1>1. IsDir(dir) /\ Present(dir) \in SUBSET Files
  BY DirOfStacks DEF Present
<1>2. ASSUME place # None
      PROVE  /\ EntryAt(dir, place) \in Entries
             /\ StillThere(dir, place, IdOf[t], EntryAt(dir, place).version)
  <2>1. place \in Seen(dir, Present(dir)) /\ IdAt(dir, place) = IdOf[t]
    BY <1>1, <1>2, BestIsEarliest
  <2> HIDE DEF place
  <2>2. /\ place[1] \in Present(dir) /\ place[2] \in 1 .. WalkedUpTo(dir[place[1]])
        /\ EntryAt(dir, place).magic = "MENU"
    BY <1>1, <2>1, SeenArePlaces
  <2>3. dir[place[1]] # None /\ dir[place[1]] \in Seq(Entries)
    BY <1>1, <2>2 DEF Present, IsDir
  <2>4. WalkedUpTo(dir[place[1]]) \in 0 .. Len(dir[place[1]]) /\ Len(dir[place[1]]) \in Nat
    BY <2>3, WalkIsInStack
  <2>5. place[2] \in DOMAIN dir[place[1]] /\ EntryAt(dir, place) \in Entries
    BY <2>2, <2>3, <2>4 DEF EntryAt
  <2>6. EntryAt(dir, place) = [magic |-> "MENU", id |-> IdOf[t],
                               version |-> EntryAt(dir, place).version]
    BY <2>1, <2>2, <2>5 DEF Entries, IdAt
  <2> QED
    BY <2>3, <2>5, <2>6 DEF StillThere
<1>3. Loaded(dir, IdOf[t]) = IF place # None /\ Selected(dir, Present(dir), IdOf[t], place)
                               THEN place ELSE None
  BY <1>1, ScansAgree
<1> QED
  BY <1>2, <1>3 DEF Wanted

\* The MENU that will be booted is the page's own entry.
LEMMA PageWantsBooted ==
    ASSUME TypeOK
    PROVE  /\ Wanted(Page) = None => Booted(dir) = None
           /\ Wanted(Page) # None => Booted(dir) = Wanted(Page).version
<1>1. Page \in Threads /\ IdOf[Page] = Menu
  BY ThreadsAreApart DEF Threads
<1>2. Loaded(dir, Menu) # None => EntryAt(dir, Loaded(dir, Menu)) \in Entries
  <2>1. IsDir(dir)
    BY DirOfStacks
  <2> QED
    BY <1>1, <2>1, FindsWanted, ScansAgree
<1>3. Wanted(Page) = IF Loaded(dir, Menu) = None THEN None ELSE EntryAt(dir, Loaded(dir, Menu))
  BY <1>1 DEF Wanted
<1>4. Booted(dir) = IF Loaded(dir, Menu) = None THEN None
                    ELSE EntryAt(dir, Loaded(dir, Menu)).version
  BY DEF Booted
<1> QED
  BY <1>2, <1>3, <1>4, NoneIsNothing

\* A step with which the page stays where it is, waits for memory or is in a part of
\* its call of which PageInv says nothing.
LEMMA PageElsewhere ==
    ASSUME PageInv, UNCHANGED <<dir, lib, force, loading, running, use>>, clean' => clean,
           clean' => \/ pc'[Page] = pc[Page] /\ UNCHANGED <<ok[Page], entry[Page]>>
                     \/ pc[Page] = "find" /\ pc'[Page] = "take" /\ UNCHANGED entry[Page]
                     \/ pc'[Page] \in Where \ {"find", "take", "scanUnlock"}
    PROVE  PageInv'
BY DEF PageInv, Wanted, Ensuring, Unpacking, Fresh, Finding, Where

-----------------------------------------------------------------------------
(* Each step keeps it *)

LEMMA FindFreeRangeOpens ==
    ASSUME OnlineInv, OpenInv, NEW t \in Threads, FindFreeRange(t)
    PROVE  OpenInv'
<1>1. TypeOK /\ CallInv /\ LockInv /\ EntryInv /\ ScanInv /\ PageInv
  BY DEF OnlineInv, OpenInv
<1>2. use \in [Threads -> Uses] /\ Page \in Threads /\ (\A u \in Threads : u # Page =>
          u \in Plugins)
  BY <1>1 DEF TypeOK, Threads
<1>3. ScanInv'
  <2>1. /\ pc[t] = "find" /\ UNCHANGED <<dir, lib, use, best, entry, force, ok, loading,
            running>>
        /\ \/ Goto(t, "take") /\ UNCHANGED <<clean, scanClean>>
           \/ \E w \in {"scanFree", "ensured", "loadFailed", "editFree", "idle"} :
                  Goto(t, w) /\ ~scanClean' /\ clean' = (clean /\ t # Page)
    BY <1>2 DEF FindFreeRange, Refused, Uses, history, card, scan, pageState, edit, session
  <2>2. CASE Goto(t, "take") /\ UNCHANGED <<clean, scanClean>>
    BY <1>1, <1>2, <2>1, <2>2 DEF ScanInv, CleanFor, Wanted, Finding, Goto, CallInv
  <2>3. ASSUME NEW w \in {"scanFree", "ensured", "loadFailed", "editFree", "idle"},
               Goto(t, w), ~scanClean', clean' = (clean /\ t # Page)
        PROVE  ScanInv'
    BY <1>1, <1>2, <2>1, <2>3 DEF ScanInv, CleanFor, Wanted, Finding, Goto, CallInv
  <2> QED
    BY <2>1, <2>2, <2>3
<1>4. PageInv'
  <2>1. /\ pc[t] = "find" /\ UNCHANGED <<dir, lib, use, best, entry, force, ok, loading,
            running>>
        /\ \/ Goto(t, "take") /\ UNCHANGED <<clean, scanClean>>
           \/ \E w \in {"scanFree", "ensured", "loadFailed", "editFree", "idle"} :
                  Goto(t, w) /\ ~scanClean' /\ clean' = (clean /\ t # Page)
    BY <1>2 DEF FindFreeRange, Refused, Uses, history, card, scan, pageState, edit, session
  <2> QED
    BY <1>1, <1>2, <2>1 DEF PageInv, Wanted, Ensuring, Unpacking, Fresh, Finding, Goto, CallInv
<1> QED
  BY <1>3, <1>4 DEF OpenInv

LEMMA TakeRangeOpens ==
    ASSUME OnlineInv, OpenInv, NEW t \in Threads, TakeRange(t)
    PROVE  OpenInv'
<1>1. TypeOK /\ CallInv /\ LockInv /\ EntryInv /\ ScanInv /\ PageInv
  BY DEF OnlineInv, OpenInv
<1>2. use \in [Threads -> Uses] /\ Page \in Threads /\ (\A u \in Threads : u # Page =>
          u \in Plugins)
  BY <1>1 DEF TypeOK, Threads
<1>3. ScanInv'
  <2>1. /\ pc[t] = "take" /\ UNCHANGED <<dir, lib, use, best, entry, force, ok, loading,
            running>>
        /\ \/ /\ Goto(t, Granted[use[t]]) /\ UNCHANGED <<clean, scanClean>>
           \/ \E w \in {"scanFree", "ensured", "loadFailed", "editFree", "idle"} :
                  Goto(t, w) /\ ~scanClean' /\ clean' = (clean /\ t # Page)
    BY <1>2 DEF TakeRange, Refused, Uses, history, card, scan, pageState, edit
  <2>2. Granted[use[t]] = CASE use[t] = "scan" -> "pass1" [] use[t] = "unpack" -> "unpackLock"
                            [] use[t] = "image" -> "init" [] use[t] = "edit" -> "parse"
                            [] use[t] = "manage" -> "manageScan"
    BY <1>2 DEF Granted, Uses
  <2>3. CASE Goto(t, Granted[use[t]]) /\ UNCHANGED <<clean, scanClean>>
    BY <1>1, <1>2, <2>1, <2>2, <2>3
       DEF ScanInv, CleanFor, Wanted, Finding, Goto, CallInv, Uses
  <2>4. ASSUME NEW w \in {"scanFree", "ensured", "loadFailed", "editFree", "idle"},
               Goto(t, w), ~scanClean', clean' = (clean /\ t # Page)
        PROVE  ScanInv'
    BY <1>1, <1>2, <2>1, <2>4 DEF ScanInv, CleanFor, Wanted, Finding, Goto, CallInv
  <2> QED
    BY <2>1, <2>3, <2>4
<1>4. PageInv'
  <2>1. /\ pc[t] = "take" /\ UNCHANGED <<dir, lib, use, best, entry, force, ok, loading,
            running>>
        /\ \/ /\ Goto(t, Granted[use[t]]) /\ UNCHANGED <<clean, scanClean>>
           \/ \E w \in {"scanFree", "ensured", "loadFailed", "editFree", "idle"} :
                  Goto(t, w) /\ ~scanClean' /\ clean' = (clean /\ t # Page)
    BY <1>2 DEF TakeRange, Refused, Uses, history, card, scan, pageState, edit
  <2>2. Granted[use[t]] = CASE use[t] = "scan" -> "pass1" [] use[t] = "unpack" -> "unpackLock"
                            [] use[t] = "image" -> "init" [] use[t] = "edit" -> "parse"
                            [] use[t] = "manage" -> "manageScan"
    BY <1>2 DEF Granted, Uses
  <2>3. CASE Goto(t, Granted[use[t]]) /\ UNCHANGED <<clean, scanClean>>
    <3>1. CASE t = Page
      BY <1>1, <1>2, <2>1, <2>2, <2>3, <3>1
         DEF PageInv, Wanted, Ensuring, Unpacking, Fresh, Finding, Goto, CallInv, Uses
    <3>2. CASE t # Page
      BY <1>1, <1>2, <2>1, <2>3, <3>2, PageElsewhere DEF Goto, CallInv
    <3> QED
      BY <3>1, <3>2
  <2>4. ASSUME NEW w \in {"scanFree", "ensured", "loadFailed", "editFree", "idle"},
               Goto(t, w), clean' = (clean /\ t # Page)
        PROVE  PageInv'
    BY <1>1, <1>2, <2>1, <2>4, PageElsewhere DEF Goto, CallInv
  <2> QED
    BY <2>1, <2>3, <2>4
<1> QED
  BY <1>3, <1>4 DEF OpenInv

LEMMA LockPluginFileOpens ==
    ASSUME OnlineInv, OpenInv, NEW t \in Threads, LockPluginFile(t)
    PROVE  OpenInv'
<1>1. TypeOK /\ CallInv /\ LockInv /\ EntryInv /\ ScanInv /\ PageInv
  BY DEF OnlineInv, OpenInv
<1>2. use \in [Threads -> Uses] /\ Page \in Threads /\ (\A u \in Threads : u # Page =>
          u \in Plugins)
  BY <1>1 DEF TypeOK, Threads
<1>3. ScanInv'
  BY <1>1, <1>2, ThreadsAreApart
     DEF LockPluginFile, ScanLocks, scan, Goto, card, memory, pageState, edit, spent,
         ScanInv, CleanFor, Wanted, Finding, Scanning, LockInv, CallInv, Where,
         WhereOnPage, Threads
<1>4. PageInv'
  BY <1>1, <1>2, ThreadsAreApart
     DEF LockPluginFile, ScanLocks, scan, Goto, card, memory, pageState, edit, spent,
         PageInv, Wanted, Ensuring, Unpacking, Fresh, Finding, CallInv, Where, WhereOnPage,
         Threads
<1> QED
  BY <1>3, <1>4 DEF OpenInv

LEMMA FirstPassOpens ==
    ASSUME OnlineInv, OpenInv, NEW t \in Threads, FirstPass(t)
    PROVE  OpenInv'
<1>1. TypeOK /\ CallInv /\ LockInv /\ EntryInv /\ ScanInv /\ PageInv
  BY DEF OnlineInv, OpenInv
<1>2. use \in [Threads -> Uses] /\ Page \in Threads /\ (\A u \in Threads : u # Page =>
          u \in Plugins)
  BY <1>1 DEF TypeOK, Threads
<1>3. ScanInv'
  <2>1. \A u \in Threads : u # t => ~Scanning(u)
    BY <1>1 DEF FirstPass, LockInv, Scanning
  <2>2. /\ pc[t] = "pass1" /\ UNCHANGED <<dir, use, entry>>
        /\ \E w \in {"pass2", "scanFree"} : Goto(t, w)
    BY DEF FirstPass, alloc, card
  <2>3. CASE ~Fails
    <3>1. LET place == Best(dir, Present(dir), IdOf[t]) IN
          IF place = None THEN Goto(t, "scanFree")
          ELSE best' = [place |-> place, version |-> EntryAt(dir, place).version] /\ Goto(t,
              "pass2")
      BY <2>3 DEF FirstPass
    <3>2. Works
      BY <2>3 DEF FirstPass
    <3> QED
      BY <1>1, <2>1, <2>2, <3>1, <3>2, FindsWanted
         DEF ScanInv, CleanFor, Wanted, Finding, Scanning, Goto, CallInv, Works
  <2>4. CASE Fails
    BY <1>1, <2>1, <2>2, <2>4 DEF ScanInv, CleanFor, Finding, Scanning, Goto, CallInv, Fails
  <2> QED
    BY <2>3, <2>4
<1>4. PageInv'
  <2>1. /\ pc[t] = "pass1" /\ UNCHANGED <<dir, lib, use, entry, force, ok, loading, running>>
        /\ (clean' => clean) /\ \E w \in {"pass2", "scanFree"} : Goto(t, w)
    BY DEF FirstPass, Works, Fails, card, alloc, pageState, edit, session
  <2> QED
    BY <1>1, <1>2, <2>1 DEF PageInv, Wanted, Ensuring, Unpacking, Fresh, Finding, Goto, CallInv
<1> QED
  BY <1>3, <1>4 DEF OpenInv

LEMMA SecondPassOpens ==
    ASSUME OnlineInv, OpenInv, NEW t \in Threads, SecondPass(t)
    PROVE  OpenInv'
<1>1. TypeOK /\ CallInv /\ LockInv /\ EntryInv /\ ScanInv /\ PageInv
  BY DEF OnlineInv, OpenInv
<1>2. use \in [Threads -> Uses] /\ Page \in Threads /\ (\A u \in Threads : u # Page =>
          u \in Plugins)
  BY <1>1 DEF TypeOK, Threads
<1>3. ScanInv'
  <2>1. \A u \in Threads : u # t => ~Scanning(u)
    BY <1>1 DEF SecondPass, LockInv, Scanning
  <2>2. /\ pc[t] = "pass2" /\ UNCHANGED <<dir, use, entry, best>>
        /\ \E w \in {"reopen", "scanFree"} : Goto(t, w)
    BY DEF SecondPass, alloc, card, scan
  <2>3. CASE ~Fails
    <3>1. Goto(t, IF Selected(dir, Present(dir), IdOf[t],
              best.place) THEN "reopen" ELSE "scanFree")
      BY <2>3 DEF SecondPass
    <3>2. Works
      BY <2>3 DEF SecondPass
    <3> QED
      BY <1>1, <2>1, <2>2, <3>1, <3>2, FindsWanted
         DEF ScanInv, CleanFor, Wanted, Finding, Scanning, Goto, CallInv, Works
  <2>4. CASE Fails
    BY <1>1, <2>1, <2>2, <2>4 DEF ScanInv, CleanFor, Finding, Scanning, Goto, CallInv, Fails
  <2> QED
    BY <2>3, <2>4
<1>4. PageInv'
  BY <1>1, <1>2, ThreadsAreApart
     DEF SecondPass, Works, Fails, Goto, card, memory, locks, alloc, scan, pageState, edit,
         session, PageInv, Wanted, Ensuring, Unpacking, Fresh, Finding, CallInv, Where,
         WhereOnPage, Threads
<1> QED
  BY <1>3, <1>4 DEF OpenInv

LEMMA ReopenOpens ==
    ASSUME OnlineInv, OpenInv, NEW t \in Threads, Reopen(t)
    PROVE  OpenInv'
<1>1. TypeOK /\ CallInv /\ LockInv /\ EntryInv /\ ScanInv /\ PageInv
  BY DEF OnlineInv, OpenInv
<1>2. use \in [Threads -> Uses] /\ Page \in Threads /\ (\A u \in Threads : u # Page =>
          u \in Plugins)
  BY <1>1 DEF TypeOK, Threads
<1>3. ScanInv'
  <2>1. \A u \in Threads : u # t => ~Scanning(u)
    BY <1>1 DEF Reopen, LockInv, Scanning
  <2>2. /\ pc[t] = "reopen" /\ UNCHANGED <<dir, use, best>> /\ Goto(t, "scanFree")
        /\ \A u \in Threads : u # t => entry'[u] = entry[u]
    BY <1>1 DEF Reopen, alloc, card, CallInv
  <2>3. CASE Works /\ entry' = [entry EXCEPT ![t] =
                 IF StillThere(dir, best.place, IdOf[t], best.version)
                   THEN EntryAt(dir, best.place) ELSE None]
    <3>1. CleanFor(t) => entry'[t] = Wanted(t)
      BY <1>1, <2>2, <2>3, FindsWanted DEF ScanInv, CallInv
    <3> QED
      BY <1>1, <2>1, <2>2, <2>3, <3>1
         DEF ScanInv, CleanFor, Wanted, Finding, Scanning, Goto, CallInv, Works
  <2>4. CASE Fails
    BY <1>1, <2>1, <2>2, <2>4 DEF ScanInv, CleanFor, Finding, Scanning, Goto, CallInv, Fails
  <2> QED
    BY <2>3, <2>4 DEF Reopen
<1>4. PageInv'
  <2>1. UNCHANGED <<dir, lib, force, loading, running, use, ok>> /\ (clean' => clean)
    BY DEF Reopen, Works, Fails, card, alloc, pageState, edit, session
  <2>2. \/ pc'[Page] = pc[Page] /\ UNCHANGED <<ok[Page], entry[Page]>>
        \/ pc'[Page] = "scanFree"
    BY <1>1, <1>2, <2>1 DEF Reopen, Goto, CallInv
  <2> QED
    BY <1>1, <2>1, <2>2, PageElsewhere DEF Where
<1> QED
  BY <1>3, <1>4 DEF OpenInv

LEMMA FreeScanScratchOpens ==
    ASSUME OnlineInv, OpenInv, NEW t \in Threads, FreeScanScratch(t)
    PROVE  OpenInv'
<1>1. TypeOK /\ CallInv /\ LockInv /\ EntryInv /\ ScanInv /\ PageInv
  BY DEF OnlineInv, OpenInv
<1>2. use \in [Threads -> Uses] /\ Page \in Threads /\ (\A u \in Threads : u # Page =>
          u \in Plugins)
  BY <1>1 DEF TypeOK, Threads
<1>3. ScanInv'
  BY <1>1, <1>2, ThreadsAreApart
     DEF FreeScanScratch, scan, Goto, card, locks, alloc, pageState, edit, spent, history,
         session, ScanInv, CleanFor, Wanted, Finding, Scanning, LockInv, CallInv, Where,
         WhereOnPage, Threads
<1>4. PageInv'
  BY <1>1, <1>2
     DEF FreeScanScratch, card, alloc, scan, pageState, edit, history, session, Goto, PageInv,
         ScanInv, CleanFor, Wanted, Ensuring, Unpacking, Fresh, Finding, CallInv
<1> QED
  BY <1>3, <1>4 DEF OpenInv

LEMMA UnlockPluginFileOpens ==
    ASSUME OnlineInv, OpenInv, NEW t \in Threads, UnlockPluginFile(t)
    PROVE  OpenInv'
<1>1. TypeOK /\ CallInv /\ LockInv /\ EntryInv /\ ScanInv /\ PageInv
  BY DEF OnlineInv, OpenInv
<1>2. use \in [Threads -> Uses] /\ Page \in Threads /\ (\A u \in Threads : u # Page =>
          u \in Plugins)
  BY <1>1 DEF TypeOK, Threads
<1>3. ScanInv'
  BY <1>1, <1>2, ThreadsAreApart
     DEF UnlockPluginFile, Goto, card, memory, alloc, pageState, edit, spent, history,
         session, ScanInv, CleanFor, Wanted, Finding, Scanning, LockInv, CallInv, Where,
         WhereOnPage, Threads
<1>4. PageInv'
  BY <1>1, <1>2, ThreadsAreApart
     DEF UnlockPluginFile, Goto, card, memory, alloc, pageState, edit, spent, history,
         session, PageInv, Wanted, Ensuring, Unpacking, Fresh, Finding, CallInv, Where,
         WhereOnPage, Threads
<1> QED
  BY <1>3, <1>4 DEF OpenInv

LEMMA OpenPageOpens ==
    ASSUME OnlineInv, OpenInv, OpenPage
    PROVE  OpenInv'
<1>1. TypeOK /\ CallInv /\ LockInv /\ EntryInv /\ ScanInv /\ PageInv
  BY DEF OnlineInv, OpenInv
<1>2. use \in [Threads -> Uses] /\ Page \in Threads /\ (\A u \in Threads : u # Page =>
          u \in Plugins)
  BY <1>1 DEF TypeOK, Threads
<1>3. ScanInv'
  BY <1>1, <1>2, ThreadsAreApart
     DEF OpenPage, Goto, card, memory, locks, alloc, scan, edit, session, ScanInv,
         CleanFor, Wanted, Finding, Scanning, LockInv, CallInv, Where, WhereOnPage, Threads
<1>4. PageInv'
  BY <1>1, <1>2, ThreadsAreApart
     DEF OpenPage, Goto, card, memory, locks, alloc, scan, edit, session, PageInv, Wanted,
         Ensuring, Unpacking, Fresh, Finding, CallInv, Where, WhereOnPage, Threads
<1> QED
  BY <1>3, <1>4 DEF OpenInv

LEMMA EnsureOpens ==
    ASSUME OnlineInv, OpenInv, Ensure
    PROVE  OpenInv'
<1>1. TypeOK /\ CallInv /\ LockInv /\ EntryInv /\ ScanInv /\ PageInv
  BY DEF OnlineInv, OpenInv
<1>2. use \in [Threads -> Uses] /\ Page \in Threads /\ (\A u \in Threads : u # Page =>
          u \in Plugins)
  BY <1>1 DEF TypeOK, Threads
<1>3. ScanInv'
  BY <1>1, <1>2, ThreadsAreApart
     DEF Ensure, Works, Goto, Fails, card, memory, locks, scan, pageState, session,
         ScanInv, CleanFor, Wanted, Finding, Scanning, LockInv, CallInv, Where,
         WhereOnPage, Threads
<1>4. PageInv'
  <2>1. /\ pc[Page] = "ensure" /\ UNCHANGED <<dir, lib, entry, force, loading, running>>
        /\ use'[Page] = "unpack"
    BY <1>1, <1>2 DEF Ensure, card, scan, pageState, session
  <2>2. CASE ~Fails
    <3>1. LET there == entry[Page].version = None \/ Kept IN
          /\ ok'[Page] = (there /\ entry[Page].version # None)
          /\ Goto(Page, IF there THEN "ensured" ELSE "find")
      BY <1>1, <1>2, <2>2 DEF Ensure, CallInv
    <3>2. Works
      BY <2>2 DEF Ensure
    <3> QED
      BY <1>1, <1>2, <2>1, <3>1, <3>2
         DEF PageInv, Wanted, Ensuring, Unpacking, Finding, Kept, Goto, CallInv, Works
  <2>3. CASE Fails
    BY <2>3 DEF PageInv, Fails
  <2> QED
    BY <2>2, <2>3
<1> QED
  BY <1>3, <1>4 DEF OpenInv

LEMMA UnpackStartOpens ==
    ASSUME OnlineInv, OpenInv, UnpackStart
    PROVE  OpenInv'
<1>1. TypeOK /\ CallInv /\ LockInv /\ EntryInv /\ ScanInv /\ PageInv
  BY DEF OnlineInv, OpenInv
<1>2. use \in [Threads -> Uses] /\ Page \in Threads /\ (\A u \in Threads : u # Page =>
          u \in Plugins)
  BY <1>1 DEF TypeOK, Threads
<1>3. ScanInv'
  BY <1>1, <1>2, ThreadsAreApart
     DEF UnpackStart, NoLibrary, Works, Goto, Fails, memory, alloc, scan, pageState,
         session, ScanInv, CleanFor, Wanted, Finding, Scanning, LockInv, CallInv, Where,
         WhereOnPage, Threads
<1>4. PageInv'
  <2>1. /\ UNCHANGED <<dir, entry, use, force>> /\ (clean' => clean) /\ pc[Page] = "unpackLock"
        /\ pc'[Page] = "unpack" \/ ~clean'
    BY <1>1, <1>2 DEF UnpackStart, Works, Fails, Goto, alloc, scan, pageState, CallInv
  <2> QED
    BY <1>1, <2>1 DEF PageInv, Wanted, Ensuring, Unpacking, Finding
<1> QED
  BY <1>3, <1>4 DEF OpenInv

LEMMA UnpackWriteOpens ==
    ASSUME OnlineInv, OpenInv, UnpackWrite
    PROVE  OpenInv'
<1>1. TypeOK /\ CallInv /\ LockInv /\ EntryInv /\ ScanInv /\ PageInv
  BY DEF OnlineInv, OpenInv
<1>2. use \in [Threads -> Uses] /\ Page \in Threads /\ (\A u \in Threads : u # Page =>
          u \in Plugins)
  BY <1>1 DEF TypeOK, Threads
<1>3. ScanInv'
  BY <1>1, <1>2, ThreadsAreApart
     DEF UnpackWrite, Works, Fails, Goto, memory, locks, alloc, scan, pageState, session,
         ScanInv, CleanFor, Wanted, Finding, Scanning, LockInv, CallInv, Where,
         WhereOnPage, Threads
<1>4. PageInv'
  <2>1. /\ pc[Page] = "unpack" /\ Goto(Page, "unpackUnlock")
        /\ UNCHANGED <<dir, entry, force, loading, running, use>>
    BY DEF UnpackWrite, scan, alloc, pageState, session
  <2>2. CASE /\ Works /\ lib' = [version |-> entry[Page].version, whole |-> TRUE]
             /\ ok' = [ok EXCEPT ![Page] = TRUE]
    BY <1>1, <1>2, <2>1, <2>2
       DEF PageInv, Wanted, Ensuring, Unpacking, Fresh, Finding, Goto, CallInv, Works
  <2>3. CASE Fails
    BY <2>3 DEF PageInv, Fails
  <2> QED
    BY <2>2, <2>3 DEF UnpackWrite
<1> QED
  BY <1>3, <1>4 DEF OpenInv

LEMMA UnpackUnlockOpens ==
    ASSUME OnlineInv, OpenInv, UnpackUnlock
    PROVE  OpenInv'
<1>1. TypeOK /\ CallInv /\ LockInv /\ EntryInv /\ ScanInv /\ PageInv
  BY DEF OnlineInv, OpenInv
<1>2. use \in [Threads -> Uses] /\ Page \in Threads /\ (\A u \in Threads : u # Page =>
          u \in Plugins)
  BY <1>1 DEF TypeOK, Threads
<1>3. ScanInv'
  BY <1>1, <1>2, ThreadsAreApart
     DEF UnpackUnlock, Goto, card, memory, alloc, scan, pageState, edit, spent, history,
         session, ScanInv, CleanFor, Wanted, Finding, Scanning, LockInv, CallInv, Where,
         WhereOnPage, Threads
<1>4. PageInv'
  BY <1>1, <1>2, ThreadsAreApart
     DEF UnpackUnlock, Goto, card, memory, alloc, scan, pageState, edit, spent, history,
         session, PageInv, Wanted, Ensuring, Unpacking, Fresh, Finding, CallInv, Where,
         WhereOnPage, Threads
<1> QED
  BY <1>3, <1>4 DEF OpenInv

LEMMA UnpackFreeOpens ==
    ASSUME OnlineInv, OpenInv, UnpackFree
    PROVE  OpenInv'
<1>1. TypeOK /\ CallInv /\ LockInv /\ EntryInv /\ ScanInv /\ PageInv
  BY DEF OnlineInv, OpenInv
<1>2. use \in [Threads -> Uses] /\ Page \in Threads /\ (\A u \in Threads : u # Page =>
          u \in Plugins)
  BY <1>1 DEF TypeOK, Threads
<1>3. ScanInv'
  BY <1>1, <1>2, ThreadsAreApart
     DEF UnpackFree, Goto, card, locks, alloc, scan, pageState, edit, spent, history,
         session, ScanInv, CleanFor, Wanted, Finding, Scanning, LockInv, CallInv, Where,
         WhereOnPage, Threads
<1>4. PageInv'
  BY <1>1, <1>2, ThreadsAreApart
     DEF UnpackFree, Goto, card, locks, alloc, scan, pageState, edit, spent, history,
         session, PageInv, Wanted, Ensuring, Unpacking, Fresh, Finding, CallInv, Where,
         WhereOnPage, Threads
<1> QED
  BY <1>3, <1>4 DEF OpenInv

LEMMA EnsuredOpens ==
    ASSUME OnlineInv, OpenInv, Ensured
    PROVE  OpenInv'
<1>1. TypeOK /\ CallInv /\ LockInv /\ EntryInv /\ ScanInv /\ PageInv
  BY DEF OnlineInv, OpenInv
<1>2. use \in [Threads -> Uses] /\ Page \in Threads /\ (\A u \in Threads : u # Page =>
          u \in Plugins)
  BY <1>1 DEF TypeOK, Threads
<1>3. ScanInv'
  BY <1>1, <1>2, ThreadsAreApart
     DEF Ensured, Goto, card, memory, locks, alloc, spent, history, session, ScanInv,
         CleanFor, Wanted, Finding, Scanning, LockInv, CallInv, Where, WhereOnPage, Threads
<1>4. PageInv'
  <2>1. /\ pc[Page] = "ensured" /\ Goto(Page, IF ok[Page] THEN "load" ELSE "idle")
        /\ UNCHANGED <<dir, lib, force, loading, running, clean>>
    BY DEF Ensured, card, history, session
  <2>2. clean => Booted(dir) = entry[Page].version
    BY <1>1, <2>1, PageWantsBooted DEF PageInv, Ensuring
  <2> QED
    BY <1>1, <1>2, <2>1, <2>2 DEF PageInv, Ensuring, Unpacking, Fresh, Finding, Goto, CallInv
<1> QED
  BY <1>3, <1>4 DEF OpenInv

LEMMA LoadOpens ==
    ASSUME OnlineInv, OpenInv, Load
    PROVE  OpenInv'
<1>1. TypeOK /\ CallInv /\ LockInv /\ EntryInv /\ ScanInv /\ PageInv
  BY DEF OnlineInv, OpenInv
<1>2. use \in [Threads -> Uses] /\ Page \in Threads /\ (\A u \in Threads : u # Page =>
          u \in Plugins)
  BY <1>1 DEF TypeOK, Threads
<1>3. ScanInv'
  BY <1>1, <1>2, ThreadsAreApart
     DEF Load, Works, Goto, Fails, card, memory, locks, scan, edit, session, ScanInv,
         CleanFor, Wanted, Finding, Scanning, LockInv, CallInv, Where, WhereOnPage, Threads
<1>4. PageInv'
  <2>1. /\ pc[Page] = "load" /\ UNCHANGED <<dir, lib, entry, force, running>>
    BY DEF Load, card, scan, session
  <2>2. CASE ~Fails /\ lib.whole
    <3>1. loading' = lib.version /\ use'[Page] = "image" /\ Goto(Page, "find") /\ clean' = clean
      BY <1>1, <1>2, <2>2 DEF Load, Works, TypeOK
    <3> QED
      BY <1>1, <1>2, <2>1, <2>2, <3>1
         DEF PageInv, Ensuring, Unpacking, Finding, Goto, CallInv
  <2>3. CASE ~Fails /\ ~lib.whole
    <3>1. Goto(Page, "loadFailed") /\ clean' = clean
      BY <2>3 DEF Load, Works
    <3> QED
      BY <1>1, <1>2, <2>1, <2>3, <3>1
         DEF PageInv, Ensuring, Unpacking, Finding, Goto, CallInv
  <2>4. CASE Fails
    BY <2>4 DEF PageInv, Fails
  <2> QED
    BY <2>2, <2>3, <2>4
<1> QED
  BY <1>3, <1>4 DEF OpenInv

LEMMA StartLibraryOpens ==
    ASSUME OnlineInv, OpenInv, StartLibrary
    PROVE  OpenInv'
<1>1. TypeOK /\ CallInv /\ LockInv /\ EntryInv /\ ScanInv /\ PageInv
  BY DEF OnlineInv, OpenInv
<1>2. use \in [Threads -> Uses] /\ Page \in Threads /\ (\A u \in Threads : u # Page =>
          u \in Plugins)
  BY <1>1 DEF TypeOK, Threads
<1>3. ScanInv'
  BY <1>1, <1>2, ThreadsAreApart
     DEF StartLibrary, Works, Goto, Fails, card, locks, alloc, scan, edit, session,
         ScanInv, CleanFor, Wanted, Finding, Scanning, LockInv, CallInv, Where,
         WhereOnPage, Threads
<1>4. PageInv'
  <2>1. /\ pc[Page] = "init" /\ UNCHANGED <<dir, lib, entry, force, loading, running>>
    BY DEF StartLibrary, card, scan, session
  <2>2. CASE ~Fails
    <3>1. Goto(Page, IF ApiFits THEN "run" ELSE "loadFailed") /\ clean' = clean
      BY <2>2 DEF StartLibrary, Works
    <3> QED
      BY <1>1, <1>2, <2>1, <2>2, <3>1
         DEF PageInv, Ensuring, Unpacking, Finding, ApiFits, Goto, CallInv
  <2>3. CASE Fails
    BY <2>3 DEF PageInv, Fails
  <2> QED
    BY <2>2, <2>3
<1> QED
  BY <1>3, <1>4 DEF OpenInv

LEMMA LoadFailedOpens ==
    ASSUME OnlineInv, OpenInv, LoadFailed
    PROVE  OpenInv'
<1>1. TypeOK /\ CallInv /\ LockInv /\ EntryInv /\ ScanInv /\ PageInv
  BY DEF OnlineInv, OpenInv
<1>2. use \in [Threads -> Uses] /\ Page \in Threads /\ (\A u \in Threads : u # Page =>
          u \in Plugins)
  BY <1>1 DEF TypeOK, Threads
<1>3. ScanInv'
  BY <1>1, <1>2, ThreadsAreApart
     DEF LoadFailed, Goto, card, memory, locks, alloc, scan, edit, spent, history, session,
         ScanInv, CleanFor, Wanted, Finding, Scanning, LockInv, CallInv, Where,
         WhereOnPage, Threads
<1>4. PageInv'
  BY <1>1, <1>2, ThreadsAreApart
     DEF LoadFailed, Goto, card, memory, locks, alloc, scan, edit, spent, history, session,
         PageInv, Wanted, Ensuring, Unpacking, Fresh, Finding, CallInv, Where, WhereOnPage,
         Threads
<1> QED
  BY <1>3, <1>4 DEF OpenInv

LEMMA ReplaceFileOpens ==
    ASSUME OnlineInv, OpenInv, ReplaceFile
    PROVE  OpenInv'
<1>1. TypeOK /\ CallInv /\ LockInv /\ EntryInv /\ ScanInv /\ PageInv
  BY DEF OnlineInv, OpenInv
<1>2. use \in [Threads -> Uses] /\ Page \in Threads /\ (\A u \in Threads : u # Page =>
          u \in Plugins)
  BY <1>1 DEF TypeOK, Threads
<1>3. ScanInv'
  BY <1>1, <1>2, ThreadsAreApart
     DEF ReplaceFile, memory, locks, alloc, scan, pageState, edit, session, ScanInv,
         CleanFor, Wanted, Finding, Scanning, LockInv, CallInv, Where, WhereOnPage, Threads
<1>4. PageInv'
  BY <1>1, <1>2, ThreadsAreApart
     DEF ReplaceFile, memory, locks, alloc, scan, pageState, edit, session, PageInv,
         Wanted, Ensuring, Unpacking, Fresh, Finding, CallInv, Where, WhereOnPage, Threads
<1> QED
  BY <1>3, <1>4 DEF OpenInv

LEMMA PluginOpensFileOpens ==
    ASSUME OnlineInv, OpenInv, NEW t \in Threads, PluginOpensFile(t)
    PROVE  OpenInv'
<1>1. TypeOK /\ CallInv /\ LockInv /\ EntryInv /\ ScanInv /\ PageInv
  BY DEF OnlineInv, OpenInv
<1>2. use \in [Threads -> Uses] /\ Page \in Threads /\ (\A u \in Threads : u # Page =>
          u \in Plugins)
  BY <1>1 DEF TypeOK, Threads
<1>3. ScanInv'
  BY <1>1, <1>2, ThreadsAreApart
     DEF PluginOpensFile, Goto, card, memory, locks, alloc, scan, pageState, edit, history,
         session, ScanInv, CleanFor, Wanted, Finding, Scanning, LockInv, CallInv, Where,
         WhereOnPage, Threads
<1>4. PageInv'
  BY <1>1, <1>2, ThreadsAreApart
     DEF PluginOpensFile, Goto, card, memory, locks, alloc, scan, pageState, edit, history,
         session, PageInv, Wanted, Ensuring, Unpacking, Fresh, Finding, CallInv, Where,
         WhereOnPage, Threads
<1> QED
  BY <1>3, <1>4 DEF OpenInv

LEMMA EditSourcesOpens ==
    ASSUME OnlineInv, OpenInv, NEW t \in Threads, EditSources(t)
    PROVE  OpenInv'
<1>1. TypeOK /\ CallInv /\ LockInv /\ EntryInv /\ ScanInv /\ PageInv
  BY DEF OnlineInv, OpenInv
<1>2. use \in [Threads -> Uses] /\ Page \in Threads /\ (\A u \in Threads : u # Page =>
          u \in Plugins)
  BY <1>1 DEF TypeOK, Threads
<1>3. ScanInv'
  BY <1>1, <1>2, ThreadsAreApart
     DEF EditSources, Goto, card, memory, locks, alloc, scan, pageState, history, session,
         ScanInv, CleanFor, Wanted, Finding, Scanning, LockInv, CallInv, Where,
         WhereOnPage, Threads
<1>4. PageInv'
  BY <1>1, <1>2, ThreadsAreApart
     DEF EditSources, Goto, card, memory, locks, alloc, scan, pageState, history, session,
         PageInv, Wanted, Ensuring, Unpacking, Fresh, Finding, CallInv, Where, WhereOnPage,
         Threads
<1> QED
  BY <1>3, <1>4 DEF OpenInv

LEMMA LockFetchOpens ==
    ASSUME OnlineInv, OpenInv, NEW t \in Threads, LockFetch(t)
    PROVE  OpenInv'
<1>1. TypeOK /\ CallInv /\ LockInv /\ EntryInv /\ ScanInv /\ PageInv
  BY DEF OnlineInv, OpenInv
<1>2. use \in [Threads -> Uses] /\ Page \in Threads /\ (\A u \in Threads : u # Page =>
          u \in Plugins)
  BY <1>1 DEF TypeOK, Threads
<1>3. ScanInv'
  BY <1>1, <1>2, ThreadsAreApart
     DEF LockFetch, edit, Goto, card, memory, scan, pageState, spent, history, session,
         ScanInv, CleanFor, Wanted, Finding, Scanning, LockInv, CallInv, Where,
         WhereOnPage, Threads
<1>4. PageInv'
  BY <1>1, <1>2, ThreadsAreApart
     DEF LockFetch, edit, Goto, card, memory, scan, pageState, spent, history, session,
         PageInv, Wanted, Ensuring, Unpacking, Fresh, Finding, CallInv, Where, WhereOnPage,
         Threads
<1> QED
  BY <1>3, <1>4 DEF OpenInv

LEMMA ParseSourcesOpens ==
    ASSUME OnlineInv, OpenInv, NEW t \in Threads, ParseSources(t)
    PROVE  OpenInv'
<1>1. TypeOK /\ CallInv /\ LockInv /\ EntryInv /\ ScanInv /\ PageInv
  BY DEF OnlineInv, OpenInv
<1>2. use \in [Threads -> Uses] /\ Page \in Threads /\ (\A u \in Threads : u # Page =>
          u \in Plugins)
  BY <1>1 DEF TypeOK, Threads
<1>3. ScanInv'
  <2>1. /\ pc[t] = "parse" /\ UNCHANGED <<dir, lib, use, best, entry, force, loading, running>>
        /\ (clean' => clean) /\ (scanClean' => scanClean)
        /\ (\E w \in {"editFree", "writeTemp"} : Goto(t, w))
        /\ \A u \in Threads : u # t => ok'[u] = ok[u]
    BY <1>1
       DEF ParseSources, Decide, Works, Fails, card, alloc, scan, pageState, session, CallInv
  <2> QED
    BY <1>1, <1>2, <2>1 DEF ScanInv, CleanFor, Wanted, Finding, Goto, CallInv
<1>4. PageInv'
  <2>1. /\ pc[t] = "parse" /\ UNCHANGED <<dir, lib, use, best, entry, force, loading, running>>
        /\ (clean' => clean) /\ (scanClean' => scanClean)
        /\ (\E w \in {"editFree", "writeTemp"} : Goto(t, w))
        /\ \A u \in Threads : u # t => ok'[u] = ok[u]
    BY <1>1
       DEF ParseSources, Decide, Works, Fails, card, alloc, scan, pageState, session, CallInv
  <2> QED
    BY <1>1, <1>2, <2>1 DEF PageInv, Wanted, Ensuring, Unpacking, Fresh, Finding, Goto, CallInv
<1> QED
  BY <1>3, <1>4 DEF OpenInv

LEMMA WriteTempOpens ==
    ASSUME OnlineInv, OpenInv, NEW t \in Threads, WriteTemp(t)
    PROVE  OpenInv'
<1>1. TypeOK /\ CallInv /\ LockInv /\ EntryInv /\ ScanInv /\ PageInv
  BY DEF OnlineInv, OpenInv
<1>2. use \in [Threads -> Uses] /\ Page \in Threads /\ (\A u \in Threads : u # Page =>
          u \in Plugins)
  BY <1>1 DEF TypeOK, Threads
<1>3. ScanInv'
  BY <1>1, <1>2, ThreadsAreApart
     DEF WriteTemp, Works, Goto, Fails, card, memory, locks, alloc, scan, pageState, edit,
         session, ScanInv, CleanFor, Wanted, Finding, Scanning, LockInv, CallInv, Where,
         WhereOnPage, Threads
<1>4. PageInv'
  <2>1. UNCHANGED <<dir, lib, force, loading, running, use, entry>> /\ (clean' => clean)
    BY DEF WriteTemp, Works, Fails, alloc, scan, pageState, session, card
  <2>2. \/ pc'[Page] = pc[Page] /\ UNCHANGED ok[Page]
        \/ pc'[Page] \in {"openTarget", "copy", "editFree"}
    BY <1>1, <1>2 DEF WriteTemp, Goto, edit, CallInv
  <2> QED
    BY <1>1, <2>1, <2>2, PageElsewhere DEF Where
<1> QED
  BY <1>3, <1>4 DEF OpenInv

LEMMA OpenTargetOpens ==
    ASSUME OnlineInv, OpenInv, NEW t \in Threads, OpenTarget(t)
    PROVE  OpenInv'
<1>1. TypeOK /\ CallInv /\ LockInv /\ EntryInv /\ ScanInv /\ PageInv
  BY DEF OnlineInv, OpenInv
<1>2. use \in [Threads -> Uses] /\ Page \in Threads /\ (\A u \in Threads : u # Page =>
          u \in Plugins)
  BY <1>1 DEF TypeOK, Threads
<1>3. ScanInv'
  BY <1>1, <1>2, ThreadsAreApart
     DEF OpenTarget, Works, Goto, Fails, memory, locks, alloc, scan, pageState, session,
         ScanInv, CleanFor, Wanted, Finding, Scanning, LockInv, CallInv, Where,
         WhereOnPage, Threads
<1>4. PageInv'
  <2>1. UNCHANGED <<dir, lib, force, loading, running, use, entry>> /\ (clean' => clean)
    BY DEF OpenTarget, Works, Fails, alloc, scan, pageState, session
  <2>2. \/ pc'[Page] = pc[Page] /\ UNCHANGED ok[Page]
        \/ pc'[Page] \in {"openTarget", "copy", "editFree"}
    BY <1>1, <1>2 DEF OpenTarget, Goto, edit, CallInv
  <2> QED
    BY <1>1, <2>1, <2>2, PageElsewhere DEF Where
<1> QED
  BY <1>3, <1>4 DEF OpenInv

LEMMA CopyToTargetOpens ==
    ASSUME OnlineInv, OpenInv, NEW t \in Threads, CopyToTarget(t)
    PROVE  OpenInv'
<1>1. TypeOK /\ CallInv /\ LockInv /\ EntryInv /\ ScanInv /\ PageInv
  BY DEF OnlineInv, OpenInv
<1>2. use \in [Threads -> Uses] /\ Page \in Threads /\ (\A u \in Threads : u # Page =>
          u \in Plugins)
  BY <1>1 DEF TypeOK, Threads
<1>3. ScanInv'
  BY <1>1, <1>2, ThreadsAreApart
     DEF CopyToTarget, Works, Fails, Goto, memory, locks, alloc, scan, pageState, session,
         ScanInv, CleanFor, Wanted, Finding, Scanning, LockInv, CallInv, Where,
         WhereOnPage, Threads
<1>4. PageInv'
  <2>1. UNCHANGED <<dir, lib, force, loading, running, use, entry>> /\ (clean' => clean)
    BY DEF CopyToTarget, Works, Fails, alloc, scan, pageState, session
  <2>2. \/ pc'[Page] = pc[Page] /\ UNCHANGED ok[Page]
        \/ pc'[Page] \in {"openTarget", "copy", "editFree"}
    BY <1>1, <1>2 DEF CopyToTarget, Goto, edit, CallInv
  <2> QED
    BY <1>1, <2>1, <2>2, PageElsewhere DEF Where
<1> QED
  BY <1>3, <1>4 DEF OpenInv

LEMMA FreeFetchScratchOpens ==
    ASSUME OnlineInv, OpenInv, NEW t \in Threads, FreeFetchScratch(t)
    PROVE  OpenInv'
<1>1. TypeOK /\ CallInv /\ LockInv /\ EntryInv /\ ScanInv /\ PageInv
  BY DEF OnlineInv, OpenInv
<1>2. use \in [Threads -> Uses] /\ Page \in Threads /\ (\A u \in Threads : u # Page =>
          u \in Plugins)
  BY <1>1 DEF TypeOK, Threads
<1>3. ScanInv'
  BY <1>1, <1>2, ThreadsAreApart
     DEF FreeFetchScratch, Goto, card, locks, alloc, scan, pageState, edit, spent, history,
         session, ScanInv, CleanFor, Wanted, Finding, Scanning, LockInv, CallInv, Where,
         WhereOnPage, Threads
<1>4. PageInv'
  BY <1>1, <1>2, ThreadsAreApart
     DEF FreeFetchScratch, Goto, card, locks, alloc, scan, pageState, edit, spent, history,
         session, PageInv, Wanted, Ensuring, Unpacking, Fresh, Finding, CallInv, Where,
         WhereOnPage, Threads
<1> QED
  BY <1>3, <1>4 DEF OpenInv

LEMMA UnlockFetchOpens ==
    ASSUME OnlineInv, OpenInv, NEW t \in Threads, UnlockFetch(t)
    PROVE  OpenInv'
<1>1. TypeOK /\ CallInv /\ LockInv /\ EntryInv /\ ScanInv /\ PageInv
  BY DEF OnlineInv, OpenInv
<1>2. use \in [Threads -> Uses] /\ Page \in Threads /\ (\A u \in Threads : u # Page =>
          u \in Plugins)
  BY <1>1 DEF TypeOK, Threads
<1>3. ScanInv'
  BY <1>1, <1>2, ThreadsAreApart
     DEF UnlockFetch, Goto, card, memory, alloc, scan, pageState, spent, history, session,
         ScanInv, CleanFor, Wanted, Finding, Scanning, LockInv, CallInv, Where,
         WhereOnPage, Threads
<1>4. PageInv'
  BY <1>1, <1>2, ThreadsAreApart
     DEF UnlockFetch, Goto, card, memory, alloc, scan, pageState, spent, history, session,
         PageInv, Wanted, Ensuring, Unpacking, Fresh, Finding, CallInv, Where, WhereOnPage,
         Threads
<1> QED
  BY <1>3, <1>4 DEF OpenInv

LEMMA UnloadOpens ==
    ASSUME OnlineInv, OpenInv, Unload
    PROVE  OpenInv'
<1>1. TypeOK /\ CallInv /\ LockInv /\ EntryInv /\ ScanInv /\ PageInv
  BY DEF OnlineInv, OpenInv
<1>2. use \in [Threads -> Uses] /\ Page \in Threads /\ (\A u \in Threads : u # Page =>
          u \in Plugins)
  BY <1>1 DEF TypeOK, Threads
<1>3. ScanInv'
  BY <1>1, <1>2, ThreadsAreApart
     DEF Unload, Goto, card, memory, locks, alloc, scan, edit, spent, history, session,
         ScanInv, CleanFor, Wanted, Finding, Scanning, LockInv, CallInv, Where,
         WhereOnPage, Threads
<1>4. PageInv'
  BY <1>1, <1>2, ThreadsAreApart
     DEF Unload, Goto, card, memory, locks, alloc, scan, edit, spent, history, session,
         PageInv, Wanted, Ensuring, Unpacking, Fresh, Finding, CallInv, Where, WhereOnPage,
         Threads
<1> QED
  BY <1>3, <1>4 DEF OpenInv

LEMMA FreeImageOpens ==
    ASSUME OnlineInv, OpenInv, FreeImage
    PROVE  OpenInv'
<1>1. TypeOK /\ CallInv /\ LockInv /\ EntryInv /\ ScanInv /\ PageInv
  BY DEF OnlineInv, OpenInv
<1>2. use \in [Threads -> Uses] /\ Page \in Threads /\ (\A u \in Threads : u # Page =>
          u \in Plugins)
  BY <1>1 DEF TypeOK, Threads
<1>3. ScanInv'
  BY <1>1, <1>2, ThreadsAreApart
     DEF FreeImage, Goto, card, locks, alloc, scan, edit, spent, history, session, ScanInv,
         CleanFor, Wanted, Finding, Scanning, LockInv, CallInv, Where, WhereOnPage, Threads
<1>4. PageInv'
  BY <1>1, <1>2, ThreadsAreApart
     DEF FreeImage, Goto, card, locks, alloc, scan, edit, spent, history, session, PageInv,
         Wanted, Ensuring, Unpacking, Fresh, Finding, CallInv, Where, WhereOnPage, Threads
<1> QED
  BY <1>3, <1>4 DEF OpenInv

LEMMA OpenManageOpens ==
    ASSUME OnlineInv, OpenInv, OpenManage
    PROVE  OpenInv'
<1>1. TypeOK /\ CallInv /\ LockInv /\ EntryInv /\ ScanInv /\ PageInv
  BY DEF OnlineInv, OpenInv
<1>2. use \in [Threads -> Uses] /\ Page \in Threads /\ (\A u \in Threads : u # Page =>
          u \in Plugins)
  BY <1>1 DEF TypeOK, Threads
<1>3. ScanInv'
  BY <1>1, <1>2, ThreadsAreApart
     DEF OpenManage, Goto, card, memory, locks, scan, pageState, edit, history, session,
         ScanInv, CleanFor, Wanted, Finding, Scanning, LockInv, CallInv, Where,
         WhereOnPage, Threads
<1>4. PageInv'
  BY <1>1, <1>2, ThreadsAreApart
     DEF OpenManage, Goto, card, memory, locks, scan, pageState, edit, history, session,
         PageInv, Wanted, Ensuring, Unpacking, Fresh, Finding, CallInv, Where, WhereOnPage,
         Threads
<1> QED
  BY <1>3, <1>4 DEF OpenInv

LEMMA BuildListOpens ==
    ASSUME OnlineInv, OpenInv, BuildList
    PROVE  OpenInv'
<1>1. TypeOK /\ CallInv /\ LockInv /\ EntryInv /\ ScanInv /\ PageInv
  BY DEF OnlineInv, OpenInv
<1>2. use \in [Threads -> Uses] /\ Page \in Threads /\ (\A u \in Threads : u # Page =>
          u \in Plugins)
  BY <1>1 DEF TypeOK, Threads
<1>3. ScanInv'
  BY <1>1, <1>2, ThreadsAreApart
     DEF BuildList, Goto, card, memory, locks, alloc, scan, pageState, edit, spent,
         history, session, ScanInv, CleanFor, Wanted, Finding, Scanning, LockInv, CallInv,
         Where, WhereOnPage, Threads
<1>4. PageInv'
  BY <1>1, <1>2, ThreadsAreApart
     DEF BuildList, Goto, card, memory, locks, alloc, scan, pageState, edit, spent,
         history, session, PageInv, Wanted, Ensuring, Unpacking, Fresh, Finding, CallInv,
         Where, WhereOnPage, Threads
<1> QED
  BY <1>3, <1>4 DEF OpenInv

LEMMA BuildAgainOpens ==
    ASSUME OnlineInv, OpenInv, BuildAgain
    PROVE  OpenInv'
<1>1. TypeOK /\ CallInv /\ LockInv /\ EntryInv /\ ScanInv /\ PageInv
  BY DEF OnlineInv, OpenInv
<1>2. use \in [Threads -> Uses] /\ Page \in Threads /\ (\A u \in Threads : u # Page =>
          u \in Plugins)
  BY <1>1 DEF TypeOK, Threads
<1>3. ScanInv'
  BY <1>1, <1>2, ThreadsAreApart
     DEF BuildAgain, Goto, card, memory, locks, alloc, scan, pageState, edit, spent,
         history, session, ScanInv, CleanFor, Wanted, Finding, Scanning, LockInv, CallInv,
         Where, WhereOnPage, Threads
<1>4. PageInv'
  BY <1>1, <1>2, ThreadsAreApart
     DEF BuildAgain, Goto, card, memory, locks, alloc, scan, pageState, edit, spent,
         history, session, PageInv, Wanted, Ensuring, Unpacking, Fresh, Finding, CallInv,
         Where, WhereOnPage, Threads
<1> QED
  BY <1>3, <1>4 DEF OpenInv

LEMMA LeaveManageOpens ==
    ASSUME OnlineInv, OpenInv, LeaveManage
    PROVE  OpenInv'
<1>1. TypeOK /\ CallInv /\ LockInv /\ EntryInv /\ ScanInv /\ PageInv
  BY DEF OnlineInv, OpenInv
<1>2. use \in [Threads -> Uses] /\ Page \in Threads /\ (\A u \in Threads : u # Page =>
          u \in Plugins)
  BY <1>1 DEF TypeOK, Threads
<1>3. ScanInv'
  BY <1>1, <1>2, ThreadsAreApart
     DEF LeaveManage, Goto, card, locks, alloc, scan, pageState, edit, spent, history,
         session, ScanInv, CleanFor, Wanted, Finding, Scanning, LockInv, CallInv, Where,
         WhereOnPage, Threads
<1>4. PageInv'
  BY <1>1, <1>2, ThreadsAreApart
     DEF LeaveManage, Goto, card, locks, alloc, scan, pageState, edit, spent, history,
         session, PageInv, Wanted, Ensuring, Unpacking, Fresh, Finding, CallInv, Where,
         WhereOnPage, Threads
<1> QED
  BY <1>3, <1>4 DEF OpenInv

-----------------------------------------------------------------------------
(* What the page opens *)

LEMMA StartsOpen ==
    ASSUME \A t \in Threads : pc[t] = "idle" /\ entry[t] = None
    PROVE  ScanInv /\ PageInv
<1>1. Page \in Threads
  BY DEF Threads
<1>2. ScanInv
  BY DEF ScanInv, Finding
<1>3. PageInv
  BY <1>1 DEF PageInv, Ensuring, Unpacking, Finding
<1> QED
  BY <1>2, <1>3

LEMMA RestartOpens ==
    ASSUME Restart
    PROVE  OpenInv'
<1>1. (\A t \in Threads : pc[t] = "idle" /\ entry[t] = None)'
  BY DEF Restart, Each
<1>2. (\A t \in Threads : pc[t] = "idle" /\ entry[t] = None)' => (ScanInv /\ PageInv)'
  BY StartsOpen, PTL
<1> QED
  BY <1>1, <1>2 DEF OpenInv

LEMMA StepOpens == OnlineInv /\ OpenInv /\ [Next]_vars => OpenInv'
<1> SUFFICES ASSUME OnlineInv, OpenInv, [Next]_vars
             PROVE  OpenInv'
  OBVIOUS
<1>1. CASE OpenPage \/ Unload \/ OpenManage \/ BuildAgain \/ LeaveManage
  BY <1>1, OpenPageOpens, UnloadOpens, OpenManageOpens, BuildAgainOpens, LeaveManageOpens
<1>2. ASSUME NEW t \in Threads, FindFreeRange(t) \/ TakeRange(t)
      PROVE  OpenInv'
  BY <1>2, FindFreeRangeOpens, TakeRangeOpens
<1>3. ASSUME NEW t \in Threads, OpenPluginFile(t)
      PROVE  OpenInv'
  BY <1>3, LockPluginFileOpens, FirstPassOpens, SecondPassOpens, ReopenOpens,
     FreeScanScratchOpens, UnlockPluginFileOpens
     DEF OpenPluginFile
<1>4. ASSUME NEW t \in Threads, EditSteps(t)
      PROVE  OpenInv'
  BY <1>4, LockFetchOpens, ParseSourcesOpens, WriteTempOpens, OpenTargetOpens,
     CopyToTargetOpens, FreeFetchScratchOpens, UnlockFetchOpens
     DEF EditSteps
<1>5. CASE PageSteps \/ BuildList
  BY <1>5, EnsureOpens, UnpackStartOpens, UnpackWriteOpens, UnpackUnlockOpens,
     UnpackFreeOpens, EnsuredOpens, LoadOpens, StartLibraryOpens, LoadFailedOpens,
     FreeImageOpens, BuildListOpens
     DEF PageSteps
<1>6. ASSUME NEW t \in Threads, EditSources(t) \/ PluginOpensFile(t)
      PROVE  OpenInv'
  BY <1>6, EditSourcesOpens, PluginOpensFileOpens
<1>7. CASE ReplaceFile
  BY <1>7, ReplaceFileOpens
<1>8. CASE PowerCut \/ WriteThroughNull
  BY <1>8, RestartOpens DEF PowerCut, WriteThroughNull
<1>9. CASE UNCHANGED vars
  BY <1>9 DEF vars, card, alloc, scan, pageState, edit, history, session, OpenInv, ScanInv,
     PageInv, CleanFor, Wanted, Ensuring, Unpacking, Fresh, Finding
<1> QED
  BY <1>1, <1>2, <1>3, <1>4, <1>5, <1>6, <1>7, <1>8, <1>9 DEF Next, ThreadSteps

\* What a scan has found so far, and what the page works with, is right for any
\* directory, number of plugins and interleaving.
THEOREM OpenInvariant == Spec => []OpenInv
<1>1. Init => OpenInv
  <2> SUFFICES ASSUME Init
               PROVE  OpenInv
    OBVIOUS
  <2>1. \A t \in Threads : pc[t] = "idle" /\ entry[t] = None
    BY DEF Init, Each
  <2> QED
    BY <2>1, StartsOpen DEF OpenInv
<1>2. OnlineInv /\ OpenInv /\ [Next]_vars => OpenInv'
  BY StepOpens
<1> QED
  BY <1>1, <1>2, OnlineInvariant, PTL DEF Spec

\* OpenPluginFile, in two passes over the directory in whatever order it lists the
\* files, opens the entry that one walk over the sorted files makes a winner (which
\* is what the console loads and ManageBuildList lists), or none if there is none.
THEOREM AlwaysOpensWhatIsLoaded == Spec => []OpensWhatIsLoaded
<1>1. OnlineInv /\ OpenInv => OpensWhatIsLoaded
  BY DEF OnlineInv, OpenInv, EntryInv, ScanInv, CleanFor, Wanted, OpensWhatIsLoaded
<1> QED
  BY <1>1, OnlineInvariant, OpenInvariant, PTL

\* The number of failures is a number.
LEMMA TroubleCounts == [Next]_vars => trouble' = trouble \/ trouble' = trouble + 1
<1> SUFFICES ASSUME [Next]_vars
             PROVE  trouble' = trouble \/ trouble' = trouble + 1
  OBVIOUS
<1>1. CASE OpenPage \/ Unload \/ OpenManage \/ BuildAgain \/ LeaveManage
  BY <1>1 DEF OpenPage, Unload, OpenManage, BuildAgain, LeaveManage, spent
<1>2. ASSUME NEW t \in Threads, FindFreeRange(t) \/ TakeRange(t)
      PROVE  trouble' = trouble
  BY <1>2 DEF FindFreeRange, TakeRange, spent
<1>3. ASSUME NEW t \in Threads, OpenPluginFile(t)
      PROVE  trouble' = trouble \/ trouble' = trouble + 1
  BY <1>3 DEF OpenPluginFile, LockPluginFile, FirstPass, SecondPass, Reopen, FreeScanScratch,
     UnlockPluginFile, Works, Fails, spent
<1>4. ASSUME NEW t \in Threads, EditSteps(t)
      PROVE  trouble' = trouble \/ trouble' = trouble + 1
  BY <1>4 DEF EditSteps, LockFetch, ParseSources, WriteTemp, OpenTarget, CopyToTarget,
     FreeFetchScratch, UnlockFetch, Works, Fails, spent
<1>5. CASE PageSteps \/ BuildList
  BY <1>5 DEF PageSteps, Ensure, UnpackStart, UnpackWrite, UnpackUnlock, UnpackFree, Ensured,
     Load, StartLibrary, LoadFailed, FreeImage, BuildList, Works, Fails, spent
<1>6. ASSUME NEW t \in Threads, EditSources(t) \/ PluginOpensFile(t)
      PROVE  trouble' = trouble
  BY <1>6 DEF EditSources, PluginOpensFile
<1>7. CASE ReplaceFile \/ PowerCut \/ WriteThroughNull
  BY <1>7 DEF ReplaceFile, PowerCut, WriteThroughNull
<1>8. CASE UNCHANGED vars
  BY <1>8 DEF vars, spent
<1> QED
  BY <1>1, <1>2, <1>3, <1>4, <1>5, <1>6, <1>7, <1>8 DEF Next, ThreadSteps

\* A page to which nothing happens gives up only where it says so.
PageMayGiveUp ==
    GaveUp /\ clean' /\ trouble' = trouble /\ ~shared =>
        Booted(dir) = None \/ ApiOf[Booted(dir)] # ApiOf[running]

LEMMA StepGivesUpRightly ==
    ASSUME OnlineInv, OpenInv, trouble \in Nat, Next
    PROVE  PageMayGiveUp
<1> SUFFICES ASSUME GaveUp, clean', trouble' = trouble, ~shared
             PROVE  Booted(dir) = None \/ ApiOf[Booted(dir)] # ApiOf[running]
  BY DEF PageMayGiveUp
<1>1. /\ TypeOK /\ CallInv /\ ScanScratchInv /\ PageInv
      /\ Page \in Threads /\ pc[Page] \notin {"idle", "unload", "managing"} /\ pc'[Page] = "idle"
      /\ use \in [Threads -> Uses]
  BY DEF OnlineInv, OpenInv, GaveUp, Threads, TypeOK
<1>2. CASE OpenPage \/ Unload \/ OpenManage \/ BuildAgain \/ LeaveManage
  BY <1>1, <1>2 DEF OpenPage, Unload, OpenManage, BuildAgain, LeaveManage, Goto, CallInv
<1>3. ASSUME NEW t \in Threads, FindFreeRange(t) \/ TakeRange(t)
      PROVE  FALSE
  <2>1. \/ Goto(t, "take") \/ Goto(t, Granted[use[t]])
        \/ \E w : Goto(t, w) /\ clean' = (clean /\ t # Page)
    BY <1>3 DEF FindFreeRange, TakeRange
  <2>2. Granted[use[t]] # "idle"
    BY <1>1 DEF Granted, Uses
  <2> QED
    BY <1>1, <1>3, <2>1, <2>2 DEF Goto, CallInv
<1>4. ASSUME NEW t \in Threads, OpenPluginFile(t)
      PROVE  Booted(dir) = None
  <2>1. t = Page /\ UnlockPluginFile(t) /\ entry[t] = None
    BY <1>1, <1>4 DEF OpenPluginFile, LockPluginFile, FirstPass, SecondPass, Reopen,
       FreeScanScratch, UnlockPluginFile, Goto, CallInv
  <2>2. pc[Page] = "scanUnlock" /\ clean
    BY <2>1 DEF UnlockPluginFile, history
  <2> QED
    BY <1>1, <2>1, <2>2, PageWantsBooted DEF PageInv
<1>5. ASSUME NEW t \in Threads, EditSteps(t)
      PROVE  FALSE
  <2>1. \/ \E w : Goto(t, w) /\ w # "idle"
        \/ pc[t] = "editUnlock" /\ Goto(t, back[t])
    BY <1>5 DEF EditSteps, LockFetch, ParseSources, WriteTemp, OpenTarget, CopyToTarget,
       FreeFetchScratch, UnlockFetch, Decide
  <2>2. t = Page /\ pc[t] = "editUnlock" => back[t] = "run"
    BY <1>1 DEF CallInv, Editing
  <2> QED
    BY <1>1, <1>5, <2>1, <2>2 DEF Goto, CallInv
<1>6. CASE PageSteps \/ BuildList
  <2>1. CASE Ensured
    <3>1. pc[Page] = "ensured" /\ clean /\ ~ok[Page]
      BY <1>1, <2>1 DEF Ensured, Goto, CallInv, history
    <3> QED
      BY <1>1, <3>1, PageWantsBooted DEF PageInv, Ensuring
  <2>2. CASE LoadFailed
    <3>1. pc[Page] = "loadFailed" /\ clean /\ force
      BY <1>1, <2>2 DEF LoadFailed, Goto, CallInv, history
    <3> QED
      BY <1>1, <3>1 DEF PageInv
  <2>3. CASE FreeImage
    BY <1>1, <2>3 DEF FreeImage
  <2>4. CASE Ensure \/ UnpackStart \/ UnpackWrite \/ UnpackUnlock \/ UnpackFree \/ Load
             \/ StartLibrary \/ BuildList
    BY <1>1, <2>4 DEF Ensure, UnpackStart, UnpackWrite, UnpackUnlock, UnpackFree, Load,
       StartLibrary, BuildList, Goto, CallInv
  <2> QED
    BY <1>6, <2>1, <2>2, <2>3, <2>4 DEF PageSteps
<1>7. ASSUME NEW t \in Threads, EditSources(t) \/ PluginOpensFile(t)
      PROVE  FALSE
  BY <1>1, <1>7 DEF EditSources, PluginOpensFile, Goto, CallInv
<1>8. CASE ReplaceFile
  BY <1>8 DEF ReplaceFile
<1>9. CASE PowerCut
  BY <1>9 DEF PowerCut
<1>10. CASE WriteThroughNull
  <2>1. PICK t \in Threads : scanScratch = None /\ pc[t] \in {"pass1", "pass2", "reopen",
                 "manageScan"}
    BY <1>10 DEF WriteThroughNull
  <2>2. None \notin mem
    BY <1>1, NoneIsNoBlock DEF TypeOK
  <2>3. pc[t] = "manageScan" => Managing
    BY <1>1, <2>1 DEF CallInv, Where, Managing, Threads
  <2> QED
    BY <1>1, <2>1, <2>2, <2>3 DEF ScanScratchInv, Mine
<1> QED
  BY <1>2, <1>3, <1>4, <1>5, <1>6, <1>7, <1>8, <1>9, <1>10 DEF Next, ThreadSteps

\* Whatever damage is on the card, a call of the Online page to which nothing happens
\* loads the library: after at most one refresh it runs, unless no MENU would boot or
\* its library is of another API than the MENU that runs.
THEOREM PageAlwaysOpens == Spec => PageOpens
<1>1. Init => trouble \in Nat
  BY DEF Init
<1>2. trouble \in Nat /\ [Next]_vars => (trouble \in Nat)'
  BY TroubleCounts
<1>3. OnlineInv /\ OpenInv /\ trouble \in Nat /\ [Next]_vars =>
          [GaveUp /\ clean' /\ trouble' = trouble /\ ~shared =>
               Booted(dir) = None \/ ApiOf[Booted(dir)] # ApiOf[running]]_vars
  BY StepGivesUpRightly DEF PageMayGiveUp
<1> QED
  BY <1>1, <1>2, <1>3, OnlineInvariant, OpenInvariant, PTL DEF Spec, PageOpens

-----------------------------------------------------------------------------
(* What SourceList asks of the new list *)

Unless(kept, s, out) == IF s \in out THEN kept ELSE Append(kept, s)

\* The same for the list without some entries.
WithoutFoldTo(g, S, old, out) ==
    g = [s \in SUBSET S |->
             IF s = {} THEN <<>> ELSE Unless(g[s \ {Max(s)}], old[Max(s)], out)]
WithoutFolded(old, out) ==
    CHOOSE g : g = [s \in SUBSET DOMAIN old |->
                       IF s = {} THEN <<>> ELSE Unless(g[s \ {Max(s)}], old[Max(s)], out)]

\* It exists for every prefix.
LEMMA WithoutFoldExists ==
    ASSUME NEW old, NEW out, NEW n \in Nat
    PROVE  \E g : WithoutFoldTo(g, 1 .. n, old, out)
<1> DEFINE Bad == {m \in Nat : ~ \E g : WithoutFoldTo(g, 1 .. m, old, out)}
<1>1. ASSUME Bad # {}
      PROVE  FALSE
  <2>1. PICK m \in Bad : \A k \in Bad : m <= k
    BY <1>1, LeastExists
  <2>2. m # 0
    <3> SUFFICES \E g : WithoutFoldTo(g, {}, old, out)
      BY <2>1
    <3> DEFINE g == [s \in SUBSET {} |-> <<>>]
    <3>1. g = [s \in SUBSET {} |->
                  IF s = {} THEN <<>> ELSE Unless(g[s \ {Max(s)}], old[Max(s)], out)]
      OBVIOUS
    <3> HIDE DEF g
    <3> QED
      BY <3>1 DEF WithoutFoldTo
  <2>3. PICK k \in Nat : m = k + 1 /\ k \notin Bad
    <3>1. m - 1 \in Nat /\ m = (m - 1) + 1 /\ ~ (m <= m - 1)
      BY <2>1, <2>2
    <3> QED
      BY <2>1, <3>1
  <2>4. PICK g : WithoutFoldTo(g, 1 .. k, old, out)
    BY <2>3
  <2> DEFINE h == [s \in SUBSET (1 .. m) |->
                      IF m \in s THEN Unless(g[s \ {m}], old[m], out) ELSE g[s]]
  <2>5. \A s \in SUBSET (1 .. m) :
            h[s] = IF s = {} THEN <<>> ELSE Unless(h[s \ {Max(s)}], old[Max(s)], out)
    <3> SUFFICES ASSUME NEW s \in SUBSET (1 .. m)
                 PROVE  h[s] = IF s = {} THEN <<>>
                               ELSE Unless(h[s \ {Max(s)}], old[Max(s)], out)
      OBVIOUS
    <3>1. CASE m \in s
      <4>1. Max(s) = m
        BY <2>3, <3>1, LastIsMax
      <4>2. h[s \ {m}] = g[s \ {m}]
        OBVIOUS
      <4> QED
        BY <3>1, <4>1, <4>2
    <3>2. CASE m \notin s
      <4>1. s \in SUBSET (1 .. k)
        BY <2>3, <3>2
      <4>2. h[s] = g[s] /\ h[s \ {Max(s)}] = g[s \ {Max(s)}]
        BY <3>2
      <4> QED
        BY <2>4, <4>1, <4>2 DEF WithoutFoldTo
    <3> QED
      BY <3>1, <3>2
  <2>6. WithoutFoldTo(h, 1 .. m, old, out)
    <3>1. h = [s \in SUBSET (1 .. m) |-> h[s]]
      OBVIOUS
    <3> HIDE DEF h
    <3> QED
      BY <2>5, <3>1 DEF WithoutFoldTo
  <2> QED
    BY <2>1, <2>6
<1> QED
  BY <1>1

\* The step from one prefix to the next.
LEMMA WithoutFoldStep ==
    ASSUME NEW old \in Seq(Sources), NEW out
    PROVE  /\ List!Without(old, out) =
                  WithoutFolded(old, out)[1 .. Len(old)]
           /\ WithoutFolded(old, out)[{}] = <<>>
           /\ \A k \in Nat : k + 1 <= Len(old) =>
                  WithoutFolded(old, out)[1 .. k + 1] =
                      Unless(WithoutFolded(old, out)[1 .. k], old[k + 1], out)
<1> DEFINE it == WithoutFolded(old, out)
<1>1. DOMAIN old = 1 .. Len(old) /\ Len(old) \in Nat
  OBVIOUS
<1>2. List!Without(old, out) = it[DOMAIN old]
  BY DEF WithoutFolded, Unless, List!Without, List!FoldLeft, List!MapThenFoldSet, Max,
         List!Max
<1>3. WithoutFoldTo(it, DOMAIN old, old, out)
  <2>1. \E g : WithoutFoldTo(g, DOMAIN old, old, out)
    BY <1>1, WithoutFoldExists
  <2>2. WithoutFolded(old, out) = CHOOSE g : WithoutFoldTo(g, DOMAIN old, old, out)
    BY Zenon DEF WithoutFolded, WithoutFoldTo
  <2> HIDE DEF it
  <2>3. WithoutFoldTo(WithoutFolded(old, out), DOMAIN old, old, out)
    BY <2>1, <2>2, Zenon
  <2> QED
    BY <2>3 DEF it
<1> HIDE DEF it
<1>4. it[{}] = <<>>
  BY <1>3 DEF WithoutFoldTo
<1>5. ASSUME NEW k \in Nat, k + 1 <= Len(old)
      PROVE  it[1 .. k + 1] = Unless(it[1 .. k], old[k + 1], out)
  <2>1. 1 .. k + 1 \in SUBSET DOMAIN old /\ 1 .. k + 1 # {} /\ k + 1 \in 1 .. k + 1
    <3>1. k + 1 \in 1 .. k + 1
      BY <1>5
    <3>2. \A i \in 1 .. k + 1 : i \in 1 .. Len(old)
      BY <1>1, <1>5
    <3> QED
      BY <1>1, <3>1, <3>2
  <2>2. Max(1 .. k + 1) = k + 1
    BY <2>1, LastIsMax
  <2>3. (1 .. k + 1) \ {k + 1} = 1 .. k
    OBVIOUS
  <2>4. it[1 .. k + 1] = Unless(it[(1 .. k + 1) \ {Max(1 .. k + 1)}], old[Max(1 .. k + 1)], out)
    BY <1>3, <2>1 DEF WithoutFoldTo
  <2> QED
    BY <2>2, <2>3, <2>4
<1> QED
  BY <1>1, <1>2, <1>4, <1>5 DEF it

\* A is K with e inserted at m.
Stands(A, K, m, e) ==
    /\ A \in Seq(Sources) /\ K \in Seq(Sources)
    /\ m \in 1 .. Len(K) + 1 /\ Len(A) = Len(K) + 1
    /\ A[m] = e
    /\ \A j \in 1 .. m - 1 : A[j] = K[j]
    /\ \A j \in m .. Len(K) : A[j + 1] = K[j]

LEMMA StandsAsInserted ==
    ASSUME NEW A, NEW K, NEW m, NEW e \in Sources, Stands(A, K, m, e)
    PROVE  A = List!InsertAt(K, m, e)
<1> DEFINE B == List!InsertAt(K, m, e)
           front == SubSeq(K, 1, m - 1)
           back1 == SubSeq(K, m, Len(K))
<1>1. K \in Seq(Sources) /\ Len(K) \in Nat /\ m \in Nat /\ m \in 1 .. Len(K) + 1
  BY DEF Stands
<1>2. /\ front \in Seq(Sources) /\ Len(front) = m - 1
      /\ \A j \in 1 .. m - 1 : front[j] = K[j]
  BY <1>1, SubSeqProperties
<1>3. /\ back1 \in Seq(Sources) /\ Len(back1) = Len(K) + 1 - m
      /\ \A j \in 1 .. Len(K) + 1 - m : back1[j] = K[m + j - 1]
  BY <1>1, SubSeqProperties
<1> HIDE DEF front, back1
<1> DEFINE middle == front \o <<e>>
<1>4. <<e>> \in Seq(Sources) /\ Len(<<e>>) = 1 /\ <<e>>[1] = e
  OBVIOUS
<1>5. /\ middle \in Seq(Sources) /\ Len(middle) = m
      /\ \A j \in 1 .. m - 1 : middle[j] = K[j]
      /\ middle[m] = e
  BY <1>1, <1>2, <1>4, ConcatProperties
<1>6. B = middle \o back1
  BY DEF List!InsertAt, middle, front, back1
<1> HIDE DEF B, middle
<1>7. /\ B \in Seq(Sources) /\ Len(B) = Len(K) + 1
      /\ \A j \in 1 .. m : B[j] = middle[j]
      /\ \A j \in m + 1 .. Len(K) + 1 : B[j] = back1[j - m]
  BY <1>1, <1>3, <1>5, <1>6, ConcatProperties
<1>8. \A j \in 1 .. Len(K) + 1 : B[j] = A[j]
  <2> SUFFICES ASSUME NEW j \in 1 .. Len(K) + 1
               PROVE  B[j] = A[j]
    OBVIOUS
  <2>1. CASE j < m
    BY <1>1, <1>5, <1>7, <2>1 DEF Stands
  <2>2. CASE j = m
    BY <1>1, <1>5, <1>7, <2>2 DEF Stands
  <2>3. CASE j > m
    <3>1. B[j] = back1[j - m] /\ j - m \in 1 .. Len(K) + 1 - m /\ m + (j - m) - 1 = j - 1
      BY <1>1, <1>7, <2>3
    <3>2. B[j] = K[j - 1]
      BY <1>3, <3>1
    <3>3. j - 1 \in m .. Len(K) /\ (j - 1) + 1 = j
      BY <1>1, <2>3
    <3> QED
      BY <3>2, <3>3 DEF Stands
  <2> QED
    BY <1>1, <2>1, <2>2, <2>3
<1>9. A \in Seq(Sources) /\ Len(A) = Len(K) + 1
  BY DEF Stands
<1> QED
  BY <1>7, <1>8, <1>9, SeqEqual DEF B

\* What the fold has done of an addition when it has seen the first k entries: A has
\* the new entry where the first match was, K is without the matches.
Placed(A, K, old, c, k) ==
    /\ A \in Seq(Sources) /\ K \in Seq(Sources)
    /\ (\A j \in 1 .. k : ~Matches(old[j], c)) =>
           A = K /\ Len(K) = k /\ \A j \in 1 .. k : K[j] = old[j]
    /\ \A m \in 1 .. k :
           Matches(old[m], c) /\ (\A j \in 1 .. m - 1 : ~Matches(old[j], c)) =>
               Stands(A, K, m, c.source)

ClashingWith(new) == {s \in Sources : List!Clashes(s, new)}

LEMMA PlacedStep ==
    ASSUME NEW old \in Seq(Sources), NEW c \in Calls, c.kind = "add",
           NEW k \in Nat, k + 1 <= Len(old), NEW A, NEW K, Placed(A, K, old, c, k)
    PROVE  Placed(Replaced(A, old[k + 1], c), Unless(K, old[k + 1], ClashingWith(c.source)),
                  old, c, k + 1)
<1> DEFINE s == old[k + 1]
           e == c.source
           A2 == Replaced(A, s, c)
           K2 == Unless(K, s, ClashingWith(e))
<1>1. /\ s \in Sources /\ e \in Sources /\ A \in Seq(Sources) /\ K \in Seq(Sources)
      /\ Len(A) \in Nat /\ Len(K) \in Nat /\ DOMAIN A = 1 .. Len(A)
      /\ Matches(e, c)
  BY CallsAreEdits DEF Placed, Matches
<1>2. s \in ClashingWith(e) <=> Matches(s, c)
  BY <1>1 DEF ClashingWith, List!Clashes, Matches
<1>3. \A S \in Seq(Sources), x \in Sources :
          /\ Append(S, x) \in Seq(Sources) /\ Len(Append(S, x)) = Len(S) + 1
          /\ Append(S, x)[Len(S) + 1] = x
          /\ \A j \in 1 .. Len(S) : Append(S, x)[j] = S[j]
  OBVIOUS
<1>4. 1 .. k + 1 = (1 .. k) \cup {k + 1}
  OBVIOUS
<1>5. CASE ~Matches(s, c)
  <2>1. A2 = Append(A, s) /\ K2 = Append(K, s)
    BY <1>2, <1>5 DEF Replaced, Unless
  <2>2. A2 \in Seq(Sources) /\ K2 \in Seq(Sources)
    BY <1>1, <1>3, <2>1
  <2>3. ASSUME \A j \in 1 .. k + 1 : ~Matches(old[j], c)
        PROVE  A2 = K2 /\ Len(K2) = k + 1 /\ \A j \in 1 .. k + 1 : K2[j] = old[j]
    <3>1. A = K /\ Len(K) = k /\ \A j \in 1 .. k : K[j] = old[j]
      BY <1>4, <2>3 DEF Placed
    <3> QED
      BY <1>1, <1>3, <1>4, <2>1, <3>1
  <2>4. ASSUME NEW m \in 1 .. k + 1, Matches(old[m], c),
                   \A j \in 1 .. m - 1 : ~Matches(old[j], c)
        PROVE  Stands(A2, K2, m, e)
    <3>1. m \in 1 .. k
      BY <1>4, <1>5, <2>4
    <3>2. Stands(A, K, m, e)
      BY <2>4, <3>1 DEF Placed
    <3> HIDE DEF s, e, A2, K2
    <3>3. /\ Len(A2) = Len(A) + 1 /\ Len(K2) = Len(K) + 1
          /\ A2[Len(A) + 1] = s /\ K2[Len(K) + 1] = s
          /\ \A j \in 1 .. Len(A) : A2[j] = A[j]
          /\ \A j \in 1 .. Len(K) : K2[j] = K[j]
      BY <1>1, <1>3, <2>1
    <3>4. m \in 1 .. Len(K) + 1 /\ Len(A) = Len(K) + 1 /\ A[m] = e
          /\ (\A j \in 1 .. m - 1 : A[j] = K[j]) /\ \A j \in m .. Len(K) : A[j + 1] = K[j]
      BY <3>2 DEF Stands
    <3>5. \A j \in 1 .. m - 1 : A2[j] = K2[j]
      BY <1>1, <3>3, <3>4
    <3>6. \A j \in m .. Len(K2) : A2[j + 1] = K2[j]
      <4> SUFFICES ASSUME NEW j \in m .. Len(K2)
                   PROVE  A2[j + 1] = K2[j]
        OBVIOUS
      <4>1. CASE j <= Len(K)
        BY <1>1, <3>3, <3>4, <4>1
      <4>2. CASE j = Len(K) + 1
        BY <1>1, <3>3, <3>4, <4>2
      <4> QED
        BY <1>1, <3>3, <3>4, <4>1, <4>2
    <3> QED
      BY <1>1, <2>2, <3>3, <3>4, <3>5, <3>6 DEF Stands
  <2> QED
    BY <2>2, <2>3, <2>4 DEF Placed
<1>6. CASE Matches(s, c) /\ \A j \in 1 .. k : ~Matches(old[j], c)
  <2>1. A = K /\ Len(K) = k /\ \A j \in 1 .. k : K[j] = old[j]
    BY <1>6 DEF Placed
  <2>2. \A j \in DOMAIN A : A[j] # e
    BY <1>1, <1>6, <2>1
  <2>3. A2 = Append(K, e) /\ K2 = K
    BY <1>2, <1>6, <2>1, <2>2 DEF Replaced, Unless
  <2>4. ASSUME NEW m \in 1 .. k + 1, Matches(old[m], c)
        PROVE  Stands(A2, K2, m, e)
    <3>1. m = k + 1
      BY <1>4, <1>6, <2>4
    <3> HIDE DEF s, e
    <3> QED
      BY <1>1, <1>3, <2>1, <2>3, <3>1 DEF Stands
  <2> QED
    BY <1>1, <1>3, <1>6, <2>3, <2>4 DEF Placed
<1>7. CASE Matches(s, c) /\ \E j \in 1 .. k : Matches(old[j], c)
  <2> DEFINE T == {j \in 1 .. k : Matches(old[j], c)}
  <2>1. PICK m \in T : \A j \in T : m <= j
    <3>1. T \in SUBSET Nat /\ T # {}
      BY <1>7
    <3> QED
      BY <3>1, LeastExists
  <2>2. \A j \in 1 .. m - 1 : ~Matches(old[j], c)
    BY <2>1
  <2>3. Stands(A, K, m, e)
    BY <2>1, <2>2 DEF Placed
  <2>4. A2 = A /\ K2 = K
    BY <1>1, <1>2, <1>7, <2>3 DEF Replaced, Unless, Stands
  <2>5. ASSUME NEW i \in 1 .. k + 1, Matches(old[i], c),
                   \A j \in 1 .. i - 1 : ~Matches(old[j], c)
        PROVE  Stands(A2, K2, i, e)
    <3>1. i \in 1 .. k
      BY <1>4, <2>1, <2>5
    <3> QED
      BY <2>4, <2>5, <3>1 DEF Placed
  <2> QED
    BY <1>1, <1>4, <1>7, <2>4, <2>5 DEF Placed
<1> QED
  BY <1>5, <1>6, <1>7

\* An addition replaces the entries of its title or url, in the place of the first.
LEMMA AddedInPlace ==
    ASSUME NEW old \in Seq(Sources), NEW c \in Calls, c.kind = "add"
    PROVE  LET kept == List!Without(old, ClashingWith(c.source)) IN
           \E i \in 1 .. Len(kept) + 1 :
               /\ NewList(old, c) = List!InsertAt(kept, i, c.source)
               /\ \A j \in 1 .. i - 1 : ~List!Clashes(old[j], c.source)
               /\ i <= Len(old) => List!Clashes(old[i], c.source)
<1> DEFINE e == c.source
           added == FoldOver(old, c)
           without == WithoutFolded(old, ClashingWith(e))
           kept == List!Without(old, ClashingWith(e))
           all == FoldLeft(LAMBDA acc, s : Replaced(acc, s, c), <<>>, old)
<1>1. /\ all = added[1 .. Len(old)] /\ added[{}] = <<>>
      /\ \A k \in Nat : k + 1 <= Len(old) =>
             added[1 .. k + 1] = Replaced(added[1 .. k], old[k + 1], c)
  BY FoldStep
<1>2. /\ kept = without[1 .. Len(old)] /\ without[{}] = <<>>
      /\ \A k \in Nat : k + 1 <= Len(old) =>
             without[1 .. k + 1] = Unless(without[1 .. k], old[k + 1], ClashingWith(e))
  BY WithoutFoldStep
<1>3. Len(old) \in Nat /\ DOMAIN old = 1 .. Len(old) /\ e \in Sources
  BY CallsAreEdits
<1>4. NewList(old, c) = IF \A i \in DOMAIN old : ~Matches(old[i], c) THEN Append(all, e) ELSE all
  BY DEF NewList
<1>5. \A j \in 1 .. Len(old) : Matches(old[j], c) <=> List!Clashes(old[j], e)
  BY DEF Matches, List!Clashes
<1> HIDE DEF added, without, kept, all
<1> DEFINE Good(k) == Placed(added[1 .. k], without[1 .. k], old, c, k)
           Bad == {k \in 0 .. Len(old) : ~Good(k)}
<1>6. Bad = {}
  <2> SUFFICES ASSUME Bad # {}
               PROVE  FALSE
    OBVIOUS
  <2>1. Bad \in SUBSET Nat
    BY <1>3
  <2>2. PICK m \in Bad : \A k \in Bad : m <= k
    BY <2>1, LeastExists
  <2>3. CASE m = 0
    <3>1. 1 .. 0 = {} /\ <<>> \in Seq(Sources) /\ Len(<<>>) = 0
      OBVIOUS
    <3>2. Placed(<<>>, <<>>, old, c, 0)
      BY <3>1 DEF Placed
    <3>3. Good(0)
      BY <1>1, <1>2, <3>1, <3>2
    <3> QED
      BY <2>2, <2>3, <3>3
  <2>4. CASE m # 0
    <3>1. PICK k \in Nat : m = k + 1 /\ k \in 0 .. Len(old) /\ k + 1 <= Len(old)
      <4>1. m - 1 \in Nat /\ m = (m - 1) + 1 /\ m - 1 \in 0 .. Len(old) /\ m <= Len(old)
        BY <1>3, <2>2, <2>4
      <4> QED
        BY <4>1
    <3>2. Good(k)
      <4> HIDE DEF Good
      <4> QED
        BY <2>2, <3>1
    <3>3. Good(m)
      <4>1. Placed(Replaced(added[1 .. k], old[k + 1], c),
                   Unless(without[1 .. k], old[k + 1], ClashingWith(e)), old, c, k + 1)
        BY <3>1, <3>2, PlacedStep
      <4> QED
        BY <1>1, <1>2, <3>1, <4>1
    <3> QED
      BY <2>2, <3>3
  <2> QED
    BY <2>3, <2>4
<1>7. Placed(all, kept, old, c, Len(old))
  <2>1. Good(Len(old))
    <3> HIDE DEF Good
    <3> QED
      BY <1>3, <1>6
  <2> QED
    BY <1>1, <1>2, <2>1
<1> HIDE DEF e
<1>8. CASE \A i \in 1 .. Len(old) : ~Matches(old[i], c)
  <2>1. /\ all = kept /\ Len(kept) = Len(old) /\ kept \in Seq(Sources)
        /\ NewList(old, c) = Append(kept, e)
    BY <1>3, <1>4, <1>7, <1>8 DEF Placed
  <2>2. Stands(Append(kept, e), kept, Len(kept) + 1, e)
    BY <1>3, <2>1 DEF Stands
  <2>3. NewList(old, c) = List!InsertAt(kept, Len(kept) + 1, e)
    BY <1>3, <2>1, <2>2, StandsAsInserted
  <2>4. Len(kept) + 1 \in 1 .. Len(kept) + 1 /\ ~(Len(kept) + 1 <= Len(old))
        /\ \A j \in 1 .. (Len(kept) + 1) - 1 : ~List!Clashes(old[j], e)
    BY <1>3, <1>5, <1>8, <2>1
  <2> QED
    BY <2>3, <2>4 DEF kept, e
<1>9. CASE \E i \in 1 .. Len(old) : Matches(old[i], c)
  <2> DEFINE T == {i \in 1 .. Len(old) : Matches(old[i], c)}
  <2>1. PICK m \in T : \A j \in T : m <= j
    <3>1. T \in SUBSET Nat /\ T # {}
      BY <1>3, <1>9
    <3> QED
      BY <3>1, LeastExists
  <2>2. \A j \in 1 .. m - 1 : j \in 1 .. Len(old) /\ ~Matches(old[j], c)
    BY <1>3, <2>1
  <2>3. Stands(all, kept, m, c.source)
    BY <1>7, <2>1, <2>2 DEF Placed
  <2>4. NewList(old, c) = List!InsertAt(kept, m, e)
    BY <1>3, <1>4, <1>9, <2>3, StandsAsInserted DEF e
  <2>5. m \in 1 .. Len(kept) + 1
    BY <2>3 DEF Stands
  <2> QED
    BY <1>5, <2>1, <2>2, <2>4, <2>5 DEF kept, e
<1> QED
  BY <1>8, <1>9

\* A removal takes out the entries of its title.
LEMMA RemovedOnly ==
    ASSUME NEW old \in Seq(Sources), NEW c \in Calls, c.kind # "add"
    PROVE  NewList(old, c) = List!Without(old, {s \in Sources : s.title = c.source.title})
<1> DEFINE out == {s \in Sources : s.title = c.source.title}
           taken == FoldOver(old, c)
           without == WithoutFolded(old, out)
           kept == List!Without(old, out)
           all == FoldLeft(LAMBDA acc, s : Replaced(acc, s, c), <<>>, old)
<1>1. /\ all = taken[1 .. Len(old)] /\ taken[{}] = <<>>
      /\ \A k \in Nat : k + 1 <= Len(old) =>
             taken[1 .. k + 1] = Replaced(taken[1 .. k], old[k + 1], c)
  BY FoldStep
<1>2. /\ kept = without[1 .. Len(old)] /\ without[{}] = <<>>
      /\ \A k \in Nat : k + 1 <= Len(old) =>
             without[1 .. k + 1] = Unless(without[1 .. k], old[k + 1], out)
  BY WithoutFoldStep
<1>3. Len(old) \in Nat
  OBVIOUS
<1>4. NewList(old, c) = all
  BY DEF NewList
<1>5. \A k \in 1 .. Len(old) : \A l : Replaced(l, old[k], c) = Unless(l, old[k], out)
  <2>1. \A k \in 1 .. Len(old) : old[k] \in Sources
    OBVIOUS
  <2> QED
    BY <2>1 DEF Replaced, Unless, Matches
<1> HIDE DEF taken, without, kept, all, out
<1> DEFINE Bad == {k \in 0 .. Len(old) : taken[1 .. k] # without[1 .. k]}
<1>6. Bad = {}
  <2> SUFFICES ASSUME Bad # {}
               PROVE  FALSE
    OBVIOUS
  <2>1. Bad \in SUBSET Nat
    BY <1>3
  <2>2. PICK m \in Bad : \A k \in Bad : m <= k
    BY <2>1, LeastExists
  <2>3. CASE m = 0
    <3>1. 1 .. 0 = {}
      OBVIOUS
    <3> QED
      BY <1>1, <1>2, <2>2, <2>3, <3>1
  <2>4. CASE m # 0
    <3>1. PICK k \in Nat : m = k + 1 /\ k \in 0 .. Len(old) /\ k + 1 <= Len(old) /\
                   k + 1 \in 1 .. Len(old)
      <4>1. m - 1 \in Nat /\ m = (m - 1) + 1 /\ m - 1 \in 0 .. Len(old) /\ m <= Len(old)
        BY <1>3, <2>2, <2>4
      <4> QED
        BY <1>3, <4>1
    <3>2. taken[1 .. k] = without[1 .. k]
      BY <2>2, <3>1
    <3> QED
      BY <1>1, <1>2, <1>5, <2>2, <3>1, <3>2
  <2> QED
    BY <2>3, <2>4
<1>7. all = kept
  BY <1>1, <1>2, <1>3, <1>6
<1> QED
  BY <1>4, <1>7 DEF kept, out

\* A call that finds no list writes one of its entry alone.
LEMMA FirstEntry ==
    ASSUME NEW c \in Calls, c.kind = "add"
    PROVE  NewList(<<>>, c) = <<c.source>>
<1> DEFINE all == FoldLeft(LAMBDA acc, s : Replaced(acc, s, c), <<>>, <<>>)
<1>1. <<>> \in Seq(Sources) /\ Len(<<>>) = 0 /\ 1 .. 0 = {} /\ DOMAIN <<>> = {}
  OBVIOUS
<1>2. all = <<>>
  <2>1. all = FoldOver(<<>>, c)[1 .. Len(<<>>)] /\ FoldOver(<<>>, c)[{}] = <<>>
    BY <1>1, FoldStep
  <2> QED
    BY <1>1, <2>1
<1>3. NewList(<<>>, c) = Append(all, c.source)
  BY <1>1 DEF NewList
<1>4. c.source \in Sources
  BY CallsAreEdits
<1> HIDE DEF all
<1> DEFINE e == c.source
<1>5. e \in Sources
  BY <1>4
<1> HIDE DEF e
<1>6. Append(<<>>, e) = <<e>>
  BY <1>5
<1> QED
  BY <1>2, <1>3, <1>6 DEF e

-----------------------------------------------------------------------------
(* The list of sources while it is edited *)

\* An edit that knows the list writes what NewList makes of it; one that could not open it
\* writes a list of its own entry.
ListInv ==
    \A t \in Threads :
        /\ Finding(t, "edit") \/ pc[t] = "parse" => ~blind
        /\ pc[t] \in {"writeTemp", "openTarget"} /\ ~blind =>
               sources # Unreadable /\ edited = NewList(sources, call[t])
        /\ pc[t] = "copy" /\ ~blind =>
               /\ before # Unreadable /\ before \in Seq(Sources)
               /\ edited = NewList(before, call[t])
        /\ pc[t] \in {"writeTemp", "openTarget", "copy"} /\ blind =>
               edited = <<call[t].source>>

\* A step that the list does not take part in.
Aside ==
    /\ UNCHANGED <<sources, edited, blind, before>>
    /\ \A t \in Threads :
           /\ Finding(t, "edit")' \/ pc'[t] = "parse" => Finding(t, "edit") \/ pc[t] = "parse"
           /\ pc'[t] = "copy" <=> pc[t] = "copy"
           /\ pc'[t] \in {"writeTemp", "openTarget"} <=> pc[t] \in {"writeTemp", "openTarget"}
           /\ pc[t] \in {"writeTemp", "openTarget", "copy"} => call'[t] = call[t]
    /\ shared' \in BOOLEAN
    /\ (trouble' = trouble /\ (shared => shared')) \/ trouble' = trouble + 1

LEMMA AsideIsElsewhere ==
    ASSUME ListInv, Aside
    PROVE  ListInv' /\ List!Next
<1>1. Writing' <=> Writing
  BY DEF Aside, Writing
<1>2. EditingBlind' <=> EditingBlind
  BY DEF Aside, EditingBlind
<1>3. Current' = Current /\ Stage' = Stage
  BY <1>1, <1>2 DEF Aside, Current, Stage
<1>4. List!Next
  BY <1>3 DEF Aside, List!Next, List!Elsewhere, List!Undisturbed, List!Disturbed, List!Fail
<1>5. ListInv'
  <2> SUFFICES ASSUME NEW t \in Threads
               PROVE  /\ Finding(t, "edit")' \/ pc'[t] = "parse" => ~blind'
                      /\ pc'[t] \in {"writeTemp", "openTarget"} /\ ~blind' =>
                             sources' # Unreadable /\ edited' = NewList(sources', call'[t])
                      /\ pc'[t] = "copy" /\ ~blind' =>
                             /\ before' # Unreadable /\ before' \in Seq(Sources)
                             /\ edited' = NewList(before', call'[t])
                      /\ pc'[t] \in {"writeTemp", "openTarget", "copy"} /\ blind' =>
                             edited' = <<call'[t].source>>
    BY DEF ListInv
  <2>1. /\ sources' = sources /\ edited' = edited /\ blind' = blind /\ before' = before
        /\ Finding(t, "edit")' \/ pc'[t] = "parse" => Finding(t, "edit") \/ pc[t] = "parse"
        /\ pc'[t] = "copy" <=> pc[t] = "copy"
        /\ pc'[t] \in {"writeTemp", "openTarget"} <=> pc[t] \in {"writeTemp", "openTarget"}
        /\ pc[t] \in {"writeTemp", "openTarget", "copy"} => call'[t] = call[t]
    BY DEF Aside
  <2>2. /\ Finding(t, "edit") \/ pc[t] = "parse" => ~blind
        /\ pc[t] \in {"writeTemp", "openTarget"} /\ ~blind =>
               sources # Unreadable /\ edited = NewList(sources, call[t])
        /\ pc[t] = "copy" /\ ~blind =>
               /\ before # Unreadable /\ before \in Seq(Sources)
               /\ edited = NewList(before, call[t])
        /\ pc[t] \in {"writeTemp", "openTarget", "copy"} /\ blind => edited = <<call[t].source>>
    BY DEF ListInv
  <2> QED
    BY <2>1, <2>2
<1> QED
  BY <1>4, <1>5

\* Nobody else edits while a thread holds the lock, or takes it.
LEMMA EditsAlone ==
    ASSUME OnlineInv, NEW t \in Threads, fetchLock \in {t, None},
           NEW where, pc' = [pc EXCEPT ![t] = where],
           \A u \in Threads : u # t => use'[u] = use[u]
    PROVE  /\ Writing <=> pc[t] = "copy"
           /\ Writing' <=> where = "copy"
           /\ EditingBlind <=> blind /\ pc[t] \in {"writeTemp", "openTarget"}
           /\ EditingBlind' <=> blind' /\ where \in {"writeTemp", "openTarget"}
           /\ \A u \in Threads : u # t =>
                  ~Finding(u, "edit")' /\ pc'[u] \notin {"parse", "writeTemp", "openTarget",
                      "copy"}
<1>1. pc'[t] = where /\ \A u \in Threads : u # t => pc'[u] = pc[u]
  BY DEF OnlineInv, CallInv
<1>2. \A u \in Threads : u # t => ~Editing(u)
  BY ThreadsAreApart DEF OnlineInv, LockInv
<1>3. \A u \in Threads : u # t =>
          ~Finding(u, "edit") /\ pc[u] \notin {"parse", "writeTemp", "openTarget", "copy"}
  BY <1>2 DEF Editing, EditRuns
<1>4. \A u \in Threads : u # t => (Finding(u, "edit")' <=> Finding(u, "edit"))
  BY <1>1 DEF Finding
<1> QED
  BY <1>1, <1>3, <1>4 DEF Writing, EditingBlind

\* What a thread does outside of an edit, or next to its list.
LEMMA ThreadsStandAside ==
    ASSUME OnlineInv, NEW t \in Threads,
           FindFreeRange(t) \/ TakeRange(t) \/ LockPluginFile(t) \/ FirstPass(t) \/
           SecondPass(t) \/ Reopen(t) \/ FreeScanScratch(t) \/ UnlockPluginFile(t) \/
           PluginOpensFile(t) \/ EditSources(t) \/ FreeFetchScratch(t)
    PROVE  Aside
<1>1. /\ pc \in [Threads -> Where \cup WhereOnPage] /\ use \in [Threads -> Uses]
      /\ call \in [Threads -> Calls \cup {None}] /\ back \in [Threads -> {"idle", "run"}]
      /\ shared \in BOOLEAN /\ Page \in Threads
  BY DEF OnlineInv, TypeOK, CallInv, Threads
<1>2. ASSUME FindFreeRange(t)
      PROVE  Aside
  BY <1>1, <1>2 DEF FindFreeRange, SizeOf, edit, Goto, Refused, card, spent, session, Aside,
                 Finding, Uses
<1>3. ASSUME TakeRange(t)
      PROVE  Aside
  <2>1. pc[t] = "take" /\ use' = use /\ \E where : Goto(t,
            where) /\ where \in {Granted[use[t]], Refused[use[t]]}
    BY <1>3 DEF TakeRange
  <2>2. (shared' = shared) \/ (shared' = (shared \/ (use[t] = "manage" /\ PluginScans)))
    BY <1>3 DEF TakeRange
  <2>3. shared' \in BOOLEAN /\ (shared => shared')
    BY <1>1, <2>2
  <2>4. UNCHANGED <<sources, edited, blind, before, call, trouble>>
    BY <1>3 DEF TakeRange, card, edit, spent
  <2>5. use[t] \in Uses
    BY <1>1
  <2> QED
    BY <1>1, <2>1, <2>3, <2>4, <2>5 DEF Goto, Granted, Refused, Uses, Aside, Finding
<1>4. ASSUME LockPluginFile(t)
      PROVE  Aside
  BY <1>1, <1>4 DEF LockPluginFile, ScanLocks, Goto, card, edit, spent, Aside, Finding
<1>5. ASSUME FirstPass(t)
      PROVE  Aside
  BY <1>1, <1>5 DEF FirstPass, Works, Fails, Goto, card, alloc, edit, session, Aside, Finding
<1>6. ASSUME SecondPass(t)
      PROVE  Aside
  BY <1>1, <1>6 DEF SecondPass, Works, Fails, Goto, card, alloc, edit, session, Aside, Finding
<1>7. ASSUME Reopen(t)
      PROVE  Aside
  BY <1>1, <1>7 DEF Reopen, Works, Fails, Goto, card, alloc, edit, session, Aside, Finding
<1>8. ASSUME FreeScanScratch(t)
      PROVE  Aside
  BY <1>1, <1>8 DEF FreeScanScratch, Goto, card, alloc, edit, spent, session, Aside, Finding
<1>9. ASSUME UnlockPluginFile(t)
      PROVE  Aside
  BY <1>1, <1>9 DEF UnlockPluginFile, Goto, card, alloc, edit, spent, session, Aside, Finding
<1>10. ASSUME PluginOpensFile(t)
      PROVE  Aside
  BY <1>1, <1>10 DEF PluginOpensFile, Goto, card, alloc, edit, session, Aside, Finding
<1>11. ASSUME EditSources(t)
      PROVE  Aside
  BY <1>1, <1>11 DEF EditSources, Goto, card, alloc, session, Aside, Finding
<1>12. ASSUME FreeFetchScratch(t)
      PROVE  Aside
  BY <1>1, <1>12 DEF FreeFetchScratch, Goto, card, alloc, edit, spent, session, Aside, Finding
<1> QED
  BY <1>2, <1>3, <1>4, <1>5, <1>6, <1>7, <1>8, <1>9, <1>10, <1>11, <1>12

\* What the page does, and somebody who replaces a file.
LEMMA PageStandsAside ==
    ASSUME OnlineInv,
           OpenPage \/ Ensure \/ UnpackStart \/ UnpackWrite \/ UnpackUnlock \/ UnpackFree \/
               Ensured \/
           Load \/ StartLibrary \/ LoadFailed \/ Unload \/ FreeImage \/ OpenManage \/
               BuildList \/
           BuildAgain \/ LeaveManage \/ ReplaceFile
    PROVE  Aside
<1>1. /\ pc \in [Threads -> Where \cup WhereOnPage] /\ use \in [Threads -> Uses]
      /\ call \in [Threads -> Calls \cup {None}] /\ back \in [Threads -> {"idle", "run"}]
      /\ shared \in BOOLEAN /\ Page \in Threads
  BY DEF OnlineInv, TypeOK, CallInv, Threads
<1>2. ASSUME OpenPage
      PROVE  Aside
  BY <1>1, <1>2 DEF OpenPage, Goto, card, alloc, edit, session, Aside, Finding
<1>3. ASSUME Ensure
      PROVE  Aside
  BY <1>1, <1>3 DEF Ensure, Works, Goto, Fails, card, session, Aside, Finding
<1>4. ASSUME UnpackStart
      PROVE  Aside
  BY <1>1, <1>4 DEF UnpackStart, Works, Goto, Fails, alloc, session, Aside, Finding
<1>5. ASSUME UnpackWrite
      PROVE  Aside
  BY <1>1, <1>5 DEF UnpackWrite, Works, Fails, Goto, alloc, session, Aside, Finding
<1>6. ASSUME UnpackUnlock
      PROVE  Aside
  BY <1>1, <1>6 DEF UnpackUnlock, Goto, card, alloc, edit, spent, session, Aside, Finding
<1>7. ASSUME UnpackFree
      PROVE  Aside
  BY <1>1, <1>7 DEF UnpackFree, Goto, card, alloc, edit, spent, session, Aside, Finding
<1>8. ASSUME Ensured
      PROVE  Aside
  BY <1>1, <1>8 DEF Ensured, Goto, card, alloc, spent, session, Aside, Finding
<1>9. ASSUME Load
      PROVE  Aside
  BY <1>1, <1>9 DEF Load, Works, Goto, Fails, card, edit, session, Aside, Finding
<1>10. ASSUME StartLibrary
      PROVE  Aside
  BY <1>1, <1>10 DEF StartLibrary, Works, Goto, Fails, card, alloc, edit, session, Aside,
                 Finding
<1>11. ASSUME LoadFailed
      PROVE  Aside
  BY <1>1, <1>11 DEF LoadFailed, Goto, card, alloc, edit, spent, session, Aside, Finding
<1>12. ASSUME Unload
      PROVE  Aside
  BY <1>1, <1>12 DEF Unload, Goto, card, alloc, edit, spent, session, Aside, Finding
<1>13. ASSUME FreeImage
      PROVE  Aside
  BY <1>1, <1>13 DEF FreeImage, Goto, card, alloc, edit, spent, session, Aside, Finding
<1>14. ASSUME OpenManage
      PROVE  Aside
  BY <1>1, <1>14 DEF OpenManage, Goto, card, edit, session, Aside, Finding
<1>15. ASSUME BuildList
      PROVE  Aside
  BY <1>1, <1>15 DEF BuildList, Goto, card, alloc, edit, spent, session, Aside, Finding
<1>16. ASSUME BuildAgain
      PROVE  Aside
  BY <1>1, <1>16 DEF BuildAgain, Goto, card, alloc, edit, spent, session, Aside, Finding
<1>17. ASSUME LeaveManage
      PROVE  Aside
  BY <1>1, <1>17 DEF LeaveManage, Goto, card, alloc, edit, spent, session, Aside, Finding
<1>18. ASSUME ReplaceFile
      PROVE  Aside
  BY <1>1, <1>18 DEF ReplaceFile, alloc, edit, session, Aside, Finding
<1> QED
  BY <1>2, <1>3, <1>4, <1>5, <1>6, <1>7, <1>8, <1>9, <1>10, <1>11, <1>12, <1>13, <1>14,
     <1>15, <1>16, <1>17, <1>18

\* What has to be shown of an edit, when it is the only one.
LEMMA OneListed ==
    ASSUME OnlineInv, NEW t \in Threads, fetchLock \in {t, None},
           NEW where, pc' = [pc EXCEPT ![t] = where],
           \A u \in Threads : u # t => use'[u] = use[u],
           Finding(t, "edit")' \/ where = "parse" => ~blind',
           where \in {"writeTemp", "openTarget"} /\ ~blind' =>
               sources' # Unreadable /\ edited' = NewList(sources', call'[t]),
           where = "copy" /\ ~blind' =>
               /\ before' # Unreadable /\ before' \in Seq(Sources)
               /\ edited' = NewList(before', call'[t]),
           where \in {"writeTemp", "openTarget", "copy"} /\ blind' =>
               edited' = <<call'[t].source>>
    PROVE  ListInv'
<1>1. pc'[t] = where
  BY DEF OnlineInv, CallInv
<1>2. \A u \in Threads : u # t =>
          ~Finding(u, "edit")' /\ pc'[u] \notin {"parse", "writeTemp", "openTarget", "copy"}
  BY EditsAlone
<1> SUFFICES ASSUME NEW u \in Threads
             PROVE  /\ Finding(u, "edit")' \/ pc'[u] = "parse" => ~blind'
                    /\ pc'[u] \in {"writeTemp", "openTarget"} /\ ~blind' =>
                           sources' # Unreadable /\ edited' = NewList(sources', call'[u])
                    /\ pc'[u] = "copy" /\ ~blind' =>
                           /\ before' # Unreadable /\ before' \in Seq(Sources)
                           /\ edited' = NewList(before', call'[u])
                    /\ pc'[u] \in {"writeTemp", "openTarget", "copy"} /\ blind' =>
                           edited' = <<call'[u].source>>
  BY DEF ListInv
<1>3. CASE u = t
  BY <1>1, <1>3
<1>4. CASE u # t
  BY <1>2, <1>4
<1> QED
  BY <1>3, <1>4

LEMMA LockFetchListed ==
    ASSUME OnlineInv, ListInv, NEW t \in Threads, LockFetch(t)
    PROVE  ListInv' /\ List!Next
<1>1. PICK where :
      /\ where = "find" /\ pc' = [pc EXCEPT ![t] = where] /\ fetchLock \in {t, None} /\ ~blind'
      /\ pc[t] = "editLock"
      /\ \A u \in Threads : u # t => use'[u] = use[u]
  BY DEF OnlineInv, TypeOK, LockFetch, Goto
<1>2. ListInv'
  BY <1>1, OneListed
<1>3. UNCHANGED <<sources, trouble, shared>> /\ shared \in BOOLEAN
  BY DEF OnlineInv, TypeOK, LockFetch, card, spent, session
<1>4. ~Writing /\ ~Writing' /\ ~EditingBlind /\ ~EditingBlind'
  <2>1. where \notin {"copy", "writeTemp", "openTarget"}
    BY <1>1
  <2> QED
    BY <1>1, <2>1, EditsAlone
<1>5. Current' = Current /\ Stage' = Stage
  BY <1>3, <1>4 DEF Current, Stage
<1> QED
  BY <1>2, <1>3, <1>5 DEF List!Next, List!Elsewhere, List!Undisturbed

LEMMA UnlockFetchListed ==
    ASSUME OnlineInv, ListInv, NEW t \in Threads, UnlockFetch(t)
    PROVE  ListInv' /\ List!Next
<1>1. /\ pc' = [pc EXCEPT ![t] = back[t]] /\ fetchLock \in {t, None} /\ ~blind'
      /\ pc[t] = "editUnlock" /\ back[t] \in {"idle", "run"}
      /\ \A u \in Threads : u # t => use'[u] = use[u]
  BY DEF OnlineInv, CallInv, LockInv, Editing, UnlockFetch, Goto, alloc
<1>2. ListInv'
  BY <1>1, OneListed
<1>3. UNCHANGED <<sources, trouble, shared>> /\ shared \in BOOLEAN
  BY DEF OnlineInv, TypeOK, UnlockFetch, card, spent, session
<1>4. ~Writing /\ ~Writing' /\ ~EditingBlind /\ ~EditingBlind'
  BY <1>1, EditsAlone
<1>5. Current' = Current /\ Stage' = Stage
  BY <1>3, <1>4 DEF Current, Stage
<1> QED
  BY <1>2, <1>3, <1>5 DEF List!Next, List!Elsewhere, List!Undisturbed

LEMMA ParseSourcesListed ==
    ASSUME OnlineInv, ListInv, NEW t \in Threads, ParseSources(t)
    PROVE  ListInv' /\ List!Next
<1>1. /\ pc[t] = "parse" /\ fetchLock \in {t, None} /\ ~blind /\ call[t] \in Calls
      /\ \A u \in Threads : use'[u] = use[u]
  BY DEF OnlineInv, CallInv, LockInv, Editing, EditRuns, ListInv, ParseSources, alloc
<1>2. UNCHANGED <<sources, call, shared>> /\ shared \in BOOLEAN
  BY DEF OnlineInv, TypeOK, ParseSources, card, session
<1>3. PICK where : pc' = [pc EXCEPT ![t] = where] /\ where \in {"editFree", "writeTemp"}
  BY DEF ParseSources, Decide, Goto
<1>4. ~Writing /\ ~Writing' /\ ~EditingBlind /\ (EditingBlind' <=> blind' /\ where = "writeTemp")
  BY <1>1, <1>3, EditsAlone
<1>5. Current' = Current /\ Stage = "idle"
      /\ Stage' = IF blind' /\ where = "writeTemp" THEN "blind" ELSE "idle"
  BY <1>2, <1>4 DEF Current, Stage
<1>6. ASSUME where = "writeTemp"
      PROVE  \/ trouble' = trouble /\ ~blind' /\ sources' # Unreadable
                /\ edited' = NewList(sources', call'[t])
             \/ trouble' = trouble + 1 /\ blind' = TRUE /\ edited' = <<call'[t].source>>
  <2>1. pc'[t] = "writeTemp"
    BY <1>3, <1>6 DEF OnlineInv, CallInv
  <2>2. CASE Works /\ sources # Unreadable /\ Decide(t, sources) /\ UNCHANGED blind
    BY <1>1, <1>2, <2>2 DEF Decide, Works
  <2>3. CASE Fails /\ Decide(t, <<>>) /\ blind' = TRUE
    <3>1. ~Already(<<>>, call[t])
      BY <2>1, <2>3 DEF OnlineInv, CallInv, Decide, Goto
    <3>2. call[t].kind = "add"
      BY <3>1 DEF Already
    <3>3. edited' = <<call[t].source>>
      BY <1>1, <2>3, <3>2, FirstEntry DEF Decide
    <3> QED
      BY <1>2, <2>3, <3>3 DEF Fails
  <2>4. CASE Goto(t, "editFree")
    BY <2>1, <2>4 DEF OnlineInv, CallInv, Goto
  <2> QED
    BY <2>2, <2>3, <2>4 DEF ParseSources
<1>7. ListInv'
  <2>1. ~Finding(t, "edit")'
    BY <1>3 DEF Finding, OnlineInv, CallInv
  <2> QED
    BY <1>1, <1>3, <1>6, <2>1, OneListed
<1>8. trouble' = trouble \/ trouble' = trouble + 1
  BY DEF ParseSources, Works, Fails
<1>9. CASE trouble' = trouble /\ Stage' = "idle"
  BY <1>2, <1>5, <1>7, <1>9 DEF List!Next, List!Elsewhere, List!Undisturbed
<1>10. CASE trouble' = trouble + 1
  BY <1>2, <1>5, <1>7, <1>10 DEF List!Next, List!Fail, List!Disturbed
<1>11. CASE Stage' = "blind"
  <2>1. where = "writeTemp" /\ blind'
    BY <1>5, <1>11
  <2>2. trouble' = trouble + 1
    BY <1>6, <2>1
  <2> QED
    BY <1>10, <2>2
<1> QED
  BY <1>5, <1>7, <1>8, <1>9, <1>10, <1>11

LEMMA WriteTempListed ==
    ASSUME OnlineInv, ListInv, NEW t \in Threads, WriteTemp(t)
    PROVE  ListInv' /\ List!Next
<1>1. /\ pc[t] = "writeTemp" /\ fetchLock \in {t, None}
      /\ \A u \in Threads : use'[u] = use[u]
  BY DEF OnlineInv, LockInv, Editing, EditRuns, WriteTemp, alloc
<1>2. UNCHANGED <<sources, edited, blind, call, shared>> /\ shared \in BOOLEAN
  BY DEF OnlineInv, TypeOK, WriteTemp, card, edit, session
<1>3. PICK where :
      /\ pc' = [pc EXCEPT ![t] = where]
      /\ \/ where = "openTarget" /\ trouble' = trouble
         \/ where = "editFree" /\ trouble' = trouble + 1
  BY DEF WriteTemp, Goto, Works, Fails
<1>4. ~Writing /\ ~Writing' /\ (EditingBlind <=> blind) /\ (EditingBlind' <=>
          blind' /\ where = "openTarget")
  BY <1>1, <1>3, EditsAlone
<1>5. /\ Current' = Current /\ Stage = (IF blind THEN "blind" ELSE "idle")
      /\ Stage' = IF where = "openTarget" THEN Stage ELSE "idle"
  BY <1>2, <1>4 DEF Current, Stage
<1>6. ListInv'
  <2>1. ~Finding(t, "edit")'
    BY <1>3 DEF Finding, OnlineInv, CallInv
  <2>2. /\ ~blind => sources # Unreadable /\ edited = NewList(sources, call[t])
        /\ blind => edited = <<call[t].source>>
    BY <1>1 DEF ListInv
  <2> QED
    BY <1>1, <1>2, <1>3, <2>1, <2>2, OneListed
<1>7. CASE where = "openTarget" /\ trouble' = trouble
  BY <1>2, <1>5, <1>6, <1>7 DEF List!Next, List!Elsewhere, List!Undisturbed
<1>8. CASE where = "editFree" /\ trouble' = trouble + 1
  BY <1>2, <1>5, <1>6, <1>8 DEF List!Next, List!Fail, List!Disturbed
<1> QED
  BY <1>3, <1>7, <1>8

LEMMA OpenTargetListed ==
    ASSUME OnlineInv, ListInv, NEW t \in Threads, OpenTarget(t)
    PROVE  ListInv' /\ List!Next
<1>1. /\ pc[t] = "openTarget" /\ fetchLock \in {t, None}
      /\ \A u \in Threads : use'[u] = use[u]
  BY DEF OnlineInv, LockInv, Editing, EditRuns, OpenTarget, alloc
<1>2. UNCHANGED <<edited, blind, call, shared>> /\ shared \in BOOLEAN
  BY DEF OnlineInv, TypeOK, OpenTarget, session
<1>3. PICK where :
      /\ pc' = [pc EXCEPT ![t] = where]
      /\ \/ where = "copy" /\ trouble' = trouble /\ before' = sources
         \/ where = "editFree" /\ trouble' = trouble + 1 /\ sources' = sources
  BY DEF OpenTarget, Goto, Works, Fails
<1>4. ~Writing /\ (Writing' <=> where = "copy") /\ (EditingBlind <=> blind) /\ ~EditingBlind'
  <2>1. where \notin {"writeTemp", "openTarget"}
    BY <1>3
  <2> QED
    BY <1>1, <1>3, <2>1, EditsAlone
<1>5. Stage = IF blind THEN "blind" ELSE "idle"
  BY <1>4 DEF Stage
<1>6. ListInv'
  <2>1. ~Finding(t, "edit")' /\ where \notin {"parse", "writeTemp", "openTarget"}
    BY <1>3 DEF Finding, OnlineInv, CallInv
  <2>2. /\ ~blind => sources # Unreadable /\ edited = NewList(sources, call[t])
        /\ blind => edited = <<call[t].source>>
        /\ sources = Unreadable \/ sources \in Seq(Sources)
    BY <1>1 DEF OnlineInv, TypeOK, ListInv
  <2> QED
    BY <1>1, <1>2, <1>3, <2>1, <2>2, OneListed
<1>7. CASE where = "copy" /\ trouble' = trouble /\ before' = sources
  <2>1. Current' = Current /\ Stage' = IF blind THEN "blindly writing" ELSE "writing"
    BY <1>2, <1>4, <1>7 DEF Current, Stage
  <2>2. List!Begin
    BY <1>5, <2>1 DEF List!Begin
  <2> QED
    BY <1>2, <1>6, <1>7, <2>2 DEF List!Next, List!Undisturbed
<1>8. CASE where = "editFree" /\ trouble' = trouble + 1 /\ sources' = sources
  <2>1. Current' = Current /\ Stage' = "idle"
    BY <1>2, <1>4, <1>8 DEF Current, Stage
  <2> QED
    BY <1>2, <1>5, <1>6, <1>8, <2>1 DEF List!Next, List!Fail, List!Disturbed
<1> QED
  BY <1>3, <1>7, <1>8

LEMMA CopyToTargetListed ==
    ASSUME OnlineInv, ListInv, NEW t \in Threads, CopyToTarget(t)
    PROVE  ListInv' /\ List!Next
<1> DEFINE c == call[t]
<1>1. /\ pc[t] = "copy" /\ fetchLock \in {t, None} /\ c \in Calls
      /\ \A u \in Threads : use'[u] = use[u]
      /\ pc' = [pc EXCEPT ![t] = "editFree"]
  BY DEF OnlineInv, CallInv, LockInv, Editing, EditRuns, CopyToTarget, alloc, Goto
<1>2. UNCHANGED <<blind, shared>> /\ shared \in BOOLEAN
  BY DEF OnlineInv, TypeOK, CopyToTarget, session
<1>3. PICK where : where = "editFree" /\ pc' = [pc EXCEPT ![t] = where]
  BY <1>1
<1>4. Writing /\ ~Writing' /\ ~EditingBlind'
  <2>1. where \notin {"copy", "writeTemp", "openTarget"}
    BY <1>3
  <2> QED
    BY <1>1, <1>3, <2>1, EditsAlone
<1>5. /\ Current = before /\ Current' = sources' /\ Stage' = "idle"
      /\ Stage = IF blind THEN "blindly writing" ELSE "writing"
  BY <1>4 DEF Current, Stage
<1>6. ListInv'
  <2>1. ~Finding(t, "edit")' /\ where \notin {"parse", "writeTemp", "openTarget", "copy"}
    BY <1>3 DEF Finding, OnlineInv, CallInv
  <2> QED
    BY <1>1, <1>3, <2>1, OneListed
<1>7. CASE Works /\ sources' = edited
  <2>1. trouble' = trouble
    BY <1>7 DEF Works
  <2>2. CASE blind
    <3>1. Current' = <<c.source>> /\ c.source \in Sources
      BY <1>1, <1>5, <1>7, <2>2, CallsAreEdits DEF ListInv
    <3>2. List!Finish
      BY <1>5, <2>2, <3>1 DEF List!Finish
    <3> QED
      BY <1>2, <1>6, <2>1, <3>2 DEF List!Next, List!Undisturbed
  <2>3. CASE ~blind
    <3>1. /\ Current # Unreadable /\ Current \in Seq(Sources) /\ Current' = NewList(Current, c)
          /\ Len(Current') <= MaxSources /\ c.source \in Sources
      BY <1>1, <1>5, <1>7, <2>3, CallsAreEdits DEF ListInv, OnlineInv, EditInv
    <3>2. c.kind = "add" => List!PutInPlace(c.source)
      BY <1>1, <3>1, AddedInPlace DEF List!PutInPlace, ClashingWith
    <3>3. c.kind # "add" => List!TakeOut(c.source.title)
      BY <1>1, <3>1, RemovedOnly DEF List!TakeOut
    <3>4. List!Finish
      BY <1>5, <2>3, <3>1, <3>2, <3>3 DEF List!Finish
    <3> QED
      BY <1>2, <1>6, <2>1, <3>4 DEF List!Next, List!Undisturbed
  <2> QED
    BY <2>2, <2>3
<1>8. CASE Fails
  <2>1. trouble' = trouble + 1 /\ Stage \in {"writing", "blindly writing"}
    BY <1>5, <1>8 DEF Fails
  <2> QED
    BY <1>2, <1>5, <1>6, <2>1 DEF List!Next, List!Fail, List!Disturbed
<1> QED
  BY <1>7, <1>8 DEF CopyToTarget

\* With the process goes the call that edits the list, if there is one.
LEMMA RestartListed ==
    ASSUME OnlineInv, Restart, trouble' = trouble + 1 \/ (shared /\ trouble' = trouble)
    PROVE  ListInv' /\ List!Next
<1>1. pc' = [t \in Threads |-> "idle"] /\ shared' = FALSE
  BY DEF Restart, Each
<1>2. /\ \A t \in Threads : pc'[t] = "idle"
      /\ ~Writing' /\ ~EditingBlind'
  BY <1>1 DEF Writing, EditingBlind
<1>3. ListInv'
  BY <1>2 DEF ListInv, Finding
<1>4. Stage' = "idle" /\ Current' = sources'
  BY <1>2 DEF Stage, Current
<1>5. CASE Writing
  <2>1. Stage \in {"writing", "blindly writing"}
    BY <1>5 DEF Stage
  <2> QED
    BY <1>1, <1>3, <1>4, <2>1 DEF List!Next, List!Fail, List!Disturbed
<1>6. CASE ~Writing
  <2>1. Stage \in {"idle", "blind"} /\ Current = sources
    BY <1>6 DEF Stage, Current
  <2>2. sources' = sources
    BY <1>6 DEF Restart, Writing
  <2> QED
    BY <1>1, <1>3, <1>4, <2>1, <2>2 DEF List!Next, List!Fail, List!Disturbed
<1> QED
  BY <1>5, <1>6

\* A write through NULL takes a scan that has met the Manage page.
LEMMA NullIsShared ==
    ASSUME OnlineInv, WriteThroughNull
    PROVE  shared
<1>1. PICK t \in Threads : pc[t] \in {"pass1", "pass2", "reopen", "manageScan"}
  BY DEF WriteThroughNull
<1>2. scanScratch \notin mem
  BY NoneIsNoBlock DEF OnlineInv, TypeOK, WriteThroughNull
<1>3. CASE pc[t] = "manageScan"
  <2>1. t = Page
    BY <1>3 DEF OnlineInv, CallInv, Threads, Where
  <2> QED
    BY <1>2, <1>3, <2>1 DEF OnlineInv, ScanScratchInv, Managing, Mine
<1>4. CASE pc[t] \in {"pass1", "pass2", "reopen"}
  BY <1>2, <1>4 DEF OnlineInv, ScanScratchInv, Mine
<1> QED
  BY <1>1, <1>3, <1>4

LEMMA StartsListed ==
    ASSUME Init
    PROVE  List!Init /\ ListInv
<1>1. /\ \A t \in Threads : pc[t] = "idle"
      /\ sources = Unreadable \/ (sources \in Seq(Sources) /\ Len(sources) <= MaxSources)
      /\ trouble = 0 /\ shared = FALSE
  BY CardsAssumption DEF Init, Each
<1>2. ~Writing /\ ~EditingBlind
  BY <1>1 DEF Writing, EditingBlind
<1>3. Current = sources /\ Stage = "idle"
  BY <1>2 DEF Current, Stage
<1>4. ListInv
  BY <1>1 DEF ListInv, Finding
<1>5. ASSUME sources \in Seq(Sources), Len(sources) <= MaxSources
      PROVE  sources \in List!BoundedSeq(Sources, MaxSources)
  <2>1. sources \in [1 .. Len(sources) -> Sources] /\ Len(sources) \in 0 .. MaxSources
    BY <1>5, SizesAssumption
  <2> QED
    BY <2>1 DEF List!BoundedSeq, List!SeqOf
<1> QED
  BY <1>1, <1>3, <1>4, <1>5 DEF List!Init

LEMMA StepListed == OnlineInv /\ ListInv /\ [Next]_vars => ListInv' /\ [List!Next]_(List!vars)
<1> SUFFICES ASSUME OnlineInv, ListInv, [Next]_vars
             PROVE  ListInv' /\ [List!Next]_(List!vars)
  OBVIOUS
<1>1. CASE OpenPage \/ Unload \/ OpenManage \/ BuildAgain \/ LeaveManage \/ ReplaceFile
  BY <1>1, PageStandsAside, AsideIsElsewhere
<1>2. ASSUME NEW t \in Threads,
             FindFreeRange(t) \/ TakeRange(t) \/ EditSources(t) \/ PluginOpensFile(t)
      PROVE  ListInv' /\ List!Next
  BY <1>2, ThreadsStandAside, AsideIsElsewhere
<1>3. ASSUME NEW t \in Threads, OpenPluginFile(t)
      PROVE  ListInv' /\ List!Next
  BY <1>3, ThreadsStandAside, AsideIsElsewhere DEF OpenPluginFile
<1>4. ASSUME NEW t \in Threads, EditSteps(t)
      PROVE  ListInv' /\ List!Next
  <2>1. CASE FreeFetchScratch(t)
    BY <2>1, ThreadsStandAside, AsideIsElsewhere
  <2> QED
    BY <1>4, <2>1, LockFetchListed, ParseSourcesListed, WriteTempListed, OpenTargetListed,
       CopyToTargetListed, UnlockFetchListed
       DEF EditSteps
<1>5. CASE PageSteps \/ BuildList
  BY <1>5, PageStandsAside, AsideIsElsewhere DEF PageSteps
<1>6. CASE PowerCut
  BY <1>6, RestartListed DEF PowerCut
<1>7. CASE WriteThroughNull
  BY <1>7, NullIsShared, RestartListed DEF WriteThroughNull
<1>8. CASE UNCHANGED vars
  <2>1. UNCHANGED <<sources, edited, blind, before, pc, use, call, shared, trouble>>
    BY <1>8 DEF vars, card, alloc, edit, spent, session
  <2>2. List!vars' = List!vars
    BY <2>1 DEF List!vars, Current, Stage, Writing, EditingBlind
  <2>3. ListInv'
    BY <2>1 DEF ListInv, Finding
  <2> QED
    BY <2>2, <2>3
<1> QED
  BY <1>1, <1>2, <1>3, <1>4, <1>5, <1>6, <1>7, <1>8 DEF Next, ThreadSteps

\* Any number of threads that edit sysplgfetch.txt through the copy in place of a
\* temporary file, with failures and power cuts, do to the list what SourceList says.
THEOREM ImplementsList == Spec => ImplementsSourceList
<1>1. Init => List!Init /\ ListInv
  BY StartsListed
<1>2. OnlineInv /\ ListInv /\ [Next]_vars => ListInv' /\ [List!Next]_(List!vars)
  BY StepListed
<1> QED
  BY <1>1, <1>2, OnlineInvariant, PTL DEF Spec, ImplementsSourceList, List!Spec
=============================================================================
