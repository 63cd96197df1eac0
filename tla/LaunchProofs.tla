---------------------------- MODULE LaunchProofs ----------------------------
(***************************************************************************)
(* The registries of the launch dispatcher stay sound and every walk calls *)
(* each member once, for every set of registrations, titles and callbacks, *)
(* whatever the callbacks register and unregister while a walk stands on   *)
(* their node.                                                             *)
(*                                                                         *)
(* The links are compared with the sequence of members (order).  A walk is *)
(* then a place in that sequence: what lies ahead of it has not been       *)
(* called, and of what lies behind it nothing was missed.                  *)
(***************************************************************************)
EXTENDS LaunchDispatch, WellFoundedInduction, TLAPS

Lists == {"title", "home"}

\* a was registered before b, and both are members of b's registry.
Earlier(a, b) ==
    \E i, j \in DOMAIN order[ListOf[b]] :
        i < j /\ order[ListOf[b]][i] = a /\ order[ListOf[b]][j] = b

-----------------------------------------------------------------------------
(* The invariant *)

\* The members of a registry, in a sequence without repetition; an object that
\* is no member has a cleared link.
OrderInv ==
    /\ order \in [Lists -> Seq(Regs)]
    /\ \A l \in Lists : \A i, j \in DOMAIN order[l] : order[l][i] = order[l][j] => i = j
    /\ \A l \in Lists : \A i \in DOMAIN order[l] : ListOf[order[l][i]] = l
    /\ \A r \in Regs : r \notin Members(ListOf[r]) => next[r] = Null

\* The walks that have begun by the time Loader is at a stage.
Began ==
    CASE stage \in {"home", "coded"}               -> {"home"}
      [] stage \in {"prepare", "codeset"}          -> {"home", "prepare"}
      [] stage \in {"created", "session", "panic"} -> {"home", "prepare", "created"}
      [] stage \in {"finished", "idle"}            -> Walks

\* Where the walk, its callback and its results belong.
StageInv ==
    /\ calling => stage \in Walks /\ cursor # Null
    /\ cut => stage \in Walks
    /\ cursor # Null => stage \in Walks /\ ListOf[cursor] = Registry(stage)
    /\ called \subseteq Regs \X Began
    /\ stage \in {"home", "coded"} => accepted = {}

\* An accepted registration carries the epoch of this launch.
EpochInv == \A r \in accepted : r \in Regs /\ menuEpoch[r] = epoch

\* What lies ahead of the walk has been neither called nor accepted.  The node
\* it stands on may be gone while its callback runs.
AheadInv ==
    cursor # Null =>
        /\ cursor \in Members(ListOf[cursor]) \/ (calling /\ cut)
        /\ ~calling => <<cursor, stage>> \notin called
        /\ \A q \in Regs : Earlier(cursor, q) => <<q, stage>> \notin called
        /\ stage = "prepare" =>
               /\ cursor \notin accepted
               /\ \A q \in Regs : Earlier(cursor, q) => q \notin accepted

\* What is still to be called lies ahead of the walk.
BehindInv ==
    stage \in Walks /\ ~cut =>
        \A q \in Missed(stage) :
            cursor # Null /\ ((q = cursor /\ ~calling) \/ Earlier(cursor, q))

LaunchInv ==
    /\ TypeOK /\ OrderInv /\ ListsAreSound /\ StageInv /\ EpochInv /\ AheadInv
    /\ BehindInv /\ CalledExactlyOnce

-----------------------------------------------------------------------------
(* The links and the sequence of members *)

\* A set of numbers that is not empty has a least one.
LEMMA LeastExists ==
    ASSUME NEW T \in SUBSET Nat, T # {}
    PROVE  \E m \in T : \A n \in T : m <= n
<1> DEFINE R == OpToRel(<, Nat)
<1>1. IsWellFoundedOn(R, Nat)
  BY NatLessThanWellFounded
<1>2. \E x \in T : \A y \in T : ~ (<<y, x>> \in R)
  <2> HIDE DEF R
  <2> QED
    BY <1>1, WFMin
<1>3. \A x, y \in Nat : ~ (<<y, x>> \in R) => x <= y
  BY DEF OpToRel
<1> QED
  BY <1>2, <1>3

\* What the invariant says of one registry.
LEMMA OneList ==
    ASSUME OrderInv, ListsAreSound, NEW l \in Lists
    PROVE  /\ order[l] \in Seq(Regs) /\ Len(order[l]) \in Nat
           /\ DOMAIN order[l] = 1 .. Len(order[l])
           /\ \A i \in 1 .. Len(order[l]) : order[l][i] \in Regs /\ order[l][i] # Null
           /\ \A i, j \in 1 .. Len(order[l]) : order[l][i] = order[l][j] => i = j
           /\ \A i \in 1 .. Len(order[l]) : ListOf[order[l][i]] = l
           /\ Len(order[l]) = 0 <=> order[l] = <<>>
           /\ first[l] = IF Len(order[l]) = 0 THEN Null ELSE order[l][1]
           /\ last[l] = IF Len(order[l]) = 0 THEN Null ELSE order[l][Len(order[l])]
           /\ \A i \in 1 .. Len(order[l]) :
                  next[order[l][i]] = IF i = Len(order[l]) THEN Null ELSE order[l][i + 1]
<1>1. order[l] \in Seq(Regs)
  BY DEF OrderInv
<1>2. /\ Len(order[l]) \in Nat /\ DOMAIN order[l] = 1 .. Len(order[l])
      /\ \A i \in 1 .. Len(order[l]) : order[l][i] \in Regs
      /\ Len(order[l]) = 0 <=> order[l] = <<>>
  BY <1>1
<1> QED
  BY <1>1, <1>2, RegsAssumption DEF OrderInv, ListsAreSound, Lists

\* A member's registry is a list, and its place in it is one only.
LEMMA PlaceOf ==
    ASSUME OrderInv, ListsAreSound, NEW l \in Lists, NEW a \in Members(l)
    PROVE  /\ a \in Regs /\ ListOf[a] = l
           /\ \E i \in 1 .. Len(order[l]) : order[l][i] = a
  BY OneList DEF Members

\* The walk along the links meets exactly the members.
LEMMA ChainIsOrder ==
    ASSUME OrderInv, ListsAreSound, NEW r \in Regs
    PROVE  OnChain(r) <=> r \in Members(ListOf[r])
<1> DEFINE l == ListOf[r]
<1>1. l \in Lists
  BY ListAssumption DEF Lists
<1>2. ASSUME OnChain(r) PROVE r \in Members(l)
  <2>1. Members(l) \in SUBSET Regs
    BY <1>1, PlaceOf
  <2>2. first[l] \in Members(l) \cup {Null}
    BY <1>1, OneList DEF Members
  <2>3. ASSUME NEW q \in Members(l) PROVE next[q] \in Members(l) \cup {Null}
    <3>1. PICK i \in 1 .. Len(order[l]) : order[l][i] = q
      BY <1>1, <2>3, PlaceOf
    <3>2. i # Len(order[l]) => i + 1 \in 1 .. Len(order[l])
      BY <1>1, OneList
    <3> QED
      BY <1>1, <3>1, <3>2, OneList DEF Members
  <2> QED
    BY <1>2, <2>1, <2>2, <2>3 DEF OnChain
<1>3. ASSUME r \in Members(l) PROVE OnChain(r)
  <2> SUFFICES ASSUME NEW S \in SUBSET Regs, first[l] \in S \cup {Null},
                      \A q \in S : next[q] \in S \cup {Null}, r \notin S
               PROVE  FALSE
    BY DEF OnChain
  <2> DEFINE T == {i \in 1 .. Len(order[l]) : order[l][i] \notin S}
  <2>1. T \in SUBSET Nat /\ T # {}
    BY <1>1, <1>3, PlaceOf, OneList
  <2>2. PICK m \in T : \A n \in T : m <= n
    <3> HIDE DEF T
    <3> QED
      BY <2>1, LeastExists
  <2>3. m \in 1 .. Len(order[l]) /\ order[l][m] \notin S /\ Len(order[l]) \in Nat
    BY <1>1, OneList
  <2>4. CASE m = 1
    BY <1>1, <2>3, <2>4, OneList
  <2>5. CASE m > 1
    <3>1. m - 1 \in 1 .. Len(order[l]) /\ m - 1 # Len(order[l]) /\ (m - 1) + 1 = m
      BY <2>3, <2>5
    <3>2. order[l][m - 1] \in S
      BY <2>2, <2>3, <3>1
    <3>3. next[order[l][m - 1]] = order[l][m]
      BY <1>1, <3>1, OneList
    <3> QED
      BY <1>1, <2>3, <3>2, <3>3, OneList
  <2> QED
    BY <2>3, <2>4, <2>5
<1> QED
  BY <1>2, <1>3

\* A walk begins with every member ahead.
LEMMA FirstIsEarliest ==
    ASSUME OrderInv, ListsAreSound, NEW l \in Lists
    PROVE  /\ first[l] = Null => Members(l) = {}
           /\ first[l] # Null =>
                  /\ first[l] \in Members(l) /\ first[l] \in Regs /\ ListOf[first[l]] = l
                  /\ \A q \in Members(l) : q = first[l] \/ Earlier(first[l], q)
<1>1. first[l] = Null => Members(l) = {}
  BY OneList DEF Members
<1>2. ASSUME first[l] # Null
      PROVE  /\ first[l] \in Members(l) /\ first[l] \in Regs /\ ListOf[first[l]] = l
             /\ 1 \in 1 .. Len(order[l]) /\ order[l][1] = first[l]
  BY <1>2, OneList DEF Members
<1>3. ASSUME first[l] # Null, NEW q \in Members(l), q # first[l]
      PROVE  Earlier(first[l], q)
  <2>1. PICK j \in 1 .. Len(order[l]) : order[l][j] = q
    BY PlaceOf
  <2>2. 1 < j
    BY <1>2, <1>3, <2>1, OneList
  <2>3. ListOf[q] = l
    BY PlaceOf
  <2> QED
    BY <1>2, <1>3, <2>1, <2>2, <2>3, OneList DEF Earlier
<1> QED
  BY <1>1, <1>2, <1>3

\* Earlier in one list, by places.
LEMMA EarlierPlaces ==
    ASSUME OrderInv, ListsAreSound, NEW a \in Regs, NEW b \in Regs, NEW l \in Lists,
           Earlier(a, b), ListOf[a] = l \/ ListOf[b] = l
    PROVE  /\ a \in Members(l) /\ b \in Members(l) /\ a # b
           /\ ListOf[a] = l /\ ListOf[b] = l
           /\ \E i, j \in 1 .. Len(order[l]) : i < j /\ order[l][i] = a /\ order[l][j] = b
<1>1. ListOf[b] \in Lists
  BY ListAssumption DEF Lists
<1>2. PICK i, j \in 1 .. Len(order[ListOf[b]]) :
           i < j /\ order[ListOf[b]][i] = a /\ order[ListOf[b]][j] = b
  BY <1>1, OneList DEF Earlier
<1>3. ListOf[a] = ListOf[b]
  BY <1>1, <1>2, OneList
<1> QED
  BY <1>1, <1>2, <1>3, OneList DEF Members

\* A link leads to the next member.
LEMMA LinkIsNext ==
    ASSUME OrderInv, ListsAreSound, NEW a \in Regs, a \in Members(ListOf[a])
    PROVE  /\ next[a] = Null => \A q \in Regs : ~Earlier(a, q)
           /\ next[a] # Null =>
                  /\ next[a] \in Regs /\ ListOf[next[a]] = ListOf[a]
                  /\ next[a] \in Members(ListOf[a]) /\ Earlier(a, next[a])
                  /\ \A q \in Regs : Earlier(a, q) <=> q = next[a] \/ Earlier(next[a], q)
<1> DEFINE l == ListOf[a]
<1>0. l \in Lists
  BY ListAssumption DEF Lists
<1>1. PICK i \in 1 .. Len(order[l]) : order[l][i] = a
  BY <1>0, PlaceOf
<1>2. Len(order[l]) \in Nat
  BY <1>0, OneList
<1>3. ASSUME NEW q \in Regs, Earlier(a, q)
      PROVE  /\ ListOf[q] = l
             /\ \E j \in 1 .. Len(order[l]) : i < j /\ order[l][j] = q
  BY <1>0, <1>1, <1>3, EarlierPlaces, OneList
<1>4. CASE i = Len(order[l])
  <2>1. next[a] = Null
    BY <1>0, <1>1, <1>4, OneList
  <2> QED
    BY <1>2, <1>3, <1>4, <2>1
<1>5. CASE i # Len(order[l])
  <2>1. /\ i + 1 \in 1 .. Len(order[l]) /\ next[a] = order[l][i + 1]
    BY <1>0, <1>1, <1>2, <1>5, OneList
  <2>2. /\ next[a] \in Regs /\ next[a] # Null /\ ListOf[next[a]] = l
        /\ next[a] \in Members(l)
    BY <1>0, <2>1, OneList DEF Members
  <2>3. Earlier(a, next[a])
    BY <1>0, <1>1, <1>2, <2>1, <2>2, OneList DEF Earlier
  <2>4. ASSUME NEW q \in Regs, Earlier(a, q), q # next[a]
        PROVE  Earlier(next[a], q)
    <3>1. PICK j \in 1 .. Len(order[l]) : i < j /\ order[l][j] = q
      BY <1>3, <2>4
    <3>2. i + 1 < j
      BY <1>2, <2>1, <2>4, <3>1
    <3>3. ListOf[q] = l /\ DOMAIN order[l] = 1 .. Len(order[l])
      BY <1>0, <1>3, <2>4, OneList
    <3> QED
      BY <2>1, <3>1, <3>2, <3>3 DEF Earlier
  <2>5. ASSUME NEW q \in Regs, Earlier(next[a], q)
        PROVE  Earlier(a, q)
    <3>1. /\ ListOf[q] = l
          /\ \E m, j \in 1 .. Len(order[l]) :
                 m < j /\ order[l][m] = next[a] /\ order[l][j] = q
      BY <1>0, <2>2, <2>5, EarlierPlaces
    <3>2. PICK m, j \in 1 .. Len(order[l]) :
               m < j /\ order[l][m] = next[a] /\ order[l][j] = q
      BY <3>1
    <3>3. m = i + 1
      BY <1>0, <2>1, <3>2, OneList
    <3>4. i < j
      BY <1>2, <3>2, <3>3
    <3>5. DOMAIN order[l] = 1 .. Len(order[l])
      BY <1>0, OneList
    <3> QED
      BY <1>1, <3>1, <3>2, <3>4, <3>5 DEF Earlier
  <2> QED
    BY <2>2, <2>3, <2>4, <2>5
<1> QED
  BY <1>4, <1>5
-----------------------------------------------------------------------------
(* What registering and unregistering do to the sequence *)

\* Steps that leave the registries alone.
LEMMA ListsKept ==
    ASSUME OrderInv, ListsAreSound, UNCHANGED lists
    PROVE  /\ OrderInv' /\ ListsAreSound'
           /\ \A l \in Lists : Members(l)' = Members(l)
           /\ \A a, b \in Regs : Earlier(a, b)' <=> Earlier(a, b)
  BY DEF lists, OrderInv, ListsAreSound, Members, Earlier

\* A new member comes last.
LEMMA RegisterAppends ==
    ASSUME TypeOK, OrderInv, ListsAreSound, NEW r \in Regs, Register(r)
    PROVE  /\ OrderInv' /\ ListsAreSound'
           /\ r \notin Members(ListOf[r])
           /\ \A l \in Lists : Members(l)' = IF l = ListOf[r] THEN Members(l) \cup {r}
                                                            ELSE Members(l)
           /\ \A a, b \in Regs :
                  Earlier(a, b)' <=> Earlier(a, b) \/ (b = r /\ a \in Members(ListOf[r]))
<1>1. PICK l \in Lists : l = ListOf[r]
  BY ListAssumption DEF Lists
<1>2. PICK s \in Seq(Regs) : s = order[l]
  BY DEF OrderInv
<1>3. PICK n \in Nat : n = Len(s)
  OBVIOUS
<1>4. r \notin Members(l)
  BY <1>1, ChainIsOrder DEF Register, IsNew
<1>5. /\ DOMAIN s = 1 .. n /\ r # Null
      /\ \A i \in 1 .. n : s[i] \in Regs /\ s[i] # r /\ s[i] # Null /\ ListOf[s[i]] = l
      /\ \A i, j \in 1 .. n : s[i] = s[j] => i = j
      /\ first[l] = IF n = 0 THEN Null ELSE s[1]
      /\ last[l] = IF n = 0 THEN Null ELSE s[n]
      /\ \A i \in 1 .. n : next[s[i]] = IF i = n THEN Null ELSE s[i + 1]
  <2>1. \A i \in 1 .. n : s[i] # r
    BY <1>2, <1>3, <1>4, OneList DEF Members
  <2> QED
    BY <2>1, <1>2, <1>3, OneList, RegsAssumption
<1>6. PICK t \in Seq(Regs) : t = order'[l] /\ t = Append(s, r)
  <2>1. Append(s, r) \in Seq(Regs)
    OBVIOUS
  <2>2. order' = [order EXCEPT ![l] = Append(@, r)]
    BY <1>1 DEF Register
  <2>3. order'[l] = Append(s, r)
    BY <1>2, <2>2 DEF OrderInv
  <2> QED
    BY <2>1, <2>3
<1>7. /\ Len(t) = n + 1 /\ DOMAIN t = 1 .. n + 1
      /\ \A i \in 1 .. n : t[i] = s[i]
      /\ t[n + 1] = r
  BY <1>3, <1>6
<1>8. /\ order' \in [Lists -> Seq(Regs)]
      /\ \A m \in Lists : m # l => order'[m] = order[m]
  BY <1>1 DEF Register, OrderInv
<1>9. \A m \in Lists : Members(m)' = IF m = l THEN Members(m) \cup {r} ELSE Members(m)
  <2>1. Members(l) = {s[i] : i \in 1 .. n} /\ Members(l)' = {t[i] : i \in 1 .. n + 1}
    BY <1>2, <1>5, <1>6, <1>7 DEF Members
  <2>2. {t[i] : i \in 1 .. n + 1} = {s[i] : i \in 1 .. n} \cup {r}
    BY <1>7
  <2>3. \A m \in Lists : m # l => Members(m)' = Members(m)
    BY <1>8 DEF Members
  <2> QED
    BY <2>1, <2>2, <2>3
<1>10. /\ next' = [q \in Regs |-> IF q = last[l] THEN r
                                  ELSE IF q = r THEN Null ELSE next[q]]
       /\ first' = IF last[l] = Null THEN [first EXCEPT ![l] = r] ELSE first
       /\ last' = [last EXCEPT ![l] = r]
  BY <1>1 DEF Register
<1>11. OrderInv'
  <2>1. ASSUME NEW m \in Lists, NEW i \in DOMAIN order'[m], NEW j \in DOMAIN order'[m],
               order'[m][i] = order'[m][j]
        PROVE  i = j
    <3>1. CASE m = l
      <4>1. i \in 1 .. n + 1 /\ j \in 1 .. n + 1 /\ t[i] = t[j]
        BY <1>6, <1>7, <2>1, <3>1
      <4> QED
        BY <1>5, <1>7, <4>1
    <3>2. CASE m # l
      BY <1>8, <2>1, <3>2 DEF OrderInv
    <3> QED
      BY <3>1, <3>2
  <2>2. ASSUME NEW m \in Lists, NEW i \in DOMAIN order'[m]
        PROVE  ListOf[order'[m][i]] = m
    <3>1. CASE m = l
      <4>1. i \in 1 .. n + 1 /\ order'[m][i] = t[i]
        BY <1>6, <1>7, <2>2, <3>1
      <4> QED
        BY <1>1, <1>5, <1>7, <3>1, <4>1
    <3>2. CASE m # l
      BY <1>8, <2>2, <3>2 DEF OrderInv
    <3> QED
      BY <3>1, <3>2
  <2>3. ASSUME NEW q \in Regs, q \notin Members(ListOf[q])'
        PROVE  next'[q] = Null
    <3>1. ListOf[q] \in Lists
      BY ListAssumption DEF Lists
    <3>2. q # r /\ q \notin Members(ListOf[q])
      BY <1>1, <1>9, <2>3, <3>1
    <3>3. q # last[l]
      <4>1. last[l] = Null \/ (ListOf[last[l]] = l /\ last[l] \in Members(l))
        <5>1. n = 0 \/ n \in 1 .. n
          OBVIOUS
        <5> QED
          BY <1>2, <1>5, <5>1 DEF Members
      <4> QED
        BY <3>2, <4>1, RegsAssumption
    <3> QED
      BY <1>10, <3>2, <3>3 DEF OrderInv
  <2> QED
    BY <1>8, <2>1, <2>2, <2>3 DEF OrderInv
<1>12. ListsAreSound'
  <2>1. /\ first'[l] = t[1] /\ last'[l] = t[n + 1]
        /\ \A i \in 1 .. n + 1 : next'[t[i]] = IF i = n + 1 THEN Null ELSE t[i + 1]
    <3>1. first'[l] = t[1]
      <4>1. CASE n = 0
        BY <1>5, <1>7, <1>10, <4>1 DEF TypeOK, Lists
      <4>2. CASE n # 0
        <5>1. 1 \in 1 .. n /\ n \in 1 .. n
          BY <4>2
        <5> QED
          BY <1>5, <1>7, <1>10, <4>2, <5>1
      <4> QED
        BY <4>1, <4>2
    <3>2. last'[l] = r
      BY <1>10 DEF TypeOK, Lists
    <3>3. ASSUME NEW i \in 1 .. n
          PROVE  next'[s[i]] = t[i + 1]
      <4>1. CASE i = n
        BY <1>5, <1>7, <1>10, <4>1
      <4>2. CASE i # n
        <5>1. i + 1 \in 1 .. n /\ next[s[i]] = s[i + 1]
          BY <1>5, <4>2
        <5>2. n \in 1 .. n /\ s[i] # s[n] /\ last[l] = s[n]
          BY <1>5, <4>2
        <5> QED
          BY <1>5, <1>7, <1>10, <5>1, <5>2
      <4> QED
        BY <4>1, <4>2
    <3>4. next'[r] = Null
      BY <1>5, <1>10
    <3>5. ASSUME NEW i \in 1 .. n + 1
          PROVE  next'[t[i]] = IF i = n + 1 THEN Null ELSE t[i + 1]
      <4>1. CASE i = n + 1
        BY <1>7, <3>4, <4>1
      <4>2. CASE i # n + 1
        <5>1. i \in 1 .. n
          BY <4>2
        <5> QED
          BY <1>7, <3>3, <4>2, <5>1
      <4> QED
        BY <4>1, <4>2
    <3>6. t[n + 1] = r
      BY <1>7
    <3> QED
      BY <3>1, <3>2, <3>5, <3>6
  <2>2. order'[l] # <<>> /\ Len(order'[l]) = n + 1 /\ DOMAIN order'[l] = 1 .. n + 1
    BY <1>6, <1>7
  <2>3. ASSUME NEW m \in Lists, m # l
        PROVE  /\ first'[m] = first[m] /\ last'[m] = last[m]
               /\ \A i \in DOMAIN order[m] : next'[order[m][i]] = next[order[m][i]]
    <3>1. first'[m] = first[m] /\ last'[m] = last[m]
      BY <1>10, <2>3 DEF TypeOK, Lists
    <3>2. ASSUME NEW i \in DOMAIN order[m]
          PROVE  next'[order[m][i]] = next[order[m][i]]
      <4>1. order[m][i] \in Regs /\ ListOf[order[m][i]] = m
        <5>1. DOMAIN order[m] = 1 .. Len(order[m])
          BY OneList
        <5>2. i \in 1 .. Len(order[m])
          BY <3>2, <5>1
        <5> QED
          BY <5>2, OneList
      <4>2. last[l] = Null \/ ListOf[last[l]] = l
        BY <1>5
      <4>3. order[m][i] # last[l] /\ order[m][i] # r
        BY <1>1, <2>3, <4>1, <4>2, RegsAssumption
      <4> QED
        BY <1>10, <4>1, <4>3
    <3> QED
      BY <3>1, <3>2
  <2>4. SUFFICES ASSUME NEW m \in Lists
        PROVE  /\ first'[m] = IF order'[m] = <<>> THEN Null ELSE order'[m][1]
               /\ last'[m] = IF order'[m] = <<>> THEN Null
                                                ELSE order'[m][Len(order'[m])]
               /\ \A i \in DOMAIN order'[m] :
                      next'[order'[m][i]] = IF i = Len(order'[m]) THEN Null
                                                                 ELSE order'[m][i + 1]
    BY DEF ListsAreSound, Lists
  <2>5. CASE m = l
    BY <1>6, <2>1, <2>2, <2>5
  <2>6. CASE m # l
    BY <1>8, <2>3, <2>6 DEF ListsAreSound, Lists
  <2> QED
    BY <2>5, <2>6
<1>13. ASSUME NEW a \in Regs, NEW b \in Regs
       PROVE  Earlier(a, b)' <=> Earlier(a, b) \/ (b = r /\ a \in Members(l))
  <2>1. CASE ListOf[b] # l
    <3>1. ListOf[b] \in Lists
      BY ListAssumption DEF Lists
    <3> QED
      BY <1>1, <1>8, <2>1, <3>1 DEF Earlier
  <2>2. CASE ListOf[b] = l
    <3>1. Earlier(a, b) <=> \E i, j \in 1 .. n : i < j /\ s[i] = a /\ s[j] = b
      BY <1>2, <1>5, <2>2 DEF Earlier
    <3>2. Earlier(a, b)' <=> \E i, j \in 1 .. n + 1 : i < j /\ t[i] = a /\ t[j] = b
      BY <1>6, <1>7, <2>2 DEF Earlier
    <3>3. a \in Members(l) <=> \E i \in 1 .. n : s[i] = a
      BY <1>2, <1>5 DEF Members
    <3>4. \A i, j \in 1 .. n + 1 : i < j => i \in 1 .. n
      OBVIOUS
    <3>5. 1 .. n + 1 = (1 .. n) \cup {n + 1} /\ \A i \in 1 .. n : i < n + 1
      OBVIOUS
    <3> QED
      BY <1>1, <1>5, <1>7, <3>1, <3>2, <3>3, <3>4, <3>5
  <2> QED
    BY <2>1, <2>2
<1> QED
  BY <1>1, <1>4, <1>9, <1>11, <1>12, <1>13

\* The sequence without its k-th element.
LEMMA WithoutPlace ==
    ASSUME NEW s \in Seq(Regs), NEW k \in DOMAIN s,
           \A i, j \in DOMAIN s : s[i] = s[j] => i = j
    PROVE  /\ Len(s) \in Nat \ {0} /\ k \in 1 .. Len(s)
           /\ Without(s, s[k]) \in Seq(Regs)
           /\ Len(Without(s, s[k])) = Len(s) - 1
           /\ \A i \in 1 .. Len(s) - 1 :
                  Without(s, s[k])[i] = IF i < k THEN s[i] ELSE s[i + 1]
<1>1. (CHOOSE i \in DOMAIN s : s[i] = s[k]) = k
  OBVIOUS
<1>2. Without(s, s[k]) = [i \in 1 .. Len(s) - 1 |-> IF i < k THEN s[i] ELSE s[i + 1]]
  BY <1>1 DEF Without
<1>3. Len(s) \in Nat \ {0} /\ k \in 1 .. Len(s)
  OBVIOUS
<1>4. \A i \in 1 .. Len(s) - 1 : (IF i < k THEN s[i] ELSE s[i + 1]) \in Regs
  BY <1>3
<1>5. Without(s, s[k]) \in [1 .. Len(s) - 1 -> Regs] /\ Len(s) - 1 \in Nat
  BY <1>2, <1>3, <1>4
<1>6. Without(s, s[k]) \in Seq(Regs) /\ Len(Without(s, s[k])) = Len(s) - 1
  BY <1>5
<1> QED
  BY <1>2, <1>3, <1>6

\* The node before r is the one whose link leads to r.
LEMMA PreviousNode ==
    ASSUME OrderInv, ListsAreSound, NEW l \in Lists, NEW k \in 1 .. Len(order[l]), k > 1
    PROVE  (CHOOSE p \in Regs : OnChain(p) /\ next[p] = order[l][k]) = order[l][k - 1]
<1> DEFINE r == order[l][k]
           p0 == order[l][k - 1]
<1>1. k - 1 \in 1 .. Len(order[l]) /\ (k - 1) + 1 = k /\ k - 1 # Len(order[l])
  BY OneList
<1>2. p0 \in Regs /\ p0 \in Members(ListOf[p0]) /\ next[p0] = r
  <2>1. p0 \in Regs /\ ListOf[p0] = l /\ p0 \in Members(l)
    BY <1>1, OneList DEF Members
  <2>2. next[p0] = order[l][(k - 1) + 1]
    BY <1>1, OneList
  <2> QED
    BY <1>1, <2>1, <2>2
<1>3. OnChain(p0)
  BY <1>2, ChainIsOrder
<1>4. ASSUME NEW p \in Regs, OnChain(p), next[p] = r
      PROVE  p = p0
  <2>1. PICK m \in Lists : m = ListOf[p]
    BY ListAssumption DEF Lists
  <2>2. PICK i \in 1 .. Len(order[m]) : order[m][i] = p
    BY <1>4, <2>1, ChainIsOrder, PlaceOf
  <2>3. r # Null /\ ListOf[r] = l
    BY OneList
  <2>4. i + 1 \in 1 .. Len(order[m]) /\ order[m][i + 1] = r
    BY <1>4, <2>2, <2>3, OneList
  <2>5. m = l
    BY <2>3, <2>4, OneList
  <2>6. i + 1 = k
    BY <2>4, <2>5, OneList
  <2> QED
    BY <1>1, <2>2, <2>5, <2>6
<1> QED
  BY <1>2, <1>3, <1>4

\* A member that is unlinked leaves the others in their order.
LEMMA UnregisterRemoves ==
    ASSUME TypeOK, OrderInv, ListsAreSound, NEW r \in Regs, Unregister(r)
    PROVE  /\ OrderInv' /\ ListsAreSound'
           /\ \A l \in Lists : Members(l)' = Members(l) \ {r}
           /\ \A a, b \in Regs : Earlier(a, b)' <=> Earlier(a, b) /\ a # r /\ b # r
<1>1. PICK l \in Lists : l = ListOf[r]
  BY ListAssumption DEF Lists
<1>2. PICK s \in Seq(Regs) : s = order[l]
  BY DEF OrderInv
<1>3. PICK n \in Nat : n = Len(s)
  OBVIOUS
<1>4. PICK k \in 1 .. n : s[k] = r
  <2>1. r \in Members(l)
    BY <1>1, ChainIsOrder DEF Unregister
  <2> QED
    BY <1>2, <1>3, <2>1, PlaceOf
<1>5. /\ DOMAIN s = 1 .. n /\ r # Null
      /\ \A i \in 1 .. n : s[i] \in Regs /\ s[i] # Null /\ ListOf[s[i]] = l
      /\ \A i, j \in 1 .. n : s[i] = s[j] => i = j
      /\ first[l] = IF n = 0 THEN Null ELSE s[1]
      /\ last[l] = IF n = 0 THEN Null ELSE s[n]
      /\ \A i \in 1 .. n : next[s[i]] = IF i = n THEN Null ELSE s[i + 1]
  BY <1>2, <1>3, OneList, RegsAssumption
<1>6. PICK t : t = Without(s, r)
  OBVIOUS
<1>7. /\ t \in Seq(Regs) /\ Len(t) = n - 1 /\ n - 1 \in Nat /\ DOMAIN t = 1 .. n - 1
      /\ \A i \in 1 .. n - 1 : t[i] = IF i < k THEN s[i] ELSE s[i + 1]
  <2>1. k \in DOMAIN s /\ \A i, j \in DOMAIN s : s[i] = s[j] => i = j
    BY <1>5
  <2>2. t \in Seq(Regs) /\ Len(t) = n - 1
        /\ \A i \in 1 .. n - 1 : t[i] = IF i < k THEN s[i] ELSE s[i + 1]
    BY <1>3, <1>4, <1>6, <2>1, WithoutPlace
  <2> QED
    BY <2>2
<1>8. /\ order' \in [Lists -> Seq(Regs)] /\ order'[l] = t
      /\ \A m \in Lists : m # l => order'[m] = order[m]
  <2>1. order' = [order EXCEPT ![l] = Without(@, r)]
    BY <1>1 DEF Unregister
  <2> QED
    BY <1>2, <1>6, <1>7, <2>1 DEF OrderInv
<1>9. PICK previous : previous = IF k = 1 THEN Null ELSE s[k - 1]
  OBVIOUS
<1>10. /\ next' = [q \in Regs |-> IF q = r THEN Null
                                  ELSE IF q = previous THEN next[r] ELSE next[q]]
       /\ first' = IF previous = Null THEN [first EXCEPT ![l] = next[r]] ELSE first
       /\ last' = IF last[l] = r THEN [last EXCEPT ![l] = previous] ELSE last
  <2>1. first[l] = r <=> k = 1
    BY <1>4, <1>5
  <2>2. k # 1 => (CHOOSE p \in Regs : OnChain(p) /\ next[p] = r) = s[k - 1]
    BY <1>2, <1>3, <1>4, PreviousNode
  <2>3. previous = IF first[ListOf[r]] = r THEN Null
                   ELSE CHOOSE p \in Regs : OnChain(p) /\ next[p] = r
    BY <1>1, <1>9, <2>1, <2>2
  <2> QED
    BY <1>1, <2>3 DEF Unregister, TailWithout
\* Where the elements of t come from.
<1>11. \A i \in 1 .. n - 1 :
           \/ i < k /\ i \in 1 .. n /\ t[i] = s[i]
           \/ i >= k /\ i + 1 \in 1 .. n /\ t[i] = s[i + 1]
  BY <1>7
<1>12. \A i \in 1 .. n :
           /\ i < k => i \in 1 .. n - 1 /\ t[i] = s[i]
           /\ i > k => i - 1 \in 1 .. n - 1 /\ t[i - 1] = s[i]
  BY <1>7
<1>13. \A m \in Lists : Members(m)' = Members(m) \ {r}
  <2>1. Members(l) = {s[i] : i \in 1 .. n} /\ Members(l)' = {t[i] : i \in 1 .. n - 1}
    <3>1. Members(l) = {s[i] : i \in DOMAIN s} /\ Members(l)' = {t[i] : i \in DOMAIN t}
      BY <1>2, <1>8 DEF Members
    <3> QED
      BY <1>5, <1>7, <3>1
  <2>2. \A i \in 1 .. n - 1 : t[i] \in {s[j] : j \in 1 .. n} /\ t[i] # r
    BY <1>4, <1>5, <1>11
  <2>3. \A i \in 1 .. n : s[i] # r => s[i] \in {t[j] : j \in 1 .. n - 1}
    BY <1>4, <1>12
  <2>4. \A m \in Lists : m # l => Members(m)' = Members(m) /\ r \notin Members(m)
    BY <1>1, <1>8, PlaceOf DEF Members
  <2> QED
    BY <2>1, <2>2, <2>3, <2>4
<1>14. OrderInv'
  <2>1. ASSUME NEW m \in Lists, NEW i \in DOMAIN order'[m], NEW j \in DOMAIN order'[m],
               order'[m][i] = order'[m][j]
        PROVE  i = j
    <3>1. CASE m = l
      <4>1. i \in 1 .. n - 1 /\ j \in 1 .. n - 1 /\ t[i] = t[j]
        BY <1>7, <1>8, <2>1, <3>1
      <4> QED
        BY <1>5, <1>11, <4>1
    <3>2. CASE m # l
      BY <1>8, <2>1, <3>2 DEF OrderInv
    <3> QED
      BY <3>1, <3>2
  <2>2. ASSUME NEW m \in Lists, NEW i \in DOMAIN order'[m]
        PROVE  ListOf[order'[m][i]] = m
    <3>1. CASE m = l
      <4>1. i \in 1 .. n - 1 /\ order'[m][i] = t[i]
        BY <1>7, <1>8, <2>2, <3>1
      <4> QED
        BY <1>5, <1>11, <3>1, <4>1
    <3>2. CASE m # l
      BY <1>8, <2>2, <3>2 DEF OrderInv
    <3> QED
      BY <3>1, <3>2
  <2>3. ASSUME NEW q \in Regs, q \notin Members(ListOf[q])'
        PROVE  next'[q] = Null
    <3>1. CASE q = r
      BY <1>10, <3>1
    <3>2. CASE q # r
      <4>1. ListOf[q] \in Lists
        BY ListAssumption DEF Lists
      <4>2. q \notin Members(ListOf[q])
        BY <1>13, <2>3, <3>2, <4>1
      <4>3. k # 1 => k - 1 \in 1 .. n
        OBVIOUS
      <4>4. previous = Null \/ (ListOf[previous] = l /\ previous \in Members(l))
        BY <1>2, <1>5, <1>9, <4>3 DEF Members
      <4>5. q # previous
        BY <4>2, <4>4, RegsAssumption
      <4> QED
        BY <1>10, <3>2, <4>2, <4>5 DEF OrderInv
    <3> QED
      BY <3>1, <3>2
  <2> QED
    BY <1>8, <2>1, <2>2, <2>3 DEF OrderInv
<1>15. ListsAreSound'
  <2>1. first'[l] = IF n = 1 THEN Null ELSE t[1]
    <3>1. CASE k = 1
      <4>1. previous = Null /\ first'[l] = next[r]
        BY <1>9, <1>10, <3>1 DEF TypeOK, Lists
      <4>2. n # 1 => 1 \in 1 .. n - 1 /\ t[1] = s[2]
        BY <1>7, <3>1
      <4> QED
        BY <1>4, <1>5, <3>1, <4>1, <4>2
    <3>2. CASE k # 1
      <4>1. k - 1 \in 1 .. n /\ 1 < k /\ 1 \in 1 .. n /\ n # 1
        BY <3>2
      <4>2. first'[l] = s[1]
        BY <1>5, <1>9, <1>10, <3>2, <4>1
      <4> QED
        BY <1>12, <4>1, <4>2
    <3> QED
      BY <3>1, <3>2
  <2>2. last'[l] = IF n = 1 THEN Null ELSE t[n - 1]
    <3>1. CASE k = n
      <4>1. last'[l] = previous
        BY <1>4, <1>5, <1>10, <3>1 DEF TypeOK, Lists
      <4>2. n # 1 => n - 1 \in 1 .. n - 1 /\ t[n - 1] = s[n - 1]
        BY <1>7, <3>1
      <4> QED
        BY <1>9, <3>1, <4>1, <4>2
    <3>2. CASE k # n
      <4>1. n \in 1 .. n /\ n > k /\ n # 1
        BY <3>2
      <4>2. last'[l] = s[n]
        BY <1>4, <1>5, <1>10, <3>2, <4>1
      <4> QED
        BY <1>12, <4>1, <4>2
    <3> QED
      BY <3>1, <3>2
  <2>3. ASSUME NEW i \in 1 .. n - 1
        PROVE  next'[t[i]] = IF i = n - 1 THEN Null ELSE t[i + 1]
    <3>1. CASE i < k - 1
      <4>1. /\ i \in 1 .. n /\ i + 1 \in 1 .. n /\ i < k /\ i + 1 < k /\ i # n - 1
            /\ k - 1 \in 1 .. n /\ k # 1 /\ i # k /\ i # k - 1 /\ i # n
        BY <3>1
      <4>2. t[i] = s[i] /\ t[i + 1] = s[i + 1]
        BY <1>12, <4>1
      <4>3. s[i] # r /\ s[i] # previous
        BY <1>4, <1>5, <1>9, <4>1
      <4> QED
        BY <1>5, <1>10, <4>1, <4>2, <4>3
    <3>2. CASE i = k - 1
      <4>1. /\ i \in 1 .. n /\ i < k /\ k # 1 /\ k \in 1 .. n
            /\ k = n <=> i = n - 1
            /\ k # n => k + 1 \in 1 .. n /\ k + 1 > k /\ (k + 1) - 1 = i + 1
        BY <3>2
      <4>2. t[i] = s[i] /\ previous = s[i] /\ s[i] # r
        BY <1>4, <1>5, <1>9, <1>12, <3>2, <4>1
      <4>3. next'[t[i]] = next[r]
        BY <1>5, <1>10, <4>1, <4>2
      <4>4. k # n => t[i + 1] = s[k + 1]
        BY <1>12, <4>1
      <4> QED
        BY <1>4, <1>5, <4>1, <4>3, <4>4
    <3>3. CASE i >= k
      <4>1. /\ i + 1 \in 1 .. n /\ i + 1 > k /\ (i + 1) - 1 = i
            /\ i = n - 1 <=> i + 1 = n
            /\ k # 1 => k - 1 \in 1 .. n /\ k - 1 # i + 1
            /\ i # n - 1 => i + 2 \in 1 .. n /\ i + 2 > k /\ (i + 2) - 1 = i + 1
                            /\ (i + 1) + 1 = i + 2
        BY <3>3
      <4>2. t[i] = s[i + 1] /\ (i # n - 1 => t[i + 1] = s[i + 2])
        BY <1>12, <4>1
      <4>3. s[i + 1] # r /\ s[i + 1] # previous
        BY <1>4, <1>5, <1>9, <4>1
      <4> QED
        BY <1>5, <1>10, <4>1, <4>2, <4>3
    <3> QED
      BY <3>1, <3>2, <3>3
  <2>4. ASSUME NEW m \in Lists, m # l
        PROVE  /\ first'[m] = first[m] /\ last'[m] = last[m]
               /\ \A i \in DOMAIN order[m] : next'[order[m][i]] = next[order[m][i]]
    <3>1. first'[m] = first[m] /\ last'[m] = last[m]
      BY <1>10, <2>4 DEF TypeOK, Lists
    <3>2. ASSUME NEW i \in DOMAIN order[m]
          PROVE  next'[order[m][i]] = next[order[m][i]]
      <4>1. order[m][i] \in Regs /\ ListOf[order[m][i]] = m
        <5>1. DOMAIN order[m] = 1 .. Len(order[m])
          BY OneList
        <5>2. i \in 1 .. Len(order[m])
          BY <3>2, <5>1
        <5> QED
          BY <5>2, OneList
      <4>2. k # 1 => k - 1 \in 1 .. n
        OBVIOUS
      <4>3. previous = Null \/ ListOf[previous] = l
        BY <1>5, <1>9, <4>2
      <4>4. order[m][i] # previous /\ order[m][i] # r
        BY <1>1, <2>4, <4>1, <4>3, RegsAssumption
      <4> QED
        BY <1>10, <4>1, <4>4
    <3> QED
      BY <3>1, <3>2
  <2>5. order'[l] = <<>> <=> n = 1
    BY <1>7, <1>8
  <2>6. SUFFICES ASSUME NEW m \in Lists
        PROVE  /\ first'[m] = IF order'[m] = <<>> THEN Null ELSE order'[m][1]
               /\ last'[m] = IF order'[m] = <<>> THEN Null
                                                ELSE order'[m][Len(order'[m])]
               /\ \A i \in DOMAIN order'[m] :
                      next'[order'[m][i]] = IF i = Len(order'[m]) THEN Null
                                                                 ELSE order'[m][i + 1]
    BY DEF ListsAreSound, Lists
  <2>7. CASE m = l
    BY <1>7, <1>8, <2>1, <2>2, <2>3, <2>5, <2>7
  <2>8. CASE m # l
    BY <1>8, <2>4, <2>8 DEF ListsAreSound, Lists
  <2> QED
    BY <2>7, <2>8
<1>16. ASSUME NEW a \in Regs, NEW b \in Regs
       PROVE  Earlier(a, b)' <=> Earlier(a, b) /\ a # r /\ b # r
  <2>1. CASE ListOf[b] # l
    <3>1. ListOf[b] \in Lists
      BY ListAssumption DEF Lists
    <3>2. Earlier(a, b)' <=> Earlier(a, b)
      BY <1>8, <2>1, <3>1 DEF Earlier
    <3>3. Earlier(a, b) => a # r
      BY <1>1, <2>1, <3>1, EarlierPlaces
    <3> QED
      BY <1>1, <2>1, <3>2, <3>3
  <2>2. CASE ListOf[b] = l
    <3>1. Earlier(a, b) <=> \E i, j \in 1 .. n : i < j /\ s[i] = a /\ s[j] = b
      BY <1>2, <1>5, <2>2 DEF Earlier
    <3>2. Earlier(a, b)' <=> \E i, j \in 1 .. n - 1 : i < j /\ t[i] = a /\ t[j] = b
      BY <1>7, <1>8, <2>2 DEF Earlier
    <3>3. ASSUME NEW i \in 1 .. n - 1, NEW j \in 1 .. n - 1, i < j
          PROVE  /\ t[i] # r /\ t[j] # r
                 /\ \E x, y \in 1 .. n : x < y /\ s[x] = t[i] /\ s[y] = t[j]
      <4>1. t[i] # r /\ t[j] # r
        BY <1>4, <1>5, <1>11
      <4>2. CASE j < k
        <5>1. i < k /\ i \in 1 .. n /\ j \in 1 .. n /\ t[i] = s[i] /\ t[j] = s[j]
          BY <1>11, <3>3, <4>2
        <5> QED
          BY <3>3, <4>1, <5>1
      <4>3. CASE i < k /\ j >= k
        <5>1. i < j + 1
          BY <3>3
        <5>2. i \in 1 .. n /\ j + 1 \in 1 .. n /\ t[i] = s[i] /\ t[j] = s[j + 1]
          BY <1>11, <4>3
        <5> QED
          BY <4>1, <5>1, <5>2
      <4>4. CASE i >= k
        <5>1. i + 1 < j + 1 /\ j >= k
          BY <3>3, <4>4
        <5>2. /\ i + 1 \in 1 .. n /\ j + 1 \in 1 .. n
              /\ t[i] = s[i + 1] /\ t[j] = s[j + 1]
          BY <1>11, <4>4, <5>1
        <5> QED
          BY <4>1, <5>1, <5>2
      <4> QED
        BY <4>1, <4>2, <4>3, <4>4
    <3>4. ASSUME NEW i \in 1 .. n, NEW j \in 1 .. n, i < j, s[i] # r, s[j] # r
          PROVE  \E x, y \in 1 .. n - 1 : x < y /\ t[x] = s[i] /\ t[y] = s[j]
      <4>1. i # k /\ j # k
        BY <1>4, <3>4
      <4>2. CASE j < k
        BY <1>12, <3>4, <4>2
      <4>3. CASE i < k /\ j > k
        <5>1. i < j - 1
          BY <4>3
        <5> QED
          BY <1>12, <4>3, <5>1
      <4>4. CASE i > k
        <5>1. i - 1 < j - 1 /\ j > k
          BY <3>4, <4>4
        <5> QED
          BY <1>12, <4>4, <5>1
      <4> QED
        BY <4>1, <4>2, <4>3, <4>4
    <3>5. ASSUME Earlier(a, b)' PROVE Earlier(a, b) /\ a # r /\ b # r
      <4>1. PICK i, j \in 1 .. n - 1 : i < j /\ t[i] = a /\ t[j] = b
        BY <3>2, <3>5
      <4>2. a # r /\ b # r /\ \E x, y \in 1 .. n : x < y /\ s[x] = a /\ s[y] = b
        BY <3>3, <4>1
      <4> QED
        BY <3>1, <4>2
    <3>6. ASSUME Earlier(a, b), a # r, b # r PROVE Earlier(a, b)'
      BY <3>1, <3>2, <3>4, <3>6
    <3> QED
      BY <3>5, <3>6
  <2> QED
    BY <2>1, <2>2
<1> QED
  BY <1>13, <1>14, <1>15, <1>16

-----------------------------------------------------------------------------
(* Each action keeps the invariant *)

\* At the beginning of a walk every member lies ahead of it.
LEMMA WalkBegins ==
    ASSUME OrderInv, ListsAreSound, UNCHANGED <<lists>>,
           stage' \in Walks, cursor' = first[Registry(stage')], ~calling',
           \A q \in Regs : <<q, stage'>> \notin called',
           stage' = "prepare" => accepted' = {}
    PROVE  /\ AheadInv' /\ BehindInv'
           /\ cursor' # Null => ListOf[cursor'] = Registry(stage')
<1>1. PICK l \in Lists : l = Registry(stage')
  BY DEF Lists, Registry
<1>2. /\ first[l] = Null => Members(l) = {}
      /\ first[l] # Null =>
             /\ first[l] \in Members(l) /\ first[l] \in Regs /\ ListOf[first[l]] = l
             /\ \A q \in Members(l) : q = first[l] \/ Earlier(first[l], q)
  BY FirstIsEarliest
<1>3. Members(l)' = Members(l) /\ \A a, b \in Regs : Earlier(a, b)' <=> Earlier(a, b)
  BY ListsKept
<1>4. \A q \in Missed(stage)' : q \in Regs /\ q \in Members(l)'
  BY <1>1 DEF Missed
<1>5. PICK c : c = cursor'
  OBVIOUS
<1>6. AheadInv'
  BY <1>1, <1>2, <1>3 DEF AheadInv
<1>7. BehindInv'
  <2> SUFFICES ASSUME NEW q \in Missed(stage)'
               PROVE  c # Null /\ (q = c \/ Earlier(c, q)')
    BY <1>5 DEF BehindInv, Earlier
  <2> QED
    BY <1>1, <1>2, <1>3, <1>4, <1>5
<1> QED
  BY <1>1, <1>2, <1>6, <1>7

\* Between walks there is nothing to be called.
LEMMA BetweenWalks ==
    ASSUME stage' \notin Walks, cursor' = Null
    PROVE  AheadInv' /\ BehindInv'
  BY DEF AheadInv, BehindInv

\* Outside the walks no callback runs.
LEMMA NoCallback ==
    ASSUME StageInv, stage \notin Walks
    PROVE  ~calling /\ ~cut /\ cursor = Null
  BY DEF StageInv

\* A launch begins: what earlier ones left is forgotten.
LEMMA PatchCodeKeeps ==
    ASSUME LaunchInv, NEW t \in Titles, PatchCode(t)
    PROVE  LaunchInv'
<1>1. ~calling /\ ~cut /\ cursor = Null
  BY NoCallback DEF LaunchInv, PatchCode, Walks
<1>2. OrderInv' /\ ListsAreSound'
  BY ListsKept DEF LaunchInv, PatchCode
<1>3. TypeOK'
  <2>1. NextEpoch \in 0 .. EpochLimit - 1
    BY EpochAssumption DEF NextEpoch, LaunchInv, TypeOK
  <2>2. context' \in [title : Titles \cup {Null}, codeSet : BOOLEAN,
                      process : Titles \cup {Null}]
    BY DEF PatchCode, NoContext
  <2>3. cursor' \in Regs \cup {Null} /\ stage' \in {"coded", "home"}
    BY DEF PatchCode, LaunchInv, TypeOK
  <2>4. epoch' = NextEpoch /\ launching' = t /\ valid' = TRUE
    BY DEF PatchCode
  <2>5. UNCHANGED <<first, last, next, menuEpoch, calling>>
    BY DEF PatchCode, lists
  <2> QED
    BY <2>1, <2>2, <2>3, <2>4, <2>5 DEF LaunchInv, TypeOK, Walks
<1>4. AheadInv' /\ BehindInv' /\ (cursor' # Null => ListOf[cursor'] = Registry(stage'))
  <2>1. CASE stage' = "coded" /\ cursor' = Null
    BY <2>1, BetweenWalks DEF Walks
  <2>2. CASE stage' = "home" /\ cursor' = first["home"]
    BY <1>1, <2>2, WalkBegins DEF PatchCode, LaunchInv, Walks, Registry
  <2> QED
    BY <2>1, <2>2 DEF PatchCode
<1>5. StageInv'
  BY <1>1, <1>4 DEF StageInv, PatchCode, Walks
<1>6. EpochInv' /\ CalledExactlyOnce'
  BY DEF EpochInv, CalledExactlyOnce, LaunchInv, PatchCode
<1> QED
  BY <1>2, <1>3, <1>4, <1>5, <1>6 DEF LaunchInv

\* So it is with a sysmodule of a CXI file.
LEMMA LoadCxiCodeKeeps ==
    ASSUME LaunchInv, NEW t \in Titles, LoadCxiCode(t)
    PROVE  LaunchInv'
<1>1. ~calling /\ ~cut /\ cursor = Null
  BY NoCallback DEF LaunchInv, LoadCxiCode, Walks
<1>2. OrderInv' /\ ListsAreSound'
  BY ListsKept DEF LaunchInv, LoadCxiCode
<1>3. TypeOK'
  BY DEF LaunchInv, TypeOK, LoadCxiCode, lists
<1>4. AheadInv' /\ BehindInv'
  BY <1>1, BetweenWalks DEF LoadCxiCode, Walks
<1>5. StageInv'
  BY <1>1 DEF StageInv, LoadCxiCode, Walks
<1>6. EpochInv' /\ CalledExactlyOnce'
  BY DEF EpochInv, CalledExactlyOnce, LaunchInv, LoadCxiCode
<1> QED
  BY <1>2, <1>3, <1>4, <1>5, <1>6 DEF LaunchInv

\* The prepare walk begins, unless the context is of another title.
LEMMA PreCreateCodeSetKeeps ==
    ASSUME LaunchInv, PreCreateCodeSet
    PROVE  LaunchInv'
<1>1. ~calling /\ ~cut /\ cursor = Null
  BY NoCallback DEF LaunchInv, PreCreateCodeSet, Walks
<1>2. OrderInv' /\ ListsAreSound'
  BY ListsKept DEF LaunchInv, PreCreateCodeSet
<1>3. TypeOK'
  BY DEF LaunchInv, TypeOK, PreCreateCodeSet, lists, Walks
<1>4. called' \subseteq Regs \X {"home"} /\ accepted' = {}
  BY DEF LaunchInv, StageInv, Began, PreCreateCodeSet
<1>5. AheadInv' /\ BehindInv' /\ (cursor' # Null => ListOf[cursor'] = Registry(stage'))
  <2>1. CASE stage' = "codeset" /\ cursor' = cursor
    BY <1>1, <2>1, BetweenWalks DEF Walks
  <2>2. CASE stage' = "prepare" /\ cursor' = first["title"]
    <3>1. \A q \in Regs : <<q, stage'>> \notin called'
      BY <1>4, <2>2
    <3> QED
      BY <1>1, <1>4, <2>2, <3>1, WalkBegins
         DEF PreCreateCodeSet, LaunchInv, Walks, Registry
  <2> QED
    BY <2>1, <2>2 DEF PreCreateCodeSet
<1>6. StageInv'
  BY <1>1, <1>4, <1>5 DEF StageInv, Began, PreCreateCodeSet, Walks
<1>7. EpochInv' /\ CalledExactlyOnce'
  BY <1>4 DEF EpochInv, CalledExactlyOnce, LaunchInv, PreCreateCodeSet
<1> QED
  BY <1>2, <1>3, <1>5, <1>6, <1>7 DEF LaunchInv

\* The walk of the created callbacks begins.
LEMMA PostCreateProcessKeeps ==
    ASSUME LaunchInv, NEW b \in BOOLEAN, PostCreateProcess(b)
    PROVE  LaunchInv'
<1>1. ~calling /\ ~cut /\ cursor = Null
  BY NoCallback DEF LaunchInv, PostCreateProcess, Walks
<1>2. OrderInv' /\ ListsAreSound'
  BY ListsKept DEF LaunchInv, PostCreateProcess
<1>3. TypeOK'
  BY DEF LaunchInv, TypeOK, PostCreateProcess, lists, Walks
<1>4. called' \subseteq Regs \X {"home", "prepare"}
  BY DEF LaunchInv, StageInv, Began, PostCreateProcess
<1>5. AheadInv' /\ BehindInv' /\ (cursor' # Null => ListOf[cursor'] = Registry(stage'))
  <2>1. CASE stage' \in {"panic", "session", "idle"} /\ cursor' = cursor
    BY <1>1, <2>1, BetweenWalks DEF Walks
  <2>2. CASE stage' = "created" /\ cursor' = first["title"]
    <3>1. \A q \in Regs : <<q, stage'>> \notin called'
      BY <1>4, <2>2
    <3> QED
      BY <1>1, <2>2, <3>1, WalkBegins DEF PostCreateProcess, LaunchInv, Walks, Registry
  <2> QED
    BY <2>1, <2>2 DEF PostCreateProcess
<1>6. StageInv'
  BY <1>1, <1>4, <1>5 DEF StageInv, Began, PostCreateProcess, Walks
<1>7. EpochInv' /\ CalledExactlyOnce'
  BY DEF EpochInv, CalledExactlyOnce, LaunchInv, PostCreateProcess
<1> QED
  BY <1>2, <1>3, <1>5, <1>6, <1>7 DEF LaunchInv

\* The walk of the finished callbacks begins.
LEMMA PlgldrCloseHandlerKeeps ==
    ASSUME LaunchInv, PlgldrCloseHandler
    PROVE  LaunchInv'
<1>1. ~calling /\ ~cut /\ cursor = Null
  BY NoCallback DEF LaunchInv, PlgldrCloseHandler, Walks
<1>2. OrderInv' /\ ListsAreSound'
  BY ListsKept DEF LaunchInv, PlgldrCloseHandler
<1>3. TypeOK'
  BY DEF LaunchInv, TypeOK, PlgldrCloseHandler, lists, launch, Walks
<1>4. called' \subseteq Regs \X {"home", "prepare", "created"}
  BY DEF LaunchInv, StageInv, Began, PlgldrCloseHandler
<1>5. AheadInv' /\ BehindInv' /\ (cursor' # Null => ListOf[cursor'] = Registry(stage'))
  <2>1. CASE stage' = "idle" /\ cursor' = cursor
    BY <1>1, <2>1, BetweenWalks DEF Walks
  <2>2. CASE stage' = "finished" /\ cursor' = first["title"]
    <3>1. \A q \in Regs : <<q, stage'>> \notin called'
      BY <1>4, <2>2
    <3> QED
      BY <1>1, <2>2, <3>1, WalkBegins DEF PlgldrCloseHandler, LaunchInv, Walks, Registry
  <2> QED
    BY <2>1, <2>2 DEF PlgldrCloseHandler
<1>6. StageInv'
  BY <1>1, <1>4, <1>5 DEF StageInv, Began, PlgldrCloseHandler, Walks
<1>7. EpochInv' /\ CalledExactlyOnce'
  BY DEF EpochInv, CalledExactlyOnce, LaunchInv, PlgldrCloseHandler, launch
<1> QED
  BY <1>2, <1>3, <1>5, <1>6, <1>7 DEF LaunchInv

\* At its end a walk has missed nothing.
LEMMA WalkEndsKeeps ==
    ASSUME LaunchInv, WalkEnds
    PROVE  LaunchInv'
<1>1. ~calling' /\ ~cut' /\ cursor' = Null /\ stage \in Walks /\ cursor = Null
  BY DEF WalkEnds
<1>2. OrderInv' /\ ListsAreSound'
  BY ListsKept DEF LaunchInv, WalkEnds
<1>3. stage' \in {"coded", "codeset", "session", "idle"}
  BY DEF WalkEnds, Walks
<1>4. TypeOK'
  BY <1>3 DEF LaunchInv, TypeOK, WalkEnds, lists
<1>5. AheadInv' /\ BehindInv'
  BY <1>1, <1>3, BetweenWalks DEF Walks
<1>6. StageInv'
  BY <1>1, <1>3 DEF LaunchInv, StageInv, Began, WalkEnds, Walks
<1>7. EpochInv'
  BY DEF EpochInv, LaunchInv, WalkEnds
<1>8. CalledExactlyOnce'
  <2>1. ~cut => Missed(stage) = {}
    BY <1>1 DEF LaunchInv, BehindInv
  <2> QED
    BY <2>1 DEF LaunchInv, CalledExactlyOnce, WalkEnds
<1> QED
  BY <1>2, <1>4, <1>5, <1>6, <1>7, <1>8 DEF LaunchInv

-----------------------------------------------------------------------------
(* The steps of a walk *)

\* The link of the node a walk stands on.  A node that is no member any more has
\* a cleared one.
LEMMA LinkOfCursor ==
    ASSUME LaunchInv, NEW c \in Regs, NEW d, d = next[c]
    PROVE  /\ d \in Regs \cup {Null}
           /\ d # Null =>
                  /\ c \in Members(ListOf[c]) /\ Earlier(c, d)
                  /\ d \in Members(ListOf[d]) /\ ListOf[d] = ListOf[c]
                  /\ \A q \in Regs : Earlier(d, q) => Earlier(c, q)
           /\ \A q \in Regs : Earlier(c, q) => d # Null /\ (q = d \/ Earlier(d, q))
           /\ ~Earlier(c, c)
<1>0. ListOf[c] \in Lists
  BY ListAssumption DEF Lists
<1>1. OrderInv /\ ListsAreSound /\ d \in Regs \cup {Null}
  BY DEF LaunchInv, TypeOK
<1>2. CASE c \in Members(ListOf[c])
  BY <1>0, <1>1, <1>2, LinkIsNext, EarlierPlaces
<1>3. CASE c \notin Members(ListOf[c])
  <2>1. d = Null
    BY <1>1, <1>3 DEF OrderInv
  <2>2. \A q \in Regs : ~Earlier(c, q)
    BY <1>0, <1>1, <1>3, EarlierPlaces
  <2> QED
    BY <1>1, <2>1, <2>2
<1> QED
  BY <1>2, <1>3

\* A walk that moves on leaves nothing behind but what need not be called.
LEMMA WalkMoves ==
    ASSUME LaunchInv, UNCHANGED <<lists, stage, cut>>, cursor # Null,
           cursor' = next[cursor], ~calling', called' = called,
           stage = "prepare" => accepted' \subseteq accepted \cup {cursor},
           Missed(stage)' \subseteq Missed(stage), ~cut => cursor \notin Missed(stage)'
    PROVE  /\ OrderInv' /\ ListsAreSound' /\ AheadInv' /\ BehindInv'
           /\ cursor' \in Regs \cup {Null}
           /\ cursor' # Null => ListOf[cursor'] = Registry(stage')
<1>1. PICK c \in Regs : c = cursor
  BY DEF LaunchInv, TypeOK
<1>2. PICK d : d = next[c]
  OBVIOUS
<1>3. /\ d \in Regs \cup {Null}
      /\ d # Null =>
             /\ c \in Members(ListOf[c]) /\ Earlier(c, d)
             /\ d \in Members(ListOf[d]) /\ ListOf[d] = ListOf[c]
             /\ \A q \in Regs : Earlier(d, q) => Earlier(c, q)
      /\ \A q \in Regs : Earlier(c, q) => d # Null /\ (q = d \/ Earlier(d, q))
      /\ ~Earlier(c, c)
  BY <1>2, LinkOfCursor
<1>4. cursor' = d /\ OrderInv /\ ListsAreSound
  BY <1>1, <1>2 DEF LaunchInv
<1>5. /\ OrderInv' /\ ListsAreSound'
      /\ \A l \in Lists : Members(l)' = Members(l)
      /\ \A a, b \in Regs : Earlier(a, b)' <=> Earlier(a, b)
  BY <1>4, ListsKept
<1>6. \A r \in Regs : ListOf[r] \in Lists
  BY ListAssumption DEF Lists
<1>7. \A q \in Regs : Earlier(c, q) =>
          /\ <<q, stage>> \notin called
          /\ stage = "prepare" => q \notin accepted
  BY <1>1 DEF LaunchInv, AheadInv
<1>8. AheadInv'
  <2> SUFFICES ASSUME d # Null
               PROVE  /\ d \in Members(ListOf[d])'
                      /\ <<d, stage>> \notin called
                      /\ \A q \in Regs : Earlier(d, q)' => <<q, stage>> \notin called
                      /\ stage = "prepare" =>
                             /\ d \notin accepted'
                             /\ \A q \in Regs : Earlier(d, q)' => q \notin accepted'
    BY <1>4 DEF AheadInv, Earlier
  <2>1. d \in Regs /\ d \in Members(ListOf[d])' /\ <<d, stage>> \notin called
    BY <1>3, <1>5, <1>6, <1>7
  <2>2. \A q \in Regs : Earlier(d, q)' => Earlier(c, q) /\ q # c
    BY <1>3, <1>5, <2>1
  <2>3. d # c
    BY <1>3
  <2> QED
    BY <1>1, <1>3, <1>7, <2>1, <2>2, <2>3
<1>9. BehindInv'
  <2> SUFFICES ASSUME stage \in Walks, ~cut, NEW q \in Missed(stage)'
               PROVE  d # Null /\ (q = d \/ Earlier(d, q)')
    BY <1>4 DEF BehindInv, Earlier
  <2>1. q \in Regs /\ q # c /\ q \in Missed(stage)
    BY <1>1 DEF Missed
  <2>2. Earlier(c, q)
    BY <1>1, <2>1 DEF LaunchInv, BehindInv
  <2> QED
    BY <1>3, <1>5, <2>1, <2>2
<1>10. cursor' # Null => ListOf[cursor'] = Registry(stage')
  BY <1>1, <1>3, <1>4 DEF LaunchInv, StageInv
<1> QED
  BY <1>3, <1>4, <1>5, <1>8, <1>9, <1>10

\* A node whose callback is not run has no part in the walk.
LEMMA VisitWithoutCallKeeps ==
    ASSUME LaunchInv, VisitWithoutCall
    PROVE  LaunchInv'
<1>1. /\ stage \in Walks /\ ~calling /\ cursor # Null /\ ~Calls(cursor)
      /\ UNCHANGED <<lists, launch, stage, calling, cut, called, repeated, skipped>>
      /\ cursor' = next[cursor]
  BY DEF VisitWithoutCall, Following
<1>2. cursor \in Regs
  BY <1>1 DEF LaunchInv, TypeOK
<1>3. accepted' \subseteq accepted \cup {cursor}
      /\ (stage # "prepare" => accepted' = accepted)
  BY DEF VisitWithoutCall
<1>4. cursor \notin Missed(stage)'
  <2>1. stage # "prepare" => (cursor \in accepted' => menuEpoch[cursor] = epoch)
    BY <1>3 DEF LaunchInv, EpochInv
  <2> QED
    BY <1>1, <2>1 DEF Missed, Calls, launch, Walks
<1>5. Missed(stage)' \subseteq Missed(stage)
  BY <1>1, <1>3 DEF Missed, Members, lists, launch, Walks
<1>6. /\ OrderInv' /\ ListsAreSound' /\ AheadInv' /\ BehindInv'
      /\ cursor' \in Regs \cup {Null}
      /\ cursor' # Null => ListOf[cursor'] = Registry(stage')
  BY <1>1, <1>3, <1>4, <1>5, WalkMoves
<1>7. /\ menuEpoch' \in [Regs -> 0 .. EpochLimit - 1]
      /\ stage # "prepare" => menuEpoch' = menuEpoch
      /\ \A r \in Regs : r # cursor => menuEpoch'[r] = menuEpoch[r]
      /\ cursor \in accepted' => menuEpoch'[cursor] = epoch
  <2>1. stage = "prepare" => cursor \notin accepted
    BY <1>1 DEF LaunchInv, AheadInv
  <2>2. EpochLimit \in Nat /\ EpochLimit > 1
    BY EpochAssumption
  <2>3. menuEpoch \in [Regs -> 0 .. EpochLimit - 1] /\ epoch \in 0 .. EpochLimit - 1
    BY DEF LaunchInv, TypeOK
  <2>4. CASE stage = "prepare" /\ context.title \in TitlesOf[cursor]
    BY <1>2, <2>3, <2>4 DEF VisitWithoutCall
  <2>5. CASE stage = "prepare" /\ context.title \notin TitlesOf[cursor]
    BY <1>2, <2>1, <2>2, <2>3, <2>5 DEF VisitWithoutCall
  <2>6. CASE stage # "prepare"
    BY <1>2, <1>3, <2>3, <2>6 DEF VisitWithoutCall, LaunchInv, EpochInv
  <2> QED
    BY <2>4, <2>5, <2>6
<1>8. TypeOK'
  BY <1>1, <1>6, <1>7 DEF LaunchInv, TypeOK, lists, launch
<1>9. StageInv'
  BY <1>1, <1>3, <1>6 DEF LaunchInv, StageInv, Began, VisitWithoutCall, Walks
<1>10. EpochInv'
  BY <1>1, <1>2, <1>3, <1>7 DEF LaunchInv, EpochInv, launch
<1>11. CalledExactlyOnce'
  BY <1>1 DEF LaunchInv, CalledExactlyOnce
<1> QED
  BY <1>6, <1>8, <1>9, <1>10, <1>11 DEF LaunchInv

\* A callback is run that has not been run in this launch.
LEMMA VisitCallKeeps ==
    ASSUME LaunchInv, VisitCall
    PROVE  LaunchInv'
<1>1. /\ stage \in Walks /\ ~calling /\ cursor # Null /\ calling' = TRUE
      /\ UNCHANGED <<lists, menuEpoch, launch, stage, cursor, cut, accepted, skipped>>
      /\ called' = called \cup {<<cursor, stage>>}
      /\ repeated' = repeated \cup (called \cap {<<cursor, stage>>})
  BY DEF VisitCall
<1>2. PICK c \in Regs : c = cursor
  BY <1>1 DEF LaunchInv, TypeOK
<1>3. OrderInv /\ ListsAreSound
  BY DEF LaunchInv
<1>4. /\ OrderInv' /\ ListsAreSound'
      /\ \A l \in Lists : Members(l)' = Members(l)
      /\ \A a, b \in Regs : Earlier(a, b)' <=> Earlier(a, b)
  BY <1>1, <1>3, ListsKept
<1>5. ~Earlier(c, c) /\ ListOf[c] \in Lists
  <2>1. PICK d : d = next[c]
    OBVIOUS
  <2> QED
    BY <2>1, LinkOfCursor, ListAssumption DEF Lists
<1>6. /\ c \in Members(ListOf[c]) /\ <<c, stage>> \notin called
      /\ \A q \in Regs : Earlier(c, q) =>
             /\ <<q, stage>> \notin called
             /\ stage = "prepare" => q \notin accepted
      /\ stage = "prepare" => c \notin accepted
  BY <1>1, <1>2 DEF LaunchInv, AheadInv
<1>7. AheadInv'
  <2> SUFFICES /\ c \in Members(ListOf[c])'
               /\ \A q \in Regs : Earlier(c, q)' =>
                      /\ <<q, stage>> \notin called'
                      /\ stage = "prepare" => q \notin accepted
               /\ stage = "prepare" => c \notin accepted
    BY <1>1, <1>2 DEF AheadInv, Earlier
  <2> QED
    BY <1>1, <1>2, <1>4, <1>5, <1>6
<1>8. BehindInv'
  <2> SUFFICES ASSUME ~cut, NEW q \in Missed(stage)'
               PROVE  Earlier(c, q)'
    BY <1>1, <1>2 DEF BehindInv, Earlier
  <2>1. q \in Regs /\ q # c /\ q \in Missed(stage)
    BY <1>1, <1>2 DEF Missed, Members, lists, launch
  <2>2. Earlier(c, q)
    BY <1>1, <1>2, <2>1 DEF LaunchInv, BehindInv
  <2> QED
    BY <1>4, <2>1, <2>2
<1>9. TypeOK'
  BY <1>1 DEF LaunchInv, TypeOK, lists, launch
<1>10. StageInv'
  <2>1. stage \in Began
    BY <1>1 DEF Began, Walks
  <2>2. Began' = Began
    BY <1>1 DEF Began
  <2> QED
    BY <1>1, <1>2, <2>1, <2>2 DEF LaunchInv, StageInv
<1>11. EpochInv'
  BY <1>1 DEF LaunchInv, EpochInv, launch
<1>12. CalledExactlyOnce'
  BY <1>1, <1>2, <1>6 DEF LaunchInv, CalledExactlyOnce
<1> QED
  BY <1>4, <1>7, <1>8, <1>9, <1>10, <1>11, <1>12 DEF LaunchInv

\* The walk goes on from a node that its callback may have unlinked.
LEMMA CallbackReturnsKeeps ==
    ASSUME LaunchInv, NEW b \in BOOLEAN, CallbackReturns(b)
    PROVE  LaunchInv'
<1>1. /\ calling /\ calling' = FALSE
      /\ UNCHANGED <<lists, launch, stage, cut, called, repeated, skipped>>
      /\ cursor' = next[cursor]
  BY DEF CallbackReturns, Following
<1>2. stage \in Walks /\ cursor # Null /\ cursor \in Regs
  BY <1>1 DEF LaunchInv, TypeOK, StageInv
<1>3. accepted' \subseteq accepted \cup {cursor}
      /\ (stage # "prepare" => accepted' = accepted)
  BY DEF CallbackReturns
<1>4. Missed(stage)' \subseteq Missed(stage)
  BY <1>1, <1>2, <1>3 DEF Missed, Members, lists, launch, Walks
<1>5. ~cut => cursor \notin Missed(stage)'
  <2>1. PICK c \in Regs : c = cursor
    BY <1>2
  <2>2. PICK d : d = next[c]
    OBVIOUS
  <2>3. ~Earlier(c, c)
    BY <2>2, LinkOfCursor
  <2> QED
    BY <1>1, <1>2, <1>4, <2>1, <2>3 DEF LaunchInv, BehindInv
<1>6. /\ OrderInv' /\ ListsAreSound' /\ AheadInv' /\ BehindInv'
      /\ cursor' \in Regs \cup {Null}
      /\ cursor' # Null => ListOf[cursor'] = Registry(stage')
  BY <1>1, <1>2, <1>3, <1>4, <1>5, WalkMoves
<1>7. /\ menuEpoch' \in [Regs -> 0 .. EpochLimit - 1]
      /\ stage # "prepare" => menuEpoch' = menuEpoch
      /\ \A r \in Regs : r # cursor => menuEpoch'[r] = menuEpoch[r]
      /\ cursor \in accepted' => menuEpoch'[cursor] = epoch
  <2>1. stage = "prepare" => cursor \notin accepted
    BY <1>2 DEF LaunchInv, AheadInv
  <2>2. EpochLimit \in Nat /\ EpochLimit > 1
    BY EpochAssumption
  <2>3. menuEpoch \in [Regs -> 0 .. EpochLimit - 1] /\ epoch \in 0 .. EpochLimit - 1
    BY DEF LaunchInv, TypeOK
  <2>4. CASE stage = "prepare" /\ b
    BY <1>2, <2>3, <2>4 DEF CallbackReturns
  <2>5. CASE stage = "prepare" /\ ~b
    BY <1>2, <2>1, <2>2, <2>3, <2>5 DEF CallbackReturns
  <2>6. CASE stage # "prepare"
    BY <1>2, <1>3, <2>3, <2>6 DEF CallbackReturns, LaunchInv, EpochInv
  <2> QED
    BY <2>4, <2>5, <2>6
<1>8. TypeOK'
  BY <1>1, <1>6, <1>7 DEF LaunchInv, TypeOK, lists, launch
<1>9. StageInv'
  BY <1>1, <1>2, <1>3, <1>6 DEF LaunchInv, StageInv, Began, Walks
<1>10. EpochInv'
  BY <1>1, <1>2, <1>3, <1>7 DEF LaunchInv, EpochInv, launch
<1>11. CalledExactlyOnce'
  BY <1>1 DEF LaunchInv, CalledExactlyOnce
<1> QED
  BY <1>6, <1>8, <1>9, <1>10, <1>11 DEF LaunchInv

-----------------------------------------------------------------------------
(* Calls of the API, between launches and in callbacks *)

\* A call is made while no walk is under way, or by the callback of the node on
\* which the walk stands.
LEMMA CallerStands ==
    ASSUME LaunchInv, MayCall
    PROVE  \/ stage \notin Walks /\ cursor = Null /\ ~cut
           \/ stage \in Walks /\ calling /\ cursor \in Regs /\ cursor # Null
              /\ ListOf[cursor] = Registry(stage)
  BY NoCallback DEF LaunchInv, MayCall, StageInv, TypeOK, Walks

\* A registration that is new comes after everything the walk has still to do.
LEMMA RegisterKeeps ==
    ASSUME LaunchInv, NEW r \in Regs, Register(r)
    PROVE  LaunchInv'
<1>1. PICK l \in Lists : l = ListOf[r]
  BY ListAssumption DEF Lists
<1>2. /\ OrderInv' /\ ListsAreSound' /\ r \notin Members(l)
      /\ \A m \in Lists : Members(m)' = IF m = l THEN Members(m) \cup {r} ELSE Members(m)
      /\ \A a, b \in Regs :
             Earlier(a, b)' <=> Earlier(a, b) \/ (b = r /\ a \in Members(l))
  BY <1>1, RegisterAppends DEF LaunchInv
<1>3. /\ UNCHANGED <<launch, stage, cursor, calling, cut, repeated, skipped>>
      /\ called' = {x \in called : x[1] # r} /\ accepted' = accepted \ {r}
      /\ MayCall
  BY DEF Register
<1>4. \/ stage \notin Walks /\ cursor = Null /\ ~cut
      \/ stage \in Walks /\ calling /\ cursor \in Regs /\ cursor # Null
         /\ ListOf[cursor] = Registry(stage)
  BY <1>3, CallerStands
<1>5. \A w : <<r, w>> \notin called'
  BY <1>3
<1>6. called' \subseteq called /\ accepted' \subseteq accepted /\ r \notin accepted'
  BY <1>3
<1>7. TypeOK'
  <2>1. first' \in [{"title", "home"} -> Regs \cup {Null}]
        /\ last' \in [{"title", "home"} -> Regs \cup {Null}]
    BY DEF Register, LaunchInv, TypeOK
  <2>2. next' \in [Regs -> Regs \cup {Null}]
    BY DEF Register, LaunchInv, TypeOK
  <2>3. menuEpoch' \in [Regs -> 0 .. EpochLimit - 1]
    BY EpochAssumption DEF Register, LaunchInv, TypeOK
  <2> QED
    BY <1>3, <2>1, <2>2, <2>3 DEF LaunchInv, TypeOK, launch
<1>8. StageInv'
  BY <1>3, <1>6 DEF LaunchInv, StageInv, Began
<1>9. EpochInv'
  BY <1>3, <1>6 DEF Register, LaunchInv, TypeOK, EpochInv, launch
<1>10. ASSUME NEW c \in Regs, c = cursor
       PROVE  AheadInv' /\ BehindInv'
  <2>1. PICK m \in Lists : m = ListOf[c] /\ m = Registry(stage)
    BY <1>4, <1>10, RegsAssumption, ListAssumption DEF Lists
  <2>2. stage \in Walks /\ calling /\ cursor' = c /\ c # Null
    BY <1>3, <1>4, <1>10, RegsAssumption
  <2>3. AheadInv'
    <3> SUFFICES /\ c \in Members(m)' \/ cut
                 /\ \A q \in Regs : Earlier(c, q)' =>
                        /\ <<q, stage>> \notin called'
                        /\ stage = "prepare" => q \notin accepted'
                 /\ stage = "prepare" => c \notin accepted'
      BY <1>3, <2>1, <2>2 DEF AheadInv, Earlier
    <3> QED
      BY <1>2, <1>5, <1>6, <1>10, <2>1, <2>2 DEF LaunchInv, AheadInv
  <2>4. BehindInv'
    <3> SUFFICES ASSUME ~cut, NEW q \in Missed(stage)'
                 PROVE  Earlier(c, q)'
      BY <1>3, <2>2 DEF BehindInv, Earlier
    <3>1. q \in Regs /\ q \in Members(m)'
      BY <1>3, <2>1 DEF Missed
    <3>2. c \in Members(m)
      BY <1>10, <2>1, <2>2 DEF LaunchInv, AheadInv
    <3>3. CASE q = r
      <4>1. m = l
        BY <1>1, <1>2, <2>1, <3>1, <3>3, PlaceOf DEF LaunchInv
      <4> QED
        BY <1>2, <3>1, <3>2, <3>3, <4>1
    <3>4. CASE q # r
      <4>1. q \in Missed(stage)
        <5>1. q \in Members(Registry(stage))
          BY <1>2, <2>1, <3>1, <3>4
        <5>2. \A w : <<q, w>> \in called => <<q, w>> \in called'
          BY <1>3, <3>4
        <5> QED
          BY <1>3, <1>6, <3>1, <5>1, <5>2 DEF Missed, launch
      <4>2. Earlier(c, q)
        BY <1>10, <2>2, <4>1 DEF LaunchInv, BehindInv
      <4> QED
        BY <1>2, <3>1, <4>2
    <3> QED
      BY <3>3, <3>4
  <2> QED
    BY <2>3, <2>4
<1>11. AheadInv' /\ BehindInv'
  <2>1. CASE stage \notin Walks /\ cursor = Null
    BY <1>3, <2>1, BetweenWalks
  <2>2. CASE cursor \in Regs
    BY <1>10, <2>2
  <2> QED
    BY <1>4, <2>1, <2>2
<1>12. CalledExactlyOnce'
  BY <1>3 DEF LaunchInv, CalledExactlyOnce
<1> QED
  BY <1>2, <1>7, <1>8, <1>9, <1>11, <1>12 DEF LaunchInv

\* Unlinking takes a node from either side of the walk, or cuts the walk.
LEMMA UnregisterKeeps ==
    ASSUME LaunchInv, NEW r \in Regs, Unregister(r)
    PROVE  LaunchInv'
<1>1. PICK l \in Lists : l = ListOf[r]
  BY ListAssumption DEF Lists
<1>2. /\ OrderInv' /\ ListsAreSound'
      /\ \A m \in Lists : Members(m)' = Members(m) \ {r}
      /\ \A a, b \in Regs : Earlier(a, b)' <=> Earlier(a, b) /\ a # r /\ b # r
  BY UnregisterRemoves DEF LaunchInv
<1>3. /\ UNCHANGED <<launch, stage, cursor, calling, called, repeated, skipped>>
      /\ accepted' = accepted \ {r} /\ cut' = (cut \/ (calling /\ r = cursor))
      /\ MayCall
  BY DEF Unregister
<1>4. \/ stage \notin Walks /\ cursor = Null /\ ~cut
      \/ stage \in Walks /\ calling /\ cursor \in Regs /\ cursor # Null
         /\ ListOf[cursor] = Registry(stage)
  BY <1>3, CallerStands
<1>5. accepted' \subseteq accepted /\ r \notin accepted'
  BY <1>3
<1>6. TypeOK'
  <2>1. /\ next' \in [Regs -> Regs \cup {Null}]
        /\ menuEpoch' \in [Regs -> 0 .. EpochLimit - 1]
    BY EpochAssumption DEF Unregister, LaunchInv, TypeOK
  <2>2. ASSUME NEW m \in Lists
        PROVE  first'[m] \in Regs \cup {Null} /\ last'[m] \in Regs \cup {Null}
    <3>1. /\ order'[m] \in Seq(Regs)
          /\ order'[m] # <<>> => 1 \in DOMAIN order'[m]
                                 /\ Len(order'[m]) \in DOMAIN order'[m]
      BY <1>2 DEF OrderInv
    <3>2. /\ first'[m] = IF order'[m] = <<>> THEN Null ELSE order'[m][1]
          /\ last'[m] = IF order'[m] = <<>> THEN Null ELSE order'[m][Len(order'[m])]
      BY <1>2 DEF ListsAreSound, Lists
    <3> QED
      BY <3>1, <3>2
  <2>3. /\ first' = [m \in Lists |-> first'[m]] /\ last' = [m \in Lists |-> last'[m]]
    <3>1. PICK x : first' = first \/ first' = [first EXCEPT ![l] = x]
      BY <1>1 DEF Unregister
    <3>2. PICK y : last' = last \/ last' = [last EXCEPT ![l] = y]
      BY <1>1 DEF Unregister, TailWithout
    <3>3. first = [m \in Lists |-> first[m]] /\ last = [m \in Lists |-> last[m]]
      BY DEF LaunchInv, TypeOK, Lists
    <3>4. first' = [m \in Lists |-> first'[m]]
      BY <3>1, <3>3
    <3>5. last' = [m \in Lists |-> last'[m]]
      BY <3>2, <3>3
    <3> QED
      BY <3>4, <3>5
  <2>4. /\ first' \in [{"title", "home"} -> Regs \cup {Null}]
        /\ last' \in [{"title", "home"} -> Regs \cup {Null}]
    BY <2>2, <2>3 DEF Lists
  <2> QED
    BY <1>3, <2>1, <2>4 DEF LaunchInv, TypeOK, launch
<1>7. StageInv'
  BY <1>3, <1>4, <1>5 DEF LaunchInv, StageInv, Began
<1>8. EpochInv'
  BY <1>3, <1>5 DEF Unregister, LaunchInv, TypeOK, EpochInv, launch
<1>9. ASSUME NEW c \in Regs, c = cursor
      PROVE  AheadInv' /\ BehindInv'
  <2>1. PICK m \in Lists : m = ListOf[c] /\ m = Registry(stage)
    BY <1>4, <1>9, RegsAssumption, ListAssumption DEF Lists
  <2>2. stage \in Walks /\ calling /\ cursor' = c /\ c # Null
    BY <1>3, <1>4, <1>9, RegsAssumption
  <2>3. AheadInv'
    <3> SUFFICES /\ c \in Members(m)' \/ cut'
                 /\ \A q \in Regs : Earlier(c, q)' =>
                        /\ <<q, stage>> \notin called
                        /\ stage = "prepare" => q \notin accepted'
                 /\ stage = "prepare" => c \notin accepted'
      BY <1>3, <2>1, <2>2 DEF AheadInv, Earlier
    <3> QED
      BY <1>2, <1>3, <1>5, <1>9, <2>1, <2>2 DEF LaunchInv, AheadInv
  <2>4. BehindInv'
    <3> SUFFICES ASSUME ~cut', NEW q \in Missed(stage)'
                 PROVE  Earlier(c, q)'
      BY <1>3, <2>2 DEF BehindInv, Earlier
    <3>1. ~cut /\ r # c
      BY <1>3, <1>9, <2>2
    <3>2. q \in Regs /\ q # r /\ q \in Missed(stage)
      BY <1>2, <1>3, <1>5, <2>1 DEF Missed, launch
    <3>3. Earlier(c, q)
      BY <1>9, <2>2, <3>1, <3>2 DEF LaunchInv, BehindInv
    <3> QED
      BY <1>2, <3>1, <3>2, <3>3
  <2> QED
    BY <2>3, <2>4
<1>10. AheadInv' /\ BehindInv'
  <2>1. CASE stage \notin Walks /\ cursor = Null
    BY <1>3, <2>1, BetweenWalks
  <2>2. CASE cursor \in Regs
    BY <1>9, <2>2
  <2> QED
    BY <1>4, <2>1, <2>2
<1>11. CalledExactlyOnce'
  BY <1>3 DEF LaunchInv, CalledExactlyOnce
<1> QED
  BY <1>2, <1>6, <1>7, <1>8, <1>10, <1>11 DEF LaunchInv

-----------------------------------------------------------------------------
(* The specification keeps it *)

LEMMA LaunchInit == Init => LaunchInv
<1> SUFFICES ASSUME Init PROVE LaunchInv
  OBVIOUS
<1> USE RegsAssumption, TitleAssumption, EpochAssumption
<1>1. TypeOK
  <2>1. 0 \in 0 .. EpochLimit - 1 /\ FirstEpoch \in 0 .. EpochLimit - 1
    OBVIOUS
  <2>2. context \in [title : Titles \cup {Null}, codeSet : BOOLEAN,
                     process : Titles \cup {Null}]
    BY DEF Init, NoContext
  <2> QED
    BY <2>1, <2>2 DEF Init, TypeOK
<1>2. /\ \A l \in Lists : order[l] = <<>> /\ Members(l) = {}
      /\ \A r \in Regs : next[r] = Null
      /\ order \in [Lists -> Seq(Regs)]
  BY DEF Init, Members, Lists
<1>3. OrderInv /\ ListsAreSound
  BY <1>2 DEF Init, OrderInv, ListsAreSound, Lists
<1>4. StageInv /\ EpochInv /\ AheadInv /\ BehindInv /\ CalledExactlyOnce
  BY DEF Init, StageInv, EpochInv, AheadInv, BehindInv, CalledExactlyOnce, Walks
<1> QED
  BY <1>1, <1>3, <1>4 DEF LaunchInv

LEMMA LaunchNext == LaunchInv /\ [Next]_vars => LaunchInv'
<1> SUFFICES ASSUME LaunchInv, [Next]_vars PROVE LaunchInv'
  OBVIOUS
<1>1. CASE Begin
  BY <1>1, PatchCodeKeeps, LoadCxiCodeKeeps DEF Begin
<1>2. CASE Proceed
  BY <1>2, PreCreateCodeSetKeeps, VisitWithoutCallKeeps, VisitCallKeeps,
     WalkEndsKeeps, PlgldrCloseHandlerKeeps, CallbackReturnsKeeps,
     PostCreateProcessKeeps DEF Proceed
<1>3. CASE \E r \in Regs : Register(r) \/ Unregister(r)
  BY <1>3, RegisterKeeps, UnregisterKeeps
<1>4. CASE UNCHANGED vars
  <2>1. UNCHANGED <<lists, menuEpoch, launch, stage, cursor, calling, cut, accepted,
                    called, repeated, skipped>>
    BY <1>4 DEF vars
  <2>2. OrderInv' /\ ListsAreSound'
    BY <2>1, ListsKept DEF LaunchInv
  <2>3. TypeOK'
    BY <2>1 DEF LaunchInv, TypeOK, lists, launch
  <2>4. StageInv'
    BY <2>1 DEF LaunchInv, StageInv, Began, lists, launch
  <2>5. EpochInv' /\ CalledExactlyOnce'
    BY <2>1 DEF LaunchInv, EpochInv, CalledExactlyOnce, lists, launch
  <2>6. AheadInv' /\ BehindInv'
    BY <2>1 DEF LaunchInv, AheadInv, BehindInv, Missed, Members, Earlier, lists, launch
  <2> QED
    BY <2>2, <2>3, <2>4, <2>5, <2>6 DEF LaunchInv
<1> QED
  BY <1>1, <1>2, <1>3, <1>4 DEF Next

\* However the registries change under a walk, the walk is at a place in them
\* (menu_loader.c, the dispatcher as a whole).
THEOREM LaunchInvariant == Spec => []LaunchInv
<1> QED
  BY LaunchInit, LaunchNext, PTL DEF Spec

\* Every variable of the dispatcher keeps its type; the epoch never reaches the
\* width of its word (PLUGIN_MENU_PatchCode).
THEOREM TypeCorrect == Spec => []TypeOK
<1>1. LaunchInv => TypeOK
  BY DEF LaunchInv
<1> QED
  BY <1>1, LaunchInvariant, PTL

\* The links of both registries string together exactly their members, and the
\* tail pointers are right (the four register and unregister functions).
THEOREM ListsSound == Spec => []ListsAreSound
<1>1. LaunchInv => ListsAreSound
  BY DEF LaunchInv
<1> QED
  BY <1>1, LaunchInvariant, PTL

\* A walk runs no callback twice and leaves none out that has a part in the
\* launch, unless a callback unlinked the node under the walk (the four walks).
THEOREM EachCalledOnce == Spec => []CalledExactlyOnce
<1>1. LaunchInv => CalledExactlyOnce
  BY DEF LaunchInv
<1> QED
  BY <1>1, LaunchInvariant, PTL

-----------------------------------------------------------------------------
(* No result of an earlier launch is used *)

\* The epoch of the k-th launch that goes through patchCode.
EpochAt(k) ==
    IF FirstEpoch + k < EpochLimit THEN FirstEpoch + k
                                   ELSE FirstEpoch + k - EpochLimit + 1

\* Every epoch in use is that of a launch of this behaviour, or its first one.
UsedInv ==
    \E k \in 0 .. launches :
        /\ epoch = EpochAt(k)
        /\ \A r \in Regs : menuEpoch[r] = 0 \/ \E i \in 0 .. k : menuEpoch[r] = EpochAt(i)

\* A launch that went through patchCode is under way.
Patched == stage \notin {"idle", "panic"} /\ launching \notin CxiTitles

\* It has an epoch that only its own prepare walk gives out, and the context.
PatchedInv ==
    Patched =>
        /\ epoch # 0 /\ \A r \in Regs : menuEpoch[r] = epoch => r \in accepted
        /\ valid /\ context.title = launching
        /\ context.codeSet = (stage \in {"prepare", "codeset"})
        /\ context.process = IF stage \in {"created", "session", "finished"}
                               THEN launching ELSE Null

\* Only title patches are ever given an epoch.
HomeInv == \A r \in Regs : ListOf[r] = "home" => menuEpoch[r] = 0

FreshInv == launches \in 0 .. MaxLaunches /\ UsedInv /\ HomeInv /\ PatchedInv

\* Fewer launches than epochs get an epoch each.
LEMMA EpochsDiffer ==
    ASSUME MaxLaunches + 1 < EpochLimit, NEW k \in 0 .. MaxLaunches - 1
    PROVE  /\ EpochAt(k + 1) # 0
           /\ (IF EpochAt(k) + 1 = EpochLimit THEN 1 ELSE EpochAt(k) + 1) = EpochAt(k + 1)
           /\ \A i \in 0 .. k : EpochAt(i) # EpochAt(k + 1)
  BY EpochAssumption, BoundAssumption DEF EpochAt

\* A step within a launch may clear epochs, keep them, and give out this
\* launch's where it accepts.
LEMMA StepsKeepFresh ==
    ASSUME FreshInv, UNCHANGED <<launch, stage>>,
           \A r \in Regs :
               \/ menuEpoch'[r] = 0
               \/ menuEpoch'[r] = epoch /\ ListOf[r] = "title" /\ r \in accepted'
               \/ menuEpoch'[r] = menuEpoch[r] /\ (r \in accepted => r \in accepted')
    PROVE  FreshInv'
<1>1. UsedInv'
  <2>1. PICK k \in 0 .. launches :
            /\ epoch = EpochAt(k)
            /\ \A q \in Regs :
                   menuEpoch[q] = 0 \/ \E i \in 0 .. k : menuEpoch[q] = EpochAt(i)
    BY DEF FreshInv, UsedInv
  <2>2. launches \in Nat /\ k \in 0 .. k
    BY BoundAssumption DEF FreshInv
  <2>3. ASSUME NEW q \in Regs
        PROVE  menuEpoch'[q] = 0 \/ \E i \in 0 .. k : menuEpoch'[q] = EpochAt(i)
    BY <2>1, <2>2
  <2> QED
    BY <2>1, <2>3 DEF UsedInv, launch
<1>2. HomeInv'
  BY DEF FreshInv, HomeInv
<1>3. PatchedInv'
  BY DEF FreshInv, PatchedInv, Patched, launch
<1> QED
  BY <1>1, <1>2, <1>3 DEF FreshInv, launch

\* Steps that give out no epoch and begin no launch.
LEMMA OthersKeepFresh ==
    ASSUME FreshInv, UNCHANGED <<menuEpoch, epoch, launches>>, PatchedInv'
    PROVE  FreshInv'
  BY DEF FreshInv, UsedInv, HomeInv

\* A new launch has a new epoch.
LEMMA PatchCodeIsFresh ==
    ASSUME MaxLaunches + 1 < EpochLimit, LaunchInv, FreshInv,
           NEW t \in Titles, PatchCode(t)
    PROVE  FreshInv'
<1>1. PICK k \in 0 .. launches :
          /\ epoch = EpochAt(k)
          /\ \A q \in Regs :
                 menuEpoch[q] = 0 \/ \E i \in 0 .. k : menuEpoch[q] = EpochAt(i)
  BY DEF FreshInv, UsedInv
<1>2. launches \in Nat /\ MaxLaunches \in Nat /\ launches < MaxLaunches
      /\ launches' = launches + 1
  BY BoundAssumption DEF FreshInv, PatchCode
<1>3. k \in 0 .. MaxLaunches - 1 /\ k + 1 \in 0 .. launches' /\ launches' \in 0 .. MaxLaunches
      /\ \A i \in 0 .. k : i \in 0 .. k + 1
  BY <1>2
<1>4. /\ epoch' = EpochAt(k + 1) /\ EpochAt(k + 1) # 0
      /\ \A i \in 0 .. k : EpochAt(i) # EpochAt(k + 1)
  BY <1>1, <1>3, EpochsDiffer DEF PatchCode, NextEpoch
<1>5. UNCHANGED menuEpoch
  BY DEF PatchCode
<1>6. UsedInv'
  BY <1>1, <1>3, <1>4, <1>5 DEF UsedInv
<1>7. \A r \in Regs : menuEpoch'[r] # epoch'
  BY <1>1, <1>4, <1>5
<1>8. /\ context' = [title |-> t, codeSet |-> FALSE, process |-> Null]
      /\ valid' = TRUE /\ launching' = t /\ stage' \in {"coded", "home"}
  BY DEF PatchCode, NoContext
<1>9. /\ (context.title)' = t /\ (context.process)' = Null
      /\ (context.codeSet)' = (stage' \in {"prepare", "codeset"})
      /\ stage' \notin {"created", "session", "finished"}
  <2>1. context'.title = t /\ context'.process = Null /\ context'.codeSet = FALSE
    BY <1>8
  <2>2. (stage' \in {"prepare", "codeset"}) = FALSE
    BY <1>8
  <2>3. stage' \notin {"created", "session", "finished"}
    BY <1>8
  <2> QED
    BY <2>1, <2>2, <2>3
<1>10. PatchedInv'
  <2>1. epoch' # 0
    BY <1>4
  <2>2. \A r \in Regs : menuEpoch'[r] = epoch' => r \in accepted'
    BY <1>7
  <2> QED
    BY <1>8, <1>9, <2>1, <2>2 DEF PatchedInv
<1> QED
  BY <1>3, <1>5, <1>6, <1>10 DEF FreshInv, HomeInv

\* A sysmodule of a CXI file leaves the epoch as it is.
LEMMA LoadCxiCodeIsFresh ==
    ASSUME FreshInv, NEW t \in Titles, LoadCxiCode(t)
    PROVE  FreshInv'
<1>1. launches \in Nat /\ MaxLaunches \in Nat /\ launches < MaxLaunches
      /\ launches' = launches + 1
  BY BoundAssumption DEF FreshInv, LoadCxiCode
<1>2. launches' \in 0 .. MaxLaunches /\ \A k \in 0 .. launches : k \in 0 .. launches'
  BY <1>1
<1>3. UNCHANGED <<epoch, menuEpoch>> /\ launching' = t /\ t \in CxiTitles
  BY DEF LoadCxiCode
<1>4. UsedInv'
  BY <1>2, <1>3 DEF FreshInv, UsedInv
<1> QED
  BY <1>2, <1>3, <1>4 DEF FreshInv, HomeInv, PatchedInv, Patched

LEMMA FreshNext ==
    ASSUME MaxLaunches + 1 < EpochLimit, LaunchInv, FreshInv, [Next]_vars
    PROVE  FreshInv'
<1>1. CASE Begin
  BY <1>1, PatchCodeIsFresh, LoadCxiCodeIsFresh DEF Begin
<1>2. CASE PreCreateCodeSet
  <2>1. PatchedInv'
    BY <1>2 DEF FreshInv, LaunchInv, TypeOK, PatchedInv, Patched, PreCreateCodeSet
  <2> QED
    BY <1>2, <2>1, OthersKeepFresh DEF PreCreateCodeSet
<1>3. CASE VisitWithoutCall
  <2>1. /\ UNCHANGED <<launch, stage>> /\ accepted \subseteq accepted'
        /\ \A r \in Regs : r # cursor => menuEpoch'[r] = menuEpoch[r]
    BY <1>3 DEF VisitWithoutCall, LaunchInv, TypeOK
  <2>2. \/ menuEpoch'[cursor] \in {0, menuEpoch[cursor]}
        \/ /\ menuEpoch'[cursor] = epoch /\ cursor \in accepted'
           /\ stage = "prepare" /\ ListOf[cursor] = "title"
    BY <1>3 DEF VisitWithoutCall, LaunchInv, TypeOK, StageInv, Registry
  <2> QED
    BY <2>1, <2>2, StepsKeepFresh
<1>4. CASE VisitCall
  <2>1. PatchedInv'
    BY <1>4 DEF FreshInv, PatchedInv, Patched, VisitCall, launch
  <2> QED
    BY <1>4, <2>1, OthersKeepFresh DEF VisitCall, launch
<1>5. CASE WalkEnds
  <2>1. PatchedInv'
    BY <1>5 DEF FreshInv, PatchedInv, Patched, WalkEnds, Walks
  <2> QED
    BY <1>5, <2>1, OthersKeepFresh DEF WalkEnds
<1>6. CASE PlgldrCloseHandler
  <2>1. PatchedInv'
    BY <1>6 DEF FreshInv, PatchedInv, Patched, PlgldrCloseHandler, launch
  <2> QED
    BY <1>6, <2>1, OthersKeepFresh DEF PlgldrCloseHandler, launch
<1>7. ASSUME NEW b \in BOOLEAN, CallbackReturns(b) PROVE FreshInv'
  <2>1. /\ UNCHANGED <<launch, stage>> /\ accepted \subseteq accepted'
        /\ \A r \in Regs : r # cursor => menuEpoch'[r] = menuEpoch[r]
    BY <1>7 DEF CallbackReturns, LaunchInv, TypeOK
  <2>2. cursor \in Regs /\ ListOf[cursor] = Registry(stage)
    BY <1>7 DEF CallbackReturns, LaunchInv, TypeOK, StageInv
  <2>3. \/ menuEpoch'[cursor] \in {0, menuEpoch[cursor]}
        \/ menuEpoch'[cursor] = epoch /\ cursor \in accepted' /\ stage = "prepare"
    BY <1>7, <2>2 DEF CallbackReturns, LaunchInv, TypeOK
  <2> QED
    BY <2>1, <2>2, <2>3, StepsKeepFresh DEF Registry
<1>8. ASSUME NEW b \in BOOLEAN, PostCreateProcess(b) PROVE FreshInv'
  <2>1. PatchedInv'
    <3>1. Patched' => Patched /\ valid /\ stage' = "created" /\ b
      BY <1>8 DEF Patched, PostCreateProcess, FreshInv, PatchedInv
    <3>2. ASSUME Patched'
          PROVE  /\ (context.title)' = launching' /\ (context.process)' = launching'
                 /\ (context.codeSet)' = (stage' \in {"prepare", "codeset"})
      <4>1. context' = [context EXCEPT !.codeSet = FALSE, !.process = launching]
        BY <1>8, <3>1, <3>2 DEF PostCreateProcess
      <4>2. context.title = launching /\ launching' = launching
        BY <1>8, <3>1, <3>2 DEF PostCreateProcess, FreshInv, PatchedInv
      <4>3. /\ context'.title = launching /\ context'.process = launching
            /\ context'.codeSet = FALSE
        BY <4>1, <4>2 DEF LaunchInv, TypeOK
      <4>4. (stage' \in {"prepare", "codeset"}) = FALSE
        BY <3>1, <3>2
      <4> QED
        BY <4>2, <4>3, <4>4
    <3>3. UNCHANGED <<epoch, menuEpoch, accepted, valid, launching>>
      BY <1>8 DEF PostCreateProcess
    <3> QED
      BY <3>1, <3>2, <3>3 DEF FreshInv, PatchedInv
  <2> QED
    BY <1>8, <2>1, OthersKeepFresh DEF PostCreateProcess
<1>9. ASSUME NEW r \in Regs, Register(r) \/ Unregister(r) PROVE FreshInv'
  <2>1. /\ UNCHANGED <<launch, stage>> /\ accepted' = accepted \ {r}
        /\ menuEpoch' = IF ListOf[r] = "title" THEN [menuEpoch EXCEPT ![r] = 0]
                                               ELSE menuEpoch
    BY <1>9 DEF Register, Unregister
  <2>2. menuEpoch'[r] = 0 /\ \A q \in Regs : q # r => menuEpoch'[q] = menuEpoch[q]
    BY <2>1, ListAssumption DEF FreshInv, HomeInv, LaunchInv, TypeOK
  <2> QED
    BY <2>1, <2>2, StepsKeepFresh
<1>10. CASE UNCHANGED vars
  <2>1. PatchedInv'
    BY <1>10 DEF FreshInv, PatchedInv, Patched, vars, launch
  <2> QED
    BY <1>10, <2>1, OthersKeepFresh DEF vars, launch
<1> QED
  BY <1>1, <1>2, <1>3, <1>4, <1>5, <1>6, <1>7, <1>8, <1>9, <1>10 DEF Next, Proceed

LEMMA FreshInit == ASSUME Init PROVE FreshInv
<1>1. 0 \in 0 .. launches /\ launches = 0 /\ launches \in 0 .. MaxLaunches
  BY BoundAssumption DEF Init
<1>2. epoch = EpochAt(0) /\ \A r \in Regs : menuEpoch[r] = 0
  BY EpochAssumption DEF Init, EpochAt
<1>3. UsedInv
  BY <1>1, <1>2 DEF UsedInv
<1>4. HomeInv /\ PatchedInv
  BY <1>2 DEF Init, HomeInv, PatchedInv, Patched
<1> QED
  BY <1>1, <1>3, <1>4 DEF FreshInv

\* A callback that is run has what it may rely on.
LEMMA FreshCalls ==
    ASSUME LaunchInv, FreshInv, [Next]_vars, ~calling, calling', launching \notin CxiTitles
    PROVE  SeesThisLaunch
<1>1. VisitCall
  BY DEF Next, Begin, Proceed, PatchCode, LoadCxiCode, PreCreateCodeSet,
         VisitWithoutCall, WalkEnds, PlgldrCloseHandler, CallbackReturns,
         PostCreateProcess, Register, Unregister, vars
<1>2. Patched /\ cursor \in Regs
  BY <1>1 DEF VisitCall, Patched, Walks, LaunchInv, TypeOK
<1>3. PatchedInv
  BY DEF FreshInv
<1>4. stage \in {"created", "finished"} => menuEpoch[cursor] = epoch
  BY <1>1 DEF VisitCall, Calls
<1>5. stage # "codeset" /\ stage \in Walks
  BY <1>1 DEF VisitCall, Walks
<1> QED
  BY <1>2, <1>3, <1>4, <1>5 DEF PatchedInv, SeesThisLaunch, Walks

\* Unless the epochs have come round, every callback of a launch through
\* patchCode finds that launch's context, and only those accepted in it are run
\* after prepare (PLUGIN_MENU_PatchCode to PLUGIN_MENU_PlgldrCloseHandler).
THEOREM PatchedLaunchesFresh ==
    ASSUME MaxLaunches + 1 < EpochLimit
    PROVE  Spec => PatchedLaunchesSeeThemselves
<1>1. Init => FreshInv
  BY FreshInit
<1>2. LaunchInv /\ FreshInv /\ [Next]_vars => FreshInv'
  BY FreshNext
<1>3. LaunchInv /\ FreshInv /\ [Next]_vars =>
          [~calling /\ calling' /\ launching \notin CxiTitles => SeesThisLaunch]_vars
  BY FreshCalls
<1> QED
  BY <1>1, <1>2, <1>3, LaunchInvariant, PTL DEF Spec, PatchedLaunchesSeeThemselves
=============================================================================
