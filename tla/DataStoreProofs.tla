-------------------------- MODULE DataStoreProofs --------------------------
(***************************************************************************)
(* What the data store keeps, for every set of plugins, every payload and  *)
(* file size, and every number of saves, crashes and failing calls.        *)
(*                                                                         *)
(* RecordsKept speaks of the moments between calls.  The invariant says    *)
(* what the state file, the old table and the part of the temporary file   *)
(* that is written so far have to do with each other at each step of a     *)
(* save.  It rests on lemmas about the layout: blocks of a file that       *)
(* validates do not overlap, so that a payload written in place touches    *)
(* one record, and a record added to a rebuilt file leaves those before it *)
(* as they are.                                                            *)
(***************************************************************************)
EXTENDS DataStore, NaturalsInduction, WellFoundedInduction, SequenceTheorems, TLAPS

\* What a cell of a file may hold.
Cell ==
    {Junk} \cup {Count(n) : n \in Nat} \cup {Id(id) : id \in Ids}
    \cup {Entry(id, offset, size) : id \in Ids, offset \in Nat, size \in Nat}
    \cup UNION {{<<"data", data[k]>> : k \in 1 .. Len(data)} : data \in Payloads}

Jobs == [id : Ids, data : Payloads]
Builds == [finalSize : Nat, tableIndex : Nat, dataOffset : Nat, targetWritten : BOOLEAN]

-----------------------------------------------------------------------------
(* The invariant *)

\* The payload of an entry's block.
PayloadOf(f, e) == SubSeq(f, OffsetOf(e) + 2, EndOf(e))

\* A file holds what a plugin last saved successfully, and nothing of it else.
Kept(f, id) ==
    IF stored[id] = None THEN FindDataEntry(f, id) = {} ELSE Loads(f, id, stored[id])

\* The first k records of a file of count records are laid out as
\* ValidateDataFile asks, and end at offset end.
Blocks(f, count, k, end) ==
    /\ k <= count /\ TableEnd(count) <= end /\ end <= Len(f)
    /\ f[1] = Count(count)
    /\ end = IF k = 0 THEN TableEnd(count) ELSE EndOf(f[k + 1])
    /\ \A j \in 1 .. k :
          /\ f[j + 1][1] = "entry"
          /\ TableEnd(count) <= OffsetOf(f[j + 1]) /\ EndOf(f[j + 1]) <= end
          /\ OffsetOf(f[j + 1]) = IF j = 1 THEN TableEnd(count) ELSE EndOf(f[j])
          /\ j > 1 => IdOf(f[j]) < IdOf(f[j + 1])
          /\ f[OffsetOf(f[j + 1]) + 1] = Id(IdOf(f[j + 1]))

\* One of the first k records is of this id and holds these cells.
HasRecord(f, k, id, cells) ==
    \E j \in 1 .. k :
        /\ IdOf(f[j + 1]) = id
        /\ SizeOf(f[j + 1]) = Len(cells)
        /\ PayloadOf(f, f[j + 1]) = cells

\* The rebuild f, as far as b tells, before the old record a is looked at: it
\* holds the old records before a and the new one if that is written, in
\* ascending order, and nothing else.  What the sums promised may not be so
\* before LastRecord has checked it.
Rebuilt(f, b, a) ==
    (b.tableIndex <= NewCount /\ b.dataOffset <= b.finalSize) =>
        /\ Blocks(f, NewCount, b.tableIndex, b.dataOffset)
        /\ \A i \in 1 .. a - 1 : IdOf(old[i]) # job.id =>
               HasRecord(f, b.tableIndex, IdOf(old[i]), PayloadOf(state, old[i]))
        /\ b.targetWritten => HasRecord(f, b.tableIndex, job.id, Cells(job.data))
        /\ \A j \in 1 .. b.tableIndex :
               /\ \/ IdOf(f[j + 1]) = job.id
                  \/ \E i \in 1 .. a - 1 : IdOf(f[j + 1]) = IdOf(old[i])
               /\ \A i \in a .. Len(old) : IdOf(f[j + 1]) < IdOf(old[i])
               /\ ~b.targetWritten => IdOf(f[j + 1]) < job.id

ShapeInv ==
    /\ state \in Seq(Cell) /\ temp \in Seq(Cell)
    /\ built \in Builds
    /\ pc # "idle" => job \in Jobs

\* What plugins saved is in the state file, but for a record that is being
\* replaced, and while the whole file is.
KeptInv ==
    \A id \in Ids \ torn :
        \/ pc = "copy"
        \/ pc = "inPlace" /\ at > 0 /\ id = job.id
        \/ Kept(state, id)

SavedInv == pc \in {"idle", "drop"} /\ result = "saved" => Loads(state, job.id, job.data)

PlaceInv ==
    pc = "inPlace" =>
        /\ at <= Len(job.data)
        /\ \E e \in FindDataEntry(state, job.id) :
              /\ SizeOf(e) = Len(job.data)
              /\ \A k \in 1 .. at : state[OffsetOf(e) + 1 + k] = Cells(job.data)[k]

OldInv ==
    /\ pc = "scan" => ~misread
    /\ pc \in {"layout", "record"} => old = IF misread THEN <<>> ELSE Table(state)

RecordInv ==
    pc = "record" =>
        /\ at \in 1 .. Len(old) + 1
        /\ Len(temp) = built.finalSize /\ Len(old) < built.finalSize
        /\ Rebuilt(temp, built, at)

\* The file that is copied has the new record, and all others if the old file
\* could be read; the state file has a first part of it.
CopyInv ==
    /\ pc \in {"openState", "copy"} =>
           /\ Len(temp) = built.finalSize
           /\ Loads(temp, job.id, job.data)
           /\ ~misread => \A id \in Ids \ (torn \cup {job.id}) : Kept(temp, id)
    /\ pc = "copy" =>
           /\ Len(state) = built.finalSize /\ at <= built.finalSize
           /\ \A k \in 1 .. at : state[k] = temp[k]

DataInv ==
    /\ TypeOK /\ ShapeInv /\ KeptInv /\ SavedInv /\ PlaceInv /\ OldInv /\ RecordInv
    /\ CopyInv

-----------------------------------------------------------------------------
(* Cells and sequences of them *)

\* What the parts of an entry are.
LEMMA EntryParts ==
    ASSUME NEW id, NEW offset, NEW size
    PROVE  /\ IdOf(Entry(id, offset, size)) = id
           /\ OffsetOf(Entry(id, offset, size)) = offset
           /\ SizeOf(Entry(id, offset, size)) = size
           /\ EndOf(Entry(id, offset, size)) = offset + 1 + size
           /\ Entry(id, offset, size)[1] = "entry"
  BY DEF Entry, IdOf, OffsetOf, SizeOf, EndOf

\* An entry in a file names a plugin, a place and a size.
LEMMA EntryCell ==
    ASSUME NEW c \in Cell, c[1] = "entry"
    PROVE  /\ IdOf(c) \in Ids /\ IdOf(c) \in Nat
           /\ OffsetOf(c) \in Nat /\ SizeOf(c) \in Nat
           /\ EndOf(c) \in Nat /\ EndOf(c) = OffsetOf(c) + 1 + SizeOf(c)
<1>1. c # Junk
  BY DEF Junk
<1>2. \A n \in Nat : c # Count(n)
  BY DEF Count
<1>3. \A id \in Ids : c # Id(id)
  BY DEF Id
<1>4. c \notin UNION {{<<"data", data[k]>> : k \in 1 .. Len(data)} : data \in Payloads}
  OBVIOUS
<1>5. PICK id \in Ids, offset \in Nat, size \in Nat : c = Entry(id, offset, size)
  BY <1>1, <1>2, <1>3, <1>4 DEF Cell
<1> QED
  BY <1>5, EntryParts, IdAssumption

\* The record count of a file is a number.
LEMMA CountCell ==
    ASSUME NEW c \in Cell, c[1] = "count"
    PROVE  c[2] \in Nat /\ c = Count(c[2])
<1>1. c # Junk
  BY DEF Junk
<1>2. \A id \in Ids, offset \in Nat, size \in Nat : c # Entry(id, offset, size)
  BY DEF Entry
<1>3. \A id \in Ids : c # Id(id)
  BY DEF Id
<1>4. c \notin UNION {{<<"data", data[k]>> : k \in 1 .. Len(data)} : data \in Payloads}
  OBVIOUS
<1>5. PICK n \in Nat : c = Count(n)
  BY <1>1, <1>2, <1>3, <1>4 DEF Cell
<1> QED
  BY <1>5 DEF Count

\* The cells of a payload.
LEMMA CellsType ==
    ASSUME NEW data \in Payloads
    PROVE  /\ Cells(data) \in Seq(Cell) /\ Len(Cells(data)) = Len(data) /\ Len(data) \in Nat
<1>1. Len(data) \in Nat
  BY PayloadAssumption
<1>2. \A k \in 1 .. Len(data) : <<"data", data[k]>> \in Cell
  BY DEF Cell
<1> QED
  BY <1>1, <1>2 DEF Cells

\* The cells a save makes itself.
LEMMA MadeCells ==
    /\ Junk \in Cell
    /\ \A n \in Nat : Count(n) \in Cell
    /\ \A id \in Ids : Id(id) \in Cell
    /\ \A id \in Ids, offset \in Nat, size \in Nat : Entry(id, offset, size) \in Cell
  BY DEF Cell

\* A write leaves the length, and changes the cells it covers.
Overwritten(f, offset, cells, g) ==
    /\ g \in Seq(Cell) /\ Len(g) = Len(f)
    /\ \A k \in 1 .. Len(f) :
          g[k] = IF k - offset \in 1 .. Len(cells) THEN cells[k - offset] ELSE f[k]

LEMMA WriteCells ==
    ASSUME NEW f \in Seq(Cell), NEW cells \in Seq(Cell), NEW offset \in Nat
    PROVE  Overwritten(f, offset, cells, Write(f, offset, cells))
<1>1. Len(f) \in Nat /\ Len(cells) \in Nat
  OBVIOUS
<1>2. \A k \in 1 .. Len(f) :
          (IF k - offset \in 1 .. Len(cells) THEN cells[k - offset] ELSE f[k]) \in Cell
  OBVIOUS
<1> QED
  BY <1>1, <1>2 DEF Write, Overwritten

LEMMA ResizeCells ==
    ASSUME NEW f \in Seq(Cell), NEW size \in Nat
    PROVE  Resize(f, size) \in Seq(Cell) /\ Len(Resize(f, size)) = size
<1>1. \A k \in 1 .. size : (IF k <= Len(f) THEN f[k] ELSE Junk) \in Cell
  BY MadeCells
<1> QED
  BY <1>1 DEF Resize

\* Part of a file.
LEMMA PartCells ==
    ASSUME NEW f \in Seq(Cell), NEW m \in Nat, NEW n \in Nat, n <= Len(f), m <= n
    PROVE  /\ SubSeq(f, m + 1, n) \in Seq(Cell)
           /\ Len(SubSeq(f, m + 1, n)) = n - m
           /\ \A k \in 1 .. n - m : SubSeq(f, m + 1, n)[k] = f[m + k]
<1>1. \A i \in m + 1 .. n : f[i] \in Cell
  OBVIOUS
<1> QED
  BY <1>1, SubSeqProperties

\* The payload of a block that lies in the file.
LEMMA PayloadCells ==
    ASSUME NEW f \in Seq(Cell), NEW e \in Cell, e[1] = "entry", EndOf(e) <= Len(f)
    PROVE  /\ PayloadOf(f, e) \in Seq(Cell) /\ Len(PayloadOf(f, e)) = SizeOf(e)
           /\ \A k \in 1 .. SizeOf(e) : PayloadOf(f, e)[k] = f[OffsetOf(e) + 1 + k]
<1>1. /\ OffsetOf(e) \in Nat /\ SizeOf(e) \in Nat
      /\ EndOf(e) \in Nat /\ EndOf(e) = OffsetOf(e) + 1 + SizeOf(e)
  BY EntryCell
<1> DEFINE m == OffsetOf(e) + 1
<1>2. m \in Nat /\ m <= EndOf(e) /\ EndOf(e) - m = SizeOf(e) /\ OffsetOf(e) + 2 = m + 1
  BY <1>1
<1>3. /\ SubSeq(f, m + 1, EndOf(e)) \in Seq(Cell)
      /\ Len(SubSeq(f, m + 1, EndOf(e))) = EndOf(e) - m
      /\ \A k \in 1 .. EndOf(e) - m : SubSeq(f, m + 1, EndOf(e))[k] = f[m + k]
  <2> HIDE DEF m
  <2> QED
    BY <1>1, <1>2, PartCells
<1> QED
  BY <1>2, <1>3 DEF PayloadOf

-----------------------------------------------------------------------------
(* The layout of a file that validates *)

\* A set of numbers that is not empty has a least one.
LEMMA LeastExists ==
    ASSUME NEW T \in SUBSET Nat, T # {}
    PROVE  \E m \in T : \A n \in T : m <= n
<1> DEFINE R == OpToRel(<, Nat)
<1>1. IsWellFoundedOn(R, Nat)
  BY NatLessThanWellFounded
<1>2. \E x \in T : \A y \in T : ~ (<<y, x>> \in R)
  <2> HIDE DEF R
  <2> QED
    BY <1>1, WFMin
<1>3. \A x, y \in Nat : ~ (<<y, x>> \in R) => x <= y
  BY DEF OpToRel
<1> QED
  BY <1>2, <1>3

\* Numbers of which each is less than the next ascend throughout.
LEMMA Ascends ==
    ASSUME NEW n \in Nat, NEW x \in [1 .. n -> Nat],
           \A i \in 1 .. n : i > 1 => x[i - 1] < x[i]
    PROVE  \A i, j \in 1 .. n : i < j => x[i] < x[j]
<1> SUFFICES ASSUME NEW i \in 1 .. n, NEW j \in 1 .. n, i < j, ~(x[i] < x[j])
             PROVE  FALSE
  OBVIOUS
<1> DEFINE T == {k \in 1 .. n : i < k /\ ~(x[i] < x[k])}
<1>1. T \in SUBSET Nat /\ j \in T
  OBVIOUS
<1>2. PICK m \in T : \A k \in T : m <= k
  BY <1>1, LeastExists
<1>3. CASE m = i + 1
  BY <1>2, <1>3
<1>4. CASE m # i + 1
  <2>1. m - 1 \in 1 .. n /\ i < m - 1 /\ m - 1 \notin T
    BY <1>2, <1>4
  <2>2. x[i] < x[m - 1] /\ x[m - 1] < x[m]
    BY <1>2, <2>1
  <2> QED
    BY <1>2, <2>1, <2>2
<1> QED
  BY <1>3, <1>4

\* Blocks of a file that validates follow each other, in the order of the ids.
LEMMA ValidLayout ==
    ASSUME NEW f \in Seq(Cell), ValidateDataFile(f)
    PROVE  /\ CountOf(f) \in Nat /\ TableEnd(CountOf(f)) \in Nat /\ f[1] = Count(CountOf(f))
           /\ \A i \in 1 .. CountOf(f) :
                 /\ f[i + 1] \in Cell /\ f[i + 1][1] = "entry"
                 /\ TableEnd(CountOf(f)) <= OffsetOf(f[i + 1])
           /\ \A i, j \in 1 .. CountOf(f) : i < j =>
                 /\ IdOf(f[i + 1]) < IdOf(f[j + 1])
                 /\ EndOf(f[i + 1]) <= OffsetOf(f[j + 1])
<1> DEFINE n == CountOf(f)
<1>1. /\ Len(f) \in Nat /\ Len(f) >= 1 /\ f[1][1] = "count" /\ TableEnd(n) <= Len(f)
      /\ \A i \in 1 .. n :
            /\ f[i + 1][1] = "entry"
            /\ OffsetOf(f[i + 1]) = IF i = 1 THEN TableEnd(n) ELSE EndOf(f[i])
            /\ i > 1 => IdOf(f[i]) < IdOf(f[i + 1])
            /\ EndOf(f[i + 1]) <= Len(f)
            /\ f[OffsetOf(f[i + 1]) + 1] = Id(IdOf(f[i + 1]))
  BY DEF ValidateDataFile
<1>2. f[1] \in Cell
  BY <1>1
<1>3. n \in Nat /\ f[1] = Count(n)
  BY <1>1, <1>2, CountCell DEF CountOf
<1>4. TableEnd(n) \in Nat /\ TableEnd(n) = 1 + n
  BY <1>3 DEF TableEnd
<1> HIDE DEF n
<1>5. \A i \in 1 .. n : f[i + 1] \in Cell
  BY <1>1, <1>3, <1>4
<1>6. \A i \in 1 .. n : /\ IdOf(f[i + 1]) \in Nat /\ OffsetOf(f[i + 1]) \in Nat
                        /\ SizeOf(f[i + 1]) \in Nat
                        /\ EndOf(f[i + 1]) = OffsetOf(f[i + 1]) + 1 + SizeOf(f[i + 1])
  BY <1>1, <1>5, EntryCell
<1>7. \A i, j \in 1 .. n : i < j => IdOf(f[i + 1]) < IdOf(f[j + 1])
  <2> DEFINE x == [i \in 1 .. n |-> IdOf(f[i + 1])]
  <2>1. x \in [1 .. n -> Nat]
    BY <1>6
  <2>2. \A i \in 1 .. n : i > 1 => x[i - 1] < x[i]
    <3> SUFFICES ASSUME NEW i \in 1 .. n, i > 1
                 PROVE  x[i - 1] < x[i]
      OBVIOUS
    <3>1. i - 1 \in 1 .. n /\ (i - 1) + 1 = i
      BY <1>3
    <3> QED
      BY <1>1, <3>1
  <2>3. \A i \in 1 .. n : x[i] = IdOf(f[i + 1])
    OBVIOUS
  <2> HIDE DEF x
  <2> QED
    BY <1>3, <2>1, <2>2, <2>3, Ascends
<1>8. \A i, j \in 1 .. n : i < j => OffsetOf(f[i + 1]) < OffsetOf(f[j + 1])
  <2> DEFINE x == [i \in 1 .. n |-> OffsetOf(f[i + 1])]
  <2>1. x \in [1 .. n -> Nat]
    BY <1>6
  <2>2. \A i \in 1 .. n : i > 1 => x[i - 1] < x[i]
    <3> SUFFICES ASSUME NEW i \in 1 .. n, i > 1
                 PROVE  x[i - 1] < x[i]
      OBVIOUS
    <3>1. i - 1 \in 1 .. n /\ (i - 1) + 1 = i
      BY <1>3
    <3>2. OffsetOf(f[i + 1]) = EndOf(f[i])
      BY <1>1
    <3> QED
      BY <1>6, <3>1, <3>2
  <2>3. \A i \in 1 .. n : x[i] = OffsetOf(f[i + 1])
    OBVIOUS
  <2> HIDE DEF x
  <2> QED
    BY <1>3, <2>1, <2>2, <2>3, Ascends
<1>9. \A i, j \in 1 .. n : i < j => EndOf(f[i + 1]) <= OffsetOf(f[j + 1])
  <2> SUFFICES ASSUME NEW i \in 1 .. n, NEW j \in 1 .. n, i < j
               PROVE  EndOf(f[i + 1]) <= OffsetOf(f[j + 1])
    OBVIOUS
  <2>1. i + 1 \in 1 .. n /\ i + 1 # 1 /\ (i + 1 = j \/ i + 1 < j)
    BY <1>3
  <2>2. OffsetOf(f[(i + 1) + 1]) = EndOf(f[i + 1])
    BY <1>1, <2>1
  <2>3. OffsetOf(f[(i + 1) + 1]) <= OffsetOf(f[j + 1])
    <3>1. CASE i + 1 = j
      <4>1. OffsetOf(f[(i + 1) + 1]) = OffsetOf(f[j + 1])
        BY <3>1
      <4>2. OffsetOf(f[j + 1]) \in Nat
        BY <1>6
      <4> QED
        BY <4>1, <4>2
    <3>2. CASE i + 1 < j
      <4> DEFINE m == i + 1
      <4>1. m \in 1 .. n /\ m < j
        BY <2>1, <3>2
      <4> HIDE DEF m
      <4>2. OffsetOf(f[m + 1]) < OffsetOf(f[j + 1])
        BY <1>8, <4>1
      <4>3. OffsetOf(f[m + 1]) \in Nat /\ OffsetOf(f[j + 1]) \in Nat
        BY <1>6, <4>1
      <4>4. OffsetOf(f[m + 1]) <= OffsetOf(f[j + 1])
        BY <4>2, <4>3
      <4> QED
        BY <4>4 DEF m
    <3> QED
      BY <2>1, <3>1, <3>2
  <2> QED
    BY <2>2, <2>3
<1>10. \A i \in 1 .. n : TableEnd(n) <= OffsetOf(f[i + 1])
  <2> SUFFICES ASSUME NEW i \in 1 .. n
               PROVE  TableEnd(n) <= OffsetOf(f[i + 1])
    OBVIOUS
  <2>1. 1 \in 1 .. n /\ (i = 1 \/ 1 < i)
    BY <1>3
  <2>2. OffsetOf(f[1 + 1]) = TableEnd(n)
    BY <1>1, <2>1
  <2> QED
    BY <1>4, <1>6, <1>8, <2>1, <2>2
<1> QED
  BY <1>1, <1>3, <1>4, <1>5, <1>7, <1>9, <1>10 DEF n

\* The table, whether the file validates or not.
LEMMA TableFacts ==
    ASSUME NEW f \in Seq(Cell)
    PROVE  /\ Table(f) \in Seq(Cell) /\ Len(Table(f)) \in Nat
           /\ DOMAIN Table(f) = 1 .. Len(Table(f))
           /\ Len(Table(f)) = 0 \/ Len(Table(f)) < Len(f)
           /\ ValidateDataFile(f) => Len(Table(f)) = CountOf(f)
           /\ \A i \in 1 .. Len(Table(f)) :
                 /\ Table(f)[i] = f[i + 1] /\ Table(f)[i] \in Cell
                 /\ Table(f)[i][1] = "entry"
                 /\ TableEnd(Len(Table(f))) <= OffsetOf(Table(f)[i])
                 /\ EndOf(Table(f)[i]) <= Len(f)
           /\ \A i, j \in 1 .. Len(Table(f)) : i < j =>
                 /\ IdOf(Table(f)[i]) < IdOf(Table(f)[j])
                 /\ EndOf(Table(f)[i]) <= OffsetOf(Table(f)[j])
<1>1. CASE ValidateDataFile(f)
  <2> DEFINE n == CountOf(f)
  <2>1. /\ n \in Nat /\ TableEnd(n) = n + 1
        /\ \A i \in 1 .. n :
              /\ f[i + 1] \in Cell /\ f[i + 1][1] = "entry"
              /\ TableEnd(n) <= OffsetOf(f[i + 1])
        /\ \A i, j \in 1 .. n : i < j =>
              /\ IdOf(f[i + 1]) < IdOf(f[j + 1])
              /\ EndOf(f[i + 1]) <= OffsetOf(f[j + 1])
    BY <1>1, ValidLayout DEF TableEnd
  <2>2. /\ n + 1 <= Len(f) /\ Len(f) \in Nat
        /\ \A i \in 1 .. n : EndOf(f[i + 1]) <= Len(f)
    BY <1>1, <2>1 DEF ValidateDataFile
  <2>3. Table(f) = SubSeq(f, 1 + 1, n + 1)
    BY <1>1, <2>1 DEF Table
  <2> HIDE DEF n
  <2>4. /\ Table(f) \in Seq(Cell) /\ Len(Table(f)) = n
        /\ \A i \in 1 .. n : Table(f)[i] = f[1 + i]
    BY <2>1, <2>2, <2>3, PartCells
  <2>5. \A i \in 1 .. n : Table(f)[i] = f[i + 1]
    BY <2>1, <2>4
  <2>6. DOMAIN Table(f) = 1 .. n
    BY <2>4
  <2>7. Len(Table(f)) = CountOf(f)
    BY <2>4 DEF n
  <2>8. Len(Table(f)) < Len(f)
    BY <2>1, <2>2, <2>4
  <2>9. \A i \in 1 .. n :
            /\ Table(f)[i] = f[i + 1] /\ Table(f)[i] \in Cell
            /\ Table(f)[i][1] = "entry"
            /\ TableEnd(n) <= OffsetOf(Table(f)[i])
            /\ EndOf(Table(f)[i]) <= Len(f)
    BY <2>1, <2>2, <2>5
  <2>10. \A i, j \in 1 .. n : i < j =>
            /\ IdOf(Table(f)[i]) < IdOf(Table(f)[j])
            /\ EndOf(Table(f)[i]) <= OffsetOf(Table(f)[j])
    BY <2>1, <2>5
  <2> QED
    BY <2>1, <2>4, <2>6, <2>7, <2>8, <2>9, <2>10
<1>2. CASE ~ValidateDataFile(f)
  <2>1. Table(f) = <<>>
    BY <1>2 DEF Table
  <2> QED
    BY <1>2, <2>1
<1> QED
  BY <1>1, <1>2

\* A payload is the same in two files that agree on its cells.
LEMMA SamePayload ==
    ASSUME NEW f \in Seq(Cell), NEW g \in Seq(Cell), NEW e \in Cell, e[1] = "entry",
           EndOf(e) <= Len(f), EndOf(e) <= Len(g),
           \A k \in 1 .. SizeOf(e) : g[OffsetOf(e) + 1 + k] = f[OffsetOf(e) + 1 + k]
    PROVE  PayloadOf(g, e) = PayloadOf(f, e)
<1>1. /\ PayloadOf(f, e) \in Seq(Cell) /\ Len(PayloadOf(f, e)) = SizeOf(e)
      /\ \A k \in 1 .. SizeOf(e) : PayloadOf(f, e)[k] = f[OffsetOf(e) + 1 + k]
  BY PayloadCells
<1>2. /\ PayloadOf(g, e) \in Seq(Cell) /\ Len(PayloadOf(g, e)) = SizeOf(e)
      /\ \A k \in 1 .. SizeOf(e) : PayloadOf(g, e)[k] = g[OffsetOf(e) + 1 + k]
  BY PayloadCells
<1> QED
  BY <1>1, <1>2, SeqEqual

\* What is found of an id is one entry of the table.
LEMMA Found ==
    ASSUME NEW f \in Seq(Cell), NEW id
    PROVE  /\ \A e : e \in FindDataEntry(f, id) <=>
                  \E i \in 1 .. Len(Table(f)) : e = Table(f)[i] /\ IdOf(Table(f)[i]) = id
           /\ \A e \in FindDataEntry(f, id) :
                 /\ e \in Cell /\ e[1] = "entry" /\ IdOf(e) = id /\ EndOf(e) <= Len(f)
                 /\ ValidateDataFile(f)
           /\ \A e, d \in FindDataEntry(f, id) : e = d
<1>1. /\ Table(f) \in Seq(Cell) /\ Len(Table(f)) \in Nat
      /\ DOMAIN Table(f) = 1 .. Len(Table(f))
      /\ \A i \in 1 .. Len(Table(f)) :
            /\ Table(f)[i] \in Cell
            /\ Table(f)[i][1] = "entry"
            /\ EndOf(Table(f)[i]) <= Len(f)
      /\ \A i, j \in 1 .. Len(Table(f)) : i < j => IdOf(Table(f)[i]) < IdOf(Table(f)[j])
  BY TableFacts
<1>2. \A e : e \in FindDataEntry(f, id) <=>
          \E i \in 1 .. Len(Table(f)) : e = Table(f)[i] /\ IdOf(Table(f)[i]) = id
  BY <1>1 DEF FindDataEntry
<1>3. \A e \in FindDataEntry(f, id) : ValidateDataFile(f)
  BY <1>1, <1>2 DEF Table
<1>4. \A i, j \in 1 .. Len(Table(f)) : IdOf(Table(f)[i]) = IdOf(Table(f)[j]) => i = j
  <2>1. \A i \in 1 .. Len(Table(f)) : IdOf(Table(f)[i]) \in Nat
    BY <1>1, EntryCell
  <2> QED
    BY <1>1, <2>1
<1>5. \A e, d \in FindDataEntry(f, id) : e = d
  BY <1>2, <1>4
<1>6. \A e \in FindDataEntry(f, id) :
          e \in Cell /\ e[1] = "entry" /\ IdOf(e) = id /\ EndOf(e) <= Len(f)
  BY <1>1, <1>2
<1> QED
  BY <1>2, <1>3, <1>5, <1>6

\* What LoadData finds, by payloads.
LEMMA LoadsPayload ==
    ASSUME NEW f, NEW id, NEW data
    PROVE  Loads(f, id, data) <=>
               \E e \in FindDataEntry(f, id) :
                   SizeOf(e) = Len(data) /\ PayloadOf(f, e) = Cells(data)
  BY DEF Loads, PayloadOf

\* A file that agrees with one that validates in the table and in the id cells
\* validates too, with that table.
LEMMA SameTable ==
    ASSUME NEW f \in Seq(Cell), NEW g \in Seq(Cell), Len(g) = Len(f), ValidateDataFile(f),
           \A k \in 1 .. TableEnd(CountOf(f)) : g[k] = f[k],
           \A i \in 1 .. CountOf(f) : g[OffsetOf(f[i + 1]) + 1] = f[OffsetOf(f[i + 1]) + 1]
    PROVE  Table(g) = Table(f) /\ \A id : FindDataEntry(g, id) = FindDataEntry(f, id)
<1> DEFINE n == CountOf(f)
<1>1. /\ Len(f) \in Nat /\ Len(f) >= 1 /\ f[1][1] = "count" /\ TableEnd(n) <= Len(f)
      /\ \A i \in 1 .. n :
            /\ f[i + 1][1] = "entry"
            /\ OffsetOf(f[i + 1]) = IF i = 1 THEN TableEnd(n) ELSE EndOf(f[i])
            /\ i > 1 => IdOf(f[i]) < IdOf(f[i + 1])
            /\ EndOf(f[i + 1]) <= Len(f)
            /\ f[OffsetOf(f[i + 1]) + 1] = Id(IdOf(f[i + 1]))
      /\ Len(f) = IF n = 0 THEN 1 ELSE EndOf(f[n + 1])
  BY DEF ValidateDataFile
<1>2. n \in Nat /\ TableEnd(n) = n + 1
  BY ValidLayout DEF TableEnd
<1>3. CountOf(g) = n
  BY <1>2 DEF CountOf
<1> HIDE DEF n
<1>4. /\ \A k \in 1 .. n + 1 : g[k] = f[k]
      /\ \A i \in 1 .. n : g[OffsetOf(f[i + 1]) + 1] = f[OffsetOf(f[i + 1]) + 1]
  BY <1>2 DEF n
<1>5. \A i \in 1 .. n :
          /\ g[i + 1] = f[i + 1]
          /\ i > 1 => g[i] = f[i]
  BY <1>2, <1>4
<1>6. ValidateDataFile(g)
  <2>1. g[1] = f[1] /\ g[n + 1] = f[n + 1]
    BY <1>2, <1>4
  <2>2. \A i \in 1 .. n :
            /\ g[i + 1][1] = "entry"
            /\ OffsetOf(g[i + 1]) = IF i = 1 THEN TableEnd(n) ELSE EndOf(g[i])
            /\ i > 1 => IdOf(g[i]) < IdOf(g[i + 1])
            /\ EndOf(g[i + 1]) <= Len(g)
            /\ g[OffsetOf(g[i + 1]) + 1] = Id(IdOf(g[i + 1]))
    <3> SUFFICES ASSUME NEW i \in 1 .. n
                 PROVE  /\ g[i + 1][1] = "entry"
                        /\ OffsetOf(g[i + 1]) = IF i = 1 THEN TableEnd(n) ELSE EndOf(g[i])
                        /\ i > 1 => IdOf(g[i]) < IdOf(g[i + 1])
                        /\ EndOf(g[i + 1]) <= Len(g)
                        /\ g[OffsetOf(g[i + 1]) + 1] = Id(IdOf(g[i + 1]))
      OBVIOUS
    <3>1. g[i + 1] = f[i + 1] /\ (i > 1 => g[i] = f[i]) /\ (i = 1 \/ i > 1)
      BY <1>2, <1>5
    <3>2. g[OffsetOf(f[i + 1]) + 1] = f[OffsetOf(f[i + 1]) + 1]
      BY <1>4
    <3> QED
      BY <1>1, <3>1, <3>2
  <2> QED
    BY <1>1, <1>3, <2>1, <2>2 DEF ValidateDataFile
<1>7. Table(f) = SubSeq(f, 1 + 1, n + 1) /\ Table(g) = SubSeq(g, 1 + 1, n + 1)
  BY <1>2, <1>3, <1>6 DEF Table, n
<1>8. /\ SubSeq(f, 1 + 1, n + 1) \in Seq(Cell) /\ Len(SubSeq(f, 1 + 1, n + 1)) = n
      /\ \A i \in 1 .. n : SubSeq(f, 1 + 1, n + 1)[i] = f[1 + i]
  BY <1>1, <1>2, PartCells
<1>9. /\ SubSeq(g, 1 + 1, n + 1) \in Seq(Cell) /\ Len(SubSeq(g, 1 + 1, n + 1)) = n
      /\ \A i \in 1 .. n : SubSeq(g, 1 + 1, n + 1)[i] = g[1 + i]
  BY <1>1, <1>2, PartCells
<1>10. Table(g) = Table(f)
  <2>1. \A i \in 1 .. n : g[1 + i] = f[1 + i]
    BY <1>2, <1>4
  <2> QED
    BY <1>7, <1>8, <1>9, <2>1, SeqEqual
<1> QED
  BY <1>10 DEF FindDataEntry

\* A cell of a payload is overwritten: the table stays, and so does every other
\* record.
LEMMA InPlace ==
    ASSUME NEW f \in Seq(Cell), NEW id, NEW e \in FindDataEntry(f, id),
           NEW k \in Nat, k < SizeOf(e), NEW c \in Cell, NEW g,
           g = Write(f, OffsetOf(e) + 1 + k, <<c>>)
    PROVE  /\ g \in Seq(Cell) /\ Len(g) = Len(f)
           /\ g[OffsetOf(e) + 1 + (k + 1)] = c
           /\ \A p \in 1 .. Len(f) : p # OffsetOf(e) + 1 + (k + 1) => g[p] = f[p]
           /\ \A d : FindDataEntry(g, d) = FindDataEntry(f, d)
           /\ \A d, data : d # id => (Loads(g, d, data) <=> Loads(f, d, data))
<1> DEFINE q == OffsetOf(e) + 1 + (k + 1)
           T == Table(f)
<1>1. /\ e \in Cell /\ e[1] = "entry" /\ IdOf(e) = id /\ EndOf(e) <= Len(f)
      /\ ValidateDataFile(f)
      /\ \E i \in 1 .. Len(T) : e = T[i]
  BY Found
<1>2. PICK i \in 1 .. Len(T) : e = T[i]
  BY <1>1
<1>3. /\ Len(T) \in Nat /\ Len(T) = CountOf(f)
      /\ \A j \in 1 .. Len(T) :
            /\ T[j] = f[j + 1] /\ T[j] \in Cell /\ T[j][1] = "entry"
            /\ TableEnd(Len(T)) <= OffsetOf(T[j])
            /\ EndOf(T[j]) <= Len(f)
      /\ \A j, m \in 1 .. Len(T) : j < m =>
            /\ IdOf(T[j]) < IdOf(T[m])
            /\ EndOf(T[j]) <= OffsetOf(T[m])
  BY <1>1, TableFacts
<1>4. \A j \in 1 .. Len(T) :
          /\ IdOf(T[j]) \in Nat /\ OffsetOf(T[j]) \in Nat /\ SizeOf(T[j]) \in Nat
          /\ EndOf(T[j]) \in Nat /\ EndOf(T[j]) = OffsetOf(T[j]) + 1 + SizeOf(T[j])
  BY <1>3, EntryCell
<1> HIDE DEF T
<1>5. /\ q \in 1 .. Len(f) /\ q = OffsetOf(e) + 1 + (k + 1)
      /\ OffsetOf(e) \in Nat /\ OffsetOf(e) + 1 < q /\ q <= EndOf(e) /\ TableEnd(Len(T)) < q
  <2>1. /\ TableEnd(Len(T)) <= OffsetOf(e) /\ TableEnd(Len(T)) \in Nat
        /\ OffsetOf(e) \in Nat /\ SizeOf(e) \in Nat /\ EndOf(e) <= Len(f)
        /\ EndOf(e) = OffsetOf(e) + 1 + SizeOf(e) /\ Len(f) \in Nat
    BY <1>2, <1>3, <1>4 DEF TableEnd
  <2> QED
    BY <2>1
<1>6. /\ g \in Seq(Cell) /\ Len(g) = Len(f)
      /\ g[q] = c /\ \A p \in 1 .. Len(f) : p # q => g[p] = f[p]
  <2> DEFINE cells == <<c>>
             offset == OffsetOf(e) + 1 + k
  <2>1. cells \in Seq(Cell) /\ Len(cells) = 1 /\ cells[1] = c
    OBVIOUS
  <2>2. offset \in Nat /\ q = offset + 1 /\ g = Write(f, offset, cells)
    BY <1>5
  <2> HIDE DEF cells, offset
  <2>3. /\ g \in Seq(Cell) /\ Len(g) = Len(f)
        /\ \A p \in 1 .. Len(f) : g[p] =
               IF p - offset \in 1 .. Len(cells) THEN cells[p - offset] ELSE f[p]
    <3>1. Overwritten(f, offset, cells, Write(f, offset, cells))
      BY <2>1, <2>2, WriteCells
    <3> QED
      BY <2>2, <3>1 DEF Overwritten
  <2>4. \A p \in 1 .. Len(f) : p - offset \in 1 .. 1 <=> p = q
    BY <1>5, <2>2
  <2>5. q - offset = 1
    BY <1>5, <2>2
  <2> QED
    BY <1>5, <2>1, <2>3, <2>4, <2>5
<1> HIDE DEF q
<1>7. \A j \in 1 .. Len(T) : j # i => q <= OffsetOf(T[j]) \/ EndOf(T[j]) < q
  <2> SUFFICES ASSUME NEW j \in 1 .. Len(T), j # i
               PROVE  q <= OffsetOf(T[j]) \/ EndOf(T[j]) < q
    OBVIOUS
  <2>1. EndOf(T[j]) <= OffsetOf(e) \/ EndOf(e) <= OffsetOf(T[j])
    BY <1>2, <1>3
  <2>2. EndOf(T[j]) \in Nat /\ OffsetOf(T[j]) \in Nat /\ EndOf(e) \in Nat
    BY <1>2, <1>4
  <2> QED
    BY <1>5, <2>1, <2>2
<1>8. \A j \in 1 .. Len(T) : g[OffsetOf(T[j]) + 1] = f[OffsetOf(T[j]) + 1]
  <2> SUFFICES ASSUME NEW j \in 1 .. Len(T)
               PROVE  g[OffsetOf(T[j]) + 1] = f[OffsetOf(T[j]) + 1]
    OBVIOUS
  <2>1. OffsetOf(T[j]) + 1 # q
    <3>1. j = i \/ q <= OffsetOf(T[j]) \/ EndOf(T[j]) < q
      BY <1>7
    <3>2. OffsetOf(T[j]) \in Nat /\ EndOf(T[j]) \in Nat /\ OffsetOf(T[j]) < EndOf(T[j])
      BY <1>4
    <3> QED
      BY <1>2, <1>5, <3>1, <3>2
  <2>2. OffsetOf(T[j]) + 1 \in 1 .. Len(f)
    <3>1. /\ OffsetOf(T[j]) \in Nat /\ SizeOf(T[j]) \in Nat /\ EndOf(T[j]) <= Len(f)
          /\ EndOf(T[j]) = OffsetOf(T[j]) + 1 + SizeOf(T[j])
      BY <1>3, <1>4
    <3> QED
      BY <3>1
  <2> QED
    BY <1>6, <2>1, <2>2
<1>9. Table(g) = T /\ \A d : FindDataEntry(g, d) = FindDataEntry(f, d)
  <2>1. \A p \in 1 .. TableEnd(CountOf(f)) : g[p] = f[p]
    <3>1. TableEnd(CountOf(f)) <= Len(f) /\ TableEnd(CountOf(f)) = TableEnd(Len(T))
      BY <1>1, <1>3 DEF ValidateDataFile
    <3>2. TableEnd(Len(T)) \in Nat
      BY <1>3 DEF TableEnd
    <3>3. \A p \in 1 .. TableEnd(Len(T)) : p \in 1 .. Len(f) /\ p # q
      BY <1>5, <3>1, <3>2
    <3> QED
      BY <1>6, <3>1, <3>3
  <2>2. \A j \in 1 .. CountOf(f) : g[OffsetOf(f[j + 1]) + 1] = f[OffsetOf(f[j + 1]) + 1]
    BY <1>3, <1>8
  <2> QED
    BY <1>1, <1>6, <2>1, <2>2, SameTable DEF T
<1>10. \A d : d # id => \A x \in FindDataEntry(f, d) : PayloadOf(g, x) = PayloadOf(f, x)
  <2> SUFFICES ASSUME NEW d, d # id, NEW x \in FindDataEntry(f, d)
               PROVE  PayloadOf(g, x) = PayloadOf(f, x)
    OBVIOUS
  <2>1. \E j \in 1 .. Len(T) : x = T[j] /\ IdOf(T[j]) = d
    BY Found DEF T
  <2>2. PICK j \in 1 .. Len(T) : x = T[j] /\ IdOf(T[j]) = d
    BY <2>1
  <2>3. j # i
    BY <1>1, <1>2, <2>2
  <2>4. \A m \in 1 .. SizeOf(x) : g[OffsetOf(x) + 1 + m] = f[OffsetOf(x) + 1 + m]
    <3> SUFFICES ASSUME NEW m \in 1 .. SizeOf(x)
                 PROVE  g[OffsetOf(x) + 1 + m] = f[OffsetOf(x) + 1 + m]
      OBVIOUS
    <3>1. OffsetOf(x) + 1 + m \in 1 .. Len(f) /\ OffsetOf(x) + 1 + m # q
      <4>1. q <= OffsetOf(x) \/ EndOf(x) < q
        BY <1>7, <2>2, <2>3
      <4>2. /\ OffsetOf(x) \in Nat /\ SizeOf(x) \in Nat /\ EndOf(x) <= Len(f)
            /\ EndOf(x) = OffsetOf(x) + 1 + SizeOf(x) /\ Len(f) \in Nat
        BY <1>3, <1>4, <2>2
      <4>3. q \in Nat
        BY <1>5
      <4> QED
        BY <4>1, <4>2, <4>3
    <3> QED
      BY <1>6, <3>1
  <2>5. x \in Cell /\ x[1] = "entry" /\ EndOf(x) <= Len(f) /\ EndOf(x) <= Len(g)
    BY <1>3, <1>6, <2>2
  <2> QED
    BY <1>6, <2>4, <2>5, SamePayload
<1>11. \A d, data : d # id => (Loads(g, d, data) <=> Loads(f, d, data))
  BY <1>9, <1>10, LoadsPayload
<1> QED
  BY <1>5, <1>6, <1>9, <1>11

-----------------------------------------------------------------------------
(* Records put into a new file *)

\* The cells PLUGIN_MENU_WriteDataRecord writes.
LEMMA RecordCells ==
    ASSUME NEW f \in Seq(Cell), NEW b \in Builds, NEW id \in Ids, NEW cells \in Seq(Cell)
    PROVE  /\ Record(f, b, id, cells) \in Seq(Cell)
           /\ Len(Record(f, b, id, cells)) = Len(f)
           /\ \A p \in 1 .. Len(f) : Record(f, b, id, cells)[p] =
                  IF p = b.dataOffset + 1 THEN Id(id)
                  ELSE IF b.dataOffset + 1 < p /\ p <= b.dataOffset + 1 + Len(cells)
                         THEN cells[p - b.dataOffset - 1]
                  ELSE IF p = b.tableIndex + 2 THEN Entry(id, b.dataOffset, Len(cells))
                  ELSE f[p]
<1> DEFINE d == b.dataOffset
           k == b.tableIndex
           entry == Entry(id, d, Len(cells))
           row == <<entry>>
           block == <<Id(id)>> \o cells
           first == TableEnd(k)
           h == Write(f, first, row)
<1>1. d \in Nat /\ k \in Nat /\ Len(cells) \in Nat /\ Len(f) \in Nat /\ first = k + 1
  BY DEF Builds, TableEnd
<1>2. entry \in Cell /\ Id(id) \in Cell
  BY <1>1, MadeCells
<1>3. row \in Seq(Cell) /\ Len(row) = 1 /\ row[1] = entry
  BY <1>2
<1>4. /\ block \in Seq(Cell) /\ Len(block) = 1 + Len(cells)
      /\ \A i \in 1 .. 1 + Len(cells) : block[i] = IF i = 1 THEN Id(id) ELSE cells[i - 1]
  <2> DEFINE one == <<Id(id)>>
  <2>1. one \in Seq(Cell) /\ Len(one) = 1 /\ one[1] = Id(id)
    BY <1>2
  <2> HIDE DEF one
  <2>2. /\ one \o cells \in Seq(Cell) /\ Len(one \o cells) = Len(one) + Len(cells)
        /\ \A i \in 1 .. Len(one) + Len(cells) : (one \o cells)[i] =
               IF i <= Len(one) THEN one[i] ELSE cells[i - Len(one)]
    BY <2>1, ConcatProperties
  <2>3. block = one \o cells
    BY DEF one
  <2> QED
    BY <1>1, <2>1, <2>2, <2>3
<1>5. Record(f, b, id, cells) = Write(h, d, block)
  BY DEF Record
<1> HIDE DEF row, block, entry, first
<1>6. /\ h \in Seq(Cell) /\ Len(h) = Len(f)
      /\ \A p \in 1 .. Len(f) :
             h[p] = IF p - first \in 1 .. Len(row) THEN row[p - first] ELSE f[p]
  <2>1. first \in Nat
    BY <1>1
  <2>2. Overwritten(f, first, row, h)
    BY <1>3, <2>1, WriteCells
  <2> QED
    BY <2>2 DEF Overwritten
<1> HIDE DEF h
<1>7. /\ Write(h, d, block) \in Seq(Cell) /\ Len(Write(h, d, block)) = Len(h)
      /\ \A p \in 1 .. Len(h) : Write(h, d, block)[p] =
             IF p - d \in 1 .. Len(block) THEN block[p - d] ELSE h[p]
  <2> HIDE DEF d
  <2>1. Overwritten(h, d, block, Write(h, d, block))
    BY <1>1, <1>4, <1>6, WriteCells
  <2> QED
    BY <2>1 DEF Overwritten
<1>8. \A p \in 1 .. Len(f) : h[p] = IF p = k + 2 THEN entry ELSE f[p]
  <2> SUFFICES ASSUME NEW p \in 1 .. Len(f)
               PROVE  h[p] = IF p = k + 2 THEN entry ELSE f[p]
    OBVIOUS
  <2>1. p - first \in 1 .. 1 <=> p = k + 2
    BY <1>1
  <2>2. p = k + 2 => p - first = 1
    BY <1>1
  <2> QED
    BY <1>3, <1>6, <2>1, <2>2
<1>9. \A p \in 1 .. Len(f) : Write(h, d, block)[p] =
          IF p = d + 1 THEN Id(id)
          ELSE IF d + 1 < p /\ p <= d + 1 + Len(cells) THEN cells[p - d - 1]
          ELSE IF p = k + 2 THEN entry ELSE f[p]
  <2> SUFFICES ASSUME NEW p \in 1 .. Len(f)
               PROVE  Write(h, d, block)[p] =
                          IF p = d + 1 THEN Id(id)
                          ELSE IF d + 1 < p /\ p <= d + 1 + Len(cells) THEN cells[p - d - 1]
                          ELSE IF p = k + 2 THEN entry ELSE f[p]
    OBVIOUS
  <2> HIDE DEF d, k
  <2>1. Write(h, d, block)[p] = IF p - d \in 1 .. 1 + Len(cells) THEN block[p - d] ELSE h[p]
    BY <1>4, <1>6, <1>7
  <2>2. CASE p = d + 1
    <3>1. p - d = 1 /\ p - d \in 1 .. 1 + Len(cells)
      BY <1>1, <2>2
    <3> QED
      BY <1>4, <2>1, <2>2, <3>1
  <2>3. CASE d + 1 < p /\ p <= d + 1 + Len(cells)
    <3>1. p - d \in 1 .. 1 + Len(cells) /\ p - d # 1 /\ (p - d) - 1 = p - d - 1 /\ p # d + 1
      BY <1>1, <2>3
    <3> QED
      BY <1>4, <2>1, <2>3, <3>1
  <2>4. CASE p # d + 1 /\ ~(d + 1 < p /\ p <= d + 1 + Len(cells))
    <3>1. p - d \notin 1 .. 1 + Len(cells)
      BY <1>1, <2>4
    <3> QED
      BY <1>8, <2>1, <2>4, <3>1
  <2> QED
    BY <2>2, <2>3, <2>4
<1> QED
  BY <1>5, <1>6, <1>7, <1>9 DEF entry

\* A record put after the first ones is laid out well, and leaves them alone.
PutAfter(f, b, n, id, cells, g) ==
    /\ Blocks(g, n, b.tableIndex + 1, b.dataOffset + 1 + Len(cells))
    /\ \A j \in 1 .. b.tableIndex : g[j + 1] = f[j + 1]
    /\ IdOf(g[b.tableIndex + 2]) = id
    /\ HasRecord(g, b.tableIndex + 1, id, cells)
    /\ \A i, c : HasRecord(f, b.tableIndex, i, c) => HasRecord(g, b.tableIndex + 1, i, c)

LEMMA PutRecord ==
    ASSUME NEW f \in Seq(Cell), NEW b \in Builds, NEW n \in Nat,
           Blocks(f, n, b.tableIndex, b.dataOffset),
           NEW id \in Ids, NEW cells \in Seq(Cell),
           \A j \in 1 .. b.tableIndex : IdOf(f[j + 1]) < id,
           b.tableIndex + 1 <= n, b.dataOffset + 1 + Len(cells) <= Len(f),
           NEW g, g = Record(f, b, id, cells)
    PROVE  PutAfter(f, b, n, id, cells, g)
<1> DEFINE d == b.dataOffset
           k == b.tableIndex
           end == d + 1 + Len(cells)
<1>1. /\ d \in Nat /\ k \in Nat /\ Len(cells) \in Nat /\ Len(f) \in Nat
      /\ TableEnd(n) = n + 1 /\ id \in Nat /\ end \in Nat /\ end = d + 1 + Len(cells)
  BY IdAssumption DEF Builds, TableEnd
<1>2. /\ g \in Seq(Cell) /\ Len(g) = Len(f)
      /\ \A p \in 1 .. Len(f) : g[p] =
             IF p = d + 1 THEN Id(id)
             ELSE IF d + 1 < p /\ p <= d + 1 + Len(cells) THEN cells[p - d - 1]
             ELSE IF p = k + 2 THEN Entry(id, d, Len(cells))
             ELSE f[p]
  BY RecordCells
<1>nums. /\ k + 1 <= n /\ n + 1 <= d /\ d <= Len(f) /\ end <= Len(f)
      /\ d \in Nat /\ k \in Nat /\ Len(cells) \in Nat /\ Len(f) \in Nat
      /\ end \in Nat /\ end = d + 1 + Len(cells)
  BY <1>1 DEF Blocks
<1>3. /\ f[1] = Count(n)
      /\ d = IF k = 0 THEN n + 1 ELSE EndOf(f[k + 1])
      /\ \A j \in 1 .. k :
            /\ f[j + 1][1] = "entry"
            /\ n + 1 <= OffsetOf(f[j + 1]) /\ EndOf(f[j + 1]) <= d
            /\ OffsetOf(f[j + 1]) = IF j = 1 THEN n + 1 ELSE EndOf(f[j])
            /\ j > 1 => IdOf(f[j]) < IdOf(f[j + 1])
            /\ f[OffsetOf(f[j + 1]) + 1] = Id(IdOf(f[j + 1]))
            /\ IdOf(f[j + 1]) < id
  BY <1>1 DEF Blocks
<1> DEFINE entry == Entry(id, d, Len(cells))
<1>4. /\ IdOf(entry) = id /\ OffsetOf(entry) = d /\ SizeOf(entry) = Len(cells)
      /\ EndOf(entry) = end /\ entry[1] = "entry" /\ entry \in Cell
  <2>1. Entry(id, d, Len(cells)) \in Cell
    BY <1>1, MadeCells
  <2>2. /\ IdOf(Entry(id, d, Len(cells))) = id /\ OffsetOf(Entry(id, d, Len(cells))) = d
        /\ SizeOf(Entry(id, d, Len(cells))) = Len(cells)
        /\ EndOf(Entry(id, d, Len(cells))) = d + 1 + Len(cells)
        /\ Entry(id, d, Len(cells))[1] = "entry"
    BY EntryParts
  <2> QED
    BY <2>1, <2>2
<1> HIDE DEF d, k, end, entry
<1>5. \A p \in 1 .. d : p # k + 2 => g[p] = f[p]
  <2>1. \A p \in 1 .. d : p \in 1 .. Len(f) /\ p # d + 1 /\ ~(d + 1 < p)
    BY <1>nums
  <2> QED
    BY <1>2, <2>1
<1>6. g[k + 2] = entry /\ k + 2 \in 1 .. d
  <2>1. k + 2 \in 1 .. Len(f) /\ k + 2 \in 1 .. d /\ k + 2 # d + 1 /\ ~(d + 1 < k + 2)
    BY <1>nums
  <2> QED
    BY <1>2, <2>1 DEF entry
<1>7. g[d + 1] = Id(id) /\ \A m \in 1 .. Len(cells) : g[d + 1 + m] = cells[m]
  <2>1. d + 1 \in 1 .. Len(f)
    BY <1>nums
  <2>2. ASSUME NEW m \in 1 .. Len(cells)
        PROVE  g[d + 1 + m] = cells[m]
    <3>1. /\ d + 1 + m \in 1 .. Len(f) /\ d + 1 + m # d + 1 /\ d + 1 < d + 1 + m
          /\ d + 1 + m <= d + 1 + Len(cells) /\ (d + 1 + m) - d - 1 = m
      BY <1>nums, <2>2
    <3> QED
      BY <1>2, <3>1
  <2> QED
    BY <1>2, <2>1, <2>2
<1>8. \A j \in 1 .. k :
          /\ f[j + 1] \in Cell
          /\ OffsetOf(f[j + 1]) \in Nat /\ SizeOf(f[j + 1]) \in Nat
          /\ EndOf(f[j + 1]) \in Nat
          /\ EndOf(f[j + 1]) = OffsetOf(f[j + 1]) + 1 + SizeOf(f[j + 1])
  <2> SUFFICES ASSUME NEW j \in 1 .. k
               PROVE  /\ f[j + 1] \in Cell
                      /\ OffsetOf(f[j + 1]) \in Nat /\ SizeOf(f[j + 1]) \in Nat
                      /\ EndOf(f[j + 1]) \in Nat
                      /\ EndOf(f[j + 1]) = OffsetOf(f[j + 1]) + 1 + SizeOf(f[j + 1])
    OBVIOUS
  <2>1. j + 1 \in 1 .. Len(f)
    BY <1>nums
  <2> QED
    BY <1>3, <2>1, EntryCell
<1>9. \A j \in 1 .. k :
          /\ g[j + 1] = f[j + 1]
          /\ g[OffsetOf(f[j + 1]) + 1] = f[OffsetOf(f[j + 1]) + 1]
          /\ PayloadOf(g, f[j + 1]) = PayloadOf(f, f[j + 1])
  <2> SUFFICES ASSUME NEW j \in 1 .. k
               PROVE  /\ g[j + 1] = f[j + 1]
                      /\ g[OffsetOf(f[j + 1]) + 1] = f[OffsetOf(f[j + 1]) + 1]
                      /\ PayloadOf(g, f[j + 1]) = PayloadOf(f, f[j + 1])
    OBVIOUS
  <2> DEFINE e == f[j + 1]
  <2>1. /\ e \in Cell /\ e[1] = "entry" /\ OffsetOf(e) \in Nat /\ SizeOf(e) \in Nat
        /\ EndOf(e) = OffsetOf(e) + 1 + SizeOf(e)
        /\ n + 1 <= OffsetOf(e) /\ EndOf(e) <= d
    BY <1>3, <1>8
  <2> HIDE DEF e
  <2>2. j + 1 \in 1 .. d /\ j + 1 # k + 2
    BY <1>nums
  <2>3. OffsetOf(e) + 1 \in 1 .. d /\ OffsetOf(e) + 1 # k + 2
    BY <1>nums, <2>1
  <2>4. \A m \in 1 .. SizeOf(e) : g[OffsetOf(e) + 1 + m] = f[OffsetOf(e) + 1 + m]
    <3> SUFFICES ASSUME NEW m \in 1 .. SizeOf(e)
                 PROVE  g[OffsetOf(e) + 1 + m] = f[OffsetOf(e) + 1 + m]
      OBVIOUS
    <3>1. OffsetOf(e) + 1 + m \in 1 .. d /\ OffsetOf(e) + 1 + m # k + 2
      BY <1>nums, <2>1
    <3> QED
      BY <1>5, <3>1
  <2>5. EndOf(e) <= Len(f) /\ EndOf(e) <= Len(g)
    BY <1>nums, <1>2, <2>1
  <2>6. PayloadOf(g, e) = PayloadOf(f, e)
    BY <1>2, <2>1, <2>4, <2>5, SamePayload
  <2> QED
    BY <1>5, <2>2, <2>3, <2>6 DEF e
<1>10. PayloadOf(g, entry) = cells
  <2>1. /\ PayloadOf(g, entry) \in Seq(Cell) /\ Len(PayloadOf(g, entry)) = SizeOf(entry)
        /\ \A m \in 1 .. SizeOf(entry) : PayloadOf(g, entry)[m] = g[OffsetOf(entry) + 1 + m]
    BY <1>nums, <1>2, <1>4, PayloadCells
  <2> QED
    BY <1>4, <1>7, <2>1, SeqEqual
<1>11. HasRecord(g, k + 1, id, cells)
  <2>1. k + 1 \in 1 .. k + 1 /\ (k + 1) + 1 = k + 2
    BY <1>1
  <2> QED
    BY <1>4, <1>6, <1>10, <2>1 DEF HasRecord
<1>12. ASSUME NEW i, NEW c, HasRecord(f, k, i, c)
       PROVE  HasRecord(g, k + 1, i, c)
  <2>1. PICK j \in 1 .. k : /\ IdOf(f[j + 1]) = i
                            /\ SizeOf(f[j + 1]) = Len(c)
                            /\ PayloadOf(f, f[j + 1]) = c
    BY <1>12 DEF HasRecord
  <2>2. j \in 1 .. k + 1
    BY <1>1
  <2> QED
    BY <1>9, <2>1, <2>2 DEF HasRecord
<1>13. Blocks(g, n, k + 1, end)
  <2>1. g[1] = Count(n)
    <3>1. 1 \in 1 .. d /\ 1 # k + 2
      BY <1>nums
    <3> QED
      BY <1>3, <1>5, <3>1
  <2>2. end = EndOf(g[(k + 1) + 1]) /\ k + 1 # 0
    <3>1. (k + 1) + 1 = k + 2 /\ k + 1 # 0
      BY <1>1
    <3> QED
      BY <1>4, <1>6, <3>1
  <2>3. n + 1 <= end /\ end <= Len(g) /\ k + 1 <= n /\ d <= end
    BY <1>nums, <1>2
  <2>4. ASSUME NEW j \in 1 .. k + 1
        PROVE  /\ g[j + 1][1] = "entry"
               /\ n + 1 <= OffsetOf(g[j + 1]) /\ EndOf(g[j + 1]) <= end
               /\ OffsetOf(g[j + 1]) = IF j = 1 THEN n + 1 ELSE EndOf(g[j])
               /\ j > 1 => IdOf(g[j]) < IdOf(g[j + 1])
               /\ g[OffsetOf(g[j + 1]) + 1] = Id(IdOf(g[j + 1]))
    <3>1. j > 1 => g[j] = f[j]
      <4> SUFFICES ASSUME j > 1
                   PROVE  g[j] = f[j]
        OBVIOUS
      <4>1. j - 1 \in 1 .. k /\ (j - 1) + 1 = j
        BY <1>1
      <4> QED
        BY <1>9, <4>1
    <3>2. CASE j \in 1 .. k
      <4>1. EndOf(f[j + 1]) <= end
        <5>1. EndOf(f[j + 1]) <= d /\ EndOf(f[j + 1]) \in Nat
          BY <1>3, <1>8, <3>2
        <5> QED
          BY <1>nums, <5>1
      <4>2. g[j + 1] = f[j + 1]
        BY <1>9, <3>2
      <4>3. g[OffsetOf(f[j + 1]) + 1] = Id(IdOf(f[j + 1]))
        BY <1>3, <1>9, <3>2
      <4>4. j = 1 \/ j > 1
        OBVIOUS
      <4> QED
        BY <1>3, <3>1, <3>2, <4>1, <4>2, <4>3, <4>4
    <3>3. CASE j = k + 1
      <4>1. g[j + 1] = entry
        <5>1. j + 1 = k + 2
          BY <1>1, <3>3
        <5> QED
          BY <1>6, <5>1
      <4>2. d = IF j = 1 THEN n + 1 ELSE EndOf(g[j])
        <5>1. (j = 1 <=> k = 0) /\ (j = 1 \/ j > 1) /\ j = k + 1
          BY <1>1, <3>3
        <5> QED
          BY <1>3, <3>1, <5>1
      <4>3. j > 1 => IdOf(g[j]) < id
        <5> SUFFICES ASSUME j > 1
                     PROVE  IdOf(g[j]) < id
          OBVIOUS
        <5>1. k \in 1 .. k /\ j = k + 1
          BY <1>1, <3>3
        <5> QED
          BY <1>3, <3>1, <5>1
      <4>4. EndOf(entry) <= end /\ n + 1 <= d
        BY <1>nums, <1>4
      <4> QED
        BY <1>4, <1>7, <4>1, <4>2, <4>3, <4>4
    <3> QED
      BY <1>1, <3>2, <3>3
  <2> QED
    BY <1>1, <2>1, <2>2, <2>3, <2>4 DEF Blocks
<1>14. \A j \in 1 .. k : g[j + 1] = f[j + 1]
  BY <1>9
<1>15. IdOf(g[k + 2]) = id
  BY <1>4, <1>6
<1> QED
  BY <1>11, <1>12, <1>13, <1>14, <1>15 DEF PutAfter, d, k, end

\* A file of which all records are laid out well validates, and what it has is
\* found.
LEMMA CompleteValidates ==
    ASSUME NEW f \in Seq(Cell), NEW n \in Nat, Blocks(f, n, n, Len(f))
    PROVE  /\ \A id, data :
                 HasRecord(f, n, id, Cells(data)) /\ Len(Cells(data)) = Len(data) =>
                     Loads(f, id, data)
           /\ \A id : (\A j \in 1 .. n : IdOf(f[j + 1]) # id) => FindDataEntry(f, id) = {}
<1>1. /\ f[1] = Count(n) /\ TableEnd(n) <= Len(f) /\ TableEnd(n) = n + 1 /\ Len(f) \in Nat
      /\ Len(f) = IF n = 0 THEN TableEnd(n) ELSE EndOf(f[n + 1])
      /\ \A j \in 1 .. n :
          /\ f[j + 1][1] = "entry"
          /\ EndOf(f[j + 1]) <= Len(f)
          /\ OffsetOf(f[j + 1]) = IF j = 1 THEN TableEnd(n) ELSE EndOf(f[j])
          /\ j > 1 => IdOf(f[j]) < IdOf(f[j + 1])
          /\ f[OffsetOf(f[j + 1]) + 1] = Id(IdOf(f[j + 1]))
  BY DEF Blocks, TableEnd
<1>2. CountOf(f) = n /\ f[1][1] = "count"
  BY <1>1 DEF CountOf, Count
<1>3. ValidateDataFile(f)
  <2>1. Len(f) >= 1 /\ Len(f) = IF n = 0 THEN 1 ELSE EndOf(f[n + 1])
    BY <1>1
  <2> QED
    BY <1>1, <1>2, <2>1 DEF ValidateDataFile
<1>4. Len(Table(f)) = n /\ \A i \in 1 .. n : Table(f)[i] = f[i + 1]
  BY <1>2, <1>3, TableFacts
<1>5. ASSUME NEW id, NEW data, HasRecord(f, n, id, Cells(data)), Len(Cells(data)) = Len(data)
      PROVE  Loads(f, id, data)
  <2>1. PICK j \in 1 .. n : /\ IdOf(f[j + 1]) = id
                            /\ SizeOf(f[j + 1]) = Len(Cells(data))
                            /\ PayloadOf(f, f[j + 1]) = Cells(data)
    BY <1>5 DEF HasRecord
  <2>2. f[j + 1] \in FindDataEntry(f, id)
    BY <1>4, <2>1, Found
  <2> QED
    BY <1>5, <2>1, <2>2, LoadsPayload
<1>6. ASSUME NEW id, \A j \in 1 .. n : IdOf(f[j + 1]) # id
      PROVE  FindDataEntry(f, id) = {}
  <2>1. \A e \in FindDataEntry(f, id) : FALSE
    BY <1>4, <1>6, Found
  <2> QED
    BY <2>1
<1> QED
  BY <1>5, <1>6

-----------------------------------------------------------------------------
(* The sizes of a rebuild *)

\* What a record that is kept adds to finalSize.
Added(n) == IF n \in Others THEN 1 + SizeOf(old[n]) ELSE 0

\* The sums of these, as far as the first m records.
IsSum(g, m) ==
    /\ g \in [0 .. m -> Nat]
    /\ \A n \in 0 .. m : g[n] = IF n = 0 THEN 0 ELSE g[n - 1] + Added(n)

\* finalSize is a number, and has room for the table and the new record's id.
LEMMA FinalSizeType ==
    ASSUME old \in Seq(Cell), \A i \in 1 .. Len(old) : old[i][1] = "entry", job \in Jobs
    PROVE  /\ NewCount \in Nat /\ Len(old) \in Nat /\ Len(old) <= NewCount
           /\ FinalSize \in Nat /\ TableEnd(NewCount) < FinalSize
<1>1. /\ Len(old) \in Nat /\ Len(job.data) \in Nat
      /\ \A n \in 1 .. Len(old) : Added(n) \in Nat
  <2>1. \A n \in 1 .. Len(old) : old[n] \in Cell
    OBVIOUS
  <2>2. \A n \in 1 .. Len(old) : SizeOf(old[n]) \in Nat
    BY <2>1, EntryCell
  <2> QED
    BY <2>2, PayloadAssumption DEF Added, Jobs
<1>2. NewCount \in Nat /\ Len(old) <= NewCount /\ TableEnd(NewCount) \in Nat
  BY <1>1 DEF NewCount, TableEnd
<1>3. \A m \in 0 .. Len(old) : \E g : IsSum(g, m)
  <2> DEFINE T == {m \in 0 .. Len(old) : ~\E g : IsSum(g, m)}
  <2> SUFFICES ASSUME T # {}
               PROVE  FALSE
    OBVIOUS
  <2>1. T \in SUBSET Nat
    BY <1>1
  <2>2. PICK m \in T : \A n \in T : m <= n
    BY <2>1, LeastExists
  <2>3. CASE m = 0
    <3> DEFINE g == [n \in 0 .. 0 |-> 0]
    <3>1. IsSum(g, 0)
      BY DEF IsSum
    <3> QED
      BY <2>2, <2>3, <3>1
  <2>4. CASE m # 0
    <3>1. m - 1 \in 0 .. Len(old) /\ m - 1 \notin T /\ m \in 1 .. Len(old)
      BY <1>1, <2>1, <2>2, <2>4
    <3>2. PICK g : IsSum(g, m - 1)
      BY <3>1
    <3> DEFINE h == [n \in 0 .. m |-> IF n = m THEN g[m - 1] + Added(m) ELSE g[n]]
    <3>3. h \in [0 .. m -> Nat]
      BY <1>1, <3>1, <3>2 DEF IsSum
    <3>4. \A n \in 0 .. m : h[n] = IF n = 0 THEN 0 ELSE h[n - 1] + Added(n)
      <4> SUFFICES ASSUME NEW n \in 0 .. m
                   PROVE  h[n] = IF n = 0 THEN 0 ELSE h[n - 1] + Added(n)
        OBVIOUS
      <4>1. CASE n = m
        BY <3>1, <4>1
      <4>2. CASE n # m
        <5>1. /\ n \in 0 .. m - 1 /\ h[n] = g[n]
              /\ n # 0 => n - 1 \in 0 .. m /\ n - 1 # m
          BY <3>1, <4>2
        <5>2. n # 0 => h[n - 1] = g[n - 1]
          BY <5>1
        <5> QED
          BY <3>2, <5>1, <5>2 DEF IsSum
      <4> QED
        BY <4>1, <4>2
    <3>5. IsSum(h, m)
      BY <3>3, <3>4 DEF IsSum
    <3> QED
      BY <2>2, <3>5
  <2> QED
    BY <2>3, <2>4
<1> DEFINE L == Len(old)
           Def(k) == [n \in 0 .. L |-> IF n = 0 THEN 0
                          ELSE k[n - 1] + (IF n \in Others THEN 1 + SizeOf(old[n]) ELSE 0)]
           kept == CHOOSE k : k = Def(k)
<1>4. kept = Def(kept)
  <2>1. PICK g : IsSum(g, L)
    BY <1>1, <1>3
  <2>2. g = Def(g)
    BY <2>1 DEF IsSum, Added
  <2> QED
    BY <2>2
<1>5. FinalSize = TableEnd(NewCount) + kept[L] + 1 + Len(job.data)
  BY DEF FinalSize
<1> HIDE DEF kept
<1>6. \A n \in 0 .. L : kept[n] \in Nat
  <2> DEFINE T == {m \in 0 .. L : kept[m] \notin Nat}
  <2> SUFFICES ASSUME T # {}
               PROVE  FALSE
    OBVIOUS
  <2>1. T \in SUBSET Nat
    BY <1>1
  <2>2. PICK m \in T : \A n \in T : m <= n
    BY <2>1, LeastExists
  <2>3. kept[m] = IF m = 0 THEN 0 ELSE kept[m - 1] + Added(m)
    BY <1>4, <2>2 DEF Added
  <2>4. m # 0 => m - 1 \in 0 .. L /\ m - 1 \notin T /\ m \in 1 .. L
    BY <1>1, <2>1, <2>2
  <2> QED
    BY <1>1, <2>2, <2>3, <2>4
<1>7. kept[L] \in Nat
  BY <1>1, <1>6
<1> QED
  BY <1>1, <1>2, <1>5, <1>7

-----------------------------------------------------------------------------
(* Steps of the rebuild *)

\* What is known of the old table while the new file is made from it.
LEMMA OldTable ==
    ASSUME ShapeInv, OldInv, pc \in {"layout", "record"}
    PROVE  /\ old \in Seq(Cell) /\ job \in Jobs /\ state \in Seq(Cell)
           /\ \A i \in 1 .. Len(old) :
                 /\ old[i] \in Cell /\ old[i][1] = "entry" /\ IdOf(old[i]) \in Ids
                 /\ EndOf(old[i]) <= Len(state)
                 /\ PayloadOf(state, old[i]) \in Seq(Cell)
                 /\ Len(PayloadOf(state, old[i])) = SizeOf(old[i])
           /\ \A i, j \in 1 .. Len(old) : i < j => IdOf(old[i]) < IdOf(old[j])
           /\ DOMAIN old = 1 .. Len(old) /\ Len(old) \in Nat
<1>1. state \in Seq(Cell) /\ job \in Jobs
  BY DEF ShapeInv
<1>2. old = <<>> \/ old = Table(state)
  BY DEF OldInv
<1>3. CASE old = <<>>
  BY <1>1, <1>3
<1>4. CASE old = Table(state)
  <2>1. /\ old \in Seq(Cell) /\ Len(old) \in Nat
        /\ DOMAIN old = 1 .. Len(old)
        /\ \A i \in 1 .. Len(old) :
              old[i] \in Cell /\ old[i][1] = "entry" /\ EndOf(old[i]) <= Len(state)
        /\ \A i, j \in 1 .. Len(old) : i < j => IdOf(old[i]) < IdOf(old[j])
    BY <1>1, <1>4, TableFacts
  <2>2. \A i \in 1 .. Len(old) :
            /\ IdOf(old[i]) \in Ids
            /\ PayloadOf(state, old[i]) \in Seq(Cell)
            /\ Len(PayloadOf(state, old[i])) = SizeOf(old[i])
    BY <1>1, <2>1, EntryCell, PayloadCells
  <2> QED
    BY <1>1, <2>1, <2>2
<1> QED
  BY <1>2, <1>3, <1>4

\* The sums after a record are no smaller than those before it.
LEMMA AfterSums ==
    ASSUME NEW b \in Builds, NEW cells \in Seq(Cell)
    PROVE  /\ After(b, cells) \in Builds
           /\ After(b, cells).tableIndex = b.tableIndex + 1
           /\ After(b, cells).dataOffset = b.dataOffset + 1 + Len(cells)
           /\ After(b, cells).finalSize = b.finalSize
           /\ After(b, cells).targetWritten = b.targetWritten
           /\ b.tableIndex \in Nat /\ b.dataOffset \in Nat /\ b.finalSize \in Nat
           /\ Len(cells) \in Nat
<1>1. Len(cells) \in Nat
  OBVIOUS
<1>2. b.tableIndex \in Nat /\ b.dataOffset \in Nat /\ b.finalSize \in Nat
  BY DEF Builds
<1> DEFINE x == b.tableIndex + 1
           y == b.dataOffset + 1 + Len(cells)
<1>3. After(b, cells) = [[b EXCEPT !.tableIndex = x] EXCEPT !.dataOffset = y]
  BY DEF After, Builds
<1>4. x \in Nat /\ y \in Nat
  BY <1>1, <1>2
<1> HIDE DEF x, y
<1>5. /\ [[b EXCEPT !.tableIndex = x] EXCEPT !.dataOffset = y] \in Builds
      /\ [[b EXCEPT !.tableIndex = x] EXCEPT !.dataOffset = y].tableIndex = x
      /\ [[b EXCEPT !.tableIndex = x] EXCEPT !.dataOffset = y].dataOffset = y
      /\ [[b EXCEPT !.tableIndex = x] EXCEPT !.dataOffset = y].finalSize = b.finalSize
      /\ [[b EXCEPT !.tableIndex = x] EXCEPT !.dataOffset = y].targetWritten
             = b.targetWritten
  BY <1>4 DEF Builds
<1> QED
  BY <1>1, <1>2, <1>3, <1>5 DEF x, y

LEMMA AfterTargetSums ==
    ASSUME NEW b \in Builds, job \in Jobs
    PROVE  /\ Cells(job.data) \in Seq(Cell) /\ Len(Cells(job.data)) \in Nat
           /\ AfterTarget(b) \in Builds
           /\ AfterTarget(b).tableIndex = b.tableIndex + 1
           /\ AfterTarget(b).dataOffset = b.dataOffset + 1 + Len(Cells(job.data))
           /\ AfterTarget(b).finalSize = b.finalSize
           /\ AfterTarget(b).targetWritten = TRUE
           /\ b.tableIndex \in Nat /\ b.dataOffset \in Nat /\ b.finalSize \in Nat
<1> DEFINE cells == Cells(job.data)
           d == After(b, cells)
<1>1. cells \in Seq(Cell)
  BY CellsType DEF Jobs
<1> HIDE DEF cells
<1>2. /\ d \in Builds /\ d.tableIndex = b.tableIndex + 1
      /\ d.dataOffset = b.dataOffset + 1 + Len(cells)
      /\ d.finalSize = b.finalSize
      /\ b.tableIndex \in Nat /\ b.dataOffset \in Nat /\ b.finalSize \in Nat
      /\ Len(cells) \in Nat
  BY <1>1, AfterSums
<1> HIDE DEF d
<1>3. [d EXCEPT !.targetWritten = TRUE] \in Builds
  BY <1>2 DEF Builds
<1>4. /\ [d EXCEPT !.targetWritten = TRUE].targetWritten = TRUE
      /\ [d EXCEPT !.targetWritten = TRUE].tableIndex = d.tableIndex
      /\ [d EXCEPT !.targetWritten = TRUE].dataOffset = d.dataOffset
      /\ [d EXCEPT !.targetWritten = TRUE].finalSize = d.finalSize
  BY <1>2 DEF Builds
<1>5. AfterTarget(b) = [d EXCEPT !.targetWritten = TRUE]
  BY DEF AfterTarget, d, cells
<1> QED
  BY <1>1, <1>2, <1>3, <1>4, <1>5 DEF cells

\* The new record is put after smaller ids.
LEMMA PutTarget ==
    ASSUME ShapeInv, OldInv, pc = "record", NewCount \in Nat,
           NEW f \in Seq(Cell), NEW b \in Builds, Len(f) = b.finalSize, NEW a \in Nat,
           Rebuilt(f, b, a),
           \A i \in a .. Len(old) : job.id < IdOf(old[i]),
           b.tableIndex <= NewCount /\ b.dataOffset <= b.finalSize =>
               \A j \in 1 .. b.tableIndex : IdOf(f[j + 1]) < job.id
    PROVE  /\ Target(f, b) \in Seq(Cell) /\ Len(Target(f, b)) = Len(f)
           /\ AfterTarget(b) \in Builds /\ AfterTarget(b).finalSize = b.finalSize
           /\ AfterTarget(b).targetWritten
           /\ Rebuilt(Target(f, b), AfterTarget(b), a)
<1> DEFINE cells == Cells(job.data)
           g == Target(f, b)
           k == b.tableIndex
<1>1. /\ cells \in Seq(Cell) /\ Len(cells) \in Nat
      /\ AfterTarget(b) \in Builds
      /\ AfterTarget(b).tableIndex = k + 1
      /\ AfterTarget(b).dataOffset = b.dataOffset + 1 + Len(cells)
      /\ AfterTarget(b).finalSize = b.finalSize
      /\ AfterTarget(b).targetWritten = TRUE
      /\ k \in Nat /\ b.dataOffset \in Nat /\ b.finalSize \in Nat
      /\ job \in Jobs
  BY AfterTargetSums, OldTable
<1>2. job.id \in Ids /\ g = Record(f, b, job.id, cells)
  BY <1>1 DEF Target, Jobs
<1> HIDE DEF cells, g
<1>3. g \in Seq(Cell) /\ Len(g) = Len(f)
  BY <1>1, <1>2, RecordCells
<1>4. ASSUME k + 1 <= NewCount, b.dataOffset + 1 + Len(cells) <= b.finalSize
      PROVE  /\ Blocks(g, NewCount, k + 1, b.dataOffset + 1 + Len(cells))
             /\ \A i \in 1 .. a - 1 : IdOf(old[i]) # job.id =>
                    HasRecord(g, k + 1, IdOf(old[i]), PayloadOf(state, old[i]))
             /\ HasRecord(g, k + 1, job.id, cells)
             /\ \A j \in 1 .. k + 1 :
                    /\ \/ IdOf(g[j + 1]) = job.id
                       \/ \E i \in 1 .. a - 1 : IdOf(g[j + 1]) = IdOf(old[i])
                    /\ \A i \in a .. Len(old) : IdOf(g[j + 1]) < IdOf(old[i])
  <2>1. k <= NewCount /\ b.dataOffset <= b.finalSize
    BY <1>1, <1>4
  <2>2. /\ Blocks(f, NewCount, k, b.dataOffset)
        /\ \A i \in 1 .. a - 1 : IdOf(old[i]) # job.id =>
               HasRecord(f, k, IdOf(old[i]), PayloadOf(state, old[i]))
        /\ \A j \in 1 .. k :
               /\ \/ IdOf(f[j + 1]) = job.id
                  \/ \E i \in 1 .. a - 1 : IdOf(f[j + 1]) = IdOf(old[i])
               /\ \A i \in a .. Len(old) : IdOf(f[j + 1]) < IdOf(old[i])
        /\ \A j \in 1 .. k : IdOf(f[j + 1]) < job.id
    BY <2>1 DEF Rebuilt
  <2>3. /\ Blocks(g, NewCount, k + 1, b.dataOffset + 1 + Len(cells))
        /\ \A j \in 1 .. k : g[j + 1] = f[j + 1]
        /\ IdOf(g[k + 2]) = job.id
        /\ HasRecord(g, k + 1, job.id, cells)
        /\ \A i, c : HasRecord(f, k, i, c) => HasRecord(g, k + 1, i, c)
    <3>1. /\ Blocks(f, NewCount, b.tableIndex, b.dataOffset)
          /\ \A j \in 1 .. b.tableIndex : IdOf(f[j + 1]) < job.id
          /\ b.tableIndex + 1 <= NewCount /\ b.dataOffset + 1 + Len(cells) <= Len(f)
      BY <1>4, <2>2
    <3>2. NewCount \in Nat /\ job.id \in Ids /\ cells \in Seq(Cell) /\ g = Record(f, b, job.id, cells)
      BY <1>1, <1>2
    <3>3. PutAfter(f, b, NewCount, job.id, cells, g)
      BY <3>1, <3>2, PutRecord
    <3> QED
      BY <3>3 DEF PutAfter
  <2>4. \A j \in 1 .. k + 1 :
            /\ \/ IdOf(g[j + 1]) = job.id
               \/ \E i \in 1 .. a - 1 : IdOf(g[j + 1]) = IdOf(old[i])
            /\ \A i \in a .. Len(old) : IdOf(g[j + 1]) < IdOf(old[i])
    <3> SUFFICES ASSUME NEW j \in 1 .. k + 1
                 PROVE  /\ \/ IdOf(g[j + 1]) = job.id
                           \/ \E i \in 1 .. a - 1 : IdOf(g[j + 1]) = IdOf(old[i])
                        /\ \A i \in a .. Len(old) : IdOf(g[j + 1]) < IdOf(old[i])
      OBVIOUS
    <3>1. CASE j \in 1 .. k
      BY <2>2, <2>3, <3>1
    <3>2. CASE j = k + 1
      <4>1. j + 1 = k + 2
        BY <1>1, <3>2
      <4> QED
        BY <2>3, <4>1
    <3> QED
      BY <1>1, <3>1, <3>2
  <2> QED
    BY <2>2, <2>3, <2>4
<1>5. Rebuilt(g, AfterTarget(b), a)
  BY <1>1, <1>4 DEF Rebuilt, cells
<1> QED
  BY <1>1, <1>3, <1>5 DEF g

\* An old record is put after smaller ids; the new one comes later, or has been
\* written.
LEMMA PutOld ==
    ASSUME ShapeInv, OldInv, pc = "record", NewCount \in Nat,
           NEW f \in Seq(Cell), NEW b \in Builds, Len(f) = b.finalSize,
           NEW a \in 1 .. Len(old), Rebuilt(f, b, a),
           ~b.targetWritten => IdOf(old[a]) < job.id,
           NEW cells, cells = PayloadOf(state, old[a])
    PROVE  LET g == Record(f, b, IdOf(old[a]), cells)
           IN  /\ g \in Seq(Cell) /\ Len(g) = Len(f)
               /\ After(b, cells) \in Builds /\ After(b, cells).finalSize = b.finalSize
               /\ Rebuilt(g, After(b, cells), a + 1)
<1> DEFINE e == old[a]
           g == Record(f, b, IdOf(e), cells)
           k == b.tableIndex
<1>1. /\ job \in Jobs /\ IdOf(e) \in Ids /\ cells \in Seq(Cell) /\ Len(old) \in Nat
      /\ \A i, j \in 1 .. Len(old) : i < j => IdOf(old[i]) < IdOf(old[j])
  BY OldTable
<1>2. /\ After(b, cells) \in Builds
      /\ After(b, cells).tableIndex = k + 1
      /\ After(b, cells).dataOffset = b.dataOffset + 1 + Len(cells)
      /\ After(b, cells).finalSize = b.finalSize
      /\ After(b, cells).targetWritten = b.targetWritten
      /\ k \in Nat /\ b.dataOffset \in Nat /\ b.finalSize \in Nat
      /\ Len(cells) \in Nat
  BY <1>1, AfterSums
<1>3. g \in Seq(Cell) /\ Len(g) = Len(f)
  BY <1>1, RecordCells
<1>4. g = Record(f, b, IdOf(e), cells)
  OBVIOUS
<1> HIDE DEF g
<1>5. ASSUME k + 1 <= NewCount, b.dataOffset + 1 + Len(cells) <= b.finalSize
      PROVE  /\ Blocks(g, NewCount, k + 1, b.dataOffset + 1 + Len(cells))
             /\ \A i \in 1 .. (a + 1) - 1 : IdOf(old[i]) # job.id =>
                    HasRecord(g, k + 1, IdOf(old[i]), PayloadOf(state, old[i]))
             /\ b.targetWritten => HasRecord(g, k + 1, job.id, Cells(job.data))
             /\ \A j \in 1 .. k + 1 :
                    /\ \/ IdOf(g[j + 1]) = job.id
                       \/ \E i \in 1 .. (a + 1) - 1 : IdOf(g[j + 1]) = IdOf(old[i])
                    /\ \A i \in a + 1 .. Len(old) : IdOf(g[j + 1]) < IdOf(old[i])
                    /\ ~b.targetWritten => IdOf(g[j + 1]) < job.id
  <2>1. k <= NewCount /\ b.dataOffset <= b.finalSize
    BY <1>2, <1>5
  <2>2. /\ Blocks(f, NewCount, k, b.dataOffset)
        /\ \A i \in 1 .. a - 1 : IdOf(old[i]) # job.id =>
               HasRecord(f, k, IdOf(old[i]), PayloadOf(state, old[i]))
        /\ b.targetWritten => HasRecord(f, k, job.id, Cells(job.data))
        /\ \A j \in 1 .. k :
               /\ \/ IdOf(f[j + 1]) = job.id
                  \/ \E i \in 1 .. a - 1 : IdOf(f[j + 1]) = IdOf(old[i])
               /\ \A i \in a .. Len(old) : IdOf(f[j + 1]) < IdOf(old[i])
               /\ ~b.targetWritten => IdOf(f[j + 1]) < job.id
    BY <2>1 DEF Rebuilt
  <2>3. a \in a .. Len(old) /\ \A j \in 1 .. k : IdOf(f[j + 1]) < IdOf(e)
    BY <1>1, <2>2
  <2>4. /\ Blocks(g, NewCount, k + 1, b.dataOffset + 1 + Len(cells))
        /\ \A j \in 1 .. k : g[j + 1] = f[j + 1]
        /\ IdOf(g[k + 2]) = IdOf(e)
        /\ HasRecord(g, k + 1, IdOf(e), cells)
        /\ \A i, c : HasRecord(f, k, i, c) => HasRecord(g, k + 1, i, c)
    <3>1. /\ Blocks(f, NewCount, b.tableIndex, b.dataOffset)
          /\ \A j \in 1 .. b.tableIndex : IdOf(f[j + 1]) < IdOf(e)
          /\ b.tableIndex + 1 <= NewCount /\ b.dataOffset + 1 + Len(cells) <= Len(f)
      BY <1>5, <2>2, <2>3
    <3>2. NewCount \in Nat /\ IdOf(e) \in Ids /\ cells \in Seq(Cell) /\ g = Record(f, b, IdOf(e), cells)
      BY <1>1, <1>2, <1>4
    <3>3. PutAfter(f, b, NewCount, IdOf(e), cells, g)
      BY <3>1, <3>2, PutRecord
    <3> QED
      BY <3>3 DEF PutAfter
  <2>5. (a + 1) - 1 = a /\ \A i \in 1 .. a : i \in 1 .. a - 1 \/ i = a
    BY <1>1
  <2>6. \A i \in 1 .. a : IdOf(old[i]) # job.id =>
            HasRecord(g, k + 1, IdOf(old[i]), PayloadOf(state, old[i]))
    BY <2>2, <2>4, <2>5
  <2>7. \A j \in 1 .. k + 1 :
            /\ \/ IdOf(g[j + 1]) = job.id
               \/ \E i \in 1 .. a : IdOf(g[j + 1]) = IdOf(old[i])
            /\ \A i \in a + 1 .. Len(old) : IdOf(g[j + 1]) < IdOf(old[i])
            /\ ~b.targetWritten => IdOf(g[j + 1]) < job.id
    <3> SUFFICES ASSUME NEW j \in 1 .. k + 1
                 PROVE  /\ \/ IdOf(g[j + 1]) = job.id
                           \/ \E i \in 1 .. a : IdOf(g[j + 1]) = IdOf(old[i])
                        /\ \A i \in a + 1 .. Len(old) : IdOf(g[j + 1]) < IdOf(old[i])
                        /\ ~b.targetWritten => IdOf(g[j + 1]) < job.id
      OBVIOUS
    <3>1. CASE j \in 1 .. k
      <4>1. g[j + 1] = f[j + 1]
        BY <2>4, <3>1
      <4>2. /\ \A i \in 1 .. a - 1 : i \in 1 .. a
            /\ \A i \in a + 1 .. Len(old) : i \in a .. Len(old)
        BY <1>1
      <4> QED
        BY <2>2, <3>1, <4>1, <4>2
    <3>2. CASE j = k + 1
      <4>1. j + 1 = k + 2 /\ a \in 1 .. a
        BY <1>1, <1>2, <3>2
      <4>2. \A i \in a + 1 .. Len(old) : i \in 1 .. Len(old) /\ a < i
        BY <1>1
      <4> QED
        BY <1>1, <2>4, <4>1, <4>2
    <3> QED
      BY <1>2, <3>1, <3>2
  <2> QED
    BY <2>2, <2>4, <2>5, <2>6, <2>7
<1>6. Rebuilt(g, After(b, cells), a + 1)
  BY <1>2, <1>5 DEF Rebuilt
<1> QED
  BY <1>2, <1>3, <1>6 DEF g

-----------------------------------------------------------------------------
(* What each step leaves of the invariant *)

LEMMA BoundsType ==
    ASSUME TypeOK, Works \/ Fails
    PROVE  saves' \in 0 .. MaxSaves /\ <<crashes', faults'>> \in Histories \cup {<<0, 0>>}
  BY DEF TypeOK, Works, Fails, bounds

\* What a plugin saved is found in a file as long as neither changes.
LEMMA KeptSame ==
    ASSUME NEW id, stored'[id] = stored[id], state' = state, Kept(state, id)
    PROVE  Kept(state, id)'
  BY DEF Kept

LEMMA InitHolds == Init => DataInv
<1> SUFFICES ASSUME Init
             PROVE  DataInv
  OBVIOUS
<1> USE DEF Init
<1>1. TypeOK
  <2>1. 0 \in 0 .. MaxFile /\ 0 \in 0 .. MaxSaves /\ Len(<<>>) = 0 /\ 0 <= MaxFile
    BY BoundAssumption
  <2>2. stored \in [Ids -> Payloads \cup {None}] /\ torn \subseteq Ids
    OBVIOUS
  <2> QED
    BY <2>1, <2>2 DEF TypeOK
<1>2. ShapeInv
  BY DEF ShapeInv, Builds, NothingBuilt
<1>3. KeptInv
  <2>1. \A id \in Ids : stored[id] = None
    OBVIOUS
  <2>2. state \in Seq(Cell) /\ ~ValidateDataFile(state)
    BY DEF ValidateDataFile
  <2>3. \A id : FindDataEntry(state, id) = {}
    BY <2>2, Found
  <2> QED
    BY <2>1, <2>3 DEF KeptInv, Kept
<1> QED
  BY <1>1, <1>2, <1>3
  DEF DataInv, SavedInv, PlaceInv, OldInv, RecordInv, CopyInv

LEMMA SaveDataKeeps ==
    ASSUME DataInv, NEW id \in Ids, NEW data \in Payloads, SaveData(id, data)
    PROVE  DataInv'
<1> USE DEF SaveData, rebuild
<1>1. TypeOK'
  <2>1. TypeOK
    BY DEF DataInv
  <2>2. saves' \in 0 .. MaxSaves
    BY <2>1, BoundAssumption DEF TypeOK
  <2> QED
    BY <2>1, <2>2 DEF TypeOK
<1>2. ShapeInv'
  BY DEF DataInv, ShapeInv, Jobs
<1>3. KeptInv'
  BY KeptSame DEF DataInv, KeptInv
<1>4. OldInv'
  BY DEF OldInv
<1> QED
  BY <1>1, <1>2, <1>3, <1>4 DEF DataInv, SavedInv, PlaceInv, RecordInv, CopyInv

LEMMA ScanKeeps == ASSUME DataInv, Scan PROVE DataInv'
<1> USE DEF Scan, Return
<1>1. TypeOK /\ ShapeInv /\ KeptInv /\ OldInv
  BY DEF DataInv
<1>2. TypeOK'
  <2>1. saves' \in 0 .. MaxSaves /\ <<crashes', faults'>> \in Histories \cup {<<0, 0>>}
    BY <1>1, BoundsType
  <2>2. 0 \in 0 .. MaxFile
    BY BoundAssumption
  <2> QED
    BY <1>1, <2>1, <2>2 DEF TypeOK
<1>3. ShapeInv'
  BY <1>1 DEF ShapeInv
<1>4. KeptInv'
  BY <1>1, KeptSame DEF KeptInv
<1>5. PlaceInv'
  <2> SUFFICES ASSUME pc' = "inPlace"
               PROVE  PlaceInv'
    BY DEF PlaceInv
  <2>1. Len(job.data) \in Nat
    BY <1>1, PayloadAssumption DEF ShapeInv, Jobs
  <2>2. PICK e \in FindDataEntry(state, job.id) : SizeOf(e) = Len(job.data)
    OBVIOUS
  <2>3. at' = 0 /\ job' = job /\ state' = state
    OBVIOUS
  <2> QED
    BY <2>1, <2>2, <2>3 DEF PlaceInv
<1>6. OldInv'
  BY <1>1 DEF OldInv
<1> QED
  BY <1>2, <1>3, <1>4, <1>5, <1>6 DEF DataInv, SavedInv, RecordInv, CopyInv

LEMMA DropTempKeeps == ASSUME DataInv, DropTemp PROVE DataInv'
<1> USE DEF DropTemp, rebuild, history
<1>1. TypeOK /\ ShapeInv /\ KeptInv /\ SavedInv
  BY DEF DataInv
<1>2. TypeOK'
  <2>1. saves' \in 0 .. MaxSaves /\ <<crashes', faults'>> \in Histories \cup {<<0, 0>>}
    BY <1>1, BoundsType
  <2>2. Len(temp') <= MaxFile
    BY <1>1, BoundAssumption DEF TypeOK
  <2> QED
    BY <1>1, <2>1, <2>2 DEF TypeOK
<1>3. ShapeInv'
  <2>1. temp' \in Seq(Cell)
    <3>1. temp \in Seq(Cell) /\ <<>> \in Seq(Cell)
      BY <1>1 DEF ShapeInv
    <3>2. temp' = temp \/ temp' = <<>>
      OBVIOUS
    <3> QED
      BY <3>1, <3>2
  <2> QED
    BY <1>1, <2>1 DEF ShapeInv
<1>4. KeptInv'
  BY <1>1, KeptSame DEF KeptInv
<1>5. SavedInv'
  BY <1>1 DEF SavedInv
<1> QED
  BY <1>2, <1>3, <1>4, <1>5 DEF DataInv, PlaceInv, OldInv, RecordInv, CopyInv

LEMMA CrashKeeps == ASSUME DataInv, Crash PROVE DataInv'
<1> USE DEF Crash, Return, rebuild
<1>1. TypeOK /\ ShapeInv /\ KeptInv
  BY DEF DataInv
<1>2. torn' = torn \/ torn' = Ids \/ torn' = torn \cup {job.id}
  OBVIOUS
<1>3. job \in Jobs
  BY <1>1 DEF ShapeInv
<1>4. TypeOK'
  <2>1. torn' \subseteq Ids
    BY <1>1, <1>2, <1>3 DEF TypeOK, Jobs
  <2>2. <<crashes', faults'>> \in Histories \cup {<<0, 0>>}
    OBVIOUS
  <2> QED
    BY <1>1, <2>1, <2>2 DEF TypeOK
<1>5. ShapeInv'
  BY <1>1 DEF ShapeInv
<1>6. KeptInv'
  <2> SUFFICES ASSUME NEW id \in Ids, id \notin torn'
               PROVE  Kept(state, id)'
    BY DEF KeptInv
  <2>1. pc # "copy"
    OBVIOUS
  <2>2. ~(pc = "inPlace" /\ at > 0 /\ id = job.id) /\ id \notin torn
    BY <1>2, <2>1
  <2> QED
    BY <1>1, <2>1, <2>2, KeptSame DEF KeptInv
<1> QED
  BY <1>4, <1>5, <1>6 DEF DataInv, SavedInv, PlaceInv, OldInv, RecordInv, CopyInv

LEMMA StutterKeeps == ASSUME DataInv, UNCHANGED vars PROVE DataInv'
<1> USE DEF vars, rebuild, history, bounds
<1>1. TypeOK' /\ ShapeInv' /\ PlaceInv' /\ OldInv' /\ SavedInv'
  BY DEF DataInv, TypeOK, ShapeInv, PlaceInv, OldInv, SavedInv
<1>2. KeptInv'
  BY KeptSame DEF DataInv, KeptInv
<1>3. RecordInv'
  BY DEF DataInv, RecordInv, Rebuilt, NewCount, Replacing, Others
<1>4. CopyInv'
  BY DEF DataInv, CopyInv, Kept
<1> QED
  BY <1>1, <1>2, <1>3, <1>4 DEF DataInv

LEMMA WriteInPlaceKeeps == ASSUME DataInv, WriteInPlace PROVE DataInv'
<1>1. TypeOK /\ ShapeInv /\ KeptInv /\ PlaceInv
  BY DEF DataInv
<1>2. /\ pc = "inPlace" /\ at < Len(job.data) /\ at \in Nat
      /\ UNCHANGED <<temp, job, rebuild, stored, misread>>
  BY <1>1 DEF WriteInPlace, TypeOK
<1>3. job \in Jobs /\ job.id \in Ids /\ job.data \in Payloads
  BY <1>1, <1>2 DEF ShapeInv, Jobs
<1>4. ASSUME Fails, Return("failed"), UNCHANGED <<state, at>>,
             torn' = torn \cup {job.id} \/ (torn' = torn /\ at = 0)
      PROVE  DataInv'
  <2>1. TypeOK'
    <3>1. saves' \in 0 .. MaxSaves /\ <<crashes', faults'>> \in Histories \cup {<<0, 0>>}
      BY <1>1, <1>4, BoundsType
    <3> QED
      BY <1>1, <1>2, <1>3, <1>4, <3>1 DEF TypeOK, Return
  <2>2. ShapeInv'
    BY <1>1, <1>2, <1>4 DEF ShapeInv, Return, rebuild
  <2>3. KeptInv'
    <3> SUFFICES ASSUME NEW id \in Ids, id \notin torn'
                 PROVE  Kept(state, id)'
      BY DEF KeptInv
    <3>1. ~(pc = "inPlace" /\ at > 0 /\ id = job.id) /\ id \notin torn /\ pc # "copy"
      BY <1>2, <1>4
    <3> QED
      BY <1>1, <1>2, <1>4, <3>1, KeptSame DEF KeptInv
  <2> QED
    BY <1>4, <2>1, <2>2, <2>3
    DEF DataInv, Return, SavedInv, PlaceInv, OldInv, RecordInv, CopyInv
<1>5. ASSUME Works, NEW e \in FindDataEntry(state, job.id),
             state' = Write(state, OffsetOf(e) + 1 + at, <<Cells(job.data)[at + 1]>>),
             at' = at + 1, UNCHANGED <<pc, result, torn>>
      PROVE  DataInv'
  <2>1. /\ at <= Len(job.data) /\ SizeOf(e) = Len(job.data)
        /\ \A k \in 1 .. at : state[OffsetOf(e) + 1 + k] = Cells(job.data)[k]
    <3>1. \A d \in FindDataEntry(state, job.id) : d = e
      BY <1>1, Found DEF ShapeInv
    <3> QED
      BY <1>1, <1>2, <3>1 DEF PlaceInv
  <2>2. /\ Cells(job.data) \in Seq(Cell) /\ Len(Cells(job.data)) = Len(job.data)
        /\ Len(job.data) \in Nat
    BY <1>3, CellsType
  <2>3. at + 1 \in 1 .. Len(job.data)
    BY <1>2, <2>2
  <2>4. Cells(job.data)[at + 1] \in Cell
    BY <2>2, <2>3
  <2>5. /\ state' \in Seq(Cell) /\ Len(state') = Len(state)
        /\ state'[OffsetOf(e) + 1 + (at + 1)] = Cells(job.data)[at + 1]
        /\ \A p \in 1 .. Len(state) : p # OffsetOf(e) + 1 + (at + 1) => state'[p] = state[p]
        /\ \A d : FindDataEntry(state', d) = FindDataEntry(state, d)
        /\ \A d, data : d # job.id => (Loads(state', d, data) <=> Loads(state, d, data))
    <3>1. state \in Seq(Cell) /\ at < SizeOf(e)
      BY <1>1, <1>2, <2>1 DEF ShapeInv
    <3> DEFINE c == Cells(job.data)[at + 1]
               id == job.id
               g == Write(state, OffsetOf(e) + 1 + at, <<c>>)
    <3>2. c \in Cell /\ e \in FindDataEntry(state, id)
      BY <2>4
    <3>3. g = Write(state, OffsetOf(e) + 1 + at, <<c>>)
      OBVIOUS
    <3>4. state' = g
      BY <1>5
    <3> HIDE DEF c, id, g
    <3>5. /\ g \in Seq(Cell) /\ Len(g) = Len(state)
          /\ g[OffsetOf(e) + 1 + (at + 1)] = c
          /\ \A p \in 1 .. Len(state) : p # OffsetOf(e) + 1 + (at + 1) => g[p] = state[p]
          /\ \A d : FindDataEntry(g, d) = FindDataEntry(state, d)
          /\ \A d, data : d # id => (Loads(g, d, data) <=> Loads(state, d, data))
      BY <1>2, <3>1, <3>2, <3>3, InPlace
    <3> QED
      BY <3>4, <3>5 DEF c, id
  <2>6. /\ e \in Cell /\ OffsetOf(e) \in Nat /\ SizeOf(e) \in Nat /\ EndOf(e) <= Len(state)
        /\ EndOf(e) = OffsetOf(e) + 1 + SizeOf(e)
    BY <1>1, Found, EntryCell DEF ShapeInv
  <2>7. TypeOK'
    <3>1. saves' \in 0 .. MaxSaves /\ <<crashes', faults'>> \in Histories \cup {<<0, 0>>}
      BY <1>1, <1>5, BoundsType
    <3>2. Len(state) \in Nat /\ Len(state) <= MaxFile /\ MaxFile \in Nat
      BY <1>1, BoundAssumption DEF TypeOK, ShapeInv
    <3>3. at + 1 \in 0 .. MaxFile
      BY <1>2, <2>1, <2>6, <3>2
    <3> QED
      BY <1>1, <1>2, <1>5, <2>5, <3>1, <3>3 DEF TypeOK
  <2>8. ShapeInv'
    BY <1>1, <1>2, <1>5, <2>5 DEF ShapeInv, rebuild
  <2>9. KeptInv'
    <3> SUFFICES ASSUME NEW id \in Ids, id \notin torn', id # job.id
                 PROVE  Kept(state, id)'
      BY <1>2, <1>5 DEF KeptInv
    <3>1. Kept(state, id)
      BY <1>1, <1>2, <1>5 DEF KeptInv
    <3>2. stored' = stored
      BY <1>2
    <3> QED
      BY <2>5, <3>1, <3>2 DEF Kept
  <2>10. PlaceInv'
    <3>1. \A k \in 1 .. at + 1 : state'[OffsetOf(e) + 1 + k] = Cells(job.data)[k]
      <4> SUFFICES ASSUME NEW k \in 1 .. at + 1
                   PROVE  state'[OffsetOf(e) + 1 + k] = Cells(job.data)[k]
        OBVIOUS
      <4>1. CASE k = at + 1
        BY <2>5, <4>1
      <4>2. CASE k # at + 1
        <5>1. k \in 1 .. at
          BY <1>2, <4>2
        <5>2. Len(state) \in Nat
          BY <1>1 DEF ShapeInv
        <5>3. /\ OffsetOf(e) + 1 + k \in 1 .. Len(state)
              /\ OffsetOf(e) + 1 + k # OffsetOf(e) + 1 + (at + 1)
          BY <1>2, <2>1, <2>6, <5>1, <5>2
        <5> QED
          BY <2>1, <2>5, <5>1, <5>3
      <4> QED
        BY <4>1, <4>2
    <3>2. at + 1 <= Len(job.data)
      BY <2>2, <2>3
    <3>3. e \in FindDataEntry(state', job.id)
      BY <2>5
    <3>4. job' = job /\ at' = at + 1
      BY <1>2, <1>5
    <3> QED
      BY <2>1, <3>1, <3>2, <3>3, <3>4 DEF PlaceInv
  <2> QED
    BY <1>2, <1>5, <2>7, <2>8, <2>9, <2>10
    DEF DataInv, SavedInv, OldInv, RecordInv, CopyInv
<1> QED
  BY <1>4, <1>5 DEF WriteInPlace

LEMMA WrittenInPlaceKeeps == ASSUME DataInv, WrittenInPlace PROVE DataInv'
<1> USE DEF WrittenInPlace, Return, bounds, rebuild
<1>1. TypeOK /\ ShapeInv /\ KeptInv /\ PlaceInv
  BY DEF DataInv
<1>2. job \in Jobs /\ job.id \in Ids /\ job.data \in Payloads /\ job.data # None
  BY <1>1, PayloadAssumption DEF ShapeInv, Jobs
<1>3. state \in Seq(Cell)
  BY <1>1 DEF ShapeInv
<1>4. Loads(state, job.id, job.data)
  <2>1. PICK e \in FindDataEntry(state, job.id) :
            /\ SizeOf(e) = Len(job.data)
            /\ \A k \in 1 .. Len(job.data) : state[OffsetOf(e) + 1 + k] = Cells(job.data)[k]
    BY <1>1 DEF PlaceInv
  <2>2. e \in Cell /\ e[1] = "entry" /\ EndOf(e) <= Len(state)
    BY <1>3, Found
  <2>3. /\ PayloadOf(state, e) \in Seq(Cell) /\ Len(PayloadOf(state, e)) = SizeOf(e)
        /\ \A k \in 1 .. SizeOf(e) : PayloadOf(state, e)[k] = state[OffsetOf(e) + 1 + k]
    BY <1>3, <2>2, PayloadCells
  <2>4. Cells(job.data) \in Seq(Cell) /\ Len(Cells(job.data)) = Len(job.data)
    BY <1>2, CellsType
  <2>5. PayloadOf(state, e) = Cells(job.data)
    BY <2>1, <2>3, <2>4, SeqEqual
  <2> QED
    BY <2>1, <2>5, LoadsPayload
<1>5. TypeOK'
  <2>1. stored' \in [Ids -> Payloads \cup {None}]
    BY <1>1, <1>2 DEF TypeOK
  <2>2. torn' \subseteq Ids
    BY <1>1 DEF TypeOK
  <2> QED
    BY <1>1, <2>1, <2>2 DEF TypeOK
<1>6. ShapeInv'
  BY <1>1 DEF ShapeInv
<1>7. KeptInv'
  <2> SUFFICES ASSUME NEW id \in Ids, id \notin torn'
               PROVE  Kept(state, id)'
    BY DEF KeptInv
  <2>1. CASE id = job.id
    <3>1. stored'[id] = job.data
      BY <1>1, <1>2, <2>1 DEF TypeOK
    <3> QED
      BY <1>2, <1>4, <2>1, <3>1 DEF Kept
  <2>2. CASE id # job.id
    <3>1. stored'[id] = stored[id] /\ id \notin torn
      BY <1>1, <2>2 DEF TypeOK
    <3> QED
      BY <1>1, <2>2, <3>1, KeptSame DEF KeptInv
  <2> QED
    BY <2>1, <2>2
<1>8. SavedInv'
  BY <1>4 DEF SavedInv
<1> QED
  BY <1>5, <1>6, <1>7, <1>8 DEF DataInv, PlaceInv, OldInv, RecordInv, CopyInv

\* A save that gives up before the state file is touched keeps everything.
LEMMA GivesUp ==
    ASSUME DataInv, pc \in {"layout", "record", "openState"}, pc' \in {"idle", "drop"},
           Works \/ Fails, result' = "failed", at' = at \/ at' = 0,
           UNCHANGED <<state, job, old, history>>,
           temp' \in Seq(Cell), Len(temp') <= MaxFile, built' \in Builds
    PROVE  DataInv'
<1> USE DEF history
<1>1. TypeOK /\ ShapeInv /\ KeptInv
  BY DEF DataInv
<1>2. TypeOK'
  <2>1. saves' \in 0 .. MaxSaves /\ <<crashes', faults'>> \in Histories \cup {<<0, 0>>}
    BY <1>1, BoundsType
  <2>2. 0 \in 0 .. MaxFile
    BY BoundAssumption
  <2> QED
    BY <1>1, <2>1, <2>2 DEF TypeOK
<1>3. ShapeInv'
  BY <1>1 DEF ShapeInv
<1>4. KeptInv'
  BY <1>1, KeptSame DEF KeptInv
<1> QED
  BY <1>2, <1>3, <1>4 DEF DataInv, SavedInv, PlaceInv, OldInv, RecordInv, CopyInv

\* The rebuild of the new files is the same as long as the old ones are.
LEMMA RebuiltSame ==
    ASSUME UNCHANGED <<state, job, old>>, Rebuilt(temp', built', at')
    PROVE  Rebuilt(temp, built, at)'
  BY DEF Rebuilt, NewCount, Replacing, Others

LEMMA LayoutKeeps == ASSUME DataInv, Layout PROVE DataInv'
<1>1. TypeOK /\ ShapeInv /\ KeptInv /\ OldInv
  BY DEF DataInv
<1>2. /\ pc = "layout" /\ UNCHANGED <<state, job, old, history>>
      /\ temp \in Seq(Cell) /\ Len(temp) <= MaxFile /\ built \in Builds
  BY <1>1 DEF Layout, TypeOK, ShapeInv
<1>3. old \in Seq(Cell) /\ job \in Jobs /\ \A i \in 1 .. Len(old) : old[i][1] = "entry"
  BY <1>1, <1>2, OldTable
<1>4. /\ NewCount \in Nat /\ Len(old) \in Nat /\ Len(old) <= NewCount
      /\ FinalSize \in Nat /\ TableEnd(NewCount) < FinalSize
      /\ TableEnd(NewCount) = NewCount + 1
  BY <1>3, FinalSizeType DEF TableEnd
<1>5. ASSUME UNCHANGED <<temp, built, at>>, pc' \in {"idle", "drop"}, result' = "failed",
             Works \/ Fails
      PROVE  DataInv'
  BY <1>2, <1>5, GivesUp
<1>6. ASSUME Works, Fits(FinalSize), pc' = "record", at' = 1, result' = result,
             temp' = Write(Resize(temp, FinalSize), 0, <<Count(NewCount)>>),
             built' = [NothingBuilt EXCEPT !.finalSize = FinalSize,
                                           !.dataOffset = TableEnd(NewCount)]
      PROVE  DataInv'
  <2> DEFINE n == NewCount
             size == FinalSize
             f == Resize(temp, size)
             cells == <<Count(n)>>
             g == Write(f, 0, cells)
  <2>1. /\ n \in Nat /\ size \in Nat /\ n + 1 < size /\ Len(old) <= n /\ Len(old) \in Nat
        /\ TableEnd(n) = n + 1
    BY <1>4
  <2>2. f \in Seq(Cell) /\ Len(f) = size
    <3> HIDE DEF size
    <3> QED
      BY <1>2, <2>1, ResizeCells
  <2>3. cells \in Seq(Cell) /\ Len(cells) = 1 /\ cells[1] = Count(n)
    <3>1. Count(n) \in Cell
      BY <2>1, MadeCells
    <3> QED
      BY <3>1
  <2>4. /\ built'.finalSize = size /\ built'.tableIndex = 0 /\ built'.dataOffset = n + 1
        /\ built'.targetWritten = FALSE /\ built' \in Builds
    <3> DEFINE end == TableEnd(n)
    <3>1. size \in Nat /\ end \in Nat /\ end = n + 1
      BY <2>1
    <3>2. built' = [NothingBuilt EXCEPT !.finalSize = size, !.dataOffset = end]
      BY <1>6
    <3> HIDE DEF size, end
    <3>3. built' = [[NothingBuilt EXCEPT !.finalSize = size] EXCEPT !.dataOffset = end]
      BY <3>2 DEF NothingBuilt
    <3>4. /\ [[NothingBuilt EXCEPT !.finalSize = size] EXCEPT !.dataOffset = end]
                  \in Builds
          /\ built'.finalSize = size /\ built'.tableIndex = 0
          /\ built'.dataOffset = end /\ built'.targetWritten = FALSE
      BY <3>1, <3>3 DEF NothingBuilt, Builds
    <3> QED
      BY <3>1, <3>3, <3>4
  <2>5. temp' = g
    BY <1>6
  <2> HIDE DEF n, size, f, cells
  <2>6. /\ g \in Seq(Cell) /\ Len(g) = size /\ g[1] = Count(n)
    <3>1. Overwritten(f, 0, cells, g)
      BY <2>2, <2>3, WriteCells
    <3>2. 1 \in 1 .. Len(f) /\ 1 - 0 \in 1 .. Len(cells) /\ 1 - 0 = 1
      BY <2>1, <2>2, <2>3
    <3> QED
      BY <2>2, <2>3, <3>1, <3>2 DEF Overwritten
  <2> HIDE DEF g
  <2>7. size <= MaxFile /\ MaxFile \in Nat
    BY <1>6, BoundAssumption DEF Fits, size
  <2>8. TypeOK'
    <3>1. saves' \in 0 .. MaxSaves /\ <<crashes', faults'>> \in Histories \cup {<<0, 0>>}
      BY <1>1, <1>6, BoundsType
    <3>2. 1 \in 0 .. MaxFile
      BY <2>1, <2>7
    <3> QED
      BY <1>1, <1>2, <1>6, <2>5, <2>6, <2>7, <3>1, <3>2 DEF TypeOK, history
  <2>9. ShapeInv'
    BY <1>1, <1>2, <1>3, <2>4, <2>5, <2>6 DEF ShapeInv
  <2>10. KeptInv'
    BY <1>1, <1>2, KeptSame DEF KeptInv, history
  <2>11. OldInv'
    BY <1>1, <1>2, <1>6 DEF OldInv, history
  <2>12. RecordInv'
    <3>1. Blocks(g, n, 0, n + 1)
      BY <2>1, <2>6 DEF Blocks
    <3>2. Rebuilt(temp', built', at')
      BY <1>6, <2>4, <2>5, <3>1 DEF Rebuilt, n
    <3>3. Rebuilt(temp, built, at)'
      BY <1>2, <3>2, RebuiltSame
    <3>4. at' \in 1 .. Len(old) + 1 /\ Len(temp') = built'.finalSize
          /\ Len(old) < built'.finalSize
      BY <1>6, <2>1, <2>4, <2>5, <2>6
    <3> QED
      BY <1>2, <3>3, <3>4 DEF RecordInv
  <2> QED
    BY <1>6, <2>8, <2>9, <2>10, <2>11, <2>12 DEF DataInv, SavedInv, PlaceInv, CopyInv
<1> QED
  BY <1>5, <1>6 DEF Layout, Return

LEMMA WriteRecordKeeps == ASSUME DataInv, WriteRecord PROVE DataInv'
<1>1. TypeOK /\ ShapeInv /\ KeptInv /\ OldInv /\ RecordInv
  BY DEF DataInv
<1>2. /\ pc = "record" /\ UNCHANGED <<state, job, old, history>>
      /\ temp \in Seq(Cell) /\ Len(temp) <= MaxFile /\ built \in Builds
      /\ at <= Len(old) /\ at \in 1 .. Len(old) + 1
      /\ Len(temp) = built.finalSize /\ Len(old) < built.finalSize
      /\ Rebuilt(temp, built, at)
  BY <1>1 DEF WriteRecord, TypeOK, ShapeInv, RecordInv
<1>3. /\ old \in Seq(Cell) /\ job \in Jobs /\ Len(old) \in Nat
      /\ \A i \in 1 .. Len(old) : old[i][1] = "entry" /\ IdOf(old[i]) \in Ids
      /\ \A i, j \in 1 .. Len(old) : i < j => IdOf(old[i]) < IdOf(old[j])
  BY <1>1, <1>2, OldTable
<1>4. NewCount \in Nat
  BY <1>3, FinalSizeType
<1>5. at \in 1 .. Len(old) /\ at \in Nat
  BY <1>2, <1>3
<1>6. \A i \in 1 .. Len(old) : IdOf(old[i]) \in Nat
  BY <1>3, IdAssumption
<1>7. job.id \in Nat
  BY <1>3, IdAssumption DEF Jobs
<1> DEFINE e == old[at]
           cells == PayloadOf(state, e)
           first == IF ComesBefore(e) THEN Target(temp, built) ELSE temp
           next == IF ComesBefore(e) THEN AfterTarget(built) ELSE built
<1>8. /\ first \in Seq(Cell) /\ Len(first) = next.finalSize /\ next \in Builds
      /\ next.finalSize = built.finalSize
      /\ Rebuilt(first, next, at)
      /\ ~next.targetWritten => ~ComesBefore(e) /\ next = built
  <2>1. CASE ComesBefore(e)
    <3>1. ~built.targetWritten /\ job.id < IdOf(e)
      BY <2>1 DEF ComesBefore
    <3>2. \A i \in at .. Len(old) : job.id < IdOf(old[i])
      <4> SUFFICES ASSUME NEW i \in at .. Len(old)
                   PROVE  job.id < IdOf(old[i])
        OBVIOUS
      <4>1. i \in 1 .. Len(old) /\ (i = at \/ at < i)
        BY <1>5
      <4> QED
        BY <1>3, <1>5, <1>6, <1>7, <3>1, <4>1
    <3>3. built.tableIndex <= NewCount /\ built.dataOffset <= built.finalSize =>
              \A j \in 1 .. built.tableIndex : IdOf(temp[j + 1]) < job.id
      BY <1>2, <3>1 DEF Rebuilt
    <3>4. /\ Target(temp, built) \in Seq(Cell) /\ Len(Target(temp, built)) = Len(temp)
          /\ AfterTarget(built) \in Builds /\ AfterTarget(built).finalSize = built.finalSize
          /\ AfterTarget(built).targetWritten
          /\ Rebuilt(Target(temp, built), AfterTarget(built), at)
      BY <1>1, <1>2, <1>4, <1>5, <3>2, <3>3, PutTarget
    <3> QED
      BY <1>2, <2>1, <3>4
  <2>2. CASE ~ComesBefore(e)
    BY <1>2, <2>2
  <2> QED
    BY <2>1, <2>2
<1>9. cells = SubSeq(state, OffsetOf(e) + 2, EndOf(e))
  BY DEF PayloadOf
<1> DEFINE put == IF IdOf(e) = job.id THEN Target(first, next)
                                      ELSE Record(first, next, IdOf(e), cells)
           sums == IF IdOf(e) = job.id THEN AfterTarget(next) ELSE After(next, cells)
<1>10. \/ Works /\ temp' = put /\ built' = sums /\ at' = at + 1 /\ UNCHANGED <<pc, result>>
       \/ Fails /\ pc' = "drop" /\ result' = "failed" /\ UNCHANGED <<temp, built, at>>
  BY <1>9 DEF WriteRecord
<1> HIDE DEF first, next
<1>11. /\ put \in Seq(Cell) /\ Len(put) = built.finalSize /\ sums \in Builds
       /\ sums.finalSize = built.finalSize
       /\ Rebuilt(put, sums, at + 1)
  <2>1. CASE IdOf(e) = job.id
    <3>1. ~ComesBefore(e)
      BY <1>7, <2>1 DEF ComesBefore
    <3>2. Rebuilt(first, next, at + 1)
      <4> SUFFICES ASSUME next.tableIndex <= NewCount, next.dataOffset <= next.finalSize
                   PROVE  Rebuilt(first, next, at + 1)
        BY DEF Rebuilt
      <4>1. /\ Blocks(first, NewCount, next.tableIndex, next.dataOffset)
            /\ \A i \in 1 .. at - 1 : IdOf(old[i]) # job.id =>
                   HasRecord(first, next.tableIndex, IdOf(old[i]), PayloadOf(state, old[i]))
            /\ next.targetWritten =>
                   HasRecord(first, next.tableIndex, job.id, Cells(job.data))
            /\ \A j \in 1 .. next.tableIndex :
                   /\ \/ IdOf(first[j + 1]) = job.id
                      \/ \E i \in 1 .. at - 1 : IdOf(first[j + 1]) = IdOf(old[i])
                   /\ \A i \in at .. Len(old) : IdOf(first[j + 1]) < IdOf(old[i])
                   /\ ~next.targetWritten => IdOf(first[j + 1]) < job.id
        BY <1>8 DEF Rebuilt
      <4>2. /\ (at + 1) - 1 = at
            /\ \A i \in 1 .. at : i = at \/ i \in 1 .. at - 1
            /\ \A i \in 1 .. at - 1 : i \in 1 .. at
            /\ \A i \in at + 1 .. Len(old) : i \in at .. Len(old)
        BY <1>5
      <4>3. \A i \in 1 .. at : IdOf(old[i]) # job.id =>
                HasRecord(first, next.tableIndex, IdOf(old[i]), PayloadOf(state, old[i]))
        BY <2>1, <4>1, <4>2
      <4>4. \A j \in 1 .. next.tableIndex :
                /\ \/ IdOf(first[j + 1]) = job.id
                   \/ \E i \in 1 .. at : IdOf(first[j + 1]) = IdOf(old[i])
                /\ \A i \in at + 1 .. Len(old) : IdOf(first[j + 1]) < IdOf(old[i])
                /\ ~next.targetWritten => IdOf(first[j + 1]) < job.id
        BY <4>1, <4>2
      <4> QED
        BY <4>1, <4>2, <4>3, <4>4 DEF Rebuilt
    <3>3. \A i \in at + 1 .. Len(old) : job.id < IdOf(old[i])
      <4> SUFFICES ASSUME NEW i \in at + 1 .. Len(old)
                   PROVE  job.id < IdOf(old[i])
        OBVIOUS
      <4>1. i \in 1 .. Len(old) /\ at < i
        BY <1>5
      <4> QED
        BY <1>3, <1>5, <2>1, <4>1
    <3>4. next.tableIndex <= NewCount /\ next.dataOffset <= next.finalSize =>
              \A j \in 1 .. next.tableIndex : IdOf(first[j + 1]) < job.id
      <4>1. at \in at .. Len(old)
        BY <1>5
      <4> QED
        BY <1>8, <2>1, <4>1 DEF Rebuilt
    <3>5. at + 1 \in Nat
      BY <1>5
    <3>6. /\ Target(first, next) \in Seq(Cell) /\ Len(Target(first, next)) = Len(first)
          /\ AfterTarget(next) \in Builds /\ AfterTarget(next).finalSize = next.finalSize
          /\ Rebuilt(Target(first, next), AfterTarget(next), at + 1)
      BY <1>1, <1>2, <1>4, <1>8, <3>2, <3>3, <3>4, <3>5, PutTarget
    <3> QED
      BY <1>8, <2>1, <3>6
  <2>2. CASE IdOf(e) # job.id
    <3>1. ~next.targetWritten => IdOf(old[at]) < job.id
      <4>1. next = built /\ ~ComesBefore(e) /\ ~next.targetWritten => ~(job.id < IdOf(e))
        BY DEF ComesBefore
      <4> QED
        BY <1>5, <1>6, <1>7, <1>8, <2>2, <4>1
    <3>2. cells = PayloadOf(state, old[at])
      OBVIOUS
    <3> HIDE DEF cells
    <3>3. LET g == Record(first, next, IdOf(old[at]), cells)
          IN  /\ g \in Seq(Cell) /\ Len(g) = Len(first)
              /\ After(next, cells) \in Builds /\ After(next, cells).finalSize = next.finalSize
              /\ Rebuilt(g, After(next, cells), at + 1)
      BY <1>1, <1>2, <1>4, <1>5, <1>8, <3>1, <3>2, PutOld
    <3> QED
      BY <1>8, <2>2, <3>3
  <2> QED
    BY <2>1, <2>2
<1> HIDE DEF put, sums
<1>12. CASE Fails /\ pc' = "drop" /\ result' = "failed" /\ UNCHANGED <<temp, built, at>>
  BY <1>2, <1>12, GivesUp
<1>13. CASE Works /\ temp' = put /\ built' = sums /\ at' = at + 1 /\ UNCHANGED <<pc, result>>
  <2>1. Len(temp') = Len(temp) /\ MaxFile \in Nat
    BY <1>2, <1>11, <1>13, BoundAssumption
  <2>2. TypeOK'
    <3>1. saves' \in 0 .. MaxSaves /\ <<crashes', faults'>> \in Histories \cup {<<0, 0>>}
      BY <1>1, <1>13, BoundsType
    <3>2. at + 1 \in 0 .. MaxFile
      <4>1. Len(old) < Len(temp) /\ Len(temp) <= MaxFile /\ Len(temp) \in Nat
        BY <1>2
      <4> QED
        BY <1>5, <2>1, <4>1
    <3> QED
      BY <1>1, <1>2, <1>13, <2>1, <3>1, <3>2 DEF TypeOK, history
  <2>3. ShapeInv'
    BY <1>1, <1>2, <1>3, <1>11, <1>13 DEF ShapeInv
  <2>4. KeptInv'
    BY <1>1, <1>2, <1>13, KeptSame DEF KeptInv, history
  <2>5. OldInv'
    BY <1>1, <1>2, <1>13 DEF OldInv, history
  <2>6. RecordInv'
    <3>1. Rebuilt(temp, built, at)'
      BY <1>2, <1>11, <1>13, RebuiltSame
    <3>2. at' \in 1 .. Len(old) + 1
      BY <1>5, <1>13
    <3> QED
      BY <1>2, <1>11, <1>13, <3>1, <3>2 DEF RecordInv
  <2> QED
    BY <1>2, <1>13, <2>2, <2>3, <2>4, <2>5, <2>6 DEF DataInv, SavedInv, PlaceInv, CopyInv
<1> QED
  BY <1>10, <1>12, <1>13

LEMMA LastRecordKeeps == ASSUME DataInv, LastRecord PROVE DataInv'
<1>1. TypeOK /\ ShapeInv /\ KeptInv /\ OldInv /\ RecordInv
  BY DEF DataInv
<1>2. /\ pc = "record" /\ UNCHANGED <<state, job, at, old, history>>
      /\ temp \in Seq(Cell) /\ Len(temp) <= MaxFile /\ built \in Builds
      /\ at > Len(old) /\ at \in 1 .. Len(old) + 1
      /\ Len(temp) = built.finalSize
      /\ Rebuilt(temp, built, at)
  BY <1>1 DEF LastRecord, TypeOK, ShapeInv, RecordInv
<1>3. /\ old \in Seq(Cell) /\ job \in Jobs /\ Len(old) \in Nat
      /\ \A i \in 1 .. Len(old) : old[i][1] = "entry" /\ IdOf(old[i]) \in Ids
  BY <1>1, <1>2, OldTable
<1>4. NewCount \in Nat
  BY <1>3, FinalSizeType
<1>5. at = Len(old) + 1 /\ at \in Nat /\ at - 1 = Len(old)
  BY <1>2, <1>3
<1> DEFINE f == IF built.targetWritten THEN temp ELSE Target(temp, built)
           b == IF built.targetWritten THEN built ELSE AfterTarget(built)
<1>6. \/ /\ Works /\ temp' = f /\ built' = b
         /\ \/ /\ built'.tableIndex = NewCount /\ built'.dataOffset = built'.finalSize
               /\ pc' = "openState" /\ UNCHANGED result
            \/ pc' = "drop" /\ result' = "failed"
      \/ Fails /\ pc' = "drop" /\ result' = "failed" /\ UNCHANGED <<temp, built>>
  <2>1. AfterTarget(built).finalSize = built.finalSize
    BY <1>2, <1>3, AfterTargetSums
  <2> QED
    BY <2>1 DEF LastRecord
<1>7. /\ f \in Seq(Cell) /\ Len(f) = b.finalSize /\ b \in Builds
      /\ b.finalSize = built.finalSize /\ b.targetWritten
      /\ Rebuilt(f, b, at)
  <2>1. CASE ~built.targetWritten
    <3>1. \A i \in at .. Len(old) : job.id < IdOf(old[i])
      BY <1>5
    <3>2. built.tableIndex <= NewCount /\ built.dataOffset <= built.finalSize =>
              \A j \in 1 .. built.tableIndex : IdOf(temp[j + 1]) < job.id
      BY <1>2, <2>1 DEF Rebuilt
    <3>3. /\ Target(temp, built) \in Seq(Cell) /\ Len(Target(temp, built)) = Len(temp)
          /\ AfterTarget(built) \in Builds /\ AfterTarget(built).finalSize = built.finalSize
          /\ AfterTarget(built).targetWritten
          /\ Rebuilt(Target(temp, built), AfterTarget(built), at)
      BY <1>1, <1>2, <1>4, <1>5, <3>1, <3>2, PutTarget
    <3> QED
      BY <1>2, <2>1, <3>3
  <2>2. CASE built.targetWritten
    BY <1>2, <2>2
  <2> QED
    BY <2>1, <2>2
<1> HIDE DEF f, b
<1>8. CASE Fails /\ pc' = "drop" /\ result' = "failed" /\ UNCHANGED <<temp, built>>
  BY <1>2, <1>8, GivesUp
<1>9. CASE Works /\ temp' = f /\ built' = b /\ pc' = "drop" /\ result' = "failed"
  BY <1>2, <1>7, <1>9, GivesUp
<1>10. ASSUME Works, temp' = f, built' = b, b.tableIndex = NewCount,
              b.dataOffset = b.finalSize, pc' = "openState", result' = result
       PROVE  DataInv'
  <2>1. TypeOK'
    <3>1. saves' \in 0 .. MaxSaves /\ <<crashes', faults'>> \in Histories \cup {<<0, 0>>}
      BY <1>1, <1>10, BoundsType
    <3> QED
      BY <1>1, <1>2, <1>7, <1>10, <3>1 DEF TypeOK, history
  <2>2. ShapeInv'
    BY <1>1, <1>2, <1>3, <1>7, <1>10 DEF ShapeInv
  <2>3. KeptInv'
    BY <1>1, <1>2, <1>10, KeptSame DEF KeptInv, history
  <2> DEFINE n == NewCount
  <2>4. b.dataOffset <= b.finalSize /\ b.tableIndex <= n /\ n \in Nat
    BY <1>4, <1>7, <1>10 DEF Builds
  <2>5. /\ Blocks(f, n, n, Len(f))
        /\ \A i \in 1 .. Len(old) : IdOf(old[i]) # job.id =>
               HasRecord(f, n, IdOf(old[i]), PayloadOf(state, old[i]))
        /\ HasRecord(f, n, job.id, Cells(job.data))
        /\ \A j \in 1 .. n : \/ IdOf(f[j + 1]) = job.id
                             \/ \E i \in 1 .. Len(old) : IdOf(f[j + 1]) = IdOf(old[i])
    BY <1>5, <1>7, <1>10, <2>4 DEF Rebuilt
  <2> HIDE DEF n
  <2>6. /\ \A id, data :
              HasRecord(f, n, id, Cells(data)) /\ Len(Cells(data)) = Len(data) =>
                  Loads(f, id, data)
        /\ \A id : (\A j \in 1 .. n : IdOf(f[j + 1]) # id) => FindDataEntry(f, id) = {}
    BY <1>7, <2>4, <2>5, CompleteValidates
  <2>7. Loads(f, job.id, job.data)
    <3>1. Len(Cells(job.data)) = Len(job.data)
      BY <1>3, CellsType DEF Jobs
    <3> QED
      BY <2>5, <2>6, <3>1
  <2>8. ASSUME ~misread, NEW id \in Ids, id \notin torn, id # job.id
        PROVE  Kept(f, id)
    <3>1. Kept(state, id)
      BY <1>1, <1>2, <2>8 DEF KeptInv
    <3>2. old = Table(state) /\ state \in Seq(Cell)
      BY <1>1, <1>2, <2>8 DEF OldInv, ShapeInv
    <3>3. \A e : e \in FindDataEntry(state, id) <=>
              \E i \in 1 .. Len(old) : e = old[i] /\ IdOf(old[i]) = id
      BY <3>2, Found
    <3>4. CASE stored[id] = None
      <4>1. \A i \in 1 .. Len(old) : IdOf(old[i]) # id
        BY <3>1, <3>3, <3>4 DEF Kept
      <4>2. FindDataEntry(f, id) = {}
        BY <2>5, <2>6, <2>8, <4>1
      <4> QED
        BY <3>4, <4>2 DEF Kept
    <3>5. CASE stored[id] # None
      <4>1. Loads(state, id, stored[id])
        BY <3>1, <3>5 DEF Kept
      <4>2. PICK e \in FindDataEntry(state, id) : PayloadOf(state, e) = Cells(stored[id])
        BY <4>1, LoadsPayload
      <4>3. PICK i \in 1 .. Len(old) : e = old[i] /\ IdOf(old[i]) = id
        BY <3>3, <4>2
      <4>4. HasRecord(f, n, id, Cells(stored[id]))
        BY <2>5, <2>8, <4>2, <4>3
      <4>5. Len(Cells(stored[id])) = Len(stored[id])
        BY <1>1, <2>8, <3>5, CellsType DEF TypeOK
      <4> QED
        BY <2>6, <3>5, <4>4, <4>5 DEF Kept
    <3> QED
      BY <3>4, <3>5
  <2>9. CopyInv'
    <3>1. ~misread' => \A id \in Ids \ (torn' \cup {job'.id}) : Kept(temp, id)'
      <4> SUFFICES ASSUME ~misread', NEW id \in Ids, id \notin torn', id # job'.id
                   PROVE  Kept(temp, id)'
        OBVIOUS
      <4>1. Kept(f, id) /\ stored' = stored /\ temp' = f
        BY <1>2, <1>10, <2>8 DEF history
      <4> QED
        BY <4>1 DEF Kept
    <3>2. Loads(temp', job'.id, job'.data) /\ Len(temp') = built'.finalSize
      BY <1>2, <1>7, <1>10, <2>7
    <3> QED
      BY <1>10, <3>1, <3>2 DEF CopyInv
  <2> QED
    BY <1>10, <2>1, <2>2, <2>3, <2>9 DEF DataInv, SavedInv, PlaceInv, OldInv, RecordInv
<1> QED
  BY <1>6, <1>8, <1>9, <1>10

LEMMA OpenStateKeeps == ASSUME DataInv, OpenState PROVE DataInv'
<1>1. TypeOK /\ ShapeInv /\ KeptInv /\ CopyInv
  BY DEF DataInv
<1>2. /\ pc = "openState" /\ at' = 0 /\ UNCHANGED <<temp, job, rebuild, history>>
      /\ state \in Seq(Cell) /\ temp \in Seq(Cell) /\ Len(temp) <= MaxFile
      /\ built \in Builds /\ built.finalSize \in Nat /\ MaxFile \in Nat
  BY <1>1, BoundAssumption DEF OpenState, TypeOK, ShapeInv, Builds
<1>3. CASE Fails /\ pc' = "drop" /\ result' = "failed" /\ UNCHANGED state
  BY <1>2, <1>3, GivesUp DEF rebuild
<1>4. CASE Works /\ state' = Resize(state, built.finalSize) /\ pc' = "copy" /\ UNCHANGED result
  <2>1. state' \in Seq(Cell) /\ Len(state') = built.finalSize
    BY <1>2, <1>4, ResizeCells
  <2>2. Len(temp) = built.finalSize
    BY <1>1, <1>2 DEF CopyInv
  <2>3. TypeOK'
    <3>1. saves' \in 0 .. MaxSaves /\ <<crashes', faults'>> \in Histories \cup {<<0, 0>>}
      BY <1>1, <1>4, BoundsType
    <3>2. 0 \in 0 .. MaxFile
      BY <1>2
    <3> QED
      BY <1>1, <1>2, <1>4, <2>1, <2>2, <3>1, <3>2 DEF TypeOK, history
  <2>4. ShapeInv'
    BY <1>1, <1>2, <1>4, <2>1 DEF ShapeInv, rebuild
  <2>5. CopyInv'
    <3>1. built' = built /\ temp' = temp /\ job' = job /\ misread' = misread /\ torn' = torn
          /\ stored' = stored
      BY <1>2 DEF rebuild, history
    <3>2. \A id : Kept(temp, id) => Kept(temp, id)'
      BY <3>1 DEF Kept
    <3>3. \A k \in 1 .. 0 : state'[k] = temp'[k]
      OBVIOUS
    <3> QED
      BY <1>1, <1>2, <1>4, <2>1, <3>1, <3>2, <3>3 DEF CopyInv
  <2> QED
    BY <1>4, <2>3, <2>4, <2>5 DEF DataInv, KeptInv, SavedInv, PlaceInv, OldInv, RecordInv
<1> QED
  BY <1>3, <1>4 DEF OpenState

LEMMA CopyCellKeeps == ASSUME DataInv, CopyCell PROVE DataInv'
<1>1. TypeOK /\ ShapeInv /\ CopyInv
  BY DEF DataInv
<1>2. /\ pc = "copy" /\ UNCHANGED <<temp, job, rebuild, stored, misread>>
      /\ state \in Seq(Cell) /\ temp \in Seq(Cell) /\ Len(temp) <= MaxFile
      /\ built.finalSize \in Nat /\ at \in Nat /\ MaxFile \in Nat
      /\ Len(temp) = built.finalSize /\ Len(state) = built.finalSize
      /\ at < built.finalSize
      /\ \A k \in 1 .. at : state[k] = temp[k]
  BY <1>1, BoundAssumption DEF CopyCell, TypeOK, ShapeInv, Builds, CopyInv
<1>3. /\ built' = built /\ temp' = temp /\ job' = job /\ misread' = misread
      /\ stored' = stored /\ old' = old
  BY <1>2 DEF rebuild
<1>4. saves' \in 0 .. MaxSaves /\ <<crashes', faults'>> \in Histories \cup {<<0, 0>>}
  BY <1>1, BoundsType DEF CopyCell
<1>5. CASE Fails /\ pc' = "drop" /\ result' = "failed" /\ torn' = Ids /\ UNCHANGED <<state, at>>
  <2>1. TypeOK'
    BY <1>1, <1>3, <1>4, <1>5 DEF TypeOK
  <2>2. ShapeInv'
    BY <1>1, <1>2, <1>3, <1>5 DEF ShapeInv
  <2> QED
    BY <1>5, <2>1, <2>2
    DEF DataInv, KeptInv, SavedInv, PlaceInv, OldInv, RecordInv, CopyInv
<1>6. CASE /\ Works /\ state' = Write(state, at, <<temp[at + 1]>>) /\ at' = at + 1
           /\ UNCHANGED <<pc, result, torn>>
  <2> DEFINE c == temp[at + 1]
             cells == <<c>>
  <2>1. at + 1 \in 1 .. Len(temp)
    BY <1>2
  <2>2. c \in Cell
    BY <1>2, <2>1
  <2> HIDE DEF c
  <2>3. cells \in Seq(Cell) /\ Len(cells) = 1 /\ cells[1] = c
    BY <2>2
  <2>4. state' = Write(state, at, cells)
    BY <1>6 DEF c
  <2> HIDE DEF cells
  <2>5. /\ state' \in Seq(Cell) /\ Len(state') = Len(state)
        /\ \A k \in 1 .. Len(state) : state'[k] =
               IF k - at \in 1 .. Len(cells) THEN cells[k - at] ELSE state[k]
    <3>1. Overwritten(state, at, cells, Write(state, at, cells))
      BY <1>2, <2>3, WriteCells
    <3> QED
      BY <2>4, <3>1 DEF Overwritten
  <2>6. \A k \in 1 .. at + 1 : state'[k] = temp[k]
    <3> SUFFICES ASSUME NEW k \in 1 .. at + 1
                 PROVE  state'[k] = temp[k]
      OBVIOUS
    <3>1. CASE k = at + 1
      <4>1. k \in 1 .. Len(state) /\ k - at = 1 /\ k - at \in 1 .. Len(cells)
        BY <1>2, <2>3, <3>1
      <4>2. state'[k] = c
        BY <2>3, <2>5, <4>1
      <4> QED
        BY <3>1, <4>2 DEF c
    <3>2. CASE k # at + 1
      <4>1. k \in 1 .. at /\ k \in 1 .. Len(state) /\ ~(k - at \in 1 .. Len(cells))
        BY <1>2, <2>3, <3>2
      <4> QED
        BY <1>2, <2>5, <4>1
    <3> QED
      BY <3>1, <3>2
  <2>7. TypeOK'
    <3>1. at + 1 \in 0 .. MaxFile
      BY <1>2
    <3> QED
      BY <1>1, <1>2, <1>3, <1>4, <1>6, <2>5, <3>1 DEF TypeOK
  <2>8. ShapeInv'
    BY <1>1, <1>2, <1>3, <1>6, <2>5 DEF ShapeInv
  <2>9. CopyInv'
    <3>1. \A id : Kept(temp, id) => Kept(temp, id)'
      BY <1>3 DEF Kept
    <3>2. at + 1 <= built.finalSize
      BY <1>2
    <3>3. pc' = "copy" /\ at' = at + 1 /\ torn' = torn
      BY <1>2, <1>6
    <3> QED
      BY <1>1, <1>2, <1>3, <2>5, <2>6, <3>1, <3>2, <3>3 DEF CopyInv
  <2> QED
    BY <1>2, <1>6, <2>7, <2>8, <2>9
    DEF DataInv, KeptInv, SavedInv, PlaceInv, OldInv, RecordInv
<1> QED
  BY <1>5, <1>6 DEF CopyCell

LEMMA CopiedKeeps == ASSUME DataInv, Copied PROVE DataInv'
<1> USE DEF Copied, bounds, rebuild
<1>1. TypeOK /\ ShapeInv /\ CopyInv
  BY DEF DataInv
<1>2. job \in Jobs /\ job.id \in Ids /\ job.data \in Payloads /\ job.data # None
  BY <1>1, PayloadAssumption DEF ShapeInv, Jobs
<1>3. state = temp
  <2>1. /\ state \in Seq(Cell) /\ temp \in Seq(Cell) /\ Len(state) = Len(temp)
        /\ \A k \in 1 .. Len(state) : state[k] = temp[k]
    BY <1>1 DEF ShapeInv, CopyInv
  <2> QED
    BY <2>1, SeqEqual
<1>4. /\ Loads(state, job.id, job.data)
      /\ ~misread => \A id \in Ids \ (torn \cup {job.id}) : Kept(state, id)
  BY <1>1, <1>3 DEF CopyInv
<1>5. TypeOK'
  <2>1. stored' \in [Ids -> Payloads \cup {None}]
    BY <1>1, <1>2 DEF TypeOK
  <2>2. torn' \subseteq Ids
    BY <1>1 DEF TypeOK
  <2> QED
    BY <1>1, <2>1, <2>2 DEF TypeOK
<1>6. ShapeInv'
  BY <1>1 DEF ShapeInv
<1>7. KeptInv'
  <2> SUFFICES ASSUME NEW id \in Ids, id \notin torn'
               PROVE  Kept(state, id)'
    BY DEF KeptInv
  <2>1. CASE id = job.id
    <3>1. stored'[id] = job.data
      BY <1>1, <1>2, <2>1 DEF TypeOK
    <3> QED
      BY <1>2, <1>4, <2>1, <3>1 DEF Kept
  <2>2. CASE id # job.id
    <3>1. stored'[id] = stored[id] /\ id \notin torn /\ ~misread
      BY <1>1, <2>2 DEF TypeOK
    <3> QED
      BY <1>4, <2>2, <3>1, KeptSame
  <2> QED
    BY <2>1, <2>2
<1>8. SavedInv'
  BY <1>4 DEF SavedInv
<1> QED
  BY <1>5, <1>6, <1>7, <1>8 DEF DataInv, PlaceInv, OldInv, RecordInv, CopyInv

LEMMA NextStep == DataInv /\ [Next]_vars => DataInv'
<1> SUFFICES ASSUME DataInv, [Next]_vars
             PROVE  DataInv'
  OBVIOUS
<1>1. CASE UNCHANGED vars
  BY <1>1, StutterKeeps
<1>2. ASSUME NEW id \in Ids, NEW data \in Payloads, SaveData(id, data)
      PROVE  DataInv'
  BY <1>2, SaveDataKeeps
<1>3. CASE Scan
  BY <1>3, ScanKeeps
<1>4. CASE WriteInPlace
  BY <1>4, WriteInPlaceKeeps
<1>5. CASE WrittenInPlace
  BY <1>5, WrittenInPlaceKeeps
<1>6. CASE Layout
  BY <1>6, LayoutKeeps
<1>7. CASE WriteRecord
  BY <1>7, WriteRecordKeeps
<1>8. CASE LastRecord
  BY <1>8, LastRecordKeeps
<1>9. CASE OpenState
  BY <1>9, OpenStateKeeps
<1>10. CASE CopyCell
  BY <1>10, CopyCellKeeps
<1>11. CASE Copied
  BY <1>11, CopiedKeeps
<1>12. CASE DropTemp
  BY <1>12, DropTempKeeps
<1>13. CASE Crash
  BY <1>13, CrashKeeps
<1> QED
  BY <1>1, <1>2, <1>3, <1>4, <1>5, <1>6, <1>7, <1>8, <1>9, <1>10, <1>11, <1>12, <1>13
  DEF Next

-----------------------------------------------------------------------------
(* The theorems *)

\* The invariant holds in every state of every behaviour.
THEOREM DataInvariant == Spec => []DataInv
  BY InitHolds, NextStep, PTL DEF Spec

\* The variables keep their types and no file outgrows what offsets can name,
\* however often SaveData is called, fails or is cut off.
THEOREM TypeCorrect == Spec => []TypeOK
<1>1. DataInv => TypeOK
  BY DEF DataInv
<1> QED
  BY <1>1, DataInvariant, PTL

\* What a plugin saved last with success is what it loads, and a plugin that
\* saved nothing finds nothing, for every payload, however the saves of others
\* end; excepted are the records that a failure hit in modmenu.dat itself.
THEOREM RecordsAlwaysKept == Spec => []RecordsKept
<1>1. DataInv => RecordsKept
  <2> SUFFICES ASSUME DataInv, pc = "idle"
               PROVE  /\ \A id \in Ids \ torn :
                             IF stored[id] = None THEN FindDataEntry(state, id) = {}
                                                  ELSE Loads(state, id, stored[id])
                      /\ result = "saved" => Loads(state, job.id, job.data)
    BY DEF RecordsKept
  <2>1. \A id \in Ids \ torn : Kept(state, id)
    BY DEF DataInv, KeptInv
  <2> QED
    BY <2>1 DEF Kept, DataInv, SavedInv
<1> QED
  BY <1>1, DataInvariant, PTL
=============================================================================
