----------------------------- MODULE DataStore -----------------------------
(***************************************************************************)
(* The plugin data store /luma/modmenu.dat (modmenu_data.c): SaveData and  *)
(* what LoadData finds, down to the layout of the file.                    *)
(*                                                                         *)
(* A file is a sequence of cells: the record count, one table entry per    *)
(* record in the order of the ids, then per record a block of its id and   *)
(* its payload.  Offsets count cells from 0, as the code counts bytes.  A  *)
(* missing file is the empty one: neither validates.  Writes go cell by    *)
(* cell where the place of a crash or of a failing call matters (the state *)
(* file) and record by record elsewhere (the temporary file).              *)
(*                                                                         *)
(* g_MENUDataLock is held from the first access to the archive to the      *)
(* last, so the calls of all threads are one sequence, and a call here     *)
(* begins when the one before it has returned.                             *)
(***************************************************************************)
EXTENDS Naturals, Sequences

CONSTANTS
    Ids,        \* plugin ids, positive numbers
    Payloads,   \* what plugins save: sequences of data
    MaxFile,    \* the largest file: 2^32 - 1 in the code
    MaxSaves,   \* bound: calls of SaveData
    Histories,  \* bound: <<crashes, failing calls>> of one history
    None        \* nothing saved

ASSUME IdAssumption == Ids \subseteq Nat \ {0}
ASSUME PayloadAssumption ==
    None \notin Payloads /\ \A data \in Payloads : Len(data) \in Nat
ASSUME BoundAssumption ==
    MaxFile \in Nat /\ MaxSaves \in Nat /\ Histories \subseteq Nat \X Nat

VARIABLES
    state,      \* modmenu.dat
    temp,       \* modmenu.tmp
    pc,         \* where SaveData is
    job,        \* its pluginId and data
    at,         \* the old record or the cell it is at
    old,        \* the table it rebuilds from; empty when there is no valid file
    built,      \* the rebuild: finalSize, tableIndex, dataOffset, targetWritten
    result,     \* what the last call returned, "none" after a crash
    stored,     \* history: what each plugin last saved successfully
    torn,       \* history: ids whose record a failure may have cost
    misread,    \* history: this save could not read the old file
    saves, crashes, faults  \* bookkeeping of the bounds

bounds == <<saves, crashes, faults>>
rebuild == <<old, built>>
history == <<stored, torn, misread>>
vars == <<state, temp, pc, job, at, rebuild, result, history, bounds>>

NothingBuilt == [finalSize |-> 0, tableIndex |-> 0, dataOffset |-> 0,
                 targetWritten |-> FALSE]

Init ==
    /\ state = <<>> /\ temp = <<>> /\ pc = "idle"
    /\ job = None /\ at = 0 /\ old = <<>> /\ built = NothingBuilt
    /\ result = "none"
    /\ stored = [id \in Ids |-> None] /\ torn = {} /\ misread = FALSE
    /\ saves = 0 /\ crashes = 0 /\ faults = 0

Works == UNCHANGED bounds
Fails ==
    /\ <<crashes, faults + 1>> \in Histories
    /\ faults' = faults + 1
    /\ UNCHANGED <<saves, crashes>>

-----------------------------------------------------------------------------
(* The file *)

Junk == <<"junk">>
Count(n) == <<"count", n>>
Entry(id, offset, size) == <<"entry", id, offset, size>>
Id(id) == <<"id", id>>
Cells(data) == [k \in 1 .. Len(data) |-> <<"data", data[k]>>]

IdOf(e) == e[2]
OffsetOf(e) == e[3]
SizeOf(e) == e[4]
CountOf(f) == f[1][2]
TableEnd(count) == 1 + count
EndOf(e) == OffsetOf(e) + 1 + SizeOf(e)

\* Ids ascend, each block begins where the one before it ends and names its
\* record, and the last ends with the file.
ValidateDataFile(f) ==
    /\ Len(f) >= 1 /\ f[1][1] = "count"
    /\ TableEnd(CountOf(f)) <= Len(f)
    /\ \A i \in 1 .. CountOf(f) :
          /\ f[i + 1][1] = "entry"
          /\ OffsetOf(f[i + 1]) = IF i = 1 THEN TableEnd(CountOf(f)) ELSE EndOf(f[i])
          /\ i > 1 => IdOf(f[i]) < IdOf(f[i + 1])
          /\ EndOf(f[i + 1]) <= Len(f)
          /\ f[OffsetOf(f[i + 1]) + 1] = Id(IdOf(f[i + 1]))
    /\ Len(f) = IF CountOf(f) = 0 THEN 1 ELSE EndOf(f[CountOf(f) + 1])

Table(f) == IF ValidateDataFile(f) THEN SubSeq(f, 2, TableEnd(CountOf(f))) ELSE <<>>

\* The entries of an id; a table in ascending order has at most one.
FindDataEntry(f, id) == {Table(f)[i] : i \in {j \in DOMAIN Table(f) : IdOf(Table(f)[j]) = id}}

\* LoadData with a buffer as long as data returns true and that data.
Loads(f, id, data) ==
    \E e \in FindDataEntry(f, id) :
        /\ SizeOf(e) = Len(data)
        /\ SubSeq(f, OffsetOf(e) + 2, EndOf(e)) = Cells(data)

\* Mutant: a longer file keeps its end.
ResizeUncut(f, size) ==
    [k \in 1 .. IF size > Len(f) THEN size ELSE Len(f) |->
        IF k <= Len(f) THEN f[k] ELSE Junk]
\* FSFILE_SetSize keeps what fits; what a longer file gets is anything.
Resize(f, size) == [k \in 1 .. size |-> IF k <= Len(f) THEN f[k] ELSE Junk]

Write(f, offset, cells) ==
    [k \in 1 .. Len(f) |->
        IF k - offset \in 1 .. Len(cells) THEN cells[k - offset] ELSE f[k]]

-----------------------------------------------------------------------------
(* PLUGIN_MENU_SaveData *)

Return(r) == pc' = "idle" /\ result' = r

SaveData(id, data) ==
    /\ pc = "idle" /\ saves < MaxSaves
    /\ saves' = saves + 1
    /\ pc' = "scan"
    /\ job' = [id |-> id, data |-> data] /\ misread' = FALSE
    /\ UNCHANGED <<state, temp, at, rebuild, result, stored, torn, crashes, faults>>

\* The old file is read.  One that does not validate, or that a failing call
\* hides, counts as no file at all; a record of the same size is replaced in
\* place; without memory or archive nothing is done.
Scan ==
    /\ pc = "scan"
    /\ at' = 0
    /\ \/ /\ Works
          /\ old' = Table(state)
          /\ pc' = IF \E e \in FindDataEntry(state, job.id) : SizeOf(e) = Len(job.data)
                     THEN "inPlace" ELSE "layout"
          /\ UNCHANGED <<result, misread>>
       \/ /\ Fails
          /\ old' = <<>> /\ pc' = "layout" /\ misread' = TRUE
          /\ UNCHANGED result
       \/ Fails /\ Return("failed") /\ UNCHANGED <<old, misread>>
    /\ UNCHANGED <<state, temp, job, built, stored, torn>>

\* The record's own payload is overwritten, cell by cell.
WriteInPlace ==
    /\ pc = "inPlace" /\ at < Len(job.data)
    /\ \/ /\ Works
          /\ \E e \in FindDataEntry(state, job.id) :
                state' = Write(state, OffsetOf(e) + 1 + at, <<Cells(job.data)[at + 1]>>)
          /\ at' = at + 1
          /\ UNCHANGED <<pc, result, torn>>
       \/ /\ Fails
          /\ Return("failed")
          /\ torn' = torn \cup {job.id}
          /\ UNCHANGED <<state, at>>
       \/ /\ at = 0 /\ Fails
          /\ Return("failed")
          /\ UNCHANGED <<state, at, torn>>
    /\ UNCHANGED <<temp, job, rebuild, stored, misread>>

WrittenInPlace ==
    /\ pc = "inPlace" /\ at = Len(job.data)
    /\ Return("saved")
    /\ stored' = [stored EXCEPT ![job.id] = job.data]
    /\ torn' = torn \ {job.id}
    /\ UNCHANGED <<state, temp, job, at, rebuild, misread, bounds>>

Others == {i \in DOMAIN old : IdOf(old[i]) # job.id}
Replacing == Others # DOMAIN old

\* newCount, and finalSize from the sizes of the blocks kept and the new one.
NewCount == Len(old) + IF Replacing THEN 0 ELSE 1
FinalSize ==
    LET kept[n \in 0 .. Len(old)] ==
            IF n = 0 THEN 0
            ELSE kept[n - 1] + IF n \in Others THEN 1 + SizeOf(old[n]) ELSE 0
    IN  TableEnd(NewCount) + kept[Len(old)] + 1 + Len(job.data)

FitsAlways(size) == TRUE    \* mutant: sums are not checked for overflow
Fits(size) == size <= MaxFile

\* The temporary file gets its size and its record count.
Layout ==
    /\ pc = "layout"
    /\ IF Fits(FinalSize)
         THEN \/ /\ Works
                 /\ temp' = Write(Resize(temp, FinalSize), 0, <<Count(NewCount)>>)
                 /\ built' = [NothingBuilt EXCEPT !.finalSize = FinalSize,
                                                  !.dataOffset = TableEnd(NewCount)]
                 /\ pc' = "record" /\ at' = 1 /\ UNCHANGED result
              \/ Fails /\ Return("failed") /\ UNCHANGED <<temp, built, at>>
              \/ Fails /\ pc' = "drop" /\ result' = "failed" /\ UNCHANGED <<temp, built, at>>
         ELSE Works /\ Return("failed") /\ UNCHANGED <<temp, built, at>>
    /\ UNCHANGED <<state, job, old, history>>

\* PLUGIN_MENU_WriteDataRecord: table entry and block of one record.
Record(f, b, id, cells) ==
    Write(Write(f, TableEnd(b.tableIndex), <<Entry(id, b.dataOffset, Len(cells))>>),
          b.dataOffset, <<Id(id)>> \o cells)
After(b, cells) ==
    [b EXCEPT !.tableIndex = @ + 1, !.dataOffset = @ + 1 + Len(cells)]
AfterTarget(b) == [After(b, Cells(job.data)) EXCEPT !.targetWritten = TRUE]
Target(f, b) == Record(f, b, job.id, Cells(job.data))

ComesBeforeNever(e) == FALSE    \* mutant: a new record goes to the end
ComesBefore(e) == ~built.targetWritten /\ job.id < IdOf(e)

\* One round of the loop over the old records: the new one is put before the
\* first larger id, or takes the place of its predecessor.
WriteRecord ==
    /\ pc = "record" /\ at <= Len(old)
    /\ LET e == old[at]
           cells == SubSeq(state, OffsetOf(e) + 2, EndOf(e))
           first == IF ComesBefore(e) THEN Target(temp, built) ELSE temp
           next == IF ComesBefore(e) THEN AfterTarget(built) ELSE built
       IN  \/ /\ Works
              /\ IF IdOf(e) = job.id
                   THEN temp' = Target(first, next) /\ built' = AfterTarget(next)
                   ELSE /\ temp' = Record(first, next, IdOf(e), cells)
                        /\ built' = After(next, cells)
              /\ at' = at + 1
              /\ UNCHANGED <<pc, result>>
           \/ /\ Fails /\ pc' = "drop" /\ result' = "failed"
              /\ UNCHANGED <<temp, built, at>>
    /\ UNCHANGED <<state, job, old, history>>

\* After the loop, with the check that everything has its place.
LastRecord ==
    /\ pc = "record" /\ at > Len(old)
    /\ \/ /\ Works
          /\ temp' = IF built.targetWritten THEN temp ELSE Target(temp, built)
          /\ built' = IF built.targetWritten THEN built ELSE AfterTarget(built)
          /\ IF built'.tableIndex = NewCount /\ built'.dataOffset = built.finalSize
               THEN pc' = "openState" /\ UNCHANGED result
               ELSE pc' = "drop" /\ result' = "failed"
       \/ /\ Fails /\ pc' = "drop" /\ result' = "failed"
          /\ UNCHANGED <<temp, built>>
    /\ UNCHANGED <<state, job, at, old, history>>

OpenState ==
    /\ pc = "openState"
    /\ at' = 0
    /\ \/ /\ Works /\ state' = Resize(state, built.finalSize)
          /\ pc' = "copy" /\ UNCHANGED result
       \/ /\ Fails /\ pc' = "drop" /\ result' = "failed" /\ UNCHANGED state
    /\ UNCHANGED <<temp, job, rebuild, history>>

\* The state file is overwritten with the temporary one, cell by cell.
CopyCell ==
    /\ pc = "copy" /\ at < built.finalSize
    /\ \/ /\ Works
          /\ state' = Write(state, at, <<temp[at + 1]>>)
          /\ at' = at + 1
          /\ UNCHANGED <<pc, result, torn>>
       \/ /\ Fails /\ pc' = "drop" /\ result' = "failed"
          /\ torn' = Ids
          /\ UNCHANGED <<state, at>>
    /\ UNCHANGED <<temp, job, rebuild, stored, misread>>

Copied ==
    /\ pc = "copy" /\ at = built.finalSize
    /\ pc' = "drop" /\ result' = "saved"
    /\ stored' = [stored EXCEPT ![job.id] = job.data]
    /\ torn' = (IF misread THEN Ids ELSE torn) \ {job.id}
    /\ UNCHANGED <<state, temp, job, at, rebuild, misread, bounds>>

\* The temporary file is deleted, whatever comes of that.
DropTemp ==
    /\ pc = "drop" /\ pc' = "idle"
    /\ \/ Works /\ temp' = <<>>
       \/ Fails /\ UNCHANGED temp
    /\ UNCHANGED <<state, job, at, rebuild, result, history>>

\* The console goes down: both files stay as they are.
Crash ==
    /\ pc # "idle" /\ <<crashes + 1, faults>> \in Histories
    /\ crashes' = crashes + 1
    /\ Return("none")
    /\ torn' = CASE pc = "copy" -> Ids
                 [] pc = "inPlace" /\ at > 0 -> torn \cup {job.id}
                 [] OTHER -> torn
    /\ UNCHANGED <<state, temp, job, at, rebuild, stored, misread, saves, faults>>

-----------------------------------------------------------------------------
Next ==
    \/ \E id \in Ids, data \in Payloads : SaveData(id, data)
    \/ Scan
    \/ WriteInPlace \/ WrittenInPlace
    \/ Layout \/ WriteRecord \/ LastRecord
    \/ OpenState \/ CopyCell \/ Copied \/ DropTemp
    \/ Crash

Spec == Init /\ [][Next]_vars

-----------------------------------------------------------------------------
(* What is expected of it *)

\* The variables have their types, and no file outgrows what offsets can name.
TypeOK ==
    /\ Len(state) <= MaxFile /\ Len(temp) <= MaxFile
    /\ pc \in {"idle", "scan", "inPlace", "layout", "record", "openState", "copy",
               "drop"}
    /\ job \in [id : Ids, data : Payloads] \cup {None}
    /\ at \in 0 .. MaxFile
    /\ result \in {"none", "saved", "failed"}
    /\ stored \in [Ids -> Payloads \cup {None}]
    /\ torn \subseteq Ids /\ misread \in BOOLEAN
    /\ saves \in 0 .. MaxSaves
    /\ <<crashes, faults>> \in Histories \cup {<<0, 0>>}

\* "A same-size payload keeps the existing table and other records intact", and
\* so does any other save: every plugin loads what it last saved successfully,
\* whatever state earlier crashes and errors left the two files in, and none
\* finds a record it never saved.  Excepted are only the records a
\* crash or an error hit while modmenu.dat itself was being written, and those
\* that a save could not read and left out of the file it wrote; later saves keep
\* the rest all the same, and one that returned TRUE is found, whatever it met.
RecordsKept ==
    pc = "idle" =>
        /\ \A id \in Ids \ torn :
               IF stored[id] = None THEN FindDataEntry(state, id) = {}
                                    ELSE Loads(state, id, stored[id])
        /\ result = "saved" => Loads(state, job.id, job.data)
=============================================================================
