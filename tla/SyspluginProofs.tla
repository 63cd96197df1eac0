-------------------------- MODULE SyspluginProofs --------------------------
(***************************************************************************)
(* What the records of menutemplist.txt say of the files and of the boot,  *)
(* for every set of names and threads and every number of calls, reboots   *)
(* and failures.                                                           *)
(*                                                                         *)
(* ReportMatchesBoot and PendingHasFile speak of the moments at which no   *)
(* thread is inside a call.  The invariant says what a list, a copy of it  *)
(* that is to be written, and the files have to do with each other at each *)
(* step of a call.                                                         *)
(***************************************************************************)
EXTENDS SyspluginState, TLAPS

\* The thread has taken the lock.
Inside(t) == pc[t] \in {"edit", "save", "undo"}

\* It has done its file operation, and the list is still the old one.
Renamed(t) == pc[t] \in {"save", "undo"}

-----------------------------------------------------------------------------
(* The invariant *)

\* One thread is inside a call; each thread that is in a call has its arguments.
LockInv ==
    /\ call \in [Threads -> Calls \cup {None}]
    /\ \A t \in Threads : Inside(t) <=> lock = t
    /\ \A t \in Threads : pc[t] # "idle" =>
           /\ call[t] \in Calls
           /\ call[t].kind = "disable" => ~call[t].off
           /\ call[t].kind = "enable" => call[t].off
    /\ \A t \in Threads : pc[t] = "undo" => call[t].kind \in {"disable", "enable"}

\* The file that was active at boot is in one place, and is of a name that was.
BootedInv ==
    \A n \in Names :
        /\ files[<<n, FALSE>>] = "booted" => n \in active
        /\ files[<<n, TRUE>>] = "booted" => n \in active /\ ~Exists(n, FALSE)

\* The records of a name decide rightly whether it was enabled at boot.
RecordsTrue(l, n) ==
    /\ n \in l.snapshot <=> n \in active
    /\ l.change[n] = "E" => n \in active
    /\ l.change[n] = "D" => n \notin active

\* They fit its files: a plugin that was active at boot and is disabled has its
\* E record, and a pending one has a file.
RecordsFit(l, n) ==
    /\ files[<<n, TRUE>>] = "booted" => l.change[n] = "E"
    /\ n \in l.pending => Exists(n, FALSE) \/ Exists(n, TRUE)

\* The list, but for the name whose file a call has moved or deleted.
ListInv ==
    \A n \in Names \ hurt :
        /\ RecordsTrue(list, n)
        /\ \/ RecordsFit(list, n)
           \/ \E t \in Threads : Renamed(t) /\ call[t].name = n /\ call[t].kind # "add"

\* The copy that a call edits is the list, unless that was taken for missing;
\* once edited it fits the files as they are.
ScratchInv ==
    \A t \in Threads : ~misread =>
        /\ pc[t] = "edit" => scratch[t] = list
        /\ pc[t] = "save" =>
               \A n \in Names \ hurt : RecordsTrue(scratch[t], n) /\ RecordsFit(scratch[t], n)

\* A rename can be taken back, and the list will fit again.
RenamedInv ==
    \A t \in Threads : Renamed(t) /\ call[t].kind \in {"disable", "enable"} =>
        LET n == call[t].name
            off == call[t].off
        IN  /\ ~Exists(n, off) /\ Exists(n, ~off)
            /\ before[<<n, ~off>>] = "absent"
            /\ n \notin hurt /\ files[<<n, FALSE>>] = "booted" => list.change[n] = "E"

\* Nothing that was there when the lock was taken is gone before the call's own
\* file operation.
BeforeInv ==
    /\ before \in [Names \X BOOLEAN -> Contents]
    /\ \A t \in Threads : pc[t] = "edit" =>
           \A f \in Names \X BOOLEAN : before[f] # "absent" => files[f] # "absent"

\* A rename is taken back after a failure.
FaultInv == \A t \in Threads : pc[t] = "undo" => faults > 0

StateInv ==
    /\ TypeOK /\ LockInv /\ BootedInv /\ ListInv /\ ScratchInv /\ RenamedInv
    /\ BeforeInv /\ FaultInv

-----------------------------------------------------------------------------
(* The files *)

\* What a rename does.
LEMMA Rename ==
    ASSUME TypeOK, NEW n \in Names, NEW from \in BOOLEAN, NEW to \in BOOLEAN, from # to,
           files' = [files EXCEPT ![<<n, to>>] = files[<<n, from>>], ![<<n, from>>] = "absent"]
    PROVE  /\ files' \in [Names \X BOOLEAN -> Contents]
           /\ files'[<<n, from>>] = "absent" /\ files'[<<n, to>>] = files[<<n, from>>]
           /\ \A m \in Names, b \in BOOLEAN : m # n => files'[<<m, b>>] = files[<<m, b>>]
<1>1. files \in [Names \X BOOLEAN -> Contents] /\ "absent" \in Contents
  BY DEF TypeOK, Contents
<1>2. /\ <<n, from>> \in Names \X BOOLEAN /\ <<n, to>> \in Names \X BOOLEAN
      /\ <<n, from>> # <<n, to>>
  OBVIOUS
<1>3. files'[<<n, from>>] = "absent" /\ files'[<<n, to>>] = files[<<n, from>>]
  BY <1>1, <1>2
<1>4. files' \in [Names \X BOOLEAN -> Contents]
  BY <1>1, <1>2
<1> QED
  BY <1>1, <1>3, <1>4

\* What one file's replacement or removal does.
LEMMA Replacement ==
    ASSUME TypeOK, NEW n \in Names, NEW off \in BOOLEAN, NEW c \in Contents,
           files' = [files EXCEPT ![<<n, off>>] = c]
    PROVE  /\ files' \in [Names \X BOOLEAN -> Contents]
           /\ files'[<<n, off>>] = c
           /\ \A m \in Names, b \in BOOLEAN : <<m, b>> # <<n, off>> => files'[<<m, b>>] = files[<<m, b>>]
<1>1. files \in [Names \X BOOLEAN -> Contents] /\ <<n, off>> \in Names \X BOOLEAN
  BY DEF TypeOK
<1> QED
  BY <1>1

\* A path with ".d" or without it.
LEMMA TwoPaths ==
    ASSUME NEW off \in BOOLEAN
    PROVE  (off = TRUE /\ (~off) = FALSE) \/ (off = FALSE /\ (~off) = TRUE)
  OBVIOUS

-----------------------------------------------------------------------------
(* The records *)

\* True records tell whether a file of the name was enabled at boot.
LEMMA WasEnabled ==
    ASSUME NEW l, NEW n, RecordsTrue(l, n)
    PROVE  WasEnabledAtBoot(l, n) <=> n \in active
  BY DEF RecordsTrue, WasEnabledAtBoot

\* The records a call writes: those of its own name, and no others.
LEMMA EditedRecords ==
    ASSUME NEW l \in Lists, NEW c \in Calls
    PROVE  /\ Edited(l, c) \in Lists
           /\ Edited(l, c).snapshot = l.snapshot
           /\ \A n \in Names \ {c.name} :
                  /\ Edited(l, c).change[n] = l.change[n]
                  /\ n \in Edited(l, c).pending <=> n \in l.pending
           /\ c.name \in Edited(l, c).pending <=> c.kind = "add"
           /\ Edited(l, c).change[c.name] =
                  CASE c.kind = "add"     -> l.change[c.name]
                    [] c.kind = "disable" -> IF WasEnabledAtBoot(l, c.name) THEN "E" ELSE "none"
                    [] c.kind = "enable"  -> IF WasEnabledAtBoot(l, c.name) THEN "none" ELSE "D"
                    [] c.kind = "delete"  -> "none"
<1> DEFINE n == c.name
           u == [l EXCEPT !.pending = @ \ {n}]
<1>1. /\ l.snapshot \in SUBSET Names /\ l.change \in [Names -> {"none", "E", "D"}]
      /\ l.pending \in SUBSET Names /\ n \in Names
      /\ c.kind \in {"add", "disable", "enable", "delete"}
      /\ l = [snapshot |-> l.snapshot, change |-> l.change, pending |-> l.pending]
  BY DEF Lists, Calls
<1>2. u = [snapshot |-> l.snapshot, change |-> l.change, pending |-> l.pending \ {n}]
  BY <1>1
<1>3. CASE c.kind = "add"
  <2>1. Edited(l, c) = [snapshot |-> l.snapshot, change |-> l.change,
                        pending |-> l.pending \cup {n}]
    BY <1>1, <1>3 DEF Edited, PendingName
  <2> QED
    BY <1>1, <1>3, <2>1 DEF Lists
<1>4. ASSUME NEW x \in {"none", "E", "D"}, c.kind # "add",
             Edited(l, c) = [u EXCEPT !.change[n] = x]
      PROVE  /\ Edited(l, c) \in Lists
             /\ Edited(l, c).snapshot = l.snapshot
             /\ \A m \in Names \ {n} :
                    /\ Edited(l, c).change[m] = l.change[m]
                    /\ m \in Edited(l, c).pending <=> m \in l.pending
             /\ n \notin Edited(l, c).pending
             /\ Edited(l, c).change[n] = x
  <2>1. Edited(l, c) = [snapshot |-> l.snapshot, change |-> [l.change EXCEPT ![n] = x],
                        pending |-> l.pending \ {n}]
    BY <1>2, <1>4
  <2> QED
    BY <1>1, <2>1 DEF Lists
<1> DEFINE w == WasEnabledAtBoot(l, n)
           x == CASE c.kind = "disable" -> (IF w THEN "E" ELSE "none")
                  [] c.kind = "enable" -> (IF w THEN "none" ELSE "D")
                  [] c.kind = "delete" -> "none"
<1>5. CASE c.kind = "disable"
  <2>1. Edited(l, c) = [u EXCEPT !.change[n] = IF w THEN "E" ELSE "none"]
    BY <1>5 DEF Edited
  <2> QED
    BY <1>1, <1>4, <1>5, <2>1
<1>6. CASE c.kind = "enable"
  <2>1. Edited(l, c) = [u EXCEPT !.change[n] = IF w THEN "none" ELSE "D"]
    BY <1>6 DEF Edited
  <2> QED
    BY <1>1, <1>4, <1>6, <2>1
<1>7. CASE c.kind = "delete"
  <2>1. Edited(l, c) = [u EXCEPT !.change[n] = "none"]
    BY <1>7 DEF Edited
  <2> QED
    BY <1>1, <1>4, <1>7, <2>1
<1> QED
  BY <1>1, <1>3, <1>5, <1>6, <1>7

-----------------------------------------------------------------------------
(* Steps outside the lock *)

\* A call that ends leaves nobody inside one.
LEMMA Returned ==
    ASSUME TypeOK, LockInv, NEW t \in Threads, lock \in {t, None},
           NEW success \in BOOLEAN, Return(t, success)
    PROVE  /\ LockInv' /\ ScratchInv' /\ RenamedInv' /\ FaultInv'
           /\ lock' = None /\ pc' \in [Threads -> {"idle", "lock", "edit", "save", "undo"}]
           /\ scratch' \in [Threads -> Lists]
           /\ \A u \in Threads : pc'[u] \in {"idle", "lock"}
<1>1. /\ pc \in [Threads -> {"idle", "lock", "edit", "save", "undo"}]
      /\ scratch \in [Threads -> Lists] /\ EmptyList \in Lists
  BY DEF TypeOK, EmptyList, NoChange, Lists
<1>2. /\ pc' = [pc EXCEPT ![t] = "idle"] /\ call' = [call EXCEPT ![t] = None]
      /\ lock' = None /\ scratch' = [scratch EXCEPT ![t] = EmptyList]
  BY DEF Return
<1>3. /\ pc' \in [Threads -> {"idle", "lock", "edit", "save", "undo"}]
      /\ scratch' \in [Threads -> Lists]
  BY <1>1, <1>2
<1>4. \A u \in Threads : u # t => pc[u] \in {"idle", "lock"}
  BY <1>1, NoneAssumption DEF LockInv, Inside
<1>5. \A u \in Threads : pc'[u] \in {"idle", "lock"} /\ (u = t => pc'[u] = "idle")
  BY <1>1, <1>2, <1>4
<1>6. \A u \in Threads : ~Inside(u)' /\ ~Renamed(u)'
  BY <1>5 DEF Inside, Renamed
<1>7. LockInv'
  <2>1. \A u \in Threads : u # t => pc'[u] = pc[u] /\ (pc[u] # "idle" => call'[u] = call[u])
    <3> SUFFICES ASSUME NEW u \in Threads, u # t
                 PROVE  pc'[u] = pc[u] /\ call'[u] = call[u]
      OBVIOUS
    <3>1. pc'[u] = pc[u]
      BY <1>1, <1>2
    <3>2. call \in [Threads -> Calls \cup {None}]
      BY DEF LockInv
    <3> QED
      BY <1>2, <3>1, <3>2
  <2> QED
    BY <1>2, <1>5, <1>6, <2>1, NoneAssumption DEF LockInv
<1>8. ScratchInv' /\ RenamedInv' /\ FaultInv'
  BY <1>5, <1>6 DEF ScratchInv, RenamedInv, FaultInv
<1> QED
  BY <1>2, <1>3, <1>5, <1>7, <1>8

\* A reboot: whatever list it finds afterwards is about this boot.
LEMMA BootStep ==
    ASSUME StateInv, Boot
    PROVE  StateInv'
<1>1. /\ files \in [Names \X BOOLEAN -> Contents]
      /\ list \in Lists /\ EmptyList \in Lists
      /\ ops \in 0 .. MaxOps /\ boots \in 0 .. MaxBoots /\ faults \in 0 .. MaxFaults
  BY DEF StateInv, TypeOK, EmptyList, NoChange, Lists
<1>2. /\ active' = {n \in Names : Exists(n, FALSE)}
      /\ files' = [f \in Names \X BOOLEAN |->
                      IF files[f] = "absent" THEN "absent"
                      ELSE IF f[2] THEN "other" ELSE "booted"]
      /\ before' = files' /\ misread' = FALSE /\ added' = {} /\ ops' = ops
      /\ lock' = None /\ pc' = AllIdle /\ call' = [t \in Threads |-> None]
      /\ scratch' = [t \in Threads |-> EmptyList]
      /\ boots < MaxBoots /\ boots' = boots + 1
  BY DEF Boot
<1>3. files' \in [Names \X BOOLEAN -> Contents]
  BY <1>1, <1>2 DEF Contents
<1>4. \A n \in Names :
          /\ files'[<<n, TRUE>>] # "booted"
          /\ Exists(n, FALSE)' <=> Exists(n, FALSE)
          /\ n \in active' <=> Exists(n, FALSE)
  <2> SUFFICES ASSUME NEW n \in Names
               PROVE  /\ files'[<<n, TRUE>>] # "booted"
                      /\ files'[<<n, FALSE>>] # "absent" <=> files[<<n, FALSE>>] # "absent"
                      /\ n \in active' <=> Exists(n, FALSE)
    BY DEF Exists
  <2>1. /\ files'[<<n, TRUE>>] = IF files[<<n, TRUE>>] = "absent" THEN "absent" ELSE "other"
        /\ files'[<<n, FALSE>>] = IF files[<<n, FALSE>>] = "absent" THEN "absent" ELSE "booted"
    BY <1>2
  <2> QED
    BY <1>2, <2>1
<1>5. \/ /\ faults' = faults /\ hurt' = {}
         /\ list' = [EmptyList EXCEPT !.snapshot = active']
      \/ /\ faults < MaxFaults /\ faults' = faults + 1 /\ hurt' = Names
         /\ list' \in {EmptyList, list}
  BY DEF Boot, Works, Fails
<1>6. TypeOK'
  <2>1. active' \subseteq Names
    BY <1>2
  <2>2. list' \in Lists
    BY <1>1, <1>5, <2>1 DEF EmptyList, Lists
  <2>3. pc' \in [Threads -> {"idle", "lock", "edit", "save", "undo"}]
    BY <1>2 DEF AllIdle
  <2>4. boots' \in 0 .. MaxBoots /\ faults' \in 0 .. MaxFaults
    <3>1. boots' \in 0 .. MaxBoots
      BY <1>1, <1>2, BoundAssumption
    <3>2. faults' = faults \/ (faults < MaxFaults /\ faults' = faults + 1)
      BY <1>5
    <3> QED
      BY <1>1, <3>1, <3>2, BoundAssumption
  <2> QED
    BY <1>1, <1>2, <1>3, <1>5, <2>1, <2>2, <2>3, <2>4 DEF TypeOK
<1>7. BootedInv'
  BY <1>2, <1>3, <1>4 DEF BootedInv, Exists, Contents
<1>8. ListInv'
  <2>1. CASE hurt' = {} /\ list' = [EmptyList EXCEPT !.snapshot = active']
    <3>1. list'.snapshot = active' /\ list'.pending = {}
          /\ \A n \in Names : list'.change[n] = "none"
      BY <2>1 DEF EmptyList, NoChange
    <3> QED
      BY <1>4, <3>1 DEF ListInv, RecordsTrue, RecordsFit
  <2>2. CASE hurt' = Names
    BY <2>2 DEF ListInv
  <2> QED
    BY <1>5, <2>1, <2>2
<1>9. /\ \A t \in Threads : pc'[t] = "idle"
      /\ lock' \notin Threads
  BY <1>2, NoneAssumption DEF AllIdle
<1>10. LockInv' /\ ScratchInv' /\ RenamedInv' /\ FaultInv'
  <2>1. \A t \in Threads : ~Inside(t)' /\ ~Renamed(t)'
    BY <1>9 DEF Inside, Renamed
  <2> QED
    BY <1>2, <1>9, <2>1 DEF LockInv, ScratchInv, RenamedInv, FaultInv
<1>11. BeforeInv'
  BY <1>2, <1>3, <1>9 DEF BeforeInv
<1> QED
  BY <1>6, <1>7, <1>8, <1>10, <1>11 DEF StateInv

\* The Online page: another file at an enabled name, none at a disabled one.
LEMMA OnlineInstallStep ==
    ASSUME StateInv, NEW n \in Names, OnlineInstall(n)
    PROVE  StateInv'
<1>1. /\ files' = [files EXCEPT ![<<n, FALSE>>] = "new"] /\ ~Exists(n, TRUE)
      /\ added' = added \ {n} /\ TypeOK
      /\ UNCHANGED <<list, lock, pc, call, scratch, active, before, misread, hurt,
                     ops, boots, faults>>
  BY DEF OnlineInstall, StateInv, threadVars, damage, bounds
<1>2. /\ files' \in [Names \X BOOLEAN -> Contents]
      /\ files'[<<n, FALSE>>] = "new" /\ files'[<<n, TRUE>>] = files[<<n, TRUE>>]
      /\ \A m \in Names, b \in BOOLEAN : m # n => files'[<<m, b>>] = files[<<m, b>>]
  <2>1. "new" \in Contents /\ <<n, TRUE>> # <<n, FALSE>>
    BY DEF Contents
  <2>2. /\ files' \in [Names \X BOOLEAN -> Contents]
        /\ files'[<<n, FALSE>>] = "new"
        /\ \A m \in Names, b \in BOOLEAN :
               <<m, b>> # <<n, FALSE>> => files'[<<m, b>>] = files[<<m, b>>]
    BY <1>1, <2>1, Replacement
  <2> QED
    BY <2>2
<1>3. files[<<n, TRUE>>] = "absent"
  BY <1>1 DEF Exists
<1>4. /\ \A m \in Names : files'[<<m, TRUE>>] = files[<<m, TRUE>>]
      /\ \A m \in Names : Exists(m, FALSE) => Exists(m, FALSE)'
      /\ \A m \in Names, b \in BOOLEAN : files'[<<m, b>>] = "booted" =>
             files[<<m, b>>] = "booted"
      /\ \A f \in Names \X BOOLEAN : files[f] # "absent" => files'[f] # "absent"
  <2>1. \A m \in Names, b \in BOOLEAN :
            \/ files'[<<m, b>>] = files[<<m, b>>]
            \/ m = n /\ b = FALSE /\ files'[<<m, b>>] = "new"
    <3> SUFFICES ASSUME NEW m \in Names, NEW b \in BOOLEAN
                 PROVE  \/ files'[<<m, b>>] = files[<<m, b>>]
                        \/ m = n /\ b = FALSE /\ files'[<<m, b>>] = "new"
      OBVIOUS
    <3> QED
      BY <1>2
  <2>2. \A f \in Names \X BOOLEAN : files[f] # "absent" => files'[f] # "absent"
    <3> SUFFICES ASSUME NEW f \in Names \X BOOLEAN, files[f] # "absent"
                 PROVE  files'[f] # "absent"
      OBVIOUS
    <3> PICK m \in Names, b \in BOOLEAN : f = <<m, b>>
      OBVIOUS
    <3> QED
      BY <2>1
  <2>3. \A m \in Names : files'[<<m, TRUE>>] = files[<<m, TRUE>>]
    BY <2>1
  <2>4. \A m \in Names, b \in BOOLEAN : files'[<<m, b>>] = "booted" =>
            files[<<m, b>>] = "booted"
    BY <2>1
  <2>5. \A m \in Names : Exists(m, FALSE) => Exists(m, FALSE)'
    BY <2>1 DEF Exists
  <2> QED
    BY <2>2, <2>3, <2>4, <2>5
<1>5. TypeOK'
  BY <1>1, <1>2 DEF TypeOK
<1>6. LockInv' /\ FaultInv'
  BY <1>1 DEF StateInv, LockInv, FaultInv, Inside
<1>7. BootedInv'
  <2> SUFFICES ASSUME NEW m \in Names
               PROVE  /\ files'[<<m, FALSE>>] = "booted" => m \in active
                      /\ files'[<<m, TRUE>>] = "booted" => m \in active /\ ~Exists(m, FALSE)'
    BY <1>1 DEF BootedInv
  <2>1. m = n => files'[<<m, TRUE>>] = "absent"
    BY <1>2, <1>3
  <2>2. m # n => (Exists(m, FALSE)' <=> Exists(m, FALSE))
    BY <1>2 DEF Exists
  <2> QED
    BY <1>4, <2>1, <2>2 DEF StateInv, BootedInv
<1>8. \A m \in Names : /\ files'[<<m, TRUE>>] = files[<<m, TRUE>>]
                       /\ Exists(m, FALSE) \/ Exists(m, TRUE) =>
                              Exists(m, FALSE)' \/ Exists(m, TRUE)'
  BY <1>4 DEF Exists
<1>9. ListInv'
  <2> SUFFICES ASSUME NEW m \in Names \ hurt
               PROVE  /\ RecordsTrue(list, m)'
                      /\ \/ RecordsFit(list, m)'
                         \/ \E t \in Threads :
                                Renamed(t) /\ call[t].name = m /\ call[t].kind # "add"
    BY <1>1 DEF ListInv, Renamed
  <2>1. RecordsTrue(list, m)'
    BY <1>1 DEF StateInv, ListInv, RecordsTrue
  <2>2. RecordsFit(list, m) => RecordsFit(list, m)'
    BY <1>1, <1>8 DEF RecordsFit
  <2> QED
    BY <2>1, <2>2 DEF StateInv, ListInv
<1>10. ScratchInv'
  <2> SUFFICES ASSUME NEW t \in Threads, ~misread
               PROVE  /\ pc[t] = "edit" => scratch[t] = list
                      /\ pc[t] = "save" => \A m \in Names \ hurt :
                             RecordsTrue(scratch[t], m)' /\ RecordsFit(scratch[t], m)'
    BY <1>1 DEF ScratchInv
  <2>1. \A m \in Names : RecordsTrue(scratch[t], m) => RecordsTrue(scratch[t], m)'
    BY <1>1 DEF RecordsTrue
  <2>2. \A m \in Names : RecordsFit(scratch[t], m) => RecordsFit(scratch[t], m)'
    BY <1>1, <1>8 DEF RecordsFit
  <2> QED
    BY <2>1, <2>2 DEF StateInv, ScratchInv
<1>11. RenamedInv'
  <2> SUFFICES ASSUME NEW t \in Threads, Renamed(t), call[t].kind \in {"disable", "enable"}
               PROVE  LET m == call[t].name
                          off == call[t].off
                      IN  /\ files'[<<m, off>>] = "absent" /\ files'[<<m, ~off>>] # "absent"
                          /\ before[<<m, ~off>>] = "absent"
                          /\ m \notin hurt /\ files'[<<m, FALSE>>] = "booted" =>
                                 list.change[m] = "E"
    BY <1>1 DEF RenamedInv, Renamed, Exists
  <2> DEFINE m == call[t].name
             off == call[t].off
  <2>1. /\ ~Exists(m, off) /\ Exists(m, ~off) /\ before[<<m, ~off>>] = "absent"
        /\ m \notin hurt /\ files[<<m, FALSE>>] = "booted" => list.change[m] = "E"
    BY DEF StateInv, RenamedInv
  <2>2. m \in Names /\ off \in BOOLEAN /\ (call[t].kind = "disable" => ~off)
        /\ (call[t].kind = "enable" => off)
    BY DEF StateInv, LockInv, Renamed, Calls
  <2>3. files'[<<m, ~off>>] # "absent"
    <3> m \in Names /\ off \in BOOLEAN
      BY <2>2
    <3> HIDE DEF m, off
    <3>1. <<m, ~off>> \in Names \X BOOLEAN /\ files[<<m, ~off>>] # "absent"
      BY <2>1 DEF Exists
    <3> QED
      BY <1>4, <3>1
  <2>4. m \notin hurt /\ files'[<<m, FALSE>>] = "booted" => list.change[m] = "E"
    BY <1>4, <2>1, <2>2
  <2>5. files'[<<m, off>>] = "absent"
    <3>1. CASE off = FALSE
      <4>1. Exists(m, TRUE) /\ ~Exists(m, FALSE)
        BY <2>1, <3>1
      <4>2. m # n
        BY <1>1, <4>1
      <4> QED
        BY <1>2, <2>2, <3>1, <4>1, <4>2 DEF Exists
    <3>2. CASE off = TRUE
      BY <1>4, <2>1, <2>2, <3>2 DEF Exists
    <3> QED
      BY <2>2, <3>1, <3>2
  <2> QED
    BY <2>1, <2>3, <2>4, <2>5
<1>12. BeforeInv'
  BY <1>1, <1>4 DEF StateInv, BeforeInv
<1> QED
  BY <1>5, <1>6, <1>7, <1>9, <1>10, <1>11, <1>12 DEF StateInv

LEMMA BeginStep ==
    ASSUME StateInv, NEW t \in Threads, NEW c \in Calls, Begin(t, c)
    PROVE  StateInv'
<1>1. /\ pc[t] = "idle" /\ pc' = [pc EXCEPT ![t] = "lock"]
      /\ call' = [call EXCEPT ![t] = c] /\ ops < MaxOps /\ ops' = ops + 1
      /\ c.kind = "disable" => ~c.off
      /\ c.kind = "enable" => c.off
      /\ UNCHANGED <<files, list, lock, scratch, active, added, before, misread, hurt,
                     boots, faults>>
  BY DEF Begin, history, damage
<1>2. /\ TypeOK /\ LockInv /\ pc \in [Threads -> {"idle", "lock", "edit", "save", "undo"}]
      /\ call \in [Threads -> Calls \cup {None}]
  BY DEF StateInv, TypeOK, LockInv
<1>3. /\ pc'[t] = "lock" /\ call'[t] = c
      /\ \A u \in Threads : u # t => pc'[u] = pc[u] /\ call'[u] = call[u]
  BY <1>1, <1>2
<1>4. TypeOK'
  <2>1. ops' \in 0 .. MaxOps
    BY <1>1, <1>2, BoundAssumption DEF TypeOK
  <2> QED
    BY <1>1, <1>2, <2>1 DEF TypeOK
<1>5. \A u \in Threads : /\ Inside(u)' <=> Inside(u)
                         /\ Renamed(u)' <=> Renamed(u)
                         /\ Inside(u) => u # t
                         /\ Renamed(u) => u # t
  BY <1>1, <1>3 DEF Inside, Renamed
<1>6. LockInv'
  <2>1. \A u \in Threads : Inside(u)' <=> lock' = u
    BY <1>1, <1>2, <1>5 DEF LockInv
  <2>2. \A u \in Threads : pc'[u] # "idle" =>
            /\ call'[u] \in Calls
            /\ call'[u].kind = "disable" => ~call'[u].off
            /\ call'[u].kind = "enable" => call'[u].off
    BY <1>1, <1>2, <1>3 DEF LockInv
  <2>3. \A u \in Threads : pc'[u] = "undo" => call'[u].kind \in {"disable", "enable"}
    BY <1>2, <1>3 DEF LockInv
  <2>4. call' \in [Threads -> Calls \cup {None}]
    BY <1>1, <1>2
  <2> QED
    BY <2>1, <2>2, <2>3, <2>4 DEF LockInv
<1>7. BootedInv'
  BY <1>1 DEF StateInv, BootedInv, Exists
<1>8. ListInv'
  <2> SUFFICES ASSUME NEW n \in Names \ hurt
               PROVE  /\ RecordsTrue(list, n)'
                      /\ \/ RecordsFit(list, n)'
                         \/ \E u \in Threads :
                                Renamed(u)' /\ call'[u].name = n /\ call'[u].kind # "add"
    BY <1>1 DEF ListInv
  <2>1. /\ RecordsTrue(list, n) => RecordsTrue(list, n)'
        /\ RecordsFit(list, n) => RecordsFit(list, n)'
    BY <1>1 DEF RecordsTrue, RecordsFit, Exists
  <2> QED
    BY <1>3, <1>5, <2>1 DEF StateInv, ListInv
<1>9. ScratchInv'
  <2> SUFFICES ASSUME NEW u \in Threads, ~misread
               PROVE  /\ pc'[u] = "edit" => scratch[u] = list
                      /\ pc'[u] = "save" => \A n \in Names \ hurt :
                             RecordsTrue(scratch[u], n)' /\ RecordsFit(scratch[u], n)'
    BY <1>1 DEF ScratchInv
  <2>1. \A n \in Names : /\ RecordsTrue(scratch[u], n) => RecordsTrue(scratch[u], n)'
                         /\ RecordsFit(scratch[u], n) => RecordsFit(scratch[u], n)'
    BY <1>1 DEF RecordsTrue, RecordsFit, Exists
  <2>2. pc'[u] \in {"edit", "save"} => pc[u] = pc'[u]
    BY <1>3
  <2> QED
    BY <2>1, <2>2 DEF StateInv, ScratchInv
<1>10. RenamedInv'
  <2>1. \A u \in Threads : Renamed(u)' => Renamed(u) /\ call'[u] = call[u]
    BY <1>3, <1>5
  <2> SUFFICES ASSUME NEW u \in Threads, Renamed(u)', call'[u].kind \in {"disable", "enable"}
               PROVE  LET n == call'[u].name
                          off == call'[u].off
                      IN  /\ files[<<n, off>>] = "absent" /\ files[<<n, ~off>>] # "absent"
                          /\ before[<<n, ~off>>] = "absent"
                          /\ n \notin hurt /\ files[<<n, FALSE>>] = "booted" =>
                                 list.change[n] = "E"
    BY <1>1 DEF RenamedInv, Exists
  <2>2. Renamed(u) /\ call'[u] = call[u]
    BY <2>1
  <2>3. LET n == call[u].name
            off == call[u].off
        IN  /\ ~Exists(n, off) /\ Exists(n, ~off)
            /\ before[<<n, ~off>>] = "absent"
            /\ n \notin hurt /\ files[<<n, FALSE>>] = "booted" => list.change[n] = "E"
    BY <2>2 DEF StateInv, RenamedInv
  <2> QED
    BY <2>2, <2>3 DEF Exists
<1>11. BeforeInv' /\ FaultInv'
  BY <1>1, <1>3 DEF StateInv, BeforeInv, FaultInv
<1> QED
  BY <1>4, <1>6, <1>7, <1>8, <1>9, <1>10, <1>11 DEF StateInv

\* Nobody is inside a call then: the list fits, and so does the copy of it.
LEMMA LockAndLoadStep ==
    ASSUME StateInv, NEW t \in Threads, LockAndLoad(t)
    PROVE  StateInv'
<1>1. /\ pc[t] = "lock" /\ lock = None /\ before' = files
      /\ UNCHANGED <<files, list, active, added, hurt, ops, boots>>
      /\ TypeOK /\ LockInv /\ t # None
  BY NoneAssumption DEF LockAndLoad, StateInv
<1>2. /\ pc \in [Threads -> {"idle", "lock", "edit", "save", "undo"}]
      /\ scratch \in [Threads -> Lists] /\ list \in Lists /\ EmptyList \in Lists
      /\ files \in [Names \X BOOLEAN -> Contents]
      /\ faults \in 0 .. MaxFaults
  BY <1>1 DEF TypeOK, EmptyList, NoChange, Lists
<1>3. \A u \in Threads : pc[u] \in {"idle", "lock"} /\ ~Renamed(u)
  BY <1>1, <1>2, NoneAssumption DEF LockInv, Inside, Renamed
<1>4. \A n \in Names \ hurt : RecordsTrue(list, n) /\ RecordsFit(list, n)
  BY <1>3 DEF StateInv, ListInv
<1>5. BootedInv'
  BY <1>1 DEF StateInv, BootedInv, Exists
<1>6. faults' \in 0 .. MaxFaults
  <2>1. faults' = faults \/ (faults < MaxFaults /\ faults' = faults + 1)
    BY DEF LockAndLoad, Works, Fails
  <2> QED
    BY <1>2, <2>1, BoundAssumption
<1>7. ListInv'
  <2>1. \A n \in Names : /\ RecordsTrue(list, n) => RecordsTrue(list, n)'
                         /\ RecordsFit(list, n) => RecordsFit(list, n)'
    BY <1>1 DEF RecordsTrue, RecordsFit, Exists
  <2> QED
    BY <1>1, <1>4, <2>1 DEF ListInv
<1>8. CASE lock' = t
  <2>1. \E l \in {list, EmptyList}, m \in BOOLEAN :
            /\ pc' = [pc EXCEPT ![t] = "edit"] /\ call' = call
            /\ scratch' = [scratch EXCEPT ![t] = l] /\ misread' = m
            /\ ~m => l = list
    BY <1>1, <1>8 DEF LockAndLoad, Goto, Return
  <2> PICK l \in {list, EmptyList}, m \in BOOLEAN :
            /\ pc' = [pc EXCEPT ![t] = "edit"] /\ call' = call
            /\ scratch' = [scratch EXCEPT ![t] = l] /\ misread' = m
            /\ ~m => l = list
    BY <2>1
  <2>2. /\ pc' \in [Threads -> {"idle", "lock", "edit", "save", "undo"}]
        /\ scratch' \in [Threads -> Lists]
        /\ pc'[t] = "edit" /\ scratch'[t] = l
        /\ \A u \in Threads : u # t => pc'[u] = pc[u]
    BY <1>2
  <2>3. TypeOK'
    BY <1>1, <1>6, <1>8, <2>2 DEF TypeOK
  <2>4. \A u \in Threads : ~Renamed(u)' /\ (Inside(u)' <=> u = t) /\ pc'[u] # "save"
                           /\ pc'[u] # "undo"
    BY <1>3, <2>2 DEF Inside, Renamed
  <2>5. LockInv'
    <3>1. \A u \in Threads : pc'[u] # "idle" => pc[u] # "idle"
      BY <1>1, <2>2
    <3> QED
      BY <1>1, <1>8, <2>4, <3>1 DEF LockInv
  <2>6. ScratchInv'
    <3> SUFFICES ASSUME NEW u \in Threads, ~misread'
                 PROVE  /\ pc'[u] = "edit" => scratch'[u] = list
                        /\ pc'[u] # "save"
      BY <1>1 DEF ScratchInv
    <3>1. pc'[u] = "edit" => u = t
      BY <2>4 DEF Inside
    <3> QED
      BY <2>2, <2>4, <3>1
  <2>7. RenamedInv' /\ FaultInv'
    BY <2>4 DEF RenamedInv, FaultInv
  <2>8. BeforeInv'
    BY <1>1, <1>2 DEF BeforeInv
  <2> QED
    BY <1>5, <1>7, <2>3, <2>5, <2>6, <2>7, <2>8 DEF StateInv
<1>9. CASE lock' # t
  <2>1. Return(t, FALSE) /\ misread' = misread
    BY <1>9 DEF LockAndLoad
  <2>2. /\ LockInv' /\ ScratchInv' /\ RenamedInv' /\ FaultInv'
        /\ lock' = None /\ pc' \in [Threads -> {"idle", "lock", "edit", "save", "undo"}]
        /\ scratch' \in [Threads -> Lists]
        /\ \A u \in Threads : pc'[u] \in {"idle", "lock"}
    BY <1>1, <2>1, Returned
  <2>3. TypeOK'
    BY <1>1, <1>6, <2>1, <2>2 DEF TypeOK
  <2>4. BeforeInv'
    BY <1>1, <1>2, <2>2 DEF BeforeInv
  <2> QED
    BY <1>5, <1>7, <2>2, <2>3, <2>4 DEF StateInv
<1> QED
  BY <1>8, <1>9

-----------------------------------------------------------------------------
(* Steps under the lock *)

\* What is known of the thread that is inside a call, and of the others.
LEMMA Alone ==
    ASSUME TypeOK, LockInv, NEW t \in Threads, Inside(t)
    PROVE  /\ lock = t /\ call[t] \in Calls
           /\ call[t].name \in Names /\ call[t].off \in BOOLEAN
           /\ call[t].kind = "disable" => ~call[t].off
           /\ call[t].kind = "enable" => call[t].off
           /\ \A u \in Threads : u # t => pc[u] \in {"idle", "lock"} /\ ~Renamed(u)
<1>1. /\ lock = t /\ call[t] \in Calls
      /\ call[t].kind = "disable" => ~call[t].off
      /\ call[t].kind = "enable" => call[t].off
  BY DEF LockInv, Inside
<1>2. call[t].name \in Names /\ call[t].off \in BOOLEAN
  BY <1>1 DEF Calls
<1>3. \A u \in Threads : u # t => pc[u] \in {"idle", "lock"} /\ ~Renamed(u)
  BY <1>1 DEF TypeOK, LockInv, Inside, Renamed
<1> QED
  BY <1>1, <1>2, <1>3

\* A refusal or failure before the file operation.
LEMMA EditRefusedStep ==
    ASSUME StateInv, NEW t \in Threads, pc[t] = "edit", Return(t, FALSE),
           Works \/ Fails,
           UNCHANGED <<files, list, active, added, before, misread, hurt, ops, boots>>
    PROVE  StateInv'
<1>1. TypeOK /\ LockInv /\ Inside(t)
  BY DEF StateInv, Inside
<1>2. lock = t /\ \A u \in Threads : u # t => ~Renamed(u)
  BY <1>1, Alone
<1>3. /\ LockInv' /\ ScratchInv' /\ RenamedInv' /\ FaultInv'
      /\ lock' = None /\ pc' \in [Threads -> {"idle", "lock", "edit", "save", "undo"}]
      /\ scratch' \in [Threads -> Lists]
      /\ \A u \in Threads : pc'[u] \in {"idle", "lock"}
  BY <1>1, <1>2, Returned
<1>4. TypeOK'
  <2>1. faults \in 0 .. MaxFaults /\ (faults' = faults \/ (faults < MaxFaults /\ faults' = faults + 1))
    BY <1>1 DEF TypeOK, Works, Fails
  <2>2. faults' \in 0 .. MaxFaults
    BY <2>1, BoundAssumption
  <2> QED
    BY <1>1, <1>3, <2>2 DEF TypeOK
<1>5. BootedInv' /\ BeforeInv'
  BY <1>3 DEF StateInv, BootedInv, BeforeInv, Exists
<1>6. ListInv'
  <2>1. \A u \in Threads : ~Renamed(u)
    BY <1>2 DEF Renamed
  <2> SUFFICES ASSUME NEW n \in Names \ hurt
               PROVE  RecordsTrue(list, n)' /\ RecordsFit(list, n)'
    BY DEF ListInv
  <2> QED
    BY <2>1 DEF StateInv, ListInv, RecordsTrue, RecordsFit, Exists
<1> QED
  BY <1>3, <1>4, <1>5, <1>6 DEF StateInv

\* The file operation: the copy is made to say what the files then are.
LEMMA EditAndRenameStep ==
    ASSUME StateInv, NEW t \in Threads, EditAndRename(t)
    PROVE  StateInv'
<1> DEFINE c == call[t]
           n == c.name
           off == c.off
           l == scratch[t]
<1>1. /\ pc[t] = "edit" /\ TypeOK /\ LockInv /\ Inside(t)
      /\ UNCHANGED <<list, active, added, before, misread, hurt, ops, boots>>
  BY DEF EditAndRename, StateInv, Inside, damage
<1>2. /\ lock = t /\ c \in Calls /\ n \in Names /\ off \in BOOLEAN
      /\ c.kind = "disable" => ~off
      /\ c.kind = "enable" => off
      /\ \A u \in Threads : u # t => pc[u] \in {"idle", "lock"} /\ ~Renamed(u)
  BY <1>1, Alone
<1>3. CASE Return(t, FALSE) /\ (Works \/ Fails) /\ files' = files
  BY <1>1, <1>3, EditRefusedStep
<1>4. CASE /\ Exists(n, off) /\ (c.kind \in {"disable", "enable"} => ~Exists(n, ~off))
           /\ Works
           /\ files' = CASE c.kind = "add" -> files
                         [] c.kind = "delete" -> [files EXCEPT ![<<n, off>>] = "absent"]
                         [] OTHER -> [files EXCEPT ![<<n, ~off>>] = files[<<n, off>>],
                                                   ![<<n, off>>] = "absent"]
           /\ scratch' = [scratch EXCEPT ![t] = Edited(@, c)]
           /\ Goto(t, "save") /\ UNCHANGED <<call, lock, failed>>
  <2>1. /\ pc \in [Threads -> {"idle", "lock", "edit", "save", "undo"}]
        /\ scratch \in [Threads -> Lists] /\ l \in Lists /\ list \in Lists
        /\ files \in [Names \X BOOLEAN -> Contents] /\ "absent" \in Contents
        /\ c.kind \in {"add", "delete", "disable", "enable"}
    BY <1>1, <1>2 DEF TypeOK, Contents, Calls
  <2>2. /\ pc' \in [Threads -> {"idle", "lock", "edit", "save", "undo"}]
        /\ pc'[t] = "save" /\ call' = call /\ lock' = lock
        /\ \A u \in Threads : u # t => pc'[u] = pc[u]
    BY <1>4, <2>1 DEF Goto
  <2>3. /\ Edited(l, c) \in Lists
        /\ Edited(l, c).snapshot = l.snapshot
        /\ \A m \in Names \ {n} :
               /\ Edited(l, c).change[m] = l.change[m]
               /\ m \in Edited(l, c).pending <=> m \in l.pending
        /\ n \in Edited(l, c).pending <=> c.kind = "add"
        /\ Edited(l, c).change[n] =
               CASE c.kind = "add"     -> l.change[n]
                 [] c.kind = "disable" -> IF WasEnabledAtBoot(l, n) THEN "E" ELSE "none"
                 [] c.kind = "enable"  -> IF WasEnabledAtBoot(l, n) THEN "none" ELSE "D"
                 [] c.kind = "delete"  -> "none"
    BY <1>2, <2>1, EditedRecords
  <2>4. scratch' \in [Threads -> Lists] /\ scratch'[t] = Edited(l, c)
    BY <1>4, <2>1, <2>3
  <2>5. /\ files' \in [Names \X BOOLEAN -> Contents]
        /\ \A m \in Names, b \in BOOLEAN : m # n => files'[<<m, b>>] = files[<<m, b>>]
        /\ c.kind = "add" => files' = files
        /\ c.kind = "delete" =>
               files'[<<n, off>>] = "absent" /\ files'[<<n, ~off>>] = files[<<n, ~off>>]
        /\ c.kind \in {"disable", "enable"} =>
               /\ files'[<<n, off>>] = "absent" /\ files'[<<n, ~off>>] = files[<<n, off>>]
               /\ files[<<n, off>>] # "absent" /\ files[<<n, ~off>>] = "absent"
    <3>1. CASE c.kind = "add"
      BY <1>4, <2>1, <3>1
    <3>2. CASE c.kind = "delete"
      <4>1. files' = [files EXCEPT ![<<n, off>>] = "absent"]
        BY <1>4, <3>2
      <4>2. /\ files' \in [Names \X BOOLEAN -> Contents]
            /\ files'[<<n, off>>] = "absent"
            /\ \A m \in Names, b \in BOOLEAN :
                   <<m, b>> # <<n, off>> => files'[<<m, b>>] = files[<<m, b>>]
        BY <1>1, <1>2, <2>1, <4>1, Replacement
      <4>3. files'[<<n, ~off>>] = files[<<n, ~off>>]
        BY <1>2, <4>2, TwoPaths
      <4> QED
        BY <3>2, <4>2, <4>3
    <3>3. CASE c.kind \in {"disable", "enable"}
      <4>1. files' = [files EXCEPT ![<<n, ~off>>] = files[<<n, off>>], ![<<n, off>>] = "absent"]
        BY <1>4, <3>3
      <4>2. /\ files' \in [Names \X BOOLEAN -> Contents]
            /\ files'[<<n, off>>] = "absent" /\ files'[<<n, ~off>>] = files[<<n, off>>]
            /\ \A m \in Names, b \in BOOLEAN : m # n => files'[<<m, b>>] = files[<<m, b>>]
        BY <1>1, <1>2, <4>1, Rename, TwoPaths
      <4> QED
        BY <1>4, <3>3, <4>2 DEF Exists
    <3> QED
      BY <2>1, <3>1, <3>2, <3>3
  <2>6. TypeOK'
    <3>1. UNCHANGED <<list, lock, active, added, misread, hurt, ops, boots, faults>>
      BY <1>1, <1>4 DEF Works
    <3> QED
      BY <1>1, <2>2, <2>4, <2>5, <3>1 DEF TypeOK
  <2>7. \A u \in Threads : (Inside(u)' <=> Inside(u)) /\ (Renamed(u)' <=> u = t)
    BY <1>1, <1>2, <2>2 DEF Inside, Renamed
  <2>8. LockInv'
    BY <1>1, <2>2, <2>7 DEF LockInv
  <2>9. /\ \A m \in Names \ hurt : RecordsTrue(list, m) /\ RecordsFit(list, m)
        /\ files[<<n, FALSE>>] = "booted" => n \in active
        /\ files[<<n, TRUE>>] = "booted" => n \in active /\ files[<<n, FALSE>>] = "absent"
    <3>1. \A u \in Threads : ~Renamed(u)
      BY <1>1, <1>2 DEF Renamed
    <3> QED
      BY <1>2, <3>1 DEF StateInv, ListInv, BootedInv, Exists
  <2>10. BootedInv'
    <3> SUFFICES ASSUME NEW m \in Names
                 PROVE  /\ files'[<<m, FALSE>>] = "booted" => m \in active
                        /\ files'[<<m, TRUE>>] = "booted" =>
                               m \in active /\ files'[<<m, FALSE>>] = "absent"
      BY <1>1 DEF BootedInv, Exists
    <3>1. CASE m # n
      BY <2>5, <3>1 DEF StateInv, BootedInv, Exists
    <3>2. CASE m = n /\ c.kind = "add"
      BY <2>5, <2>9, <3>2
    <3>3. CASE m = n /\ c.kind # "add"
      BY <1>2, <2>1, <2>5, <2>9, <3>3, TwoPaths
    <3> QED
      BY <3>1, <3>2, <3>3
  <2>11. ListInv'
    <3> SUFFICES ASSUME NEW m \in Names \ hurt
                 PROVE  /\ RecordsTrue(list, m)'
                        /\ \/ RecordsFit(list, m)'
                           \/ \E u \in Threads :
                                  Renamed(u)' /\ call[u].name = m /\ call[u].kind # "add"
      BY <1>1, <2>2 DEF ListInv
    <3>1. RecordsTrue(list, m)'
      BY <1>1, <2>9 DEF RecordsTrue
    <3>2. CASE m # n \/ c.kind = "add"
      <4>1. files'[<<m, TRUE>>] = files[<<m, TRUE>>] /\ files'[<<m, FALSE>>] = files[<<m, FALSE>>]
        BY <2>5, <3>2
      <4>2. RecordsFit(list, m)'
        BY <1>1, <2>9, <4>1 DEF RecordsFit, Exists
      <4> QED
        BY <3>1, <4>2
    <3>3. CASE m = n /\ c.kind # "add"
      BY <2>7, <3>1, <3>3
    <3> QED
      BY <3>2, <3>3
  <2>12. ScratchInv'
    <3> DEFINE e == Edited(l, c)
    <3> SUFFICES ASSUME ~misread, NEW m \in Names \ hurt
                 PROVE  /\ m \in e.snapshot <=> m \in active
                        /\ e.change[m] = "E" => m \in active
                        /\ e.change[m] = "D" => m \notin active
                        /\ files'[<<m, TRUE>>] = "booted" => e.change[m] = "E"
                        /\ m \in e.pending =>
                               files'[<<m, FALSE>>] # "absent" \/ files'[<<m, TRUE>>] # "absent"
      <4>1. \A u \in Threads : pc'[u] # "edit" /\ (pc'[u] = "save" => u = t)
        BY <1>2, <2>2
      <4> QED
        BY <1>1, <2>4, <4>1 DEF ScratchInv, RecordsTrue, RecordsFit, Exists
    <3>1. /\ l = list
          /\ m \in l.snapshot <=> m \in active
          /\ l.change[m] = "E" => m \in active
          /\ l.change[m] = "D" => m \notin active
          /\ files[<<m, TRUE>>] = "booted" => l.change[m] = "E"
          /\ m \in l.pending => files[<<m, FALSE>>] # "absent" \/ files[<<m, TRUE>>] # "absent"
      <4>1. l = list
        BY <1>1 DEF StateInv, ScratchInv
      <4> QED
        BY <2>9, <4>1 DEF RecordsTrue, RecordsFit, Exists
    <3> HIDE DEF e, l
    <3>2. CASE m # n
      BY <2>3, <2>5, <3>1, <3>2 DEF e
    <3>3. CASE m = n
      <4>1. WasEnabledAtBoot(l, n) <=> n \in active
        BY <2>9, <3>1, <3>3, WasEnabled
      <4>2. /\ n \in e.snapshot <=> n \in active
            /\ e.change[n] = "E" => n \in active
            /\ e.change[n] = "D" => n \notin active
        BY <2>1, <2>3, <3>1, <3>3, <4>1 DEF e
      <4>3. n \in e.pending => files'[<<n, FALSE>>] # "absent" \/ files'[<<n, TRUE>>] # "absent"
        BY <1>2, <1>4, <2>3, <2>5, TwoPaths DEF e, Exists
      <4>4. files'[<<n, TRUE>>] = "booted" => e.change[n] = "E"
        <5>1. CASE c.kind = "add"
          BY <2>3, <2>5, <3>1, <3>3, <5>1 DEF e
        <5>2. CASE c.kind = "disable"
          BY <1>2, <2>3, <2>5, <2>9, <4>1, <5>2, TwoPaths DEF e
        <5>3. CASE c.kind = "enable"
          BY <1>2, <2>5, <5>3, TwoPaths
        <5>4. CASE c.kind = "delete"
          BY <1>2, <1>4, <2>5, <2>9, <5>4, TwoPaths DEF Exists
        <5> QED
          BY <2>1, <5>1, <5>2, <5>3, <5>4
      <4> QED
        BY <3>3, <4>2, <4>3, <4>4
    <3> QED
      BY <3>2, <3>3
  <2>13. RenamedInv'
    <3> SUFFICES ASSUME c.kind \in {"disable", "enable"}
                 PROVE  /\ files'[<<n, off>>] = "absent" /\ files'[<<n, ~off>>] # "absent"
                        /\ before[<<n, ~off>>] = "absent"
                        /\ n \notin hurt /\ files'[<<n, FALSE>>] = "booted" =>
                               list.change[n] = "E"
      BY <1>1, <2>2, <2>7 DEF RenamedInv, Exists
    <3>1. <<n, ~off>> \in Names \X BOOLEAN
      BY <1>2, TwoPaths
    <3>2. before[<<n, ~off>>] = "absent"
      BY <1>1, <2>5, <3>1 DEF StateInv, BeforeInv
    <3>3. n \notin hurt /\ files'[<<n, FALSE>>] = "booted" => list.change[n] = "E"
      <4>1. n \notin hurt /\ files[<<n, TRUE>>] = "booted" => list.change[n] = "E"
        BY <1>2, <2>9 DEF RecordsFit
      <4>2. files'[<<n, FALSE>>] = "absent" \/ files'[<<n, FALSE>>] = files[<<n, TRUE>>]
        BY <1>2, <2>5, TwoPaths
      <4> QED
        BY <4>1, <4>2
    <3> QED
      BY <2>5, <3>2, <3>3
  <2>14. BeforeInv' /\ FaultInv'
    <3>1. \A u \in Threads : pc'[u] # "edit" /\ pc'[u] # "undo"
      BY <1>1, <1>2, <2>2
    <3> QED
      BY <1>1, <3>1 DEF StateInv, BeforeInv, FaultInv
  <2> QED
    BY <2>6, <2>8, <2>10, <2>11, <2>12, <2>13, <2>14 DEF StateInv
<1> QED
  BY <1>3, <1>4 DEF EditAndRename

\* The end of a call, after its file operation: the list must fit the files,
\* but for the names that are given up.
LEMMA CallEnds ==
    ASSUME StateInv, NEW t \in Threads, Renamed(t), NEW success \in BOOLEAN,
           Return(t, success), Works \/ Fails,
           files' \in [Names \X BOOLEAN -> Contents], list' \in Lists,
           hurt' \subseteq Names, added' \subseteq Names, BootedInv',
           \A m \in Names \ hurt' : RecordsTrue(list, m)' /\ RecordsFit(list, m)',
           UNCHANGED <<active, before, misread, ops, boots>>
    PROVE  StateInv'
<1>1. TypeOK /\ LockInv /\ Inside(t)
  BY DEF StateInv, Inside, Renamed
<1>2. lock = t
  BY <1>1, Alone
<1>3. /\ LockInv' /\ ScratchInv' /\ RenamedInv' /\ FaultInv'
      /\ lock' = None /\ pc' \in [Threads -> {"idle", "lock", "edit", "save", "undo"}]
      /\ scratch' \in [Threads -> Lists]
      /\ \A u \in Threads : pc'[u] \in {"idle", "lock"}
  BY <1>1, <1>2, Returned
<1>4. TypeOK'
  <2>1. /\ faults \in 0 .. MaxFaults
        /\ faults' = faults \/ (faults < MaxFaults /\ faults' = faults + 1)
    BY <1>1 DEF TypeOK, Works, Fails
  <2>2. faults' \in 0 .. MaxFaults
    BY <2>1, BoundAssumption
  <2> QED
    BY <1>1, <1>3, <2>2 DEF TypeOK
<1>5. BeforeInv'
  BY <1>3 DEF StateInv, BeforeInv
<1>6. ListInv'
  BY DEF ListInv
<1> QED
  BY <1>3, <1>4, <1>5, <1>6 DEF StateInv

\* The records of other names than the call's own fit the files throughout.
LEMMA OthersFit ==
    ASSUME StateInv, NEW t \in Threads, Renamed(t)
    PROVE  \A m \in Names \ hurt :
               /\ RecordsTrue(list, m)
               /\ m # call[t].name \/ call[t].kind = "add" => RecordsFit(list, m)
<1>1. \A u \in Threads : u # t => ~Renamed(u)
  BY Alone DEF StateInv, Inside, Renamed
<1> QED
  BY <1>1 DEF StateInv, ListInv

\* The save: it succeeds, is given up, or is cut short.
LEMMA SaveStep ==
    ASSUME StateInv, NEW t \in Threads, Save(t)
    PROVE  StateInv'
<1> DEFINE c == call[t]
           n == c.name
           l == scratch[t]
<1>1. /\ pc[t] = "save" /\ TypeOK /\ LockInv /\ Inside(t) /\ Renamed(t)
      /\ UNCHANGED <<files, active, before, misread, ops, boots>>
  BY DEF Save, StateInv, Inside, Renamed
<1>2. /\ lock = t /\ c \in Calls /\ n \in Names
      /\ \A u \in Threads : u # t => pc[u] \in {"idle", "lock"} /\ ~Renamed(u)
  BY <1>1, Alone
<1>3. /\ files \in [Names \X BOOLEAN -> Contents] /\ list \in Lists /\ l \in Lists
      /\ added \subseteq Names /\ hurt \subseteq Names
      /\ pc \in [Threads -> {"idle", "lock", "edit", "save", "undo"}]
      /\ scratch \in [Threads -> Lists]
  BY <1>1 DEF TypeOK
<1>4. BootedInv'
  BY <1>1 DEF StateInv, BootedInv, Exists
<1>5. \A m \in Names \ hurt :
          /\ RecordsTrue(list, m)
          /\ m # n \/ c.kind = "add" => RecordsFit(list, m)
  BY <1>1, OthersFit
<1>6. ASSUME list' = list
      PROVE  \A m \in Names : /\ RecordsTrue(list, m) => RecordsTrue(list, m)'
                              /\ RecordsFit(list, m) => RecordsFit(list, m)'
  BY <1>1, <1>6 DEF RecordsTrue, RecordsFit, Exists
<1>7. CASE /\ Works /\ list' = l /\ Return(t, TRUE)
           /\ hurt' = IF misread THEN Names ELSE hurt
           /\ added' = IF c.kind = "add" THEN added \cup {c.name} ELSE added
  <2>1. \A m \in Names \ hurt' : RecordsTrue(list, m)' /\ RecordsFit(list, m)'
    <3> SUFFICES ASSUME NEW m \in Names \ hurt'
                 PROVE  RecordsTrue(list, m)' /\ RecordsFit(list, m)'
      OBVIOUS
    <3>1. ~misread /\ m \in Names \ hurt
      BY <1>7
    <3>2. RecordsTrue(l, m) /\ RecordsFit(l, m)
      BY <1>1, <3>1 DEF StateInv, ScratchInv
    <3> QED
      BY <1>1, <1>7, <3>2 DEF RecordsTrue, RecordsFit, Exists
  <2>2. hurt' \subseteq Names /\ added' \subseteq Names
    BY <1>2, <1>3, <1>7
  <2> QED
    BY <1>1, <1>3, <1>4, <1>7, <2>1, <2>2, CallEnds
<1>8. CASE /\ Fails /\ Return(t, TRUE) /\ UNCHANGED <<list, added>>
           /\ hurt' = IF misread THEN Names ELSE hurt \cup {n}
  <2>1. \A m \in Names \ hurt' : m \in Names \ hurt /\ m # n
    BY <1>8
  <2>2. \A m \in Names \ hurt' : RecordsTrue(list, m)' /\ RecordsFit(list, m)'
    BY <1>5, <1>6, <1>8, <2>1
  <2>3. hurt' \subseteq Names
    BY <1>2, <1>3, <1>8
  <2> QED
    BY <1>1, <1>3, <1>4, <1>8, <2>2, <2>3, CallEnds
<1>9. CASE /\ Fails /\ list' \in {list} \cup Torn(list, l) /\ UNCHANGED added
           /\ hurt' = IF list' # list THEN Names
                      ELSE IF c.kind = "delete" THEN hurt \cup {n} ELSE hurt
           /\ IF c.kind \in {"disable", "enable"}
                THEN Goto(t, "undo") /\ UNCHANGED <<call, scratch, lock, failed>>
                ELSE Return(t, FALSE)
  <2>1. list' \in Lists /\ hurt' \subseteq Names /\ hurt \subseteq hurt'
    BY <1>2, <1>3, <1>9 DEF Torn
  <2>2. \A m \in Names \ hurt' :
            /\ list' = list /\ m \in Names \ hurt
            /\ RecordsTrue(list, m)'
            /\ m # n \/ c.kind = "add" => RecordsFit(list, m)'
    BY <1>5, <1>6, <1>9, <2>1
  <2>3. CASE c.kind \in {"disable", "enable"}
    <3>1. /\ pc' = [pc EXCEPT ![t] = "undo"] /\ UNCHANGED <<call, scratch, lock>>
      BY <1>9, <2>3 DEF Goto
    <3>2. /\ pc' \in [Threads -> {"idle", "lock", "edit", "save", "undo"}]
          /\ pc'[t] = "undo" /\ \A u \in Threads : u # t => pc'[u] = pc[u]
      BY <1>3, <3>1
    <3>3. faults' \in 0 .. MaxFaults /\ faults' > 0
      BY <1>1, <1>9, BoundAssumption DEF TypeOK, Fails
    <3>4. TypeOK'
      BY <1>1, <1>9, <2>1, <3>1, <3>2, <3>3 DEF TypeOK
    <3>5. \A u \in Threads : (Inside(u)' <=> Inside(u)) /\ (Renamed(u)' <=> Renamed(u))
      BY <1>1, <3>2 DEF Inside, Renamed
    <3>6. LockInv'
      BY <1>1, <2>3, <3>1, <3>2, <3>5 DEF LockInv
    <3>7. ListInv'
      <4> SUFFICES ASSUME NEW m \in Names \ hurt'
                   PROVE  /\ RecordsTrue(list, m)'
                          /\ \/ RecordsFit(list, m)'
                             \/ \E u \in Threads :
                                    Renamed(u)' /\ call[u].name = m /\ call[u].kind # "add"
        BY <3>1 DEF ListInv
      <4> QED
        BY <1>1, <2>2, <2>3, <3>5
    <3>8. \A u \in Threads : pc'[u] \notin {"edit", "save"}
      BY <1>2, <3>2
    <3>9. ScratchInv' /\ BeforeInv' /\ FaultInv'
      BY <1>1, <3>3, <3>8 DEF StateInv, ScratchInv, BeforeInv, FaultInv
    <3>10. RenamedInv'
      <4> SUFFICES ASSUME NEW u \in Threads, Renamed(u), call[u].kind \in {"disable", "enable"}
                   PROVE  LET m == call[u].name
                              off == call[u].off
                          IN  /\ files[<<m, off>>] = "absent" /\ files[<<m, ~off>>] # "absent"
                              /\ before[<<m, ~off>>] = "absent"
                              /\ m \notin hurt' /\ files[<<m, FALSE>>] = "booted" =>
                                     list'.change[m] = "E"
        BY <1>1, <3>1, <3>5 DEF RenamedInv, Exists
      <4>1. u = t
        BY <1>2
      <4>2. n \notin hurt' => list' = list /\ n \notin hurt
        BY <1>2, <2>2
      <4> QED
        BY <4>1, <4>2 DEF StateInv, RenamedInv, Exists
    <3> QED
      BY <1>4, <3>4, <3>6, <3>7, <3>9, <3>10 DEF StateInv
  <2>4. CASE c.kind \notin {"disable", "enable"}
    <3>1. Return(t, FALSE)
      BY <1>9, <2>4
    <3>2. \A m \in Names \ hurt' : RecordsTrue(list, m)' /\ RecordsFit(list, m)'
      <4>1. c.kind \in {"add", "delete"}
        BY <1>2, <2>4 DEF Calls
      <4> SUFFICES ASSUME NEW m \in Names \ hurt'
                   PROVE  m # n \/ c.kind = "add"
        BY <2>2
      <4> QED
        BY <1>9, <4>1
    <3> QED
      BY <1>1, <1>3, <1>4, <1>9, <2>1, <3>1, <3>2, CallEnds
  <2> QED
    BY <2>3, <2>4
<1> QED
  BY <1>7, <1>8, <1>9 DEF Save

\* The rename is taken back, or the name given up.
LEMMA UndoRenameStep ==
    ASSUME StateInv, NEW t \in Threads, UndoRename(t)
    PROVE  StateInv'
<1> DEFINE c == call[t]
           n == c.name
           off == c.off
<1>1. /\ pc[t] = "undo" /\ TypeOK /\ LockInv /\ Inside(t) /\ Renamed(t)
      /\ Return(t, FALSE) /\ (Works \/ Fails)
      /\ UNCHANGED <<list, active, added, before, misread, ops, boots>>
  BY DEF UndoRename, StateInv, Inside, Renamed
<1>2. /\ c \in Calls /\ n \in Names /\ off \in BOOLEAN /\ c.kind \in {"disable", "enable"}
      /\ c.kind = "disable" => ~off
      /\ c.kind = "enable" => off
  BY <1>1, Alone DEF LockInv
<1>3. /\ files \in [Names \X BOOLEAN -> Contents] /\ list \in Lists
      /\ added \subseteq Names /\ hurt \subseteq Names
  BY <1>1 DEF TypeOK
<1>4. \A m \in Names \ hurt : RecordsTrue(list, m) /\ (m # n => RecordsFit(list, m))
  BY <1>1, OthersFit
<1>5. \A m \in Names \ hurt : RecordsTrue(list, m)'
  BY <1>1, <1>4 DEF RecordsTrue
<1>6. CASE files' = files /\ hurt' = hurt \cup {n}
  <2>1. BootedInv'
    BY <1>1, <1>6 DEF StateInv, BootedInv, Exists
  <2>2. \A m \in Names \ hurt' : RecordsTrue(list, m)' /\ RecordsFit(list, m)'
    <3> SUFFICES ASSUME NEW m \in Names \ hurt'
                 PROVE  RecordsTrue(list, m)' /\ RecordsFit(list, m)'
      OBVIOUS
    <3>1. m \in Names \ hurt /\ m # n
      BY <1>6
    <3> QED
      BY <1>1, <1>4, <1>5, <1>6, <3>1 DEF RecordsFit, Exists
  <2>3. hurt' \subseteq Names
    BY <1>2, <1>3, <1>6
  <2> QED
    BY <1>1, <1>3, <1>6, <2>1, <2>2, <2>3, CallEnds
<1>7. CASE /\ files' = [files EXCEPT ![<<n, off>>] = files[<<n, ~off>>],
                                     ![<<n, ~off>>] = "absent"]
           /\ hurt' = hurt
  <2>1. /\ files[<<n, off>>] = "absent" /\ files[<<n, ~off>>] # "absent"
        /\ n \notin hurt /\ files[<<n, FALSE>>] = "booted" => list.change[n] = "E"
    BY <1>1, <1>2 DEF StateInv, RenamedInv, Exists
  <2>2. /\ files' \in [Names \X BOOLEAN -> Contents]
        /\ files'[<<n, ~off>>] = "absent" /\ files'[<<n, off>>] = files[<<n, ~off>>]
        /\ \A m \in Names, b \in BOOLEAN : m # n => files'[<<m, b>>] = files[<<m, b>>]
    BY <1>1, <1>2, <1>7, Rename, TwoPaths
  <2>3. BootedInv'
    <3> SUFFICES ASSUME NEW m \in Names
                 PROVE  /\ files'[<<m, FALSE>>] = "booted" => m \in active
                        /\ files'[<<m, TRUE>>] = "booted" =>
                               m \in active /\ files'[<<m, FALSE>>] = "absent"
      BY <1>1 DEF BootedInv, Exists
    <3>1. /\ files[<<m, FALSE>>] = "booted" => m \in active
          /\ files[<<m, TRUE>>] = "booted" => m \in active /\ files[<<m, FALSE>>] = "absent"
      BY DEF StateInv, BootedInv, Exists
    <3>2. CASE m # n
      BY <2>2, <3>1, <3>2
    <3>3. CASE m = n
      BY <1>2, <2>2, <3>1, <3>3, TwoPaths
    <3> QED
      BY <3>2, <3>3
  <2>4. \A m \in Names \ hurt' : RecordsTrue(list, m)' /\ RecordsFit(list, m)'
    <3> SUFFICES ASSUME NEW m \in Names \ hurt
                 PROVE  /\ files'[<<m, TRUE>>] = "booted" => list.change[m] = "E"
                        /\ m \in list.pending =>
                               files'[<<m, FALSE>>] # "absent" \/ files'[<<m, TRUE>>] # "absent"
      BY <1>1, <1>5, <1>7 DEF RecordsFit, Exists
    <3>1. CASE m # n
      <4>1. /\ files'[<<m, TRUE>>] = files[<<m, TRUE>>]
            /\ files'[<<m, FALSE>>] = files[<<m, FALSE>>]
        BY <2>2, <3>1
      <4>2. RecordsFit(list, m)
        BY <1>4, <3>1
      <4> QED
        BY <4>1, <4>2 DEF RecordsFit, Exists
    <3>2. CASE m = n
      BY <1>2, <2>1, <2>2, <3>2, TwoPaths
    <3> QED
      BY <3>1, <3>2
  <2> QED
    BY <1>1, <1>3, <1>7, <2>2, <2>3, <2>4, CallEnds
<1> QED
  BY <1>6, <1>7 DEF UndoRename

-----------------------------------------------------------------------------
(* The theorems *)

LEMMA InitHolds == Init => StateInv
<1> SUFFICES ASSUME Init
             PROVE  StateInv
  OBVIOUS
<1>1. /\ files \in [Names \X BOOLEAN -> {"absent", "booted", "other"}]
      /\ \A n \in Names : files[<<n, FALSE>>] # "other" /\ files[<<n, TRUE>>] # "booted"
      /\ active = {n \in Names : Exists(n, FALSE)}
      /\ list = [EmptyList EXCEPT !.snapshot = active]
      /\ lock = None /\ pc = AllIdle
      /\ call = [t \in Threads |-> None] /\ scratch = [t \in Threads |-> EmptyList]
      /\ added = {} /\ before = files /\ misread = FALSE /\ hurt = {}
      /\ ops = 0 /\ boots = 0 /\ faults = 0
  BY DEF Init
<1>2. list = [snapshot |-> active, change |-> NoChange, pending |-> {}]
  BY <1>1 DEF EmptyList
<1>3. TypeOK
  <2>1. files \in [Names \X BOOLEAN -> Contents]
    BY <1>1 DEF Contents
  <2>2. active \subseteq Names
    BY <1>1
  <2>3. list \in Lists
    BY <1>2, <2>2 DEF Lists, NoChange
  <2>4. scratch \in [Threads -> Lists]
    BY <1>1 DEF EmptyList, NoChange, Lists
  <2>5. pc \in [Threads -> {"idle", "lock", "edit", "save", "undo"}]
    BY <1>1 DEF AllIdle
  <2>6. ops \in 0 .. MaxOps /\ boots \in 0 .. MaxBoots /\ faults \in 0 .. MaxFaults
    BY <1>1, BoundAssumption
  <2>7. lock \in Threads \cup {None} /\ added \subseteq Names /\ hurt \subseteq Names
        /\ misread \in BOOLEAN
    BY <1>1
  <2> QED
    BY <2>1, <2>2, <2>3, <2>4, <2>5, <2>6, <2>7 DEF TypeOK
<1>4. \A t \in Threads : pc[t] = "idle" /\ ~Inside(t) /\ ~Renamed(t) /\ lock # t
  BY <1>1, NoneAssumption DEF AllIdle, Inside, Renamed
<1>5. LockInv /\ ScratchInv /\ RenamedInv /\ FaultInv
  BY <1>1, <1>4 DEF LockInv, ScratchInv, RenamedInv, FaultInv
<1>6. BootedInv /\ ListInv
  <2>1. \A n \in Names : /\ files[<<n, TRUE>>] # "booted"
                         /\ n \in active <=> Exists(n, FALSE)
    BY <1>1
  <2>2. \A n \in Names : list.change[n] = "none"
    BY <1>2 DEF NoChange
  <2>3. list.snapshot = active /\ list.pending = {}
    BY <1>2
  <2> QED
    BY <2>1, <2>2, <2>3 DEF BootedInv, ListInv, RecordsTrue, RecordsFit, Exists
<1>7. BeforeInv
  BY <1>1, <1>3, <1>4 DEF BeforeInv, TypeOK
<1> QED
  BY <1>3, <1>5, <1>6, <1>7 DEF StateInv

LEMMA NextStep ==
    ASSUME StateInv, [Next]_vars
    PROVE  StateInv'
<1>1. CASE Next
  BY <1>1, BootStep, OnlineInstallStep, BeginStep, LockAndLoadStep, EditAndRenameStep,
     SaveStep, UndoRenameStep DEF Next, Call
<1>2. CASE UNCHANGED vars
  <2>1. UNCHANGED <<files, list, lock, pc, call, scratch, active, added, before, misread,
                    hurt, ops, boots, faults>>
    BY <1>2 DEF vars, threadVars, history, damage, bounds
  <2>2. TypeOK' /\ LockInv'
    BY <2>1 DEF StateInv, TypeOK, LockInv, Inside
  <2>3. BootedInv' /\ BeforeInv' /\ FaultInv'
    BY <2>1 DEF StateInv, BootedInv, BeforeInv, FaultInv, Exists
  <2>4. ListInv'
    <3> SUFFICES ASSUME NEW n \in Names \ hurt
                 PROVE  /\ RecordsTrue(list, n)'
                        /\ \/ RecordsFit(list, n)'
                           \/ \E t \in Threads :
                                  Renamed(t)' /\ call[t].name = n /\ call[t].kind # "add"
      BY <2>1 DEF ListInv
    <3>1. /\ RecordsTrue(list, n) => RecordsTrue(list, n)'
          /\ RecordsFit(list, n) => RecordsFit(list, n)'
      BY <2>1 DEF RecordsTrue, RecordsFit, Exists
    <3>2. \A t \in Threads : Renamed(t) => Renamed(t)'
      BY <2>1 DEF Renamed
    <3> QED
      BY <3>1, <3>2 DEF StateInv, ListInv
  <2>5. ScratchInv'
    BY <2>1 DEF StateInv, ScratchInv, RecordsTrue, RecordsFit, Exists
  <2>6. RenamedInv'
    BY <2>1 DEF StateInv, RenamedInv, Renamed, Exists
  <2> QED
    BY <2>2, <2>3, <2>4, <2>5, <2>6 DEF StateInv
<1> QED
  BY <1>1, <1>2

\* Every reachable state satisfies the invariant.
THEOREM StateInvariant == Spec => []StateInv
<1> QED
  BY InitHolds, NextStep, PTL DEF Spec

\* Every variable keeps its type, with any number of calls and failures.
THEOREM TypeCorrect == Spec => []TypeOK
<1>1. StateInv => TypeOK
  BY DEF StateInv
<1> QED
  BY <1>1, StateInvariant, PTL

\* Outside the calls, each pending record that no failure has spoiled names a
\* file that is there (modmenu_manage.c: a deletion takes its records along).
THEOREM PendingAlwaysHasFile == Spec => []PendingHasFile
<1>1. StateInv => PendingHasFile
  <2> SUFFICES ASSUME StateInv, lock = None
               PROVE  \A n \in list.pending \ hurt : Exists(n, FALSE) \/ Exists(n, TRUE)
    BY DEF PendingHasFile
  <2>1. \A t \in Threads : ~Renamed(t)
    BY NoneAssumption DEF StateInv, LockInv, Inside, Renamed
  <2>2. list.pending \subseteq Names
    BY DEF StateInv, TypeOK, Lists
  <2> QED
    BY <2>1, <2>2 DEF StateInv, ListInv, RecordsFit
<1> QED
  BY <1>1, StateInvariant, PTL

\* Outside the calls, the Manage page is right about the plugins that run:
\* PLUGIN_MENU_ManageBuildList reads the records of a list that decide, for
\* each name no failure has spoiled, whether a file of it was enabled at boot.
THEOREM ReportAlwaysMatches == Spec => []ReportMatchesBoot
<1>1. StateInv => ReportMatchesBoot
  <2> SUFFICES ASSUME StateInv, lock = None, NEW n \in Names \ hurt
               PROVE  /\ Exists(n, FALSE) => (ReportedActive(n, FALSE) <=> n \in active)
                      /\ files[<<n, TRUE>>] = "booted" => ReportedActive(n, TRUE)
    BY DEF ReportMatchesBoot
  <2>1. \A t \in Threads : ~Renamed(t)
    BY NoneAssumption DEF StateInv, LockInv, Inside, Renamed
  <2>2. RecordsTrue(list, n) /\ RecordsFit(list, n)
    BY <2>1 DEF StateInv, ListInv
  <2> QED
    BY <2>2 DEF RecordsTrue, RecordsFit, ReportedActive
<1> QED
  BY <1>1, StateInvariant, PTL

\* A disable or enable that fails, once, leaves each file of its name where it
\* was when the call took the lock.
THEOREM FailedCallsKeepFiles ==
    ASSUME MaxFaults <= 1
    PROVE  Spec => FailedCallKeepsFiles
<1> DEFINE Ends(t) == /\ pc[t] # "idle" /\ pc'[t] = "idle" /\ failed' /\ boots' = boots
                      /\ call[t].kind \in {"disable", "enable"} /\ lock = t
           Kept(t) == \A off \in BOOLEAN : before[<<call[t].name, off>>] # "absent" =>
                                               files'[<<call[t].name, off>>] # "absent"
<1>1. ASSUME StateInv, Next, NEW t \in Threads, Ends(t)
      PROVE  Kept(t)
  <2> DEFINE n == call[t].name
             off == call[t].off
  <2>1. /\ TypeOK /\ LockInv /\ Inside(t)
        /\ pc \in [Threads -> {"idle", "lock", "edit", "save", "undo"}]
    BY <1>1 DEF StateInv, TypeOK, LockInv
  <2>2. /\ n \in Names /\ off \in BOOLEAN
        /\ \A u \in Threads : u # t => pc[u] \in {"idle", "lock"}
    BY <2>1, Alone
  <2>3. lock # None
    BY <1>1, NoneAssumption
  <2>4. CASE EditAndRename(t)
    <3>1. pc[t] = "edit" /\ files' = files
      BY <1>1, <2>1, <2>4 DEF EditAndRename, Goto
    <3>2. \A b \in BOOLEAN : <<n, b>> \in Names \X BOOLEAN
      BY <2>2
    <3> QED
      BY <1>1, <3>1, <3>2 DEF StateInv, BeforeInv
  <2>5. ~Save(t)
    BY <1>1, <2>1 DEF Save, Goto, Return
  <2>6. CASE UndoRename(t)
    <3>1. pc[t] = "undo" /\ Renamed(t)
      BY <2>6 DEF UndoRename, Renamed
    <3>2. ~Fails
      BY <1>1, <3>1, BoundAssumption DEF StateInv, FaultInv, TypeOK, Fails
    <3>3. /\ ~Exists(n, off) /\ Exists(n, ~off) /\ before[<<n, ~off>>] = "absent"
      BY <1>1, <3>1 DEF StateInv, RenamedInv
    <3>4. files' = [files EXCEPT ![<<n, off>>] = files[<<n, ~off>>],
                                 ![<<n, ~off>>] = "absent"]
      BY <2>6, <3>2, <3>3 DEF UndoRename
    <3>5. files'[<<n, off>>] = files[<<n, ~off>>]
      BY <2>1, <2>2, <3>4, Rename, TwoPaths
    <3> QED
      BY <2>2, <3>3, <3>5, TwoPaths DEF Exists
  <2>7. ~Boot
    BY <1>1, <2>1 DEF Boot, TypeOK
  <2>8. ASSUME NEW m \in Names, OnlineInstall(m)
        PROVE  FALSE
    BY <1>1, <2>8 DEF OnlineInstall, threadVars
  <2>9. ASSUME NEW u \in Threads, NEW c \in Calls, Begin(u, c)
        PROVE  FALSE
    BY <1>1, <2>1, <2>9 DEF Begin
  <2>10. ASSUME NEW u \in Threads, LockAndLoad(u)
         PROVE  FALSE
    BY <2>3, <2>10 DEF LockAndLoad
  <2>11. ASSUME NEW u \in Threads, EditAndRename(u) \/ Save(u) \/ UndoRename(u)
         PROVE  u = t
    BY <2>2, <2>11 DEF EditAndRename, Save, UndoRename
  <2> QED
    BY <1>1, <2>4, <2>5, <2>6, <2>7, <2>8, <2>9, <2>10, <2>11 DEF Next, Call
<1>2. StateInv /\ [Next]_vars => [\A t \in Threads : Ends(t) => Kept(t)]_vars
  BY <1>1
<1>3. Spec => [][\A t \in Threads : Ends(t) => Kept(t)]_vars
  BY <1>2, StateInvariant, PTL DEF Spec
<1> QED
  BY <1>3 DEF FailedCallKeepsFiles
=============================================================================
