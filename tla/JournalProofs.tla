--------------------------- MODULE JournalProofs ----------------------------
(***************************************************************************)
(* The journalled swap loses no plugin file, marks no plugin too early and *)
(* refuses to recover only for the reasons given, for every set of files   *)
(* and plugins, and for every number of crashes, failing calls and         *)
(* installs.                                                               *)
(*                                                                         *)
(* The properties speak of what is on the card.  JournalInv adds where the *)
(* page stands: what a swap has done so far, which backups and journals it *)
(* may meet, and how far the install loop has come.                        *)
(***************************************************************************)
EXTENDS UpdateJournal, WellFoundedInduction, TLAPS

Clean == spoiled \cap MayLoseAFile = {}
Blemishes == {"kept", "overlooked", "stranded"}

\* Where the page has the file's old content aside, and where it is about to
\* replace a file that is still there.
Aside == {"putInPlace", "restore"}
Before == {"rebuild", "dropOldBackup", "createJournal", "writeJournal", "setAside"}
Staging == {"dropOldBackup", "createJournal", "writeJournal", "setAside", "putInPlace"}
Journalled == {"setAside", "putInPlace", "restore", "dropBackup", "dropJournal"}
After == {"dropBackup", "dropJournal"}
Looping == Before \cup Aside \cup After \cup {"next"}

\* What the swap under way has done.
SwapInv ==
    /\ pc \in Before \cup Aside \cup After \cup {"place"} => file \in Files
    /\ pc \in Before \cup After => target[file] # Missing
    /\ pc \in Journalled => journal = file
    /\ pc \in Staging \cup {"place"} => staged \in Stacks
    /\ pc \in Aside => /\ target[file] = Missing
                       /\ backup \in Stacks /\ backup = installed[file]
    /\ pc \in Staging \cup {"restore"} => ~ok
    /\ pc = "dropBackup" => ok
    /\ pc \in {"rebuild", "next"} => plugin \in Plugins
    /\ pc = "place" => plugin = None

\* What a recovery may meet.
RecoveryInv ==
    /\ pc \in {"recoverBackup", "recoverJournal"} => journal \in Files /\ marked = {}
    /\ pc = "recoverBackup" => backup \in Stacks
    /\ journal \in Files /\ backup \in Stacks =>
           target[journal] # Missing \/ backup = installed[journal]

\* A file that is gone is in the backup the journal names, and the page is not
\* past its recovery.
LostInv ==
    Clean => \A f \in Files : installed[f] # Missing /\ target[f] = Missing =>
        /\ journal = f /\ backup = installed[f]
        /\ pc \in Aside \cup {"closed", "refused", "recoverBackup"}

\* A backup that nothing went wrong with is one that a journal names.
BackupInv ==
    backup # Missing /\ spoiled \cap Blemishes = {} =>
        /\ journal \in Files
        /\ pc \in Aside \cup {"closed", "refused", "recoverBackup", "dropBackup"}

\* The files that are there, or that the swap will put back.
Present(f) == target[f] # Missing \/ (pc \in Aside /\ f = file)

\* The files the install loop has dealt with.
Passed(f) == f < file \/ (f = file /\ (pc = "next" \/ (pc \in After /\ ok)))

\* A rebuilt file has what the old one had, and the plugin.
StagedInv ==
    /\ pc \in Staging => \A p \in Holds[file] :
           p \in installed[file].new \/ p = plugin => p \in staged.new
    /\ pc = "place" => staged.new = Holds[file]

MarkInv ==
    "hidden" \notin spoiled =>
        /\ \A p \in marked, f \in Files :
               Present(f) /\ p \in Holds[f] => p \in installed[f].new
        /\ pc \in Looping /\ plugin # None => \A f \in Files :
               Passed(f) /\ Present(f) /\ plugin \in Holds[f] =>
                   plugin \in installed[f].new

JournalInv ==
    /\ TypeOK /\ TargetIsLastInstalled /\ SwapInv /\ RecoveryInv /\ LostInv
    /\ BackupInv /\ StagedInv /\ MarkInv /\ RefusalNeedsEmptyJournal

-----------------------------------------------------------------------------
(* Helpers *)

\* A set of numbers that is not empty has a least one.
LEMMA LeastExists ==
    ASSUME NEW T \in SUBSET Nat, T # {}
    PROVE  \E m \in T : \A n \in T : m <= n
<1> DEFINE R == OpToRel(<, Nat)
<1>1. IsWellFoundedOn(R, Nat)
  BY NatLessThanWellFounded
<1>2. \E x \in T : \A y \in T : ~ (<<y, x>> \in R)
  <2> HIDE DEF R
  <2> QED
    BY <1>1, WFMin
<1>3. \A x, y \in Nat : ~ (<<y, x>> \in R) => x <= y
  BY DEF OpToRel
<1> QED
  BY <1>2, <1>3

\* NextFile goes to the next file that is there.
LEMMA NextFileIsNext ==
    ASSUME JournalInv, NextFile
    PROVE  /\ file' \in Files /\ target[file'] # Missing
           /\ \A f \in Files : f < file' /\ target[f] # Missing => f <= file
<1>1. Following \in SUBSET Nat /\ Following # {} /\ Following \subseteq Files
  BY FileAssumption DEF Following, Files, NextFile
<1>2. file' \in Following /\ \A g \in Following : file' <= g
  BY <1>1, LeastExists DEF NextFile
<1>3. file \in Nat /\ file' \in Nat
  BY <1>1, <1>2, FileAssumption DEF JournalInv, TypeOK
<1> QED
  BY <1>1, <1>2, <1>3, FileAssumption DEF Following, Files

\* A call that works or fails keeps the counts in their bounds.
LEMMA BoundsTyped ==
    ASSUME TypeOK, Works \/ Fails
    PROVE  /\ <<crashes', faults'>> \in Histories \cup {<<0, 0>>}
           /\ installs' \in 0 .. MaxInstalls
  BY DEF TypeOK, Works, Fails, bounds

-----------------------------------------------------------------------------
(* Each action keeps the invariant *)

\* What a failing check hides shows in spoiled.
LEMMA OpenPageKeeps ==
    ASSUME JournalInv, OpenPage
    PROVE  JournalInv'
<1>1. TypeOK'
  BY DEF JournalInv, TypeOK, OpenPage, CheckCard, bounds, Works, Fails,
     MayLoseAFile
<1>2. TargetIsLastInstalled'
  BY DEF JournalInv, TargetIsLastInstalled, OpenPage, CheckCard
<1>3. SwapInv'
  BY DEF JournalInv, SwapInv, OpenPage, CheckCard, Before, Aside, Staging,
     Journalled, After
<1>4. RecoveryInv'
  <2>1. UNCHANGED <<target, backup, journal, installed>> /\ marked' = {}
    BY DEF OpenPage
  <2>2. PICK b \in {FALSE, backup # Missing}, j \in {FALSE, journal # Missing},
             r \in {FALSE, journal # Empty} : CheckCard(b, j, r)
    BY DEF OpenPage
  <2>3. pc' \in {"recoverBackup", "recoverJournal"} => j /\ r
    BY <2>2 DEF CheckCard
  <2>4. pc' = "recoverBackup" => b
    BY <2>2 DEF CheckCard
  <2> QED
    BY <2>1, <2>2, <2>3, <2>4 DEF JournalInv, TypeOK, RecoveryInv
<1>5. LostInv'
  BY DEF JournalInv, LostInv, Clean, MayLoseAFile, OpenPage, CheckCard
<1>6. BackupInv'
  BY DEF JournalInv, BackupInv, Blemishes, OpenPage, CheckCard
<1>7. StagedInv'
  BY DEF JournalInv, StagedInv, OpenPage, CheckCard, Staging
<1>8. MarkInv'
  BY DEF JournalInv, MarkInv, Looping, OpenPage, CheckCard, Before, Aside,
     After
<1>9. RefusalNeedsEmptyJournal'
  <2> SUFFICES ASSUME pc' = "refused", "opening" \notin spoiled'
               PROVE  \/ journal = Empty
                      \/ journal = Missing /\ spoiled' \cap Blemishes # {}
    BY DEF RefusalNeedsEmptyJournal, OpenPage, Blemishes
  <2>1. \/ journal = Empty
        \/ journal = Missing /\ backup # Missing
    <3>1. PICK b \in {FALSE, backup # Missing}, j \in {FALSE, journal # Missing},
               r \in {FALSE, journal # Empty} : CheckCard(b, j, r)
      BY DEF OpenPage
    <3>2. faults' = faults /\ faults \in Nat
      BY <3>1, BoundAssumption DEF CheckCard, JournalInv, TypeOK
    <3>3. b = (backup # Missing) /\ j = (journal # Missing) /\ r = (journal # Empty)
      BY <3>1, <3>2 DEF CheckCard, Fails
    <3> QED
      BY <3>1, <3>3 DEF CheckCard
  <2>2. spoiled \cap Blemishes \subseteq spoiled'
    BY DEF OpenPage, CheckCard, Blemishes
  <2> QED
    BY <2>1, <2>2, DistinctAssumption DEF JournalInv, BackupInv
<1> QED
  BY <1>1, <1>2, <1>3, <1>4, <1>5, <1>6, <1>7, <1>8, <1>9 DEF JournalInv

\* A backup goes back where its file is missing, and only there.
LEMMA RecoverBackupKeeps ==
    ASSUME JournalInv, RecoverBackup
    PROVE  JournalInv'
<1>1. TypeOK'
  BY DEF JournalInv, TypeOK, RecoverBackup, page, bounds, Works, Fails
<1>2. TargetIsLastInstalled'
  BY DEF JournalInv, TypeOK, TargetIsLastInstalled, RecoveryInv, RecoverBackup
<1>3. SwapInv'
  BY DEF JournalInv, SwapInv, RecoverBackup, Before, Aside, Staging,
     Journalled, After
<1>4. RecoveryInv'
  BY DEF JournalInv, TypeOK, RecoveryInv, RecoverBackup, page
<1>5. LostInv'
  BY DEF JournalInv, TypeOK, LostInv, Clean, RecoverBackup
<1>6. BackupInv'
  BY DEF JournalInv, BackupInv, RecoverBackup
<1>7. StagedInv'
  BY DEF JournalInv, StagedInv, RecoverBackup, Staging
<1>8. MarkInv'
  BY DEF JournalInv, RecoveryInv, MarkInv, Looping, RecoverBackup, page,
     Before, Aside, After
<1>9. RefusalNeedsEmptyJournal'
  BY DEF RefusalNeedsEmptyJournal, RecoverBackup
<1> QED
  BY <1>1, <1>2, <1>3, <1>4, <1>5, <1>6, <1>7, <1>8, <1>9 DEF JournalInv

\* The journal goes when every file is there.
LEMMA RecoverJournalKeeps ==
    ASSUME JournalInv, RecoverJournal
    PROVE  JournalInv'
<1>1. TypeOK'
  BY DEF JournalInv, TypeOK, RecoverJournal, page, bounds, history, Works,
     Fails
<1>2. TargetIsLastInstalled'
  BY DEF JournalInv, TargetIsLastInstalled, RecoverJournal, history
<1>3. SwapInv'
  BY DEF JournalInv, SwapInv, RecoverJournal, Before, Aside, Staging,
     Journalled, After
<1>4. RecoveryInv'
  BY DistinctAssumption DEF JournalInv, RecoveryInv, RecoverJournal, history
<1>5. LostInv'
  BY DEF JournalInv, LostInv, Clean, RecoverJournal, history, Aside
<1>6. BackupInv'
  BY DEF JournalInv, BackupInv, RecoverJournal, history, Aside
<1>7. StagedInv'
  BY DEF JournalInv, StagedInv, RecoverJournal, Staging
<1>8. MarkInv'
  BY DEF JournalInv, MarkInv, Present, Looping, RecoverJournal, page, history,
     Before, Aside, After
<1>9. RefusalNeedsEmptyJournal'
  BY DEF RefusalNeedsEmptyJournal, RecoverJournal
<1> QED
  BY <1>1, <1>2, <1>3, <1>4, <1>5, <1>6, <1>7, <1>8, <1>9 DEF JournalInv

\* Closing changes nothing on the card.
LEMMA ClosePageKeeps ==
    ASSUME JournalInv, ClosePage
    PROVE  JournalInv'
<1>1. TypeOK'
  BY DEF JournalInv, TypeOK, ClosePage, card, page, bounds, history
<1>2. TargetIsLastInstalled'
  BY DEF JournalInv, TargetIsLastInstalled, ClosePage, card, history
<1>3. SwapInv'
  BY DEF JournalInv, SwapInv, ClosePage, Before, Aside, Staging, Journalled,
     After
<1>4. RecoveryInv'
  BY DEF JournalInv, RecoveryInv, ClosePage, card, history
<1>5. LostInv'
  BY DEF JournalInv, LostInv, Clean, ClosePage, card, history
<1>6. BackupInv'
  BY DEF JournalInv, BackupInv, ClosePage, card, history
<1>7. StagedInv'
  BY DEF JournalInv, StagedInv, ClosePage, Staging
<1>8. MarkInv'
  BY DEF JournalInv, MarkInv, Present, Looping, ClosePage, card, page, history,
     Before, Aside, After
<1>9. RefusalNeedsEmptyJournal'
  BY DEF RefusalNeedsEmptyJournal, ClosePage
<1> QED
  BY <1>1, <1>2, <1>3, <1>4, <1>5, <1>6, <1>7, <1>8, <1>9 DEF JournalInv

\* The loop starts before the first file.
LEMMA StartUpdateKeeps ==
    ASSUME JournalInv, NEW p \in Plugins, StartUpdate(p)
    PROVE  JournalInv'
<1>1. TypeOK'
  <2>1. /\ file' = 0 /\ plugin' = p /\ touched' = FALSE /\ pc' = "next"
        /\ UNCHANGED <<card, ok, marked, history, crashes, faults>>
    BY DEF StartUpdate, CountInstall
  <2>2. installs' \in 0 .. MaxInstalls /\ 0 \in 0 .. FileCount
    BY BoundAssumption, FileAssumption DEF JournalInv, TypeOK, StartUpdate, CountInstall
  <2> QED
    BY <2>1, <2>2 DEF JournalInv, TypeOK, card, history
<1>2. TargetIsLastInstalled'
  BY DEF JournalInv, TargetIsLastInstalled, StartUpdate, CountInstall, Files,
     card, history
<1>3. SwapInv'
  BY DEF JournalInv, SwapInv, StartUpdate, CountInstall, Files, Before, Aside,
     Staging, Journalled, After
<1>4. RecoveryInv'
  BY DEF JournalInv, RecoveryInv, StartUpdate, CountInstall, Files, card,
     history
<1>5. LostInv'
  BY DEF JournalInv, LostInv, Clean, StartUpdate, CountInstall, Files, card,
     history, Aside
<1>6. BackupInv'
  BY DEF JournalInv, BackupInv, StartUpdate, CountInstall, Files, card,
     history, Aside
<1>7. StagedInv'
  BY DEF JournalInv, StagedInv, StartUpdate, CountInstall, Files, Staging
<1>8. MarkInv'
  BY DEF JournalInv, MarkInv, Present, Passed, StartUpdate, CountInstall,
     Files, card, history
<1>9. RefusalNeedsEmptyJournal'
  BY DEF RefusalNeedsEmptyJournal, StartUpdate, CountInstall, Files
<1> QED
  BY <1>1, <1>2, <1>3, <1>4, <1>5, <1>6, <1>7, <1>8, <1>9 DEF JournalInv

\* A stack is staged for a file that is there, or takes a free place.
LEMMA StartStackKeeps ==
    ASSUME JournalInv, NEW f \in Files, StartStack(f)
    PROVE  JournalInv'
<1>1. TypeOK'
  <2>1. /\ file' = f /\ plugin' = None /\ ok' = FALSE
        /\ staged' = [of |-> f, new |-> Holds[f]]
        /\ pc' \in {"place", "dropOldBackup"}
        /\ UNCHANGED <<target, backup, journal, touched, marked, history, crashes, faults>>
    BY DEF StartStack, CountInstall
  <2>2. installs' \in 0 .. MaxInstalls /\ f \in 0 .. FileCount
    BY BoundAssumption, FileAssumption DEF JournalInv, TypeOK, StartStack, CountInstall, Files
  <2>3. staged' \in Stacks
    BY <2>1, HoldsAssumption DEF Stacks
  <2> QED
    BY <2>1, <2>2, <2>3 DEF JournalInv, TypeOK, history
<1>2. TargetIsLastInstalled'
  BY DEF JournalInv, TargetIsLastInstalled, StartStack, CountInstall, Files,
     history
<1>3. SwapInv'
  BY HoldsAssumption DEF JournalInv, SwapInv, StartStack, CountInstall, Files,
     Stacks, Before, Aside, Journalled, After
<1>4. RecoveryInv'
  BY DEF JournalInv, RecoveryInv, StartStack, CountInstall, Files, history
<1>5. LostInv'
  BY DEF JournalInv, LostInv, Clean, StartStack, CountInstall, Files, history,
     Aside
<1>6. BackupInv'
  BY DEF JournalInv, BackupInv, StartStack, CountInstall, Files, history, Aside
<1>7. StagedInv'
  BY DEF JournalInv, StagedInv, StartStack, CountInstall, Files
<1>8. MarkInv'
  BY DEF JournalInv, MarkInv, Present, StartStack, CountInstall, Files,
     history, Aside
<1>9. RefusalNeedsEmptyJournal'
  BY DEF RefusalNeedsEmptyJournal, StartStack, CountInstall, Files
<1> QED
  BY <1>1, <1>2, <1>3, <1>4, <1>5, <1>6, <1>7, <1>8, <1>9 DEF JournalInv

\* A new file is the one last put in place.
LEMMA PlaceStackKeeps ==
    ASSUME JournalInv, PlaceStack
    PROVE  JournalInv'
<1>1. TypeOK'
  BY DEF JournalInv, TypeOK, PlaceStack, page, bounds, Works, Fails
<1>2. TargetIsLastInstalled'
  BY DEF JournalInv, TypeOK, TargetIsLastInstalled, PlaceStack
<1>3. SwapInv'
  BY DEF JournalInv, SwapInv, PlaceStack, Before, Aside, Staging, Journalled,
     After
<1>4. RecoveryInv'
  BY DistinctAssumption DEF JournalInv, TypeOK, SwapInv, RecoveryInv,
     PlaceStack
<1>5. LostInv'
  BY DEF JournalInv, TypeOK, LostInv, Clean, PlaceStack, Aside
<1>6. BackupInv'
  BY DEF JournalInv, BackupInv, PlaceStack, Aside
<1>7. StagedInv'
  BY DEF JournalInv, StagedInv, PlaceStack, Staging
<1>8. MarkInv'
  BY DEF JournalInv, TypeOK, StagedInv, MarkInv, Present, Looping, PlaceStack,
     page, Before, Aside, After
<1>9. RefusalNeedsEmptyJournal'
  BY DEF RefusalNeedsEmptyJournal, PlaceStack
<1> QED
  BY <1>1, <1>2, <1>3, <1>4, <1>5, <1>6, <1>7, <1>8, <1>9 DEF JournalInv

\* The files that are passed over are not there or do not hold the plugin.
LEMMA NextFileKeeps ==
    ASSUME JournalInv, NextFile
    PROVE  JournalInv'
<1>1. TypeOK'
  <2>1. file' \in 0 .. FileCount
    BY NextFileIsNext, FileAssumption DEF Files
  <2> QED
    BY <2>1, BoundsTyped DEF JournalInv, TypeOK, NextFile, card
<1>2. TargetIsLastInstalled'
  BY DEF JournalInv, TargetIsLastInstalled, NextFile, card
<1>3. SwapInv'
  BY NextFileIsNext DEF JournalInv, SwapInv, NextFile, card, Before, Aside, Staging, Journalled, After
<1>4. RecoveryInv'
  BY DEF JournalInv, RecoveryInv, NextFile, card
<1>5. LostInv'
  BY DEF JournalInv, LostInv, Clean, NextFile, card, Aside
<1>6. BackupInv'
  BY DEF JournalInv, BackupInv, NextFile, card, Aside
<1>7. StagedInv'
  BY DEF JournalInv, StagedInv, NextFile, Staging
<1>8. MarkInv'
  <2> SUFFICES ASSUME "hidden" \notin spoiled'
               PROVE  MarkInv'
    BY DEF MarkInv
  <2>1. /\ UNCHANGED <<target, installed, marked, plugin>> /\ spoiled' = spoiled
        /\ pc = "next" /\ pc' = IF plugin \in Holds[file'] THEN "rebuild" ELSE "next"
    BY DEF NextFile, card
  <2>2. \A p \in marked, f \in Files : Present(f)' /\ p \in Holds[f]
            => p \in installed[f].new
    BY <2>1 DEF JournalInv, MarkInv, Present, Aside
  <2>3. ASSUME NEW f \in Files, Passed(f)', Present(f)', plugin \in Holds[f]
        PROVE  plugin \in installed[f].new
    <3>1. f < file' /\ target[f] # Missing
      BY <2>1, <2>3 DEF Passed, Present, Aside, After
    <3>2. f <= file
      BY <3>1, NextFileIsNext
    <3>3. Passed(f) /\ Present(f)
      BY <2>1, <3>1, <3>2, FileAssumption DEF Passed, Present, JournalInv, TypeOK, Files
    <3> QED
      BY <2>1, <2>3, <3>3, DistinctAssumption DEF JournalInv, SwapInv, MarkInv, Looping
  <2> QED
    BY <2>1, <2>2, <2>3 DEF MarkInv
<1>9. RefusalNeedsEmptyJournal'
  BY DEF RefusalNeedsEmptyJournal, NextFile
<1> QED
  BY <1>1, <1>2, <1>3, <1>4, <1>5, <1>6, <1>7, <1>8, <1>9 DEF JournalInv

\* A plugin is marked when every file that is there has been dealt with.
LEMMA InstallEndsKeeps ==
    ASSUME JournalInv, InstallEnds
    PROVE  JournalInv'
<1>1. TypeOK'
  BY DEF JournalInv, TypeOK, SwapInv, InstallEnds, Following, Files, card,
     bounds, history
<1>2. TargetIsLastInstalled'
  BY DEF JournalInv, TargetIsLastInstalled, InstallEnds, Following, Files,
     card, history
<1>3. SwapInv'
  BY DEF JournalInv, SwapInv, InstallEnds, Following, Files, Before, Aside,
     Staging, Journalled, After
<1>4. RecoveryInv'
  BY DEF JournalInv, RecoveryInv, InstallEnds, Following, Files, card, history
<1>5. LostInv'
  BY DEF JournalInv, LostInv, Clean, InstallEnds, Following, Files, card,
     history, Aside
<1>6. BackupInv'
  BY DEF JournalInv, BackupInv, InstallEnds, Following, Files, card, history,
     Aside
<1>7. StagedInv'
  BY DEF JournalInv, StagedInv, InstallEnds, Following, Files, Staging
<1>8. MarkInv'
  BY DistinctAssumption DEF JournalInv, TypeOK, SwapInv, MarkInv, Present,
     Passed, Looping, InstallEnds, Following, Files, card, history, Aside
<1>9. RefusalNeedsEmptyJournal'
  BY DEF RefusalNeedsEmptyJournal, InstallEnds, Following, Files
<1> QED
  BY <1>1, <1>2, <1>3, <1>4, <1>5, <1>6, <1>7, <1>8, <1>9 DEF JournalInv

\* A rebuilt file has what the old one had.
LEMMA RebuildKeeps ==
    ASSUME JournalInv, Rebuild
    PROVE  JournalInv'
<1>1. TypeOK'
  <2>1. staged' \in {Missing} \cup Stacks
    <3>1. file \in Files /\ target[file] \in Stacks /\ plugin \in Plugins
      BY DEF JournalInv, TypeOK, SwapInv, Rebuild, Before
    <3>2. target[file].new \cup {plugin} \in SUBSET Plugins
      BY <3>1 DEF Stacks
    <3>3. [of |-> file, new |-> target[file].new \cup {plugin}] \in Stacks
      BY <3>1, <3>2 DEF Stacks
    <3> QED
      BY <3>3 DEF JournalInv, TypeOK, Rebuild
  <2> QED
    BY <2>1, BoundsTyped DEF JournalInv, TypeOK, Rebuild, history
<1>2. TargetIsLastInstalled'
  BY DEF JournalInv, TargetIsLastInstalled, Rebuild, history
<1>3. SwapInv'
  BY DEF JournalInv, TypeOK, SwapInv, Rebuild, Stacks, Before, Aside, Staging,
     Journalled
<1>4. RecoveryInv'
  BY DEF JournalInv, RecoveryInv, Rebuild, history
<1>5. LostInv'
  BY DEF JournalInv, LostInv, Clean, Rebuild, history, Aside
<1>6. BackupInv'
  BY DEF JournalInv, BackupInv, Rebuild, history, Aside
<1>7. StagedInv'
  BY DEF JournalInv, TargetIsLastInstalled, SwapInv, StagedInv, Rebuild,
     history, Before, Staging
<1>8. MarkInv'
  BY DEF JournalInv, MarkInv, Present, Passed, Looping, Rebuild, history,
     Before, Aside
<1>9. RefusalNeedsEmptyJournal'
  BY DEF RefusalNeedsEmptyJournal, Rebuild
<1> QED
  BY <1>1, <1>2, <1>3, <1>4, <1>5, <1>6, <1>7, <1>8, <1>9 DEF JournalInv

\* A backup that is left when a swap begins is nobody's any more.
LEMMA DropOldBackupKeeps ==
    ASSUME JournalInv, DropOldBackup
    PROVE  JournalInv'
<1>1. TypeOK'
  BY DEF JournalInv, TypeOK, DropOldBackup, page, bounds, history, Works, Fails
<1>2. TargetIsLastInstalled'
  BY DEF JournalInv, TargetIsLastInstalled, DropOldBackup, history
<1>3. SwapInv'
  BY DEF JournalInv, SwapInv, DropOldBackup, page, Before, Aside, Staging,
     Journalled
<1>4. RecoveryInv'
  BY DistinctAssumption DEF JournalInv, RecoveryInv, DropOldBackup, history
<1>5. LostInv'
  BY DEF JournalInv, LostInv, Clean, DropOldBackup, history, Aside
<1>6. BackupInv'
  BY DEF JournalInv, BackupInv, DropOldBackup, history, Aside
<1>7. StagedInv'
  BY DEF JournalInv, StagedInv, DropOldBackup, page, history, Staging
<1>8. MarkInv'
  BY DEF JournalInv, MarkInv, Present, Passed, Looping, DropOldBackup, page,
     history, Before, Aside, After
<1>9. RefusalNeedsEmptyJournal'
  BY DEF RefusalNeedsEmptyJournal, DropOldBackup
<1> QED
  BY <1>1, <1>2, <1>3, <1>4, <1>5, <1>6, <1>7, <1>8, <1>9 DEF JournalInv

\* The journal is created while the file is there.
LEMMA CreateJournalKeeps ==
    ASSUME JournalInv, CreateJournal
    PROVE  JournalInv'
<1>1. TypeOK'
  BY DEF JournalInv, TypeOK, CreateJournal, page, bounds, history, Works, Fails
<1>2. TargetIsLastInstalled'
  BY DEF JournalInv, TargetIsLastInstalled, CreateJournal, history
<1>3. SwapInv'
  BY DEF JournalInv, SwapInv, CreateJournal, page, Before, Aside, Staging,
     Journalled
<1>4. RecoveryInv'
  BY DistinctAssumption DEF JournalInv, RecoveryInv, CreateJournal
<1>5. LostInv'
  BY DEF JournalInv, LostInv, Clean, CreateJournal, history, Aside
<1>6. BackupInv'
  BY DEF JournalInv, BackupInv, CreateJournal, history, Aside
<1>7. StagedInv'
  BY DEF JournalInv, StagedInv, CreateJournal, page, history, Staging
<1>8. MarkInv'
  BY DEF JournalInv, MarkInv, Present, Passed, Looping, CreateJournal, page,
     history, Before, Aside, After
<1>9. RefusalNeedsEmptyJournal'
  BY DEF RefusalNeedsEmptyJournal, CreateJournal
<1> QED
  BY <1>1, <1>2, <1>3, <1>4, <1>5, <1>6, <1>7, <1>8, <1>9 DEF JournalInv

\* It names the file before the file moves.
LEMMA WriteJournalKeeps ==
    ASSUME JournalInv, WriteJournal
    PROVE  JournalInv'
<1>1. TypeOK'
  BY DEF JournalInv, TypeOK, SwapInv, WriteJournal, page, bounds, history,
     Works, Fails, Before
<1>2. TargetIsLastInstalled'
  BY DEF JournalInv, TargetIsLastInstalled, WriteJournal, history
<1>3. SwapInv'
  BY DEF JournalInv, SwapInv, WriteJournal, page, Before, Aside, Staging,
     Journalled
<1>4. RecoveryInv'
  BY DistinctAssumption DEF JournalInv, SwapInv, RecoveryInv, WriteJournal,
     Before
<1>5. LostInv'
  BY DEF JournalInv, LostInv, Clean, WriteJournal, history, Aside
<1>6. BackupInv'
  BY DEF JournalInv, BackupInv, WriteJournal, history, Aside
<1>7. StagedInv'
  BY DEF JournalInv, StagedInv, WriteJournal, page, history, Staging
<1>8. MarkInv'
  BY DEF JournalInv, MarkInv, Present, Passed, Looping, WriteJournal, page,
     history, Before, Aside, After
<1>9. RefusalNeedsEmptyJournal'
  BY DEF RefusalNeedsEmptyJournal, WriteJournal
<1> QED
  BY <1>1, <1>2, <1>3, <1>4, <1>5, <1>6, <1>7, <1>8, <1>9 DEF JournalInv

\* The old file becomes the backup that the journal names.
LEMMA SetAsideKeeps ==
    ASSUME JournalInv, SetAside
    PROVE  JournalInv'
<1>1. TypeOK'
  BY DEF JournalInv, TypeOK, SwapInv, SetAside, page, bounds, history, Works,
     Fails, Before
<1>2. TargetIsLastInstalled'
  BY DEF JournalInv, TypeOK, TargetIsLastInstalled, SetAside, history
<1>3. SwapInv'
  <2>1. file \in Files /\ target[file] \in Stacks /\ target[file] = installed[file]
    BY DEF JournalInv, TypeOK, SwapInv, TargetIsLastInstalled, SetAside, Before
  <2>2. UNCHANGED <<journal, staged, file, plugin, ok, installed>> /\ ~ok
    BY DEF JournalInv, SwapInv, SetAside, page, history, Staging
  <2>3. CASE pc' = "putInPlace"
    <3>1. backup' = target[file] /\ target'[file] = Missing
      BY <2>1, <2>3 DEF JournalInv, TypeOK, SetAside
    <3> QED
      BY <2>1, <2>2, <2>3, <3>1 DEF JournalInv, SwapInv, SetAside, Before, Aside, Staging, Journalled, After
  <2>4. CASE pc' = "dropJournal"
    <3>1. UNCHANGED <<backup, target>>
      BY <2>4 DEF SetAside
    <3> QED
      BY <2>1, <2>2, <2>4, <3>1 DEF JournalInv, SwapInv, SetAside, Before, Aside, Staging, Journalled, After
  <2> QED
    BY <2>3, <2>4 DEF SetAside
<1>4. RecoveryInv'
  BY DEF JournalInv, TargetIsLastInstalled, SwapInv, RecoveryInv, SetAside,
     history, Journalled
<1>5. LostInv'
  BY DEF JournalInv, TypeOK, TargetIsLastInstalled, SwapInv, LostInv, Clean,
     SetAside, history, Aside, Journalled
<1>6. BackupInv'
  BY DEF JournalInv, SwapInv, BackupInv, SetAside, history, Before, Aside,
     Journalled
<1>7. StagedInv'
  BY DEF JournalInv, StagedInv, SetAside, page, history, Staging
<1>8. MarkInv'
  BY DEF JournalInv, TypeOK, SwapInv, MarkInv, Present, Passed, Looping,
     SetAside, page, history, Before, Staging
<1>9. RefusalNeedsEmptyJournal'
  BY DEF RefusalNeedsEmptyJournal, SetAside
<1> QED
  BY <1>1, <1>2, <1>3, <1>4, <1>5, <1>6, <1>7, <1>8, <1>9 DEF JournalInv

\* The new file takes the place.
LEMMA PutInPlaceKeeps ==
    ASSUME JournalInv, PutInPlace
    PROVE  JournalInv'
<1>1. TypeOK'
  <2>1. /\ target' \in [Files -> {Missing} \cup Stacks]
        /\ installed' \in [Files -> {Missing} \cup Stacks]
    BY DEF JournalInv, TypeOK, SwapInv, PutInPlace, Staging
  <2> QED
    BY <2>1, BoundsTyped DEF JournalInv, TypeOK, PutInPlace
<1>2. TargetIsLastInstalled'
  BY DEF JournalInv, TypeOK, TargetIsLastInstalled, PutInPlace
<1>3. SwapInv'
  BY DistinctAssumption DEF JournalInv, TypeOK, SwapInv, PutInPlace, Before,
     Aside, Staging, Journalled, After
<1>4. RecoveryInv'
  BY DistinctAssumption DEF JournalInv, TypeOK, SwapInv, RecoveryInv,
     PutInPlace, Staging
<1>5. LostInv'
  BY DEF JournalInv, TypeOK, SwapInv, LostInv, Clean, PutInPlace, Aside
<1>6. BackupInv'
  BY DEF JournalInv, BackupInv, PutInPlace, Aside
<1>7. StagedInv'
  BY DEF JournalInv, StagedInv, PutInPlace, Staging
<1>8. MarkInv'
  BY DEF JournalInv, TypeOK, StagedInv, MarkInv, Present, Passed, Looping,
     PutInPlace, Aside, Staging, After
<1>9. RefusalNeedsEmptyJournal'
  BY DEF RefusalNeedsEmptyJournal, PutInPlace
<1> QED
  BY <1>1, <1>2, <1>3, <1>4, <1>5, <1>6, <1>7, <1>8, <1>9 DEF JournalInv

\* The old file comes back.
LEMMA RestoreKeeps ==
    ASSUME JournalInv, Restore
    PROVE  JournalInv'
<1>1. TypeOK'
  BY HoldsAssumption DEF JournalInv, TypeOK, Restore, page, bounds, Works,
     Fails, MayLoseAFile
<1>2. TargetIsLastInstalled'
  BY DEF JournalInv, TypeOK, TargetIsLastInstalled, SwapInv, Restore, Aside
<1>3. SwapInv'
  BY DistinctAssumption DEF JournalInv, TypeOK, SwapInv, Restore, page, Before,
     Aside, Staging, Journalled, After
<1>4. RecoveryInv'
  BY DEF JournalInv, TypeOK, SwapInv, RecoveryInv, Restore, Aside, Journalled
<1>5. LostInv'
  BY DEF JournalInv, TypeOK, SwapInv, LostInv, Clean, MayLoseAFile, Restore,
     Aside
<1>6. BackupInv'
  BY DEF JournalInv, BackupInv, Blemishes, Restore
<1>7. StagedInv'
  BY DEF JournalInv, StagedInv, Restore, Staging
<1>8. MarkInv'
  BY DEF JournalInv, TypeOK, SwapInv, MarkInv, Present, Passed, Looping,
     Restore, page, Aside
<1>9. RefusalNeedsEmptyJournal'
  BY DEF RefusalNeedsEmptyJournal, Restore
<1> QED
  BY <1>1, <1>2, <1>3, <1>4, <1>5, <1>6, <1>7, <1>8, <1>9 DEF JournalInv

\* The backup goes when the new file is there.
LEMMA DropBackupKeeps ==
    ASSUME JournalInv, DropBackup
    PROVE  JournalInv'
<1>1. TypeOK'
  BY DEF JournalInv, TypeOK, DropBackup, page, bounds, Works, Fails
<1>2. TargetIsLastInstalled'
  BY DEF JournalInv, TargetIsLastInstalled, DropBackup
<1>3. SwapInv'
  BY DEF JournalInv, SwapInv, DropBackup, page, Aside, Staging, Journalled,
     After
<1>4. RecoveryInv'
  BY DEF JournalInv, SwapInv, RecoveryInv, DropBackup, Journalled, After
<1>5. LostInv'
  BY DEF JournalInv, LostInv, Clean, DropBackup, Aside
<1>6. BackupInv'
  BY DEF JournalInv, BackupInv, Blemishes, DropBackup
<1>7. StagedInv'
  BY DEF JournalInv, StagedInv, DropBackup, Staging
<1>8. MarkInv'
  BY DEF JournalInv, MarkInv, Present, Passed, Looping, DropBackup, page,
     Aside, After
<1>9. RefusalNeedsEmptyJournal'
  BY DEF RefusalNeedsEmptyJournal, DropBackup
<1> QED
  BY <1>1, <1>2, <1>3, <1>4, <1>5, <1>6, <1>7, <1>8, <1>9 DEF JournalInv

\* The journal goes when the file is there.
LEMMA DropJournalKeeps ==
    ASSUME JournalInv, DropJournal
    PROVE  JournalInv'
<1>1. TypeOK'
  BY DEF JournalInv, TypeOK, DropJournal, bounds, history, Works, Fails
<1>2. TargetIsLastInstalled'
  BY DEF JournalInv, TargetIsLastInstalled, DropJournal, history
<1>3. SwapInv'
  BY DEF JournalInv, TypeOK, SwapInv, DropJournal, Aside, Staging, Journalled,
     After
<1>4. RecoveryInv'
  BY DistinctAssumption DEF JournalInv, RecoveryInv, DropJournal, history
<1>5. LostInv'
  BY DEF JournalInv, LostInv, Clean, DropJournal, history, Aside
<1>6. BackupInv'
  BY DEF JournalInv, BackupInv, DropJournal, history, Aside
<1>7. StagedInv'
  BY DEF JournalInv, StagedInv, DropJournal, Staging
<1>8. MarkInv'
  BY DEF JournalInv, MarkInv, Present, Passed, Looping, DropJournal, history,
     Aside, After
<1>9. RefusalNeedsEmptyJournal'
  BY DEF RefusalNeedsEmptyJournal, DropJournal
<1> QED
  BY <1>1, <1>2, <1>3, <1>4, <1>5, <1>6, <1>7, <1>8, <1>9 DEF JournalInv

\* The card keeps what was done.
LEMMA CrashKeeps ==
    ASSUME JournalInv, Crash
    PROVE  JournalInv'
<1>1. TypeOK'
  BY DEF JournalInv, TypeOK, Crash, card, page, history
<1>2. TargetIsLastInstalled'
  BY DEF JournalInv, TargetIsLastInstalled, Crash, card, history
<1>3. SwapInv'
  BY DEF JournalInv, SwapInv, Crash, Before, Aside, Staging, Journalled, After
<1>4. RecoveryInv'
  BY DEF JournalInv, RecoveryInv, Crash, card, history
<1>5. LostInv'
  BY DEF JournalInv, LostInv, Clean, Crash, card, history
<1>6. BackupInv'
  BY DEF JournalInv, BackupInv, Crash, card, history
<1>7. StagedInv'
  BY DEF JournalInv, StagedInv, Crash, Staging
<1>8. MarkInv'
  BY DEF JournalInv, MarkInv, Present, Looping, Crash, card, page, history,
     Before, Aside, After
<1>9. RefusalNeedsEmptyJournal'
  BY DEF RefusalNeedsEmptyJournal, Crash
<1> QED
  BY <1>1, <1>2, <1>3, <1>4, <1>5, <1>6, <1>7, <1>8, <1>9 DEF JournalInv
-----------------------------------------------------------------------------
(* The specification keeps it *)

LEMMA JournalInit == Init => JournalInv
<1> SUFFICES ASSUME Init PROVE JournalInv
  OBVIOUS
<1> USE DistinctAssumption, FileAssumption, BoundAssumption
<1>1. /\ target = installed
      /\ target \in [Files -> {Missing} \cup Stacks]
      /\ \A f \in Files : target[f] # Missing => target[f] \in Stacks
  BY DEF Init, Stacks
<1>2. TypeOK
  <2>1. 0 \in 0 .. FileCount /\ 0 \in 0 .. MaxInstalls
    OBVIOUS
  <2> QED
    BY <1>1, <2>1 DEF Init, TypeOK
<1>3. TargetIsLastInstalled /\ LostInv /\ BackupInv /\ StagedInv
  BY <1>1 DEF Init, TargetIsLastInstalled, LostInv, BackupInv, StagedInv, Staging
<1>4. SwapInv /\ RecoveryInv /\ MarkInv /\ RefusalNeedsEmptyJournal
  BY DEF Init, SwapInv, RecoveryInv, MarkInv, RefusalNeedsEmptyJournal, Before,
         Aside, After, Journalled, Staging, Looping
<1> QED
  BY <1>2, <1>3, <1>4 DEF JournalInv

LEMMA JournalNext == JournalInv /\ [Next]_vars => JournalInv'
<1> SUFFICES ASSUME JournalInv, [Next]_vars PROVE JournalInv'
  OBVIOUS
<1>1. CASE Recovery
  BY <1>1, OpenPageKeeps, RecoverBackupKeeps, RecoverJournalKeeps DEF Recovery
<1>2. CASE ClosePage
  BY <1>2, ClosePageKeeps
<1>3. CASE Install
  BY <1>3, StartUpdateKeeps, StartStackKeeps, PlaceStackKeeps, NextFileKeeps,
     InstallEndsKeeps, RebuildKeeps DEF Install
<1>4. CASE Swap
  BY <1>4, DropOldBackupKeeps, CreateJournalKeeps, WriteJournalKeeps,
     SetAsideKeeps, PutInPlaceKeeps, RestoreKeeps, DropBackupKeeps,
     DropJournalKeeps DEF Swap
<1>5. CASE Crash
  BY <1>5, CrashKeeps
<1>6. CASE UNCHANGED vars
  BY <1>6 DEF vars, card, page, bounds, history, JournalInv, TypeOK,
     TargetIsLastInstalled, SwapInv, RecoveryInv, LostInv, Clean, BackupInv,
     StagedInv, MarkInv, Present, Passed, RefusalNeedsEmptyJournal
<1> QED
  BY <1>1, <1>2, <1>3, <1>4, <1>5, <1>6 DEF Next

\* Whatever crashes and failing calls a history holds, the page is where the
\* card and its own variables say it is (online.c, the pack page as a whole).
THEOREM JournalInvariant == Spec => []JournalInv
<1> QED
  BY JournalInit, JournalNext, PTL DEF Spec

\* Every variable keeps its type: no step of a swap meets a file number or a
\* stack that does not exist (online.c, the pack page as a whole).
THEOREM TypeCorrect == Spec => []TypeOK
<1>1. JournalInv => TypeOK
  BY DEF JournalInv
<1> QED
  BY <1>1, JournalInvariant, PTL

\* No file is lost: PLUGIN_onln_SwapRebuild and the recovery keep each plugin
\* file that was installed, in its place or where the next recovery finds it.
THEOREM NoFileLost == Spec => []NothingLost
<1>1. JournalInv => NothingLost
  BY DEF JournalInv, NothingLost, LostInv, Clean, Aside
<1> QED
  BY <1>1, JournalInvariant, PTL

\* A plugin counts as installed only when every enabled file that holds it was
\* replaced: the loop of PLUGIN_onln_InstallComponent misses none.
THEOREM MarkedMeansReplaced == Spec => []MarkedEverywhere
<1>1. JournalInv => MarkedEverywhere
  <2> SUFFICES ASSUME JournalInv, "hidden" \notin spoiled,
                      NEW p \in marked, NEW f \in Files,
                      target[f] # Missing, p \in Holds[f]
               PROVE  p \in target[f].new
    BY DEF MarkedEverywhere
  <2>1. p \in installed[f].new
    BY DEF JournalInv, MarkInv, Present
  <2> QED
    BY <2>1 DEF JournalInv, TargetIsLastInstalled
<1> QED
  BY <1>1, JournalInvariant, PTL

\* PLUGIN_onln_RecoverInterruptedUpdate refuses to open a page only for the
\* reasons the swap gives it.
THEOREM RefusalExplained == Spec => []RefusalNeedsEmptyJournal
<1>1. JournalInv => RefusalNeedsEmptyJournal
  BY DEF JournalInv
<1> QED
  BY <1>1, JournalInvariant, PTL
=============================================================================
