----------------------------- MODULE SourceList -----------------------------
(***************************************************************************)
(* What sysplgfetch.txt promises the plugins that edit it: an entry is     *)
(* added or removed as a whole, all other entries stay as they are and in  *)
(* their order.  Only a failure can do otherwise: one that strikes while   *)
(* the file is written may leave anything, and one that strikes when it is *)
(* opened for reading makes the call believe that there is no list yet.    *)
(* A process at risk may go down with the call, too.                       *)
(* OnlineLibrary implements it.                                            *)
(***************************************************************************)
EXTENDS Naturals, Sequences, SequencesExt

CONSTANTS
    Sources,     \* entries: a title and a url
    MaxSources,  \* how many the list takes
    Unreadable   \* what is in the file is no list

VARIABLES
    list,
    stage,       \* of the call that edits the list, if there is one
    trouble,     \* how many failures and power cuts there were
    risk         \* what others do may bring the process down

vars == <<list, stage, trouble, risk>>

Init ==
    /\ list \in BoundedSeq(Sources, MaxSources) \cup {Unreadable}
    /\ stage = "idle" /\ trouble = 0 /\ risk = FALSE

\* The list but for some entries.
Without(l, out) ==
    FoldLeft(LAMBDA kept, s : IF s \in out THEN kept ELSE Append(kept, s), <<>>, l)

\* The new entry stands where the first of those it replaces was, or at the end.
Clashes(s, new) == s.title = new.title \/ s.url = new.url
PutInPlace(new) ==
    /\ LET kept == Without(list, {s \in Sources : Clashes(s, new)}) IN
       \E i \in 1 .. Len(kept) + 1 :
           /\ list' = InsertAt(kept, i, new)
           /\ \A j \in 1 .. i - 1 : ~Clashes(list[j], new)
           /\ i <= Len(list) => Clashes(list[i], new)
    /\ Len(list') <= MaxSources

TakeOut(title) == list' = Without(list, {s \in Sources : s.title = title})

Begin ==
    /\ stage \in {"idle", "blind"}
    /\ stage' = IF stage = "idle" THEN "writing" ELSE "blindly writing"
    /\ UNCHANGED list

Finish ==
    /\ \/ stage = "writing" /\ list # Unreadable
          /\ \E s \in Sources : PutInPlace(s) \/ TakeOut(s.title)
       \/ stage = "blindly writing" /\ \E s \in Sources : list' = <<s>>
    /\ stage' = "idle"

Elsewhere == UNCHANGED <<list, stage>>

\* A risk lasts as long as the process.
Undisturbed == trouble' = trouble /\ risk' \in BOOLEAN /\ (risk => risk')
Disturbed ==
    /\ risk' \in BOOLEAN
    /\ trouble' = trouble + 1 \/ (risk /\ ~risk' /\ trouble' = trouble)

Fail ==
    \/ stage \in {"writing", "blindly writing"} /\ stage' = "idle"    \* list' is anything
    \/ stage = "idle" /\ stage' = "blind" /\ UNCHANGED list
    \/ stage \in {"idle", "blind"} /\ stage' \in {stage, "idle"} /\ UNCHANGED list
    \/ UNCHANGED <<list, stage>>    \* it strikes somebody else

Next ==
    \/ (Begin \/ Finish \/ Elsewhere) /\ Undisturbed
    \/ Fail /\ Disturbed

Spec == Init /\ [][Next]_vars
=============================================================================
