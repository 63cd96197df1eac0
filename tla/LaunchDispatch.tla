--------------------------- MODULE LaunchDispatch ---------------------------
(***************************************************************************)
(* Loader's launch dispatcher (menu_loader.c): the registries of title and *)
(* HOME patches and the callbacks the hooks of one launch run, on Loader's *)
(* service thread, between patchCode and the close of plg:ldr (loader.c).  *)
(*                                                                         *)
(* A callback is a step of its own: while it runs it may register and      *)
(* unregister, as the API allows anywhere.  Init is the state in which     *)
(* PLUGIN_MENU_Main has succeeded, so g_MENUHooksReady stays TRUE, and     *)
(* FirstEpoch titles were started before the first plugin registers.       *)
(***************************************************************************)
EXTENDS Naturals, Sequences

CONSTANTS
    Regs,           \* registration objects of all consumer plugins
    ListOf,         \* "title" or "home": the registry each one is for
    TitlesOf,       \* the titleIds of a registration
    CallbacksOf,    \* its callbacks: of "home", "prepare", "created", "finished"
    Titles,         \* title ids Loader may be asked to start
    AppTitles,      \* those that get a plg:ldr session
    HomeTitles,     \* those whose code has the HOME patch point
    CxiTitles,      \* sysmodules that are loaded from a CXI file
    EpochLimit,     \* 2^32, where g_MENULaunchEpoch wraps
    FirstEpoch,     \* bound: the launches before the behaviour begins
    MaxLaunches,    \* bound: launches
    MaxOps,         \* bound: register and unregister calls between launches
    MaxCallbackOps, \* bound: register and unregister calls made by callbacks
    Null            \* NULL

ASSUME RegsAssumption == Null \notin Regs
ASSUME ListAssumption == ListOf \in [Regs -> {"title", "home"}]
ASSUME TitleAssumption ==
    /\ TitlesOf \in [Regs -> SUBSET Titles] /\ Null \notin Titles
    /\ AppTitles \cup HomeTitles \cup CxiTitles \subseteq Titles
    /\ CxiTitles \cap (AppTitles \cup HomeTitles) = {}
ASSUME CallbackAssumption ==
    /\ CallbacksOf \in [Regs -> SUBSET {"home", "prepare", "created", "finished"}]
    /\ \A r \in Regs : /\ CallbacksOf[r] # {}
                       /\ ListOf[r] = "home" <=> CallbacksOf[r] = {"home"}
ASSUME EpochAssumption ==
    EpochLimit \in Nat /\ EpochLimit > 1 /\ FirstEpoch \in 0 .. EpochLimit - 1
ASSUME BoundAssumption == {MaxLaunches, MaxOps, MaxCallbackOps} \subseteq Nat

VARIABLES
    first,      \* g_MENUFirstTitlePatch, g_MENUFirstHomePatch
    last,       \* g_MENULastTitlePatch, g_MENULastHomePatch
    next,       \* registration->next
    menuEpoch,  \* registration->menuEpoch
    epoch,      \* g_MENULaunchEpoch
    context,    \* g_MENUContext: title, code set shown, process
    valid,      \* g_MENUContextValid
    stage,      \* where Loader is; four stages walk a registry
    cursor,     \* the local "registration" of that walk
    calling,    \* the callback of cursor is running
    cut,        \* history: the walk stood on a node its callback unlinked
    launching,  \* the title being started
    launches,   \* bookkeeping of the bound: launches so far
    ops,        \* bookkeeping of the bound: calls between launches
    callOps,    \* bookkeeping of the bound: calls made by callbacks
    order,      \* history: each registry's members, in registration order
    accepted,   \* history: registrations accepted in this launch
    called,     \* history: callbacks run in this launch, as <<r, stage>>
    repeated,   \* history: callbacks run again in the same launch
    skipped     \* history: members a finished walk never came to

lists == <<first, last, next, order>>
launch == <<epoch, context, valid, launching, launches>>
vars == <<lists, menuEpoch, launch, stage, cursor, calling, cut, ops, callOps,
          accepted, called, repeated, skipped>>

Walks == {"home", "prepare", "created", "finished"}
Registry(walk) == IF walk = "home" THEN "home" ELSE "title"
NoContext == [title |-> Null, codeSet |-> FALSE, process |-> Null]

Init ==
    /\ first = [l \in {"title", "home"} |-> Null] /\ last = first
    /\ next = [r \in Regs |-> Null] /\ menuEpoch = [r \in Regs |-> 0]
    /\ epoch = FirstEpoch /\ context = NoContext /\ valid = FALSE
    /\ stage = "idle" /\ cursor = Null /\ calling = FALSE /\ cut = FALSE
    /\ launching = Null /\ launches = 0 /\ ops = 0 /\ callOps = 0
    /\ order = [l \in {"title", "home"} |-> <<>>]
    /\ accepted = {} /\ called = {} /\ repeated = {} /\ skipped = {}

-----------------------------------------------------------------------------
(* The registries: singly linked lists through the consumers' objects *)

\* What a walk along the next pointers meets: the first node, and whatever
\* follows a node it meets.
OnChain(r) ==
    \A S \in SUBSET Regs :
        (/\ first[ListOf[r]] \in S \cup {Null}
         /\ \A q \in S : next[q] \in S \cup {Null}) => r \in S

\* Registering checks whether the object is on the list already.
IsNewUnchecked(r) == TRUE    \* mutant
IsNew(r) == ~OnChain(r)

\* A call to the API comes from a plugin's thread of control in Loader: between
\* launches or inside a callback.
MayCall ==
    \/ stage = "idle" /\ ops < MaxOps /\ ops' = ops + 1 /\ UNCHANGED callOps
    \/ calling /\ callOps < MaxCallbackOps /\ callOps' = callOps + 1 /\ UNCHANGED ops

Register(r) ==
    LET l == ListOf[r] IN
    /\ MayCall
    /\ IsNew(r)
    /\ next' = [q \in Regs |-> IF q = last[l] THEN r
                               ELSE IF q = r THEN Null ELSE next[q]]
    /\ first' = IF last[l] = Null THEN [first EXCEPT ![l] = r] ELSE first
    /\ last' = [last EXCEPT ![l] = r]
    /\ menuEpoch' = IF l = "title" THEN [menuEpoch EXCEPT ![r] = 0] ELSE menuEpoch
    /\ order' = [order EXCEPT ![l] = Append(@, r)]
    /\ called' = {c \in called : c[1] # r}
    /\ accepted' = accepted \ {r}
    /\ UNCHANGED <<launch, stage, cursor, calling, cut, repeated, skipped>>

\* The sequence that is left of s without its element r.
Without(s, r) ==
    LET k == CHOOSE i \in DOMAIN s : s[i] = r
    IN  [i \in 1 .. Len(s) - 1 |-> IF i < k THEN s[i] ELSE s[i + 1]]

\* The tail pointer of r's registry once r is unlinked from previous.
TailKept(r, previous) == last    \* mutant: the tail pointer is forgotten
TailWithout(r, previous) ==
    IF last[ListOf[r]] = r THEN [last EXCEPT ![ListOf[r]] = previous] ELSE last

Unregister(r) ==
    LET l == ListOf[r]
        previous == IF first[l] = r THEN Null
                    ELSE CHOOSE p \in Regs : OnChain(p) /\ next[p] = r
    IN
    /\ MayCall
    /\ OnChain(r)
    /\ next' = [q \in Regs |-> IF q = r THEN Null
                               ELSE IF q = previous THEN next[r] ELSE next[q]]
    /\ first' = IF previous = Null THEN [first EXCEPT ![l] = next[r]] ELSE first
    /\ last' = TailWithout(r, previous)
    /\ menuEpoch' = IF l = "title" THEN [menuEpoch EXCEPT ![r] = 0] ELSE menuEpoch
    /\ order' = [order EXCEPT ![l] = Without(@, r)]
    /\ accepted' = accepted \ {r}
    /\ cut' = (cut \/ (calling /\ r = cursor))
    /\ UNCHANGED <<launch, stage, cursor, calling, called, repeated, skipped>>

-----------------------------------------------------------------------------
(* One launch *)

NextEpochNoWrap == epoch + 1    \* mutant: no wrap
\* The next epoch: zero marks registrations that take no part.
NextEpoch == IF epoch + 1 = EpochLimit THEN 1 ELSE epoch + 1

\* Stock patchCode runs inside PLUGIN_MENU_PatchCode and passes the HOME patch
\* point for HOME titles, unless an earlier patch of the title ends it.
PatchCode(t) ==
    /\ stage = "idle" /\ launches < MaxLaunches
    /\ t \in Titles \ CxiTitles
    /\ launches' = launches + 1 /\ launching' = t
    /\ epoch' = NextEpoch
    /\ context' = [NoContext EXCEPT !.title = t]
    /\ valid' = TRUE
    /\ \/ stage' = "coded" /\ cursor' = Null
       \/ t \in HomeTitles /\ stage' = "home" /\ cursor' = first["home"]
    /\ accepted' = {} /\ called' = {} /\ repeated' = {}
    /\ UNCHANGED <<lists, menuEpoch, calling, cut, ops, callOps, skipped>>

\* loadCode takes a CXI sysmodule's code from its file and skips patchCode.
LoadCxiCode(t) ==
    /\ stage = "idle" /\ launches < MaxLaunches
    /\ t \in CxiTitles
    /\ launches' = launches + 1 /\ launching' = t
    /\ stage' = "coded"
    /\ accepted' = {} /\ called' = {} /\ repeated' = {}
    /\ UNCHANGED <<lists, menuEpoch, epoch, context, valid, cursor, calling, cut,
                   ops, callOps, skipped>>

PreCreateCodeSet ==
    /\ stage = "coded"
    /\ IF valid /\ launching = context.title
         THEN /\ context' = [context EXCEPT !.codeSet = TRUE, !.process = Null]
              /\ stage' = "prepare" /\ cursor' = first["title"]
         ELSE stage' = "codeset" /\ UNCHANGED <<context, cursor>>
    /\ UNCHANGED <<lists, menuEpoch, epoch, valid, launching, launches, calling,
                   cut, ops, callOps, accepted, called, repeated, skipped>>

\* Mutant: any launch's accepting prepare counts.
CallsAnyEpoch(r) ==
    /\ stage \in CallbacksOf[r]
    /\ stage = "prepare" => context.title \in TitlesOf[r]
    /\ stage \in {"created", "finished"} => menuEpoch[r] # 0

\* Does the walk call the registration it has come to?
Calls(r) ==
    /\ stage \in CallbacksOf[r]
    /\ stage = "prepare" => context.title \in TitlesOf[r]
    /\ stage \in {"created", "finished"} => menuEpoch[r] = epoch

\* Where the loop goes on.
FollowingUnlessCalled == IF calling THEN cursor ELSE next[cursor]    \* mutant
Following == next[cursor]

\* The loop body for a registration whose callback is not run.
VisitWithoutCall ==
    /\ stage \in Walks /\ ~calling /\ cursor # Null
    /\ ~Calls(cursor)
    /\ IF stage = "prepare" /\ context.title \in TitlesOf[cursor]
         THEN /\ menuEpoch' = [menuEpoch EXCEPT ![cursor] = epoch]
              /\ accepted' = accepted \cup {cursor}
         ELSE /\ menuEpoch' = IF stage = "prepare"
                                THEN [menuEpoch EXCEPT ![cursor] = 0] ELSE menuEpoch
              /\ UNCHANGED accepted
    /\ cursor' = Following
    /\ UNCHANGED <<lists, launch, stage, calling, cut, ops, callOps, called,
                   repeated, skipped>>

VisitCall ==
    /\ stage \in Walks /\ ~calling /\ cursor # Null
    /\ Calls(cursor)
    /\ calling' = TRUE
    /\ called' = called \cup {<<cursor, stage>>}
    /\ repeated' = repeated \cup (called \cap {<<cursor, stage>>})
    /\ UNCHANGED <<lists, menuEpoch, launch, stage, cursor, cut, ops, callOps,
                   accepted, skipped>>

\* Only prepare has a result that counts; the loop then reads the next pointer
\* of a registration that the callback may have unlinked.
CallbackReturns(result) ==
    /\ calling
    /\ calling' = FALSE
    /\ menuEpoch' = IF stage = "prepare"
                      THEN [menuEpoch EXCEPT ![cursor] = IF result THEN epoch ELSE 0]
                      ELSE menuEpoch
    /\ accepted' = IF stage = "prepare" /\ result THEN accepted \cup {cursor}
                                                  ELSE accepted
    /\ cursor' = Following
    /\ UNCHANGED <<lists, launch, stage, cut, ops, callOps, called, repeated, skipped>>

Members(l) == {order[l][i] : i \in DOMAIN order[l]}

\* The members of the registry that a walk should have called and has not.
Missed(walk) ==
    {r \in Regs :
        /\ r \in Members(Registry(walk))
        /\ walk \in CallbacksOf[r]
        /\ walk = "prepare" => context.title \in TitlesOf[r]
        /\ walk \in {"created", "finished"} => r \in accepted
        /\ <<r, walk>> \notin called}

\* The walk is over: on to the next hook, or the end of the launch.
WalkEnds ==
    /\ stage \in Walks /\ ~calling /\ cursor = Null
    /\ skipped' = IF cut THEN skipped ELSE skipped \cup Missed(stage)
    /\ cut' = FALSE
    /\ stage' = CASE stage = "home" -> "coded"
                  [] stage = "prepare" -> "codeset"
                  [] stage = "created" -> IF launching \in AppTitles
                                            THEN "session" ELSE "idle"
                  [] stage = "finished" -> "idle"
    /\ IF stage = "finished"
         THEN /\ valid' = FALSE
              /\ context' = [context EXCEPT !.codeSet = FALSE, !.process = Null]
         ELSE UNCHANGED <<valid, context>>
    /\ UNCHANGED <<lists, menuEpoch, epoch, launching, launches, cursor, calling,
                   ops, callOps, accepted, called, repeated>>

\* PLUGIN_MENU_PostCreateProcess; after a failure Loader asserts and stops.
PostCreateProcess(created) ==
    /\ stage = "codeset"
    /\ context' = IF valid THEN [context EXCEPT !.codeSet = FALSE,
                                     !.process = IF created THEN launching ELSE Null]
                           ELSE context
    /\ IF ~created THEN stage' = "panic" /\ UNCHANGED cursor
       ELSE IF valid THEN stage' = "created" /\ cursor' = first["title"]
       ELSE /\ stage' = IF launching \in AppTitles THEN "session" ELSE "idle"
            /\ UNCHANGED cursor
    /\ UNCHANGED <<lists, menuEpoch, epoch, valid, launching, launches, calling,
                   cut, ops, callOps, accepted, called, repeated, skipped>>

\* plgldrInit, LoadPlugin and the close of the session with its handler.
PlgldrCloseHandler ==
    /\ stage = "session"
    /\ IF valid THEN stage' = "finished" /\ cursor' = first["title"]
                ELSE stage' = "idle" /\ UNCHANGED cursor
    /\ UNCHANGED <<lists, menuEpoch, launch, calling, cut, ops, callOps, accepted,
                   called, repeated, skipped>>

-----------------------------------------------------------------------------
Begin == \E t \in Titles : PatchCode(t) \/ LoadCxiCode(t)

Proceed ==
    \/ PreCreateCodeSet \/ VisitWithoutCall \/ VisitCall \/ WalkEnds
    \/ PlgldrCloseHandler
    \/ \E b \in BOOLEAN : CallbackReturns(b) \/ PostCreateProcess(b)

Next ==
    \/ Begin \/ Proceed
    \/ \E r \in Regs : Register(r) \/ Unregister(r)

Spec == Init /\ [][Next]_vars

\* Loader's thread runs on and callbacks return; nobody has to start a title.
FairSpec == Spec /\ WF_vars(Proceed)

-----------------------------------------------------------------------------
(* What is expected of it *)

TypeOK ==
    /\ first \in [{"title", "home"} -> Regs \cup {Null}]
    /\ last \in [{"title", "home"} -> Regs \cup {Null}]
    /\ next \in [Regs -> Regs \cup {Null}]
    /\ menuEpoch \in [Regs -> 0 .. EpochLimit - 1] /\ epoch \in 0 .. EpochLimit - 1
    /\ context \in [title : Titles \cup {Null}, codeSet : BOOLEAN,
                    process : Titles \cup {Null}]
    /\ valid \in BOOLEAN /\ calling \in BOOLEAN
    /\ stage \in Walks \cup {"idle", "coded", "codeset", "session", "panic"}
    /\ cursor \in Regs \cup {Null} /\ launching \in Titles \cup {Null}

\* Whatever callbacks and plugins register and unregister, in any order, each
\* registry's pointers string together exactly its members in registration
\* order, and its tail pointer is the last of them.
ListsAreSound ==
    \A l \in {"title", "home"} :
        /\ first[l] = IF order[l] = <<>> THEN Null ELSE order[l][1]
        /\ last[l] = IF order[l] = <<>> THEN Null ELSE order[l][Len(order[l])]
        /\ \A i \in DOMAIN order[l] :
               next[order[l][i]] = IF i = Len(order[l]) THEN Null ELSE order[l][i + 1]

\* What a callback may rely on when it is called: the context is of the title
\* being started, its code set there only before svcCreateCodeSet and its
\* process only after svcCreateProcess, and after prepare only callbacks of
\* registrations accepted now are run.
SeesThisLaunch ==
    /\ context.title = launching
    /\ context.codeSet = (stage = "prepare")
    /\ context.process = IF stage \in {"created", "finished"} THEN launching ELSE Null
    /\ stage \in {"created", "finished"} => cursor \in accepted

\* "Remember which patches were accepted for this launch so later callbacks
\* dont use old results", said of every load.
CallbacksSeeThisLaunch == [][~calling /\ calling' => SeesThisLaunch]_vars

\* The same of the loads that go through patchCode, whatever was started before
\* them: CXI loads, launches without a plg:ldr session and their remains.  It
\* holds until the epochs come round.
PatchedLaunchesSeeThemselves ==
    [][~calling /\ calling' /\ launching \notin CxiTitles => SeesThisLaunch]_vars

\* "Multiple plugins can register for the same title or HOME": whatever its
\* callbacks register and unregister under it, a walk calls no registration
\* twice, unless that is registered anew, and leaves out no member that takes
\* part in the launch, unless a callback unlinked the node the walk stood on.
CalledExactlyOnce == repeated = {} /\ skipped = {}

\* Every launch gets to its end: no registry makes a walk run in circles.
LaunchEnds == stage # "idle" ~> stage \in {"idle", "panic"}
=============================================================================
