------------------------------ MODULE ListenUI ------------------------------
(***************************************************************************)
(* listen.go, the Bubble Tea model of "angl listen": a cursor and a        *)
(* selection over rows that come and go with every update of the daemon,   *)
(* and the actions sent for the selected rows.                             *)
(*                                                                         *)
(* The cursor is an index, the selection a set of names, the anchor of a   *)
(* visual selection an index again.  Left out: what is only drawn          *)
(* (expanded rows, highlights, notices, the window) and the connection,    *)
(* which Inventory models.                                                 *)
(***************************************************************************)
EXTENDS Integers, FiniteSets, FiniteSetsExt

CONSTANTS
    Names, \* angl names, numbered in their sorted order
    Verbs  \* the actions without a confirmation

ASSUME ListenUIAssumption ==
    Names \subseteq Nat /\ IsFiniteSet(Names) /\ "delete" \notin Verbs /\ "none" \notin Verbs

VARIABLES
    items,    \* m.items, the names shown
    selected, \* the cursor
    marked,
    visual, visualAnchor, visualBase,
    gPending,
    help,
    confirm,  \* the names the modal asks about, and whether it stands on yes
    action    \* the action under way

selection == <<marked, visual, visualAnchor, visualBase>>
dialogs == <<gPending, help, confirm>>
vars == <<items, selected, selection, dialogs, action>>

NoConfirm == [names |-> {}, yes |-> FALSE]
NoAction == [verb |-> "none", names |-> {}]
Last(S) == IF S = {} THEN 0 ELSE Cardinality(S) - 1

\* Sorted names: the index of n in S, and the name at index i.
Index(S, n) == Cardinality({m \in S : m < n})
At(S, i) == CHOOSE n \in S : Index(S, n) = i

TypeOK ==
    /\ items \subseteq Names /\ marked \subseteq Names /\ visualBase \subseteq Names
    /\ selected \in 0 .. Last(Names) /\ visualAnchor \in 0 .. Last(Names)
    /\ visual \in BOOLEAN /\ gPending \in BOOLEAN /\ help \in BOOLEAN
    /\ confirm \in [names : SUBSET Names, yes : BOOLEAN]
    /\ action \in [verb : Verbs \cup {"none", "delete"}, names : SUBSET Names]

\* newListenModel.
Init ==
    /\ items = {}
    /\ selected = 0
    /\ marked = {} /\ visual = FALSE /\ visualAnchor = 0 /\ visualBase = {}
    /\ gPending = FALSE /\ help = FALSE /\ confirm = NoConfirm
    /\ action = NoAction

-----------------------------------------------------------------------------
(* Helpers.                                                                *)

Confirming == confirm.names # {}
HasCursor == selected < Cardinality(items)
SelectedName == At(items, selected)

\* targetNames: the marked rows, or the one under the cursor.
targetNames ==
    IF marked # {} THEN marked ELSE IF HasCursor THEN {SelectedName} ELSE {}

\* Mutant of clampSelection: no upper bound.
clampSelection_Low(S, i) == IF i < 0 THEN 0 ELSE i

clampSelection(S, i) == Min({Max({i, 0}), Last(S)})

\* Mutant of restoreSelection: the cursor keeps its index.
restoreSelection_Index(S) == clampSelection(S, selected)

\* The cursor after the rows became S: on the same name if it is still there.
restoreSelection(S) ==
    IF HasCursor /\ SelectedName \in S THEN Index(S, SelectedName)
    ELSE clampSelection(S, selected)

\* The rows marked when the cursor is at i: all between the anchor and it.
updateVisualSelection(i) ==
    marked' = IF visual /\ items # {}
              THEN visualBase \cup {n \in items :
                                       /\ Index(items, n) >= Min({visualAnchor, i})
                                       /\ Index(items, n) <= Max({visualAnchor, i})}
              ELSE marked

\* A key goes to the rows: no modal, no help; gg is over unless it is g again.
Key == ~Confirming /\ ~help
OtherKey == Key /\ gPending' = FALSE /\ UNCHANGED <<help, confirm>>

clearSelection == marked' = {} /\ visual' = FALSE /\ visualBase' = {} /\ UNCHANGED visualAnchor

-----------------------------------------------------------------------------
(* Keys.                                                                   *)

\* A key that changes no row, cursor, selection or action: one that only draws,
\* one without a meaning, or one whose guard below fails.
NoOpKey == OtherKey /\ UNCHANGED <<items, selected, selection, action>>

Esc == OtherKey /\ clearSelection /\ UNCHANGED <<items, selected, action>>

CursorTo(i) ==
    /\ selected' = i
    /\ updateVisualSelection(i)
    /\ UNCHANGED <<items, visual, visualAnchor, visualBase, action>>

moveCursor(delta) == OtherKey /\ CursorTo(clampSelection(items, selected + delta))
Home == OtherKey /\ CursorTo(0)
End == OtherKey /\ items # {} /\ CursorTo(Last(items))

G ==
    /\ Key
    /\ gPending' = ~gPending
    /\ IF gPending THEN CursorTo(0) ELSE UNCHANGED <<items, selected, selection, action>>
    /\ UNCHANGED <<help, confirm>>

toggleCurrentSelection ==
    /\ OtherKey
    /\ HasCursor
    /\ marked' = IF SelectedName \in marked THEN marked \ {SelectedName}
                 ELSE marked \cup {SelectedName}
    /\ visual' = FALSE
    /\ visualBase' = {}
    /\ UNCHANGED <<items, selected, visualAnchor, action>>

toggleVisualSelection ==
    /\ OtherKey
    /\ items # {}
    /\ visual' = ~visual
    /\ IF visual
       THEN visualBase' = {} /\ UNCHANGED <<marked, visualAnchor>>
       ELSE /\ visualAnchor' = selected
            /\ visualBase' = marked
            /\ marked' = marked \cup {SelectedName}
    /\ UNCHANGED <<items, selected, action>>

OpenHelp ==
    /\ Key
    /\ help' = TRUE
    /\ gPending' = FALSE
    /\ UNCHANGED <<items, selected, selection, confirm, action>>

CloseHelp ==
    /\ help /\ ~Confirming
    /\ help' = FALSE
    /\ UNCHANGED <<items, selected, selection, gPending, confirm, action>>

beginAction(verb) ==
    /\ OtherKey
    /\ action = NoAction
    /\ targetNames # {}
    /\ action' = [verb |-> verb, names |-> targetNames]
    /\ UNCHANGED <<items, selected, selection>>

\* Mutant of AskDelete: the modal opens while an action is under way.
AskDelete_Busy ==
    /\ Key
    /\ targetNames # {}
    /\ confirm' = [names |-> targetNames, yes |-> FALSE]
    /\ gPending' = FALSE
    /\ UNCHANGED <<items, selected, selection, help, action>>

AskDelete ==
    /\ Key
    /\ targetNames # {}
    /\ action = NoAction
    /\ confirm' = [names |-> targetNames, yes |-> FALSE]
    /\ gPending' = FALSE
    /\ UNCHANGED <<items, selected, selection, help, action>>
-----------------------------------------------------------------------------
(* updateConfirm: the keys while the modal is open.                        *)

Answer(yes) ==
    /\ Confirming
    /\ confirm' = [confirm EXCEPT !.yes = yes]
    /\ UNCHANGED <<items, selected, selection, gPending, help, action>>

\* Esc, n, or Enter on No.
Dismiss ==
    /\ Confirming
    /\ confirm' = NoConfirm
    /\ UNCHANGED <<items, selected, selection, gPending, help, action>>

\* Enter on Yes: beginActionWithNames drops it while an action is under way.
Accept ==
    /\ Confirming /\ confirm.yes
    /\ confirm' = NoConfirm
    /\ action' = IF action = NoAction THEN [verb |-> "delete", names |-> confirm.names]
                 ELSE action
    /\ UNCHANGED <<items, selected, selection, gPending, help>>

-----------------------------------------------------------------------------
(* Messages.                                                               *)

\* Mutant of pruneSelection: the base of a visual selection keeps its names.
pruneSelection_MarkedOnly(S) ==
    /\ marked' = marked \cap S
    /\ visualBase' = visualBase
    /\ visual' = (visual /\ S # {})

pruneSelection(S) ==
    /\ marked' = marked \cap S
    /\ visualBase' = visualBase \cap S
    /\ visual' = (visual /\ S # {})

\* A snapshot or a patch: the rows are now S.
applyUpdate(S) ==
    /\ items' = S
    /\ selected' = restoreSelection(S)
    /\ pruneSelection(S)
    /\ UNCHANGED <<visualAnchor, dialogs, action>>

\* Every RPC of the action has answered; the selection goes if none failed.
ActionDone ==
    /\ action # NoAction
    /\ action' = NoAction
    /\ \/ clearSelection
       \/ UNCHANGED selection
    /\ UNCHANGED <<items, selected, dialogs>>

Next ==
    \/ NoOpKey \/ Esc \/ Home \/ End \/ G \/ toggleCurrentSelection \/ toggleVisualSelection
    \/ \E delta \in {-1, 1} : moveCursor(delta)
    \/ OpenHelp \/ CloseHelp \/ AskDelete \/ Dismiss \/ Accept
    \/ \E yes \in BOOLEAN : Answer(yes)
    \/ \E verb \in Verbs : beginAction(verb)
    \/ \E S \in SUBSET Names : applyUpdate(S)
    \/ ActionDone

Spec == Init /\ [][Next]_vars

-----------------------------------------------------------------------------
(* Properties.                                                             *)

\* The cursor is on a row whenever there is one: an action without a
\* selection always has its target.
CursorOnRow == items # {} => HasCursor

\* Only rows on the screen are selected, now and after the next move of a
\* visual selection.
SelectionIsShown == marked \cup visualBase \subseteq items

\* What the cursor and the selection rest on, for any update and any key.
IInv == TypeOK /\ CursorOnRow /\ SelectionIsShown

\* An action is sent only for angls that were rows on the screen when the user
\* chose them: at the key, or, for a delete and for nothing else, when the modal
\* opened, which keeps its names and was answered with Yes.  Updates while it is
\* open may have taken such a row away: the delete is sent for it all the same
\* (listen.go 355-362).
TargetsWereShown ==
    [][/\ ~Confirming /\ Confirming' => confirm'.names \subseteq items
       /\ Confirming /\ Confirming' => confirm'.names = confirm.names
       /\ action' # action /\ action' # NoAction =>
             /\ action'.names # {}
             /\ action'.names \subseteq IF Confirming THEN confirm.names ELSE items
             /\ action'.verb = "delete" <=> Confirming /\ confirm.yes]_vars

\* The modal is open only while no action is under way, so that its Yes is
\* never dropped by beginActionWithNames (listen.go 372-374).
YesIsHeeded == Confirming => action = NoAction

\* An update moves the cursor off an angl only when that angl is gone.
CursorFollows ==
    [][HasCursor /\ items' # items /\ SelectedName \in items'
          => HasCursor' /\ SelectedName' = SelectedName]_vars
=============================================================================
