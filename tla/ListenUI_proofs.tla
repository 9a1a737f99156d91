-------------------------- MODULE ListenUI_proofs --------------------------
(***************************************************************************)
(* Proofs about ListenUI, for any angls and verbs.  The rows are a set and *)
(* the cursor an index: the lemmas first tie the two, that the index of a  *)
(* name in the sorted rows is a bijection from the rows to 0 .. Last.      *)
(***************************************************************************)
EXTENDS ListenUI, FiniteSetTheorems, TLAPS

USE ListenUIAssumption

\* What the two helpers of clampSelection and of the visual range return.
LEMMA MinMax ==
    ASSUME NEW a \in Int, NEW b \in Int
    PROVE  /\ Min({a, b}) = IF a <= b THEN a ELSE b
           /\ Max({a, b}) = IF a <= b THEN b ELSE a
<1>1. \E x \in {a, b} : \A y \in {a, b} : x =< y
  OBVIOUS
<1>2. \E x \in {a, b} : \A y \in {a, b} : x >= y
  OBVIOUS
<1>3. Min({a, b}) \in {a, b} /\ \A y \in {a, b} : Min({a, b}) =< y
  BY <1>1 DEF Min
<1>4. Max({a, b}) \in {a, b} /\ \A y \in {a, b} : Max({a, b}) >= y
  BY <1>2 DEF Max
<1> QED  BY <1>3, <1>4

\* The number of rows, and the last index.
LEMMA Rows ==
    ASSUME NEW S \in SUBSET Names
    PROVE  /\ IsFiniteSet(S)
           /\ Cardinality(S) \in Nat
           /\ Cardinality(S) = 0 <=> S = {}
           /\ Last(S) \in Nat /\ Last(S) <= Last(Names)
           /\ S # {} => Last(S) = Cardinality(S) - 1
<1>1. IsFiniteSet(S) /\ Cardinality(S) <= Cardinality(Names)
  BY FS_Subset
<1>2. Cardinality(S) \in Nat /\ Cardinality(Names) \in Nat
  BY <1>1, FS_CardinalityType
<1>3. Cardinality(S) = 0 <=> S = {}
  BY <1>1, FS_EmptySet
<1>4. Cardinality(Names) = 0 <=> Names = {}
  BY FS_EmptySet
<1>5. Last(S) = IF Cardinality(S) = 0 THEN 0 ELSE Cardinality(S) - 1
  BY <1>3 DEF Last
<1>6. Last(Names) = IF Cardinality(Names) = 0 THEN 0 ELSE Cardinality(Names) - 1
  BY <1>4 DEF Last
<1>7. Last(S) \in Nat /\ Last(S) <= Last(Names)
  BY <1>1, <1>2, <1>5, <1>6
<1>8. S # {} => Last(S) = Cardinality(S) - 1
  BY <1>3, <1>5
<1> QED  BY <1>1, <1>2, <1>3, <1>7, <1>8

\* The index of a row is one of a row.
LEMMA IndexInRange ==
    ASSUME NEW S \in SUBSET Names, NEW n \in S
    PROVE  /\ Index(S, n) \in 0 .. Cardinality(S) - 1
           /\ Index(S, n) \in 0 .. Last(S)
<1> DEFINE Below == {m \in S : m < n}
<1>1. IsFiniteSet(S) /\ Cardinality(S) \in Nat /\ S # {} /\ Last(S) = Cardinality(S) - 1
  BY Rows
<1>2. n \notin Below
  OBVIOUS
<1>3. Below \in SUBSET S /\ Below # S
  BY <1>2
<1> HIDE DEF Below
<1>4. IsFiniteSet(Below) /\ Cardinality(Below) <= Cardinality(S) /\ Cardinality(S) # Cardinality(Below)
  BY <1>1, <1>3, FS_Subset
<1>5. Cardinality(Below) \in Nat
  BY <1>4, FS_CardinalityType
<1>6. Index(S, n) = Cardinality(Below)
  BY DEF Index, Below
<1> QED  BY <1>1, <1>4, <1>5, <1>6

\* Two rows have two indices.
LEMMA IndexInjective ==
    ASSUME NEW S \in SUBSET Names, NEW m \in S, NEW n \in S, m < n
    PROVE  Index(S, m) < Index(S, n)
<1> DEFINE BelowM == {k \in S : k < m}
<1> DEFINE BelowN == {k \in S : k < n}
<1>1. S \subseteq Nat /\ IsFiniteSet(S)
  BY Rows
<1>0. m \in Nat /\ n \in Nat /\ \A k \in S : k < m => k < n
  BY <1>1
<1>2. BelowM \in SUBSET BelowN /\ BelowN \in SUBSET S
  BY <1>0
<1>3. m \in BelowN /\ m \notin BelowM
  BY <1>1
<1> HIDE DEF BelowM, BelowN
<1>4. Index(S, m) = Cardinality(BelowM) /\ Index(S, n) = Cardinality(BelowN)
  BY DEF Index, BelowM, BelowN
<1>5. IsFiniteSet(BelowN)
  BY <1>1, <1>2, FS_Subset
<1>6. IsFiniteSet(BelowM) /\ Cardinality(BelowM) <= Cardinality(BelowN)
      /\ Cardinality(BelowN) # Cardinality(BelowM)
  BY <1>2, <1>3, <1>5, FS_Subset
<1>7. Cardinality(BelowM) \in Nat /\ Cardinality(BelowN) \in Nat
  BY <1>5, <1>6, FS_CardinalityType
<1> QED  BY <1>4, <1>6, <1>7

\* The name at the index of a row is that row.
LEMMA AtIndex ==
    ASSUME NEW S \in SUBSET Names, NEW n \in S
    PROVE  At(S, Index(S, n)) = n
<1>1. ASSUME NEW m \in S, Index(S, m) = Index(S, n)
      PROVE  m = n
  <2>1. m \in Nat /\ n \in Nat
    OBVIOUS
  <2>2. Index(S, m) \in Int /\ Index(S, n) \in Int
    BY IndexInRange
  <2>3. ~(m < n) /\ ~(n < m)
    BY <1>1, <2>2, IndexInjective
  <2> QED  BY <2>1, <2>3
<1>2. At(S, Index(S, n)) \in S /\ Index(S, At(S, Index(S, n))) = Index(S, n)
  BY DEF At
<1> QED  BY <1>1, <1>2

\* Every index below the number of rows is that of a row.
LEMMA RowAt ==
    ASSUME NEW S \in SUBSET Names, NEW i \in 0 .. Cardinality(S) - 1
    PROVE  At(S, i) \in S /\ Index(S, At(S, i)) = i
<1> DEFINE T == 0 .. Cardinality(S) - 1
<1> DEFINE f == [n \in S |-> Index(S, n)]
<1>1. IsFiniteSet(S) /\ Cardinality(S) \in Nat
  BY Rows
<1>2. IsFiniteSet(T) /\ Cardinality(T) = Cardinality(S)
  BY <1>1, FS_Interval
<1>3. f \in [S -> T]
  BY IndexInRange
<1>4. ASSUME NEW m \in S, NEW n \in S, f[m] = f[n]
      PROVE  m = n
  <2>1. Index(S, m) = Index(S, n)
    BY <1>4
  <2> QED  BY <2>1, AtIndex
<1> HIDE DEF T
<1>5. f \in Injection(S, T)
  BY <1>3, <1>4 DEF Injection, IsInjective
<1>6. f \in Surjection(S, T)
  BY <1>2, <1>5, FS_Injection
<1>7. \E n \in S : f[n] = i
  BY <1>6 DEF Surjection, T
<1>8. \E n \in S : Index(S, n) = i
  BY <1>7
<1> QED  BY <1>8 DEF At

\* A clamped cursor is on a row if there is one.
LEMMA Clamped ==
    ASSUME NEW S \in SUBSET Names, NEW i \in Int
    PROVE  /\ clampSelection(S, i) \in 0 .. Last(S)
           /\ S # {} => clampSelection(S, i) < Cardinality(S)
<1>1. Last(S) \in Nat /\ Cardinality(S) \in Nat /\ (S # {} => Last(S) = Cardinality(S) - 1)
  BY Rows
<1>2. Max({i, 0}) = IF i <= 0 THEN 0 ELSE i
  BY MinMax, 0 \in Int
<1>3. Min({Max({i, 0}), Last(S)}) \in 0 .. Last(S)
  BY <1>1, <1>2, MinMax
<1> QED  BY <1>1, <1>3 DEF clampSelection

-----------------------------------------------------------------------------
(* The cursor and the selection.                                           *)

\* What a key finds under a cursor that is on a row.
LEMMA UnderCursor ==
    ASSUME IInv
    PROVE  /\ items \in SUBSET Names
           /\ HasCursor => SelectedName \in items /\ SelectedName \in Names
           /\ items # {} => HasCursor
<1>1. items \in SUBSET Names /\ selected \in Nat
  BY Rows DEF IInv, TypeOK
<1>2. Cardinality(items) \in Nat
  BY <1>1, Rows
<1>3. ASSUME HasCursor PROVE SelectedName \in items
  BY <1>1, <1>2, <1>3, RowAt DEF HasCursor, SelectedName
<1> QED  BY <1>1, <1>3 DEF IInv, CursorOnRow

\* A cursor that moves to an index of a row, with or without a visual range.
LEMMA CursorMoves ==
    ASSUME IInv, NEW i \in 0 .. Last(items), items # {} => i < Cardinality(items),
           CursorTo(i), gPending' \in BOOLEAN, UNCHANGED <<help, confirm>>
    PROVE  IInv'
<1>1. items' = items /\ visual' = visual /\ visualAnchor' = visualAnchor
      /\ visualBase' = visualBase /\ action' = action /\ selected' = i
  BY DEF CursorTo
<1>2. i \in 0 .. Last(Names)
  BY Rows DEF IInv, TypeOK
<1>3. marked' \subseteq items
  BY DEF CursorTo, updateVisualSelection, IInv, SelectionIsShown
<1>4. TypeOK'
  BY <1>1, <1>2, <1>3 DEF IInv, TypeOK
<1>5. CursorOnRow'
  BY <1>1 DEF CursorOnRow, HasCursor
<1>6. SelectionIsShown'
  BY <1>1, <1>3 DEF IInv, SelectionIsShown
<1> QED  BY <1>4, <1>5, <1>6 DEF IInv

\* An update leaves the cursor on a row of the new ones.
LEMMA Restored ==
    ASSUME IInv, NEW S \in SUBSET Names
    PROVE  /\ restoreSelection(S) \in 0 .. Last(S)
           /\ S # {} => restoreSelection(S) < Cardinality(S)
<1>1. Cardinality(S) \in Nat /\ selected \in Int
  BY Rows DEF IInv, TypeOK
<1>2. CASE HasCursor /\ SelectedName \in S
  <2>1. /\ Index(S, SelectedName) \in 0 .. Cardinality(S) - 1
        /\ Index(S, SelectedName) \in 0 .. Last(S)
    BY <1>2, IndexInRange
  <2> QED  BY <1>1, <1>2, <2>1 DEF restoreSelection
<1>3. CASE ~(HasCursor /\ SelectedName \in S)
  BY <1>1, <1>3, Clamped DEF restoreSelection
<1> QED  BY <1>2, <1>3

-----------------------------------------------------------------------------
(* Theorems.                                                               *)

\* The inductive invariant: whatever keys and updates come, the cursor is on a
\* row and only rows are selected, also in the base of a visual selection.
THEOREM Invariance == Spec => []IInv
<1>1. Init => IInv
  <2> SUFFICES ASSUME Init PROVE IInv
    OBVIOUS
  <2>1. Last(Names) \in Nat
    BY Rows
  <2>2. TypeOK
    <3>1. 0 \in 0 .. Last(Names)
      BY <2>1
    <3>2. confirm \in [names : SUBSET Names, yes : BOOLEAN]
      BY DEF Init, NoConfirm
    <3>3. action \in [verb : Verbs \cup {"none", "delete"}, names : SUBSET Names]
      BY DEF Init, NoAction
    <3> QED  BY <3>1, <3>2, <3>3 DEF Init, TypeOK
  <2> QED  BY <2>2 DEF Init, IInv, CursorOnRow, SelectionIsShown
<1>2. IInv /\ [Next]_vars => IInv'
  <2> SUFFICES ASSUME IInv, [Next]_vars PROVE IInv'
    OBVIOUS
  <2> USE DEF selection, dialogs
  <2>0. /\ items \in SUBSET Names /\ selected \in Int
        /\ Last(items) \in Nat /\ Cardinality(items) \in Nat
        /\ items # {} => Last(items) = Cardinality(items) - 1
    BY Rows DEF IInv, TypeOK
  <2>1. CASE Esc
    BY <2>1 DEF Esc, OtherKey, clearSelection, IInv, TypeOK, CursorOnRow, HasCursor, SelectionIsShown
  <2>2. CASE Home
    <3>1. CursorTo(0) /\ gPending' \in BOOLEAN /\ UNCHANGED <<help, confirm>>
      BY <2>2 DEF Home, OtherKey
    <3>2. 0 \in 0 .. Last(items) /\ (items # {} => 0 < Cardinality(items))
      BY <2>0
    <3> QED  BY <3>1, <3>2, CursorMoves
  <2>3. CASE End
    <3>1. CursorTo(Last(items)) /\ gPending' \in BOOLEAN /\ UNCHANGED <<help, confirm>>
      BY <2>3 DEF End, OtherKey
    <3>2. Last(items) \in 0 .. Last(items) /\ (items # {} => Last(items) < Cardinality(items))
      BY <2>0
    <3> QED  BY <3>1, <3>2, CursorMoves
  <2>4. CASE G
    <3>0. gPending' \in BOOLEAN /\ UNCHANGED <<help, confirm>>
      BY <2>4 DEF G, IInv, TypeOK
    <3>1. CASE gPending
      <4>1. CursorTo(0)
        BY <2>4, <3>1 DEF G
      <4>2. 0 \in 0 .. Last(items) /\ (items # {} => 0 < Cardinality(items))
        BY <2>0
      <4> QED  BY <3>0, <4>1, <4>2, CursorMoves
    <3>2. CASE ~gPending
      <4>1. UNCHANGED <<items, selected, selection, action>>
        BY <2>4, <3>2 DEF G
      <4> QED  BY <3>0, <4>1 DEF IInv, TypeOK, CursorOnRow, HasCursor, SelectionIsShown
    <3> QED  BY <3>1, <3>2
  <2>5. CASE toggleCurrentSelection
    <3>1. SelectedName \in items
      BY <2>5, UnderCursor DEF toggleCurrentSelection
    <3>2. marked' \subseteq items
      BY <2>5, <3>1 DEF toggleCurrentSelection, IInv, SelectionIsShown
    <3> QED  BY <2>5, <3>2 DEF toggleCurrentSelection, OtherKey, IInv, TypeOK, CursorOnRow, HasCursor, SelectionIsShown
  <2>6. CASE toggleVisualSelection
    <3>1. SelectedName \in items
      BY <2>6, UnderCursor DEF toggleVisualSelection
    <3>2. marked' \subseteq items /\ visualBase' \subseteq items
      BY <2>6, <3>1 DEF toggleVisualSelection, IInv, SelectionIsShown
    <3>3. visualAnchor' \in 0 .. Last(Names)
      BY <2>6 DEF toggleVisualSelection, IInv, TypeOK
    <3> QED  BY <2>6, <3>2, <3>3 DEF toggleVisualSelection, OtherKey, IInv, TypeOK, CursorOnRow, HasCursor, SelectionIsShown
  <2>7. ASSUME NEW delta \in {-1, 1}, moveCursor(delta) PROVE IInv'
    <3> DEFINE i == clampSelection(items, selected + delta)
    <3>1. CursorTo(i) /\ gPending' \in BOOLEAN /\ UNCHANGED <<help, confirm>>
      BY <2>7 DEF moveCursor, OtherKey
    <3>2. i \in 0 .. Last(items) /\ (items # {} => i < Cardinality(items))
      <4>1. selected + delta \in Int
        BY <2>0
      <4> QED  BY <2>0, <4>1, Clamped
    <3> HIDE DEF i
    <3> QED  BY <3>1, <3>2, CursorMoves
  <2>8. CASE OpenHelp
    BY <2>8 DEF OpenHelp, IInv, TypeOK, CursorOnRow, HasCursor, SelectionIsShown
  <2>9. CASE CloseHelp
    BY <2>9 DEF CloseHelp, IInv, TypeOK, CursorOnRow, HasCursor, SelectionIsShown
  <2>10. targetNames \subseteq Names
    BY UnderCursor DEF targetNames, IInv, TypeOK
  <2>11. CASE AskDelete
    BY <2>10, <2>11 DEF AskDelete, IInv, TypeOK, CursorOnRow, HasCursor, SelectionIsShown
  <2>12. CASE Dismiss
    BY <2>12 DEF Dismiss, NoConfirm, IInv, TypeOK, CursorOnRow, HasCursor, SelectionIsShown
  <2>13. CASE Accept
    BY <2>13 DEF Accept, NoConfirm, IInv, TypeOK, CursorOnRow, HasCursor, SelectionIsShown
  <2>14. ASSUME NEW yes \in BOOLEAN, Answer(yes) PROVE IInv'
    BY <2>14 DEF Answer, IInv, TypeOK, CursorOnRow, HasCursor, SelectionIsShown
  <2>15. ASSUME NEW verb \in Verbs, beginAction(verb) PROVE IInv'
    BY <2>10, <2>15 DEF beginAction, OtherKey, IInv, TypeOK, CursorOnRow, HasCursor, SelectionIsShown
  <2>16. ASSUME NEW S \in SUBSET Names, applyUpdate(S) PROVE IInv'
    <3>1. items' = S /\ selected' = restoreSelection(S)
      BY <2>16 DEF applyUpdate
    <3>2. selected' \in 0 .. Last(Names) /\ (items' # {} => selected' < Cardinality(items'))
      BY <3>1, Restored, Rows
    <3>3. marked' \subseteq S /\ visualBase' \subseteq S /\ visual' \in BOOLEAN
      BY <2>16 DEF applyUpdate, pruneSelection, IInv, TypeOK
    <3>4. TypeOK'
      BY <2>16, <3>1, <3>2, <3>3 DEF applyUpdate, IInv, TypeOK
    <3>5. CursorOnRow' /\ SelectionIsShown'
      BY <3>1, <3>2, <3>3 DEF CursorOnRow, HasCursor, SelectionIsShown
    <3> QED  BY <3>4, <3>5 DEF IInv
  <2>17. CASE ActionDone
    BY <2>17 DEF ActionDone, clearSelection, NoAction, IInv, TypeOK, CursorOnRow, HasCursor, SelectionIsShown
  <2>18. CASE UNCHANGED vars
    BY <2>18 DEF vars, IInv, TypeOK, CursorOnRow, HasCursor, SelectionIsShown
  <2>19. CASE NoOpKey
    BY <2>19 DEF NoOpKey, OtherKey, IInv, TypeOK, CursorOnRow, HasCursor, SelectionIsShown
  <2> QED  BY <2>1, <2>2, <2>3, <2>4, <2>5, <2>6, <2>7, <2>8, <2>9, <2>11, <2>12, <2>13,
              <2>14, <2>15, <2>16, <2>17, <2>18, <2>19 DEF Next
<1> QED  BY <1>1, <1>2, PTL DEF Spec

\* What a key acts on, or asks about, was on the screen then: marked rows are
\* rows, since pruneSelection cleans the base too, and the cursor is on one.
\* A delete has the names its modal was opened with.
THEOREM TargetsWereShownHolds == Spec => TargetsWereShown
<1> DEFINE Shown ==
      /\ ~Confirming /\ Confirming' => confirm'.names \subseteq items
      /\ Confirming /\ Confirming' => confirm'.names = confirm.names
      /\ action' # action /\ action' # NoAction =>
            /\ action'.names # {}
            /\ action'.names \subseteq IF Confirming THEN confirm.names ELSE items
            /\ action'.verb = "delete" <=> Confirming /\ confirm.yes
<1>1. IInv /\ [Next]_vars => Shown
  <2> SUFFICES ASSUME IInv, [Next]_vars PROVE Shown
    OBVIOUS
  <2> USE DEF dialogs, Confirming
  <2>1. targetNames \subseteq items
    BY UnderCursor DEF targetNames, IInv, SelectionIsShown
  <2>2. CASE AskDelete
    BY <2>1, <2>2 DEF AskDelete, Key
  <2>3. ASSUME NEW verb \in Verbs, beginAction(verb) PROVE Shown
    BY <2>1, <2>3 DEF beginAction, OtherKey, Key
  <2>4. CASE Accept
    BY <2>4 DEF Accept, NoConfirm
  <2>5. ASSUME NEW yes \in BOOLEAN, Answer(yes) PROVE Shown
    BY <2>5 DEF Answer, IInv, TypeOK
  <2>6. CASE Dismiss
    BY <2>6 DEF Dismiss, NoConfirm
  <2>7. CASE ActionDone
    BY <2>7 DEF ActionDone
  <2>8. CASE OpenHelp \/ CloseHelp
    BY <2>8 DEF OpenHelp, CloseHelp
  <2>9. CASE NoOpKey \/ Esc \/ Home \/ End \/ G \/ toggleCurrentSelection \/ toggleVisualSelection
    BY <2>9 DEF NoOpKey, Esc, Home, End, G, toggleCurrentSelection, toggleVisualSelection, OtherKey,
                CursorTo
  <2>10. ASSUME NEW delta \in {-1, 1}, moveCursor(delta) PROVE Shown
    BY <2>10 DEF moveCursor, OtherKey, CursorTo
  <2>11. ASSUME NEW S \in SUBSET Names, applyUpdate(S) PROVE Shown
    BY <2>11 DEF applyUpdate
  <2>12. CASE UNCHANGED vars
    BY <2>12 DEF vars
  <2> QED  BY <2>2, <2>3, <2>4, <2>5, <2>6, <2>7, <2>8, <2>9, <2>10, <2>11, <2>12 DEF Next
<1>2. [][Shown]_vars <=> TargetsWereShown
  BY PTL DEF TargetsWereShown
<1> QED  BY <1>1, <1>2, Invariance, PTL DEF Spec

\* The modal and an action exclude each other, so a confirmed delete is sent.
THEOREM YesIsHeededHolds == Spec => []YesIsHeeded
<1>1. Init => YesIsHeeded
  BY DEF Init, YesIsHeeded, Confirming, NoConfirm
<1>2. YesIsHeeded /\ [Next]_vars => YesIsHeeded'
  BY DEF YesIsHeeded, Next, vars, Confirming, NoConfirm, NoOpKey, Esc, Home, End, G, CursorTo, moveCursor,
         toggleCurrentSelection, toggleVisualSelection, OpenHelp, CloseHelp, beginAction, AskDelete,
         Answer, Dismiss, Accept, applyUpdate, ActionDone, OtherKey, Key, dialogs
<1> QED  BY <1>1, <1>2, PTL DEF Spec

\* The cursor stays with its angl over every update that keeps the angl: the
\* index in the new rows is that of the same name.
THEOREM CursorFollowsHolds == Spec => CursorFollows
<1> DEFINE Follows == HasCursor /\ items' # items /\ SelectedName \in items'
                      => HasCursor' /\ SelectedName' = SelectedName
<1>1. IInv /\ [Next]_vars => Follows
  <2> SUFFICES ASSUME IInv, [Next]_vars, HasCursor, items' # items, SelectedName \in items'
               PROVE  HasCursor' /\ SelectedName' = SelectedName
    OBVIOUS
  <2>1. PICK S \in SUBSET Names : applyUpdate(S)
    BY DEF Next, vars, NoOpKey, Esc, Home, End, G, CursorTo, moveCursor, toggleCurrentSelection,
           toggleVisualSelection, OpenHelp, CloseHelp, beginAction, AskDelete, Answer, Dismiss,
           Accept, ActionDone
  <2>2. items' = S /\ selected' = Index(S, SelectedName)
    BY <2>1 DEF applyUpdate, restoreSelection
  <2>3. SelectedName \in S
    BY <2>2
  <2>4. HasCursor'
    BY <2>2, <2>3, IndexInRange, Rows DEF HasCursor
  <2>5. At(S, Index(S, SelectedName)) = SelectedName
    BY <2>3, AtIndex
  <2>6. SelectedName' = At(S, Index(S, SelectedName))
    BY <2>2 DEF SelectedName
  <2> QED  BY <2>4, <2>5, <2>6
<1>2. [][Follows]_vars <=> CursorFollows
  BY PTL DEF CursorFollows
<1> QED  BY <1>1, <1>2, Invariance, PTL DEF Spec
=============================================================================
