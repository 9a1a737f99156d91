---------------------------- MODULE CatalogStore ----------------------------
(***************************************************************************)
(* catalog/catalog.go and catalog/selector.go without the file: what a     *)
(* catalog holds, what an update makes of it, and which angls a selector   *)
(* or a saved view chooses.                                                *)
(*                                                                         *)
(* A selector is the set of its requirements (String sorts them, so their  *)
(* order is lost when it is saved).  A label or a view that is absent is   *)
(* Nil; an entry of Labels without labels is no entry (RemoveLabels).      *)
(* Names, keys and texts are those that Validate accepts.                  *)
(***************************************************************************)
EXTENDS Integers

CONSTANTS
    Names,     \* angl names
    Keys,      \* label keys
    Reserved,  \* the live fields: name, state, enabled, kind
    Values,    \* values of labels and of fields
    Views,     \* names of views
    Selectors, \* the selectors that are used
    Nil        \* absent

Labels == [Keys -> Values \cup {Nil}]
Fields == Keys \cup Reserved
Requirements == [key : Fields, operator : {"=", "!=", "exists", "not-exists"}, value : Values]

ASSUME StoreAssumption ==
    /\ Nil \notin Values /\ Nil \notin Views /\ Nil \notin Selectors
    /\ Selectors \subseteq SUBSET Requirements

Stores == [labels : [Names -> Labels], views : [Views -> Selectors \cup {Nil}]]

NoLabels == [k \in Keys |-> Nil]
Empty == [labels |-> [n \in Names |-> NoLabels], views |-> [v \in Views |-> Nil]]

-----------------------------------------------------------------------------
(* Updates: the commands label set, label unset, view save, view delete.   *)

Updates ==
    [op : {"set"}, name : Names, labels : Labels]
        \cup [op : {"unset"}, name : Names, keys : SUBSET Keys]
        \cup [op : {"save"}, view : Views, selector : Selectors, force : BOOLEAN]
        \cup [op : {"delete"}, view : Views]

Annotate(store, n, labels) ==
    [store EXCEPT !.labels[n] =
        [k \in Keys |-> IF labels[k] = Nil THEN store.labels[n][k] ELSE labels[k]]]

RemoveLabels(store, n, keys) ==
    [store EXCEPT !.labels[n] =
        [k \in Keys |-> IF k \in keys THEN Nil ELSE store.labels[n][k]]]

SaveView(store, v, selector) == [store EXCEPT !.views[v] = selector]
DeleteView(store, v) == [store EXCEPT !.views[v] = Nil]

\* Mutant of Refused: a view is replaced whether --force is given or not.
Refused_Never(store, u) == FALSE

\* "view %q already exists (use --force to replace it)".
Refused(store, u) == u.op = "save" /\ store.views[u.view] # Nil /\ ~u.force

Effect(store, u) ==
    IF u.op = "set" THEN Annotate(store, u.name, u.labels)
    ELSE IF u.op = "unset" THEN RemoveLabels(store, u.name, u.keys)
    ELSE IF u.op = "save" THEN SaveView(store, u.view, u.selector)
    ELSE DeleteView(store, u.view)

-----------------------------------------------------------------------------
(* Selectors.  live[n] holds the reserved fields of angl n as the daemon   *)
(* lists them, Nil if it does not list it.                                 *)

Inventories == [Names -> [Reserved -> Values] \cup {Nil}]
Listed(live) == {n \in Names : live[n] # Nil}

\* Mutant of FieldsOf: a label hides the live field of the same name.
FieldsOf_LabelsFirst(item, labels) ==
    [k \in Fields |-> IF k \in Keys /\ (k \in Reserved => labels[k] # Nil) THEN labels[k] ELSE item[k]]

\* Reserved fields override labels of the same name.
FieldsOf(item, labels) ==
    [k \in Fields |-> IF k \in Reserved THEN item[k] ELSE labels[k]]

Satisfies(r, fields) ==
    \/ r.operator = "=" /\ fields[r.key] = r.value
    \/ r.operator = "!=" /\ fields[r.key] # r.value
    \/ r.operator = "exists" /\ fields[r.key] # Nil
    \/ r.operator = "not-exists" /\ fields[r.key] = Nil

Matches(selector, fields) == \A r \in selector : Satisfies(r, fields)

Resolve(selector, live, labels) ==
    {n \in Listed(live) : Matches(selector, FieldsOf(live[n], labels[n]))}

\* tolerant: ls goes on without metadata when the catalog cannot be read.
Queries == [names : SUBSET Names, selector : Selectors, view : Views \cup {Nil},
            tolerant : BOOLEAN]

\* "unknown angl", "unknown view".
QueryRefused(q, live, store) ==
    \/ ~ q.names \subseteq Listed(live)
    \/ q.view # Nil /\ store.views[q.view] = Nil

\* Mutant of resolveObservationNames: the view replaces the selector.
resolveObservationNames_ViewOnly(q, live, store) ==
    LET selected == IF q.names = {} THEN Listed(live) ELSE q.names
        combined == IF q.view = Nil THEN q.selector ELSE store.views[q.view]
    IN selected \cap Resolve(combined, live, store.labels)

\* The two selectors are joined with a comma, which is an AND.
resolveObservationNames(q, live, store) ==
    LET selected == IF q.names = {} THEN Listed(live) ELSE q.names
        combined == q.selector \cup (IF q.view = Nil THEN {} ELSE store.views[q.view])
    IN selected \cap Resolve(combined, live, store.labels)
=============================================================================
