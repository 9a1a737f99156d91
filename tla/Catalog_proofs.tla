--------------------------- MODULE Catalog_proofs ---------------------------
(***************************************************************************)
(* Proofs about Catalog for any sets of clients, names, keys, values,      *)
(* views, selectors, updates and queries: mutual exclusion around the      *)
(* file, and from it that the commands implement AtomicCatalog.            *)
(***************************************************************************)
EXTENDS Catalog, TLAPS

-----------------------------------------------------------------------------
(* Updates on catalogs.                                                    *)

\* What label set writes is a catalog again.
LEMMA AnnotateType ==
    ASSUME NEW s \in Stores, NEW n \in Names, NEW l \in Labels
    PROVE  Annotate(s, n, l) \in Stores
  <1>1. [k \in Keys |-> IF l[k] = Nil THEN s.labels[n][k] ELSE l[k]] \in Labels
    BY DEF Stores, Labels
  <1>2. QED
    BY <1>1 DEF Annotate, Stores

\* What label unset writes is a catalog again.
LEMMA RemoveLabelsType ==
    ASSUME NEW s \in Stores, NEW n \in Names, NEW K \in SUBSET Keys
    PROVE  RemoveLabels(s, n, K) \in Stores
  <1>1. [k \in Keys |-> IF k \in K THEN Nil ELSE s.labels[n][k]] \in Labels
    BY DEF Stores, Labels
  <1>2. QED
    BY <1>1 DEF RemoveLabels, Stores

\* Every update maps a catalog to a catalog.
LEMMA EffectType ==
    ASSUME NEW s \in Stores, NEW u \in Updates
    PROVE  Effect(s, u) \in Stores
  <1>1. CASE u \in [op : {"set"}, name : Names, labels : Labels]
    BY <1>1, AnnotateType DEF Effect
  <1>2. CASE u \in [op : {"unset"}, name : Names, keys : SUBSET Keys]
    BY <1>2, RemoveLabelsType DEF Effect
  <1>3. CASE u \in [op : {"save"}, view : Views, selector : Selectors, force : BOOLEAN]
    BY <1>3 DEF Effect, SaveView, Stores
  <1>4. CASE u \in [op : {"delete"}, view : Views]
    BY <1>4 DEF Effect, DeleteView, Stores
  <1>5. QED
    BY <1>1, <1>2, <1>3, <1>4 DEF Updates

LEMMA EmptyType == Empty \in Stores
  BY DEF Empty, Stores, NoLabels, Labels

LEMMA NoCommandType == NoCommand \in Commands
  BY DEF NoCommand, Commands

-----------------------------------------------------------------------------
(* The invariant.                                                          *)

\* A command that a step does not concern: its fields, whether it holds the
\* lock, and the file while it is about to replace it are as before.
LEMMA OtherLocked ==
    ASSUME NEW d \in Clients, Locked(d), run'[d] = run[d], (lock' = d) <=> (lock = d),
           known \subseteq known', At(d, "replace") => disk' = disk
    PROVE  Locked(d)'
  BY DEF Locked, Holds, At, Refused

\* Only the command that holds the lock is between Load and Save.
LEMMA Exclusive ==
    ASSUME IInv, NEW c \in Clients, NEW d \in Clients, d # c, Holds(c)
    PROVE  ~Holds(d) /\ lock # d
  BY DEF IInv, Locked

LEMMA InitInv == Init => IInv
  <1> SUFFICES ASSUME Init PROVE IInv
    OBVIOUS
  <1>1. TypeOK
    BY EmptyType, NoCommandType DEF Init, TypeOK, Listed
  <1>2. LabelsAreKnown
    BY DEF Init, LabelsAreKnown, Empty
  <1>3. ASSUME NEW c \in Clients PROVE Locked(c)
    BY CatalogAssumption DEF Init, Locked, Holds, At, NoCommand
  <1>4. QED
    BY <1>1, <1>2, <1>3 DEF IInv, Init

\* A step of one command: what is left to show is that command's own part.
LEMMA OneCommand ==
    ASSUME IInv, NEW c \in Clients, NEW r \in Commands, run' = [run EXCEPT ![c] = r],
           disk' \in Stores, lock' \in Clients \cup {Nil}, UNCHANGED <<live, known>>,
           LabelsAreKnown', Locked(c)',
           \A d \in Clients \ {c} : /\ ((lock' = d) <=> (lock = d))
                                   /\ (At(d, "replace") => disk' = disk)
    PROVE  IInv'
  <1>1. TypeOK'
    BY DEF IInv, TypeOK
  <1>2. ASSUME NEW d \in Clients, d # c PROVE Locked(d)'
    <2>1. Locked(d) /\ run'[d] = run[d] /\ known \subseteq known'
      BY <1>2 DEF IInv, TypeOK
    <2>2. ((lock' = d) <=> (lock = d)) /\ (At(d, "replace") => disk' = disk)
      BY <1>2
    <2>3. QED
      BY <2>1, <2>2, OtherLocked
  <1>3. QED
    BY <1>1, <1>2 DEF IInv, Listed

\* A step of one command that leaves file and lock alone.
LEMMA LocalStep ==
    ASSUME IInv, NEW c \in Clients, NEW r \in Commands, run' = [run EXCEPT ![c] = r],
           UNCHANGED <<disk, lock, live, known>>, Locked(c)'
    PROVE  IInv'
  BY OneCommand DEF IInv, TypeOK, LabelsAreKnown

\* The end of a command that held the lock, or that did not.
LEMMA ReturnStep ==
    ASSUME IInv, NEW c \in Clients, Return(c), UNCHANGED <<disk, live, known>>,
           lock' = IF lock = c THEN Nil ELSE lock
    PROVE  IInv'
  <1>1. run' = [run EXCEPT ![c] = NoCommand] /\ lock' \in Clients \cup {Nil} /\ lock' # c
    BY CatalogAssumption DEF Return, Become, IInv, TypeOK
  <1>2. Locked(c)'
    BY <1>1, CatalogAssumption DEF IInv, TypeOK, Locked, Holds, At, NoCommand
  <1>3. \A d \in Clients \ {c} : (lock' = d) <=> (lock = d)
    BY CatalogAssumption
  <1>4. QED
    BY <1>1, <1>2, <1>3, OneCommand, NoCommandType DEF IInv, TypeOK, LabelsAreKnown

\* The daemon's angls come and go: the commands only gain known names.
LEMMA DaemonStep ==
    ASSUME IInv, NEW n \in Names, DaemonMoves(n)
    PROVE  IInv'
  <1>1. live' \in Inventories /\ known' = known \cup Listed(live') /\ UNCHANGED <<disk, lock, run>>
    BY DEF DaemonMoves, IInv, TypeOK, Inventories
  <1>2. Listed(live') \subseteq Names /\ Listed(live)' = Listed(live')
    BY DEF Listed
  <1>3. TypeOK'
    BY <1>1, <1>2 DEF IInv, TypeOK
  <1>4. \A c \in Clients : Locked(c)'
    BY <1>1, OtherLocked DEF IInv
  <1>5. QED
    BY <1>1, <1>2, <1>3, <1>4 DEF IInv, LabelsAreKnown

\* Loading: what will be written is the update of the file as it is.
LEMMA LoadStep ==
    ASSUME IInv, NEW c \in Clients, Load(c)
    PROVE  IInv'
  <1>1. run[c] \in Commands /\ Locked(c) /\ At(c, "load")
    BY DEF IInv, TypeOK, Load
  <1>2. run[c].update \in Updates /\ Effect(disk, run[c].update) \in Stores
    BY <1>1, EffectType, CatalogAssumption DEF Commands, IInv, TypeOK, Locked, Holds, At
  <1>3. CASE Refused(disk, run[c].update)
    <2> DEFINE r == [run[c] EXCEPT !.at = "unlock"]
    <2>1. r \in Commands /\ run' = [run EXCEPT ![c] = r] /\ UNCHANGED <<disk, lock, live, known>>
      BY <1>1, <1>3 DEF Load, Commands
    <2>2. Locked(c)'
      BY <1>1, <2>1 DEF Locked, Holds, At, IInv, TypeOK
    <2>3. QED
      BY <2>1, <2>2, LocalStep
  <1>4. CASE ~Refused(disk, run[c].update)
    <2> DEFINE r == [run[c] EXCEPT !.at = "replace", !.store = Effect(disk, run[c].update)]
    <2>1. r \in Commands /\ run' = [run EXCEPT ![c] = r] /\ UNCHANGED <<disk, lock, live, known>>
      BY <1>1, <1>2, <1>4 DEF Load, Commands
    <2>2. run'[c] = r
      BY <2>1 DEF IInv, TypeOK
    <2>3. r.update = run[c].update /\ r.at = "replace" /\ r.store = Effect(disk, run[c].update)
          /\ r.ok = run[c].ok
      BY <1>1 DEF Commands
    <2> HIDE DEF r
    <2>4. Locked(c)'
      BY <1>1, <1>4, <2>1, <2>2, <2>3 DEF Locked, Holds, At
    <2>5. r \in Commands
      BY <2>1
    <2>6. QED
      BY <2>1, <2>4, <2>5, LocalStep
  <1>5. QED
    BY <1>3, <1>4

\* Replacing: nobody else is about to replace the file.
LEMMA ReplaceStep ==
    ASSUME IInv, NEW c \in Clients, Replace(c)
    PROVE  IInv'
  <1> DEFINE u == run[c].update
             r == [run[c] EXCEPT !.at = "unlock", !.ok = TRUE, !.store = Nil]
  <1>1. run[c] \in Commands /\ Locked(c) /\ At(c, "replace")
    BY DEF IInv, TypeOK, Replace
  <1>2. u \in Updates /\ Effect(disk, u) \in Stores
    BY <1>1, EffectType, CatalogAssumption DEF Commands, IInv, TypeOK, Locked, Holds, At
  <1>3. /\ r \in Commands /\ run' = [run EXCEPT ![c] = r]
        /\ disk' = Effect(disk, u) /\ UNCHANGED <<lock, live, known>>
    BY <1>1 DEF Replace, Commands, Locked
  <1>4. Locked(c)'
    BY <1>1, <1>3 DEF Locked, Holds, At, IInv, TypeOK
  <1>5. \A d \in Clients \ {c} : ~At(d, "replace")
    BY <1>1, Exclusive DEF Holds, At
  <1>6. LabelsAreKnown'
    <2> SUFFICES ASSUME NEW n \in Names, disk'.labels[n] # NoLabels PROVE n \in known
      BY <1>3 DEF LabelsAreKnown
    <2>0. disk \in Stores /\ LabelsAreKnown
      BY DEF IInv, TypeOK
    <2>1. CASE u.op = "set" /\ n = u.name
      BY <1>1, <2>1 DEF Locked, Holds, At
    <2>2. CASE u.op = "set" /\ n # u.name
      BY <1>2, <1>3, <2>0, <2>2 DEF Effect, Annotate, LabelsAreKnown, Stores
    <2>3. CASE u.op = "unset" /\ n # u.name
      BY <1>2, <1>3, <2>0, <2>3 DEF Effect, RemoveLabels, LabelsAreKnown, Stores
    <2>4. CASE u.op = "unset" /\ n = u.name
      <3>1. disk'.labels[n] = [k \in Keys |-> IF k \in u.keys THEN Nil ELSE disk.labels[n][k]]
        BY <1>2, <1>3, <2>0, <2>4 DEF Effect, RemoveLabels, Stores
      <3>2. disk.labels[n] # NoLabels
        BY <3>1 DEF NoLabels
      <3>3. QED
        BY <2>0, <3>2 DEF LabelsAreKnown
    <2>5. CASE u.op \notin {"set", "unset"}
      BY <1>2, <1>3, <2>0, <2>5 DEF Effect, SaveView, DeleteView, LabelsAreKnown, Stores
    <2>6. QED
      BY <2>1, <2>2, <2>3, <2>4, <2>5
  <1>7. QED
    BY <1>2, <1>3, <1>4, <1>5, <1>6, OneCommand DEF IInv, TypeOK

\* The other steps of an update.
LEMMA UpdateStep ==
    ASSUME IInv, NEW c \in Clients,
           Status(c) \/ FailEarly(c) \/ Lock(c) \/ FailLocked(c) \/ Unlock(c) \/ Kill(c)
    PROVE  IInv'
  <1>1. run[c] \in Commands /\ Locked(c) /\ lock \in Clients \cup {Nil} /\ Listed(live) \subseteq known
    BY DEF IInv, TypeOK
  <1>2. CASE Status(c)
    <2> DEFINE r == [run[c] EXCEPT !.at = "lock"]
    <2>1. r \in Commands /\ run' = [run EXCEPT ![c] = r] /\ UNCHANGED <<disk, lock, live, known>>
      BY <1>1, <1>2 DEF Status, GoTo, Commands
    <2>2. run[c].update \in Updates /\ run[c].update.op \in {"set", "unset"}
      BY <1>1, <1>2, CatalogAssumption DEF Status, Locked, Holds, At, Commands
    <2>3. run[c].update.name \in known
      BY <1>1, <1>2, <2>2 DEF Status, Listed, Updates
    <2>4. Locked(c)'
      BY <1>1, <1>2, <2>1, <2>3 DEF Status, Locked, Holds, At, IInv, TypeOK
    <2>5. QED
      BY <2>1, <2>4, LocalStep
  <1>3. CASE FailEarly(c)
    BY <1>1, <1>3, ReturnStep DEF FailEarly, Locked, Holds
  <1>4. CASE Lock(c)
    <2> DEFINE r == [run[c] EXCEPT !.at = "load"]
    <2>1. /\ r \in Commands /\ run' = [run EXCEPT ![c] = r]
          /\ lock = Nil /\ lock' = c /\ UNCHANGED <<disk, live, known>>
      BY <1>1, <1>4 DEF Lock, GoTo, Commands
    <2>2. Locked(c)'
      BY <1>1, <1>4, <2>1 DEF Lock, Locked, Holds, At, IInv, TypeOK
    <2>3. \A d \in Clients \ {c} : (lock' = d) <=> (lock = d)
      BY <2>1, CatalogAssumption
    <2>4. QED
      BY <2>1, <2>2, <2>3, OneCommand DEF IInv, TypeOK, LabelsAreKnown
  <1>5. CASE FailLocked(c)
    <2> DEFINE r == [run[c] EXCEPT !.at = "unlock", !.store = Nil]
    <2>1. r \in Commands /\ run' = [run EXCEPT ![c] = r] /\ UNCHANGED <<disk, lock, live, known>>
      BY <1>1, <1>5 DEF FailLocked, Commands
    <2>2. Locked(c)'
      BY <1>1, <1>5, <2>1 DEF FailLocked, Locked, Holds, At, IInv, TypeOK
    <2>3. QED
      BY <2>1, <2>2, LocalStep
  <1>6. CASE Unlock(c)
    BY <1>1, <1>6, ReturnStep DEF Unlock, Locked, Holds, At
  <1>7. CASE Kill(c)
    BY <1>7, ReturnStep DEF Kill
  <1>8. QED
    BY <1>2, <1>3, <1>4, <1>5, <1>6, <1>7

\* The beginning of an update, and queries, which lock and write nothing.
LEMMA AskStep ==
    ASSUME IInv, NEW c \in Clients,
           (\E u \in Asked : AskUpdate(c, u)) \/ (\E q \in Queried : AskQuery(c, q))
    PROVE  IInv'
  <1>1. run[c] \in Commands /\ Locked(c)
    BY DEF IInv, TypeOK
  <1>2. ASSUME NEW u \in Asked, AskUpdate(c, u) PROVE IInv'
    <2> DEFINE l == IF u.op \in {"set", "unset"} THEN "status" ELSE "lock"
               r == [NoCommand EXCEPT !.at = l, !.update = u]
    <2>1. r \in Commands /\ r.update = u /\ r.at = l /\ ~r.ok
      BY NoCommandType DEF Commands, NoCommand
    <2>2. run' = [run EXCEPT ![c] = r] /\ run'[c] = r /\ UNCHANGED <<disk, lock, live, known>>
      BY <1>2 DEF AskUpdate, Become, IInv, TypeOK
    <2>3. u # Nil /\ lock # c
      BY <1>1, <1>2, CatalogAssumption DEF AskUpdate, Locked, Holds, At
    <2>4. u.op = "set" => l = "status"
      OBVIOUS
    <2> HIDE DEF r
    <2>5. Locked(c)'
      BY <2>1, <2>2, <2>3, <2>4 DEF Locked, Holds, At
    <2>6. QED
      BY <2>1, <2>2, <2>5, LocalStep
  <1>3. ASSUME NEW q \in Queried, AskQuery(c, q) PROVE IInv'
    <2> DEFINE r == [NoCommand EXCEPT !.at = "list", !.query = q]
    <2>1. r \in Commands /\ run' = [run EXCEPT ![c] = r] /\ UNCHANGED <<disk, lock, live, known>>
      BY <1>3, NoCommandType DEF AskQuery, Become, Commands, NoCommand
    <2>2. Locked(c)'
      BY <1>1, <1>3, <2>1 DEF AskQuery, Locked, Holds, At, NoCommand, IInv, TypeOK
    <2>3. QED
      BY <2>1, <2>2, LocalStep
  <1>4. QED
    BY <1>2, <1>3

LEMMA QueryStep ==
    ASSUME IInv, NEW c \in Clients, List(c) \/ Read(c) \/ QueryReturns(c)
    PROVE  IInv'
  <1>1. run[c] \in Commands /\ Locked(c) /\ live \in Inventories
    BY DEF IInv, TypeOK
  <1>2. CASE List(c)
    <2> DEFINE r == [run[c] EXCEPT !.at = "read", !.seen = live]
    <2>1. r \in Commands /\ run' = [run EXCEPT ![c] = r] /\ UNCHANGED <<disk, lock, live, known>>
      BY <1>1, <1>2 DEF List, Commands
    <2>2. Locked(c)'
      BY <1>1, <1>2, <2>1 DEF List, Locked, Holds, At, IInv, TypeOK
    <2>3. QED
      BY <2>1, <2>2, LocalStep
  <1>3. ASSUME NEW s \in {disk, Empty}, At(c, "read"), Answer(c, s), UNCHANGED <<disk, lock, live, known>>
        PROVE  IInv'
    <2> DEFINE N == resolveObservationNames(run[c].query, run[c].seen, s)
               r == [NoCommand EXCEPT !.at = "answer", !.names = N]
    <2>1. CASE Return(c)
      BY <1>1, <1>3, <2>1, ReturnStep DEF Locked, Holds, At
    <2>2. CASE run' = [run EXCEPT ![c] = r]
      <3>1. N \in SUBSET Names
        BY DEF resolveObservationNames, Resolve, Listed
      <3> HIDE DEF N
      <3>2. r \in Commands /\ r.at = "answer" /\ r.update = Nil /\ ~r.ok
        BY <3>1, NoCommandType DEF Commands, NoCommand
      <3> HIDE DEF r
      <3>3. Locked(c)'
        BY <1>1, <1>3, <2>2, <3>2 DEF Locked, Holds, At, IInv, TypeOK
      <3>4. QED
        BY <1>3, <2>2, <3>2, <3>3, LocalStep
    <2>3. QED
      BY <1>3, <2>1, <2>2 DEF Answer, Become
  <1>4. CASE Read(c)
    BY <1>3, <1>4 DEF Read
  <1>5. CASE QueryReturns(c)
    BY <1>1, <1>5, ReturnStep DEF QueryReturns, Locked, Holds, At
  <1>6. QED
    BY <1>2, <1>4, <1>5

\* Every step of every command, and of the daemon, keeps the invariant.
LEMMA StepInv == IInv /\ [Next]_vars => IInv'
  <1> SUFFICES ASSUME IInv, [Next]_vars PROVE IInv'
    OBVIOUS
  <1>1. ASSUME NEW c \in Clients,
               \/ \E u \in Asked : AskUpdate(c, u)
               \/ \E q \in Queried : AskQuery(c, q)
               \/ Continue(c) \/ Kill(c)
        PROVE  IInv'
    BY <1>1, AskStep, UpdateStep, LoadStep, ReplaceStep, QueryStep DEF Continue
  <1>2. CASE UNCHANGED vars
    <2>1. TypeOK' /\ Listed(live)' = Listed(live) /\ LabelsAreKnown'
      BY <1>2 DEF vars, IInv, TypeOK, LabelsAreKnown, Listed
    <2>2. ASSUME NEW c \in Clients PROVE Locked(c)'
      BY <1>2, OtherLocked DEF vars, IInv
    <2>3. QED
      BY <1>2, <2>1, <2>2 DEF vars, IInv
  <1>3. QED
    BY <1>1, <1>2, DaemonStep DEF Next

-----------------------------------------------------------------------------
(* Theorems.                                                               *)

\* catalog.go 296-316: the lock keeps every update whole.
THEOREM Invariance == Spec => []IInv
  BY InitInv, StepInv, PTL DEF Spec

\* observe.go 236: labels only for angls that the daemon has known.
THEOREM LabelsAreKnownHolds == Spec => []LabelsAreKnown
  <1>1. IInv => LabelsAreKnown
    BY DEF IInv
  <1>2. QED
    BY <1>1, Invariance, PTL

\* catalog.go 218-237: a view that exists is replaced only with --force and
\* removed only by view delete, whatever other commands do in the meantime.
THEOREM NoSilentOverwriteHolds == Spec => NoSilentOverwrite
  <1> DEFINE Allowed(v) ==
        disk.views[v] # Nil /\ disk'.views[v] # disk.views[v] =>
           \E c \in Clients :
              /\ At(c, "replace") /\ run[c].update.op \in {"save", "delete"}
              /\ run[c].update.view = v
              /\ run[c].update.op = "save" => run[c].update.force
  <1>1. IInv /\ [Next]_vars => \A v \in Views : Allowed(v)
    <2> SUFFICES ASSUME IInv, [Next]_vars, NEW v \in Views,
                        disk.views[v] # Nil, disk'.views[v] # disk.views[v]
                 PROVE  Allowed(v)
      OBVIOUS
    <2>1. PICK c \in Clients : Replace(c)
      BY DEF Next, vars, AskUpdate, AskQuery, Continue, Status, FailEarly, Lock, Load, FailLocked,
             Unlock, List, Read, QueryReturns, Kill, DaemonMoves
    <2> DEFINE u == run[c].update
    <2>2. At(c, "replace") /\ ~Refused(disk, u) /\ disk' = Effect(disk, u) /\ disk \in Stores
      BY <2>1 DEF Replace, IInv, Locked, TypeOK
    <2>3. u \in Updates
      BY <2>2, CatalogAssumption DEF IInv, TypeOK, Commands, Locked, Holds, At
    <2>4. CASE u.op \in {"set", "unset"}
      BY <2>2, <2>3, <2>4 DEF Effect, Annotate, RemoveLabels, Stores
    <2>5. CASE u \in [op : {"save"}, view : Views, selector : Selectors, force : BOOLEAN]
      BY <2>2, <2>5 DEF Effect, SaveView, Refused, Stores
    <2>6. CASE u \in [op : {"delete"}, view : Views]
      BY <2>2, <2>6 DEF Effect, DeleteView, Stores
    <2>7. QED
      BY <2>3, <2>4, <2>5, <2>6 DEF Updates
  <1>2. QED
    BY <1>1, Invariance, PTL DEF Spec, NoSilentOverwrite

-----------------------------------------------------------------------------
(* Queries.                                                                *)

\* A command that is about to read the catalog has been asked a query, and
\* then told which angls there are.
Asking ==
    \A c \in Clients :
       /\ run[c].at \in {"list", "read"} => run[c].query \in Queried
       /\ run[c].at = "read" => run[c].seen \in Inventories

\* Only AskQuery brings a command there, and none forgets its query.
LEMMA AskingHolds == Spec => []Asking
  <1>1. Init => Asking
    BY DEF Init, Asking, NoCommand
  <1>2. IInv /\ Asking /\ [Next]_vars => Asking'
    <2> DEFINE Told(r) == /\ r.at \in {"list", "read"} => r.query \in Queried
                          /\ r.at = "read" => r.seen \in Inventories
    <2> SUFFICES ASSUME IInv, Asking, [Next]_vars, NEW c \in Clients
                 PROVE  Told(run'[c])
      BY DEF Asking
    <2>1. CASE UNCHANGED run
      BY <2>1 DEF Asking
    <2>2. ASSUME NEW d \in Clients, NEW u \in Asked, AskUpdate(d, u)
          PROVE  Told(run'[c])
      BY <2>2 DEF AskUpdate, Become, Asking, IInv, TypeOK, Commands, NoCommand
    <2>3. ASSUME NEW d \in Clients, NEW q \in Queried, AskQuery(d, q)
          PROVE  Told(run'[c])
      BY <2>3 DEF AskQuery, Become, Asking, IInv, TypeOK, Commands, NoCommand
    <2>4. ASSUME NEW d \in Clients, Continue(d)
          PROVE  Told(run'[c])
      <3>1. CASE List(d)
        BY <3>1 DEF List, At, Asking, IInv, TypeOK, Commands
      <3>2. CASE Read(d)
        <4>1. PICK store : Answer(d, store)
          BY <3>2 DEF Read
        <4> DEFINE ns == resolveObservationNames(run[d].query, run[d].seen, store)
        <4>2. \/ Become(d, NoCommand)
              \/ Become(d, [NoCommand EXCEPT !.at = "answer", !.names = ns])
          BY <4>1 DEF Answer, Return
        <4> HIDE DEF ns
        <4>3. QED
          <5>1. c # d => run'[c] = run[c]
            BY <4>2 DEF Become, IInv, TypeOK
          <5>2. c = d => run'[c].at \in {"idle", "answer"}
            <6>1. run'[d] \in {NoCommand, [NoCommand EXCEPT !.at = "answer", !.names = ns]}
              BY <4>2 DEF Become, IInv, TypeOK
            <6>2. NoCommand.at = "idle"
                  /\ [NoCommand EXCEPT !.at = "answer", !.names = ns].at = "answer"
              BY DEF NoCommand
            <6>3. QED
              BY <6>1, <6>2, Zenon
          <5>3. QED
            BY <5>1, <5>2 DEF Asking
      <3>3. CASE FailEarly(d) \/ Unlock(d) \/ QueryReturns(d)
        BY <3>3 DEF FailEarly, Unlock, QueryReturns, Return, Become, NoCommand, Asking,
                    IInv, TypeOK, Commands
      <3>4. CASE Status(d) \/ Lock(d) \/ Load(d) \/ Replace(d) \/ FailLocked(d)
        BY <3>4 DEF Status, Lock, Load, Replace, FailLocked, GoTo, Asking, IInv, TypeOK, Commands
      <3>5. QED
        BY <2>4, <3>1, <3>2, <3>3, <3>4 DEF Continue
    <2>5. ASSUME NEW d \in Clients, Kill(d)
          PROVE  Told(run'[c])
      BY <2>5 DEF Kill, Return, Become, NoCommand, Asking, IInv, TypeOK, Commands
    <2>6. QED
      BY <2>1, <2>2, <2>3, <2>4, <2>5 DEF Next, vars, DaemonMoves
  <1>3. QED
    BY <1>1, <1>2, Invariance, PTL DEF Spec

\* A requirement means for the joined fields what it means for the field or
\* the label it names.
LEMMA MeetsIsSatisfies ==
    ASSUME NEW told \in Inventories, NEW n \in Listed(told), NEW labels, NEW r \in Requirements
    PROVE  Satisfies(r, FieldsOf(told[n], labels[n])) <=> Meets(n, r, told, labels)
  <1> DEFINE text == IF r.key \in Reserved THEN told[n][r.key] ELSE labels[n][r.key]
  <1>1. FieldsOf(told[n], labels[n])[r.key] = text
    BY DEF FieldsOf, Requirements
  <1>2. r.operator \in {"=", "!=", "exists", "not-exists"}
    BY DEF Requirements
  <1> HIDE DEF text
  <1>3. Satisfies(r, FieldsOf(told[n], labels[n]))
          <=> \/ r.operator = "=" /\ text = r.value
              \/ r.operator = "!=" /\ text # r.value
              \/ r.operator = "exists" /\ text # Nil
              \/ r.operator = "not-exists" /\ text = Nil
    BY <1>1 DEF Satisfies
  <1>4. Meets(n, r, told, labels)
          <=> CASE r.operator = "="          -> text = r.value
                [] r.operator = "!="         -> text # r.value
                [] r.operator = "exists"     -> text # Nil
                [] r.operator = "not-exists" -> text = Nil
    BY DEF Meets, text
  <1>5. QED
    BY <1>2, <1>3, <1>4

\* One list of requirements joined from selector and view chooses what the
\* names, the selector and the view choose in common.
LEMMA ResolveIsIntersection ==
    ASSUME NEW q \in Queries, NEW told \in Inventories, NEW store \in Stores,
           ~QueryRefused(q, told, store)
    PROVE  resolveObservationNames(q, told, store) = Intersection(q, told, store)
  <1> DEFINE view == IF q.view = Nil THEN {} ELSE store.views[q.view]
             met(n, sel) == \A r \in sel : Meets(n, r, told, store.labels)
  <1>1. q.selector \subseteq Requirements
    BY StoreAssumption DEF Queries
  <1>2. view \subseteq Requirements
    <2>1. CASE q.view = Nil
      BY <2>1
    <2>2. CASE q.view # Nil
      <3>1. q.view \in Views
        BY <2>2 DEF Queries
      <3>2. store.views[q.view] \in Selectors
        BY <2>2, <3>1 DEF QueryRefused, Stores
      <3>3. QED
        BY <2>2, <3>2, StoreAssumption
    <2>3. QED
      BY <2>1, <2>2
  <1>3. q.names \subseteq Listed(told)
    BY DEF QueryRefused
  <1>4. ASSUME NEW n \in Listed(told)
        PROVE  Matches(q.selector \cup view, FieldsOf(told[n], store.labels[n]))
                 <=> met(n, q.selector) /\ met(n, view)
    <2>1. \A r \in q.selector \cup view :
             Satisfies(r, FieldsOf(told[n], store.labels[n])) <=> Meets(n, r, told, store.labels)
      BY <1>1, <1>2, MeetsIsSatisfies
    <2>2. QED
      BY <2>1 DEF Matches
  <1>5. \A n : met(n, view) <=> (q.view # Nil => met(n, store.views[q.view]))
    OBVIOUS
  <1> DEFINE selected == IF q.names = {} THEN Listed(told) ELSE q.names
  <1>6. resolveObservationNames(q, told, store)
          = selected \cap {n \in Listed(told) :
               Matches(q.selector \cup view, FieldsOf(told[n], store.labels[n]))}
    BY DEF resolveObservationNames, Resolve
  <1>7. Intersection(q, told, store)
          = {n \in Listed(told) : /\ q.names # {} => n \in q.names
                                  /\ met(n, q.selector)
                                  /\ q.view # Nil => met(n, store.views[q.view])}
    BY DEF Intersection
  <1> HIDE DEF met, view
  <1>8. QED
    BY <1>3, <1>4, <1>5, <1>6, <1>7

\* observe.go 153-216: a query that is answered names exactly the angls in the
\* intersection of its names, its selectors and its view, live fields before
\* labels, on the catalog it read, for every query and every catalog.
THEOREM QueryIsIntersectionHolds == Spec => QueryIsIntersection
  <1> DEFINE Answered(c) ==
        At(c, "read") /\ run'[c].at = "answer" =>
          \E store \in {disk} \cup (IF run[c].query.tolerant THEN {Empty} ELSE {}) :
             run'[c].names = Intersection(run[c].query, run[c].seen, store)
  <1>1. IInv /\ Asking /\ [Next]_vars => \A c \in Clients : Answered(c)
    <2> SUFFICES ASSUME IInv, Asking, [Next]_vars, NEW c \in Clients,
                        At(c, "read"), run'[c].at = "answer"
                 PROVE  Answered(c)
      OBVIOUS
    <2> DEFINE q == run[c].query  seen == run[c].seen
    <2>1. Read(c)
      <3>1. run \in [Clients -> Commands] /\ run[c].at = "read"
        BY DEF IInv, TypeOK, At
      <3>2. PICK d \in Clients :
               \/ \E u \in Asked : AskUpdate(d, u)
               \/ \E f \in Queried : AskQuery(d, f)
               \/ Continue(d) \/ Kill(d)
        BY <3>1 DEF Next, vars, DaemonMoves
      <3>3. d = c
        BY <3>1, <3>2 DEF AskUpdate, AskQuery, Continue, Status, FailEarly, Lock, Load, Replace,
               FailLocked, Unlock, List, Read, Answer, QueryReturns, Kill, Return, Become, GoTo
      <3>4. Read(c) \/ Return(c)
        BY <3>1, <3>2, <3>3 DEF AskUpdate, AskQuery, Continue, Status, FailEarly, Lock, Load,
               Replace, FailLocked, Unlock, List, QueryReturns, Kill, At
      <3>5. QED
        BY <3>1, <3>4 DEF Return, Become, NoCommand
    <2>2. q \in Queries /\ seen \in Inventories
      BY CatalogAssumption DEF Asking, At
    <2>3. PICK store \in {disk} \cup (IF q.tolerant THEN {Empty} ELSE {}) : Answer(c, store)
      BY <2>1 DEF Read
    <2>4. store \in Stores
      BY DEF IInv, TypeOK, Stores, Empty, NoLabels, Labels
    <2>5. /\ ~QueryRefused(q, seen, store)
          /\ run'[c].names = resolveObservationNames(q, seen, store)
      <3>1. run \in [Clients -> Commands]
        BY DEF IInv, TypeOK
      <3>2. CASE QueryRefused(q, seen, store)
        <4>1. run' = [run EXCEPT ![c] = NoCommand]
          BY <2>3, <3>2 DEF Answer, Return, Become
        <4>2. QED
          BY <3>1, <4>1 DEF NoCommand
      <3>3. CASE ~QueryRefused(q, seen, store)
        <4> DEFINE ns == resolveObservationNames(q, seen, store)
        <4>1. run' = [run EXCEPT ![c] = [NoCommand EXCEPT !.at = "answer", !.names = ns]]
          BY <2>3, <3>3 DEF Answer, Become
        <4> HIDE DEF ns
        <4>2. run'[c].names = ns
          BY <3>1, <4>1 DEF NoCommand
        <4>3. QED
          BY <3>3, <4>2 DEF ns
      <3>4. QED
        BY <3>2, <3>3
    <2>6. run'[c].names = Intersection(q, seen, store)
      BY <2>2, <2>4, <2>5, ResolveIsIntersection
    <2>7. QED
      BY <2>6
  <1>2. QED
    BY <1>1, Invariance, AskingHolds, PTL DEF Spec, QueryIsIntersection

-----------------------------------------------------------------------------
(* The refinement.                                                         *)

\* The abstract catalog's operators are those of the concrete one.
LEMMA SameData ==
    /\ Atomic!Stores = Stores /\ Atomic!Updates = Updates
    /\ Atomic!Idle = CallOf(NoCommand)
    /\ \A s, u : Atomic!Effect(s, u) = Effect(s, u) /\ Atomic!Refused(s, u) = Refused(s, u)
  BY DEF Stores, Updates, Effect, Refused, Labels, Annotate, RemoveLabels, SaveView, DeleteView,
         Atomic!Stores, Atomic!Updates, Atomic!Effect, Atomic!Refused, Atomic!Labels,
         Atomic!Annotate, Atomic!RemoveLabels, Atomic!SaveView, Atomic!DeleteView,
         Atomic!Idle, CallOf, NoCommand

\* A step of one command is a step of its call.
LEMMA OneCall ==
    ASSUME IInv, NEW c \in Clients, NEW r, run' = [run EXCEPT ![c] = r]
    PROVE  calls' = [calls EXCEPT ![c] = CallOf(r)] /\ calls[c] = CallOf(run[c])
  BY DEF calls, IInv, TypeOK

\* Steps that neither start nor finish an update leave its call as it is.
LEMMA SameCall ==
    ASSUME IInv, NEW c \in Clients, NEW r, run' = [run EXCEPT ![c] = r],
           CallOf(r) = CallOf(run[c]), UNCHANGED disk
    PROVE  UNCHANGED Atomic!atomicVars
  BY OneCall DEF Atomic!atomicVars, calls

\* A command that returns or is killed.
LEMMA ReturnCall ==
    ASSUME IInv, NEW c \in Clients, Return(c), UNCHANGED disk
    PROVE  Atomic!Return(c)
  BY OneCall, SameData DEF Return, Become, Atomic!Return

\* Every step of the commands is a step of the abstract catalog, or none.
LEMMA StepRefines == IInv /\ [Next]_vars => [Atomic!Next]_(Atomic!atomicVars)
  <1> SUFFICES ASSUME IInv, [Next]_vars PROVE [Atomic!Next]_(Atomic!atomicVars)
    OBVIOUS
  <1>0. \A c \in Clients : run[c] \in Commands /\ Locked(c)
    BY DEF IInv, TypeOK
  <1>1. ASSUME NEW c \in Clients, NEW u \in Asked, AskUpdate(c, u)
        PROVE  Atomic!Call(c, u) /\ u \in Atomic!Updates
    <2> DEFINE r == [NoCommand EXCEPT !.at = IF u.op \in {"set", "unset"} THEN "status" ELSE "lock",
                                      !.update = u]
    <2>1. CallOf(r) = [update |-> u, result |-> "pending"]
      BY CatalogAssumption DEF CallOf, NoCommand
    <2>2. run' = [run EXCEPT ![c] = r] /\ UNCHANGED disk /\ run[c] = NoCommand
      BY <1>0, <1>1 DEF AskUpdate, Become, Locked
    <2> HIDE DEF r
    <2>3. calls[c] = Atomic!Idle
          /\ calls' = [calls EXCEPT ![c] = [update |-> u, result |-> "pending"]]
      BY <2>1, <2>2, OneCall, SameData
    <2>4. QED
      BY <2>2, <2>3, SameData, CatalogAssumption DEF Atomic!Call
  <1>2. ASSUME NEW c \in Clients, NEW r, run' = [run EXCEPT ![c] = r], UNCHANGED disk,
               Locked(c), r.update = run[c].update, At(c, "unlock") <=> r.at = "unlock",
               r.ok = run[c].ok
        PROVE  UNCHANGED Atomic!atomicVars
    BY <1>2, SameCall DEF CallOf, At
  <1>3. ASSUME NEW c \in Clients, Status(c) \/ Lock(c) \/ List(c)
        PROVE  UNCHANGED Atomic!atomicVars
    <2>1. CASE Status(c)
      BY <1>0, <1>2, <2>1 DEF Status, GoTo, At, Commands
    <2>2. CASE Lock(c)
      BY <1>0, <1>2, <2>2 DEF Lock, GoTo, At, Commands
    <2>3. CASE List(c)
      BY <1>0, <1>2, <2>3 DEF List, At, Commands
    <2>4. QED
      BY <1>3, <2>1, <2>2, <2>3
  <1>4. ASSUME NEW c \in Clients, NEW s, At(c, "load") \/ At(c, "replace"), UNCHANGED disk,
               run' = [run EXCEPT ![c] = [run[c] EXCEPT !.at = "unlock", !.store = s]]
        PROVE  Atomic!Fail(c)
    <2>1. run[c].update # Nil /\ run[c].ok = FALSE
      BY <1>0, <1>4 DEF Locked, Holds, At, Commands
    <2> DEFINE r == [run[c] EXCEPT !.at = "unlock", !.store = s]
               pending == [update |-> run[c].update, result |-> "pending"]
               failed == [update |-> run[c].update, result |-> "failed"]
    <2>2. CallOf(run[c]) = pending /\ CallOf(r) = failed
      BY <1>0, <1>4, <2>1 DEF CallOf, At, Commands
    <2>3. pending.result = "pending" /\ [pending EXCEPT !.result = "failed"] = failed
      OBVIOUS
    <2>4. run' = [run EXCEPT ![c] = r]
      BY <1>4
    <2> HIDE DEF r, pending, failed
    <2>5. calls' = [calls EXCEPT ![c] = failed] /\ calls[c] = pending
      BY <2>2, <2>4, OneCall
    <2>6. QED
      BY <1>4, <2>3, <2>5 DEF Atomic!Fail
  <1>5. ASSUME NEW c \in Clients, Load(c)
        PROVE  Atomic!Fail(c) \/ UNCHANGED Atomic!atomicVars
    <2>1. CASE Refused(disk, run[c].update)
      <3>1. run' = [run EXCEPT ![c] = [run[c] EXCEPT !.at = "unlock", !.store = run[c].store]]
        BY <1>0, <1>5, <2>1 DEF Load, Commands
      <3>2. QED
        BY <1>4, <1>5, <3>1 DEF Load
    <2>2. CASE ~Refused(disk, run[c].update)
      BY <1>0, <1>2, <1>5, <2>2 DEF Load, At, Commands
    <2>3. QED
      BY <2>1, <2>2
  <1>6. ASSUME NEW c \in Clients, FailLocked(c) PROVE Atomic!Fail(c)
    BY <1>0, <1>4, <1>6 DEF FailLocked, At, Commands
  <1>7. ASSUME NEW c \in Clients, Replace(c) PROVE Atomic!Commit(c)
    <2> DEFINE u == run[c].update
               r == [run[c] EXCEPT !.at = "unlock", !.ok = TRUE, !.store = Nil]
               pending == [update |-> u, result |-> "pending"]
               ok == [update |-> u, result |-> "ok"]
    <2>1. At(c, "replace") /\ u # Nil /\ ~Refused(disk, u) /\ disk' = Effect(disk, u)
          /\ run' = [run EXCEPT ![c] = r]
      BY <1>0, <1>7 DEF Replace, Locked, Holds, At, Commands
    <2>2. CallOf(run[c]) = pending /\ CallOf(r) = ok
      BY <1>0, <2>1 DEF CallOf, At, Commands
    <2>3. pending.result = "pending" /\ pending.update = u /\ [pending EXCEPT !.result = "ok"] = ok
      OBVIOUS
    <2> HIDE DEF u, r, pending, ok
    <2>4. calls' = [calls EXCEPT ![c] = ok] /\ calls[c] = pending
      BY <2>1, <2>2, OneCall
    <2>5. QED
      BY <2>1, <2>3, <2>4, SameData DEF Atomic!Commit
  <1>8. ASSUME NEW c \in Clients, FailEarly(c) \/ Unlock(c) \/ QueryReturns(c) \/ Kill(c)
        PROVE  Atomic!Return(c)
    BY <1>8, ReturnCall DEF FailEarly, Unlock, QueryReturns, Kill
  <1>9. ASSUME NEW c \in Clients, NEW q \in Queried, AskQuery(c, q)
        PROVE  UNCHANGED Atomic!atomicVars
    BY <1>0, <1>9, SameCall DEF AskQuery, Become, Locked, NoCommand, CallOf
  <1>10. ASSUME NEW c \in Clients, Read(c)
         PROVE  Atomic!Return(c) \/ UNCHANGED Atomic!atomicVars
    <2>1. run[c].update = Nil /\ UNCHANGED disk
      BY <1>0, <1>10 DEF Read, Locked, Holds, At
    <2>2. PICK s : Answer(c, s)
      BY <1>10 DEF Read
    <2>3. CASE Return(c)
      BY <2>1, <2>3, ReturnCall
    <2>4. CASE ~Return(c)
      BY <2>1, <2>2, <2>4, SameCall DEF Answer, Become, NoCommand, CallOf
    <2>5. QED
      BY <2>3, <2>4
  <1>11. ASSUME NEW n \in Names, DaemonMoves(n) PROVE UNCHANGED Atomic!atomicVars
    BY <1>11 DEF DaemonMoves, Atomic!atomicVars, calls
  <1>12. CASE UNCHANGED vars
    BY <1>12 DEF vars, Atomic!atomicVars, calls
  <1>13. QED
    BY <1>1, <1>3, <1>5, <1>6, <1>7, <1>8, <1>9, <1>10, <1>11, <1>12 DEF Next, Continue, Atomic!Next

\* catalog.go 293-316: to the commands, an update happens at one moment, on the
\* catalog as it is then, and its answer is true.
THEOREM Refinement == Spec => ImplementsAtomicCatalog
  <1>1. Init => Atomic!Init
    BY EmptyType, SameData DEF Init, Atomic!Init, calls
  <1>2. QED
    BY <1>1, StepRefines, Invariance, PTL DEF Spec, ImplementsAtomicCatalog, Atomic!Spec
=============================================================================
