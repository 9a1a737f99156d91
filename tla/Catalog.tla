------------------------------- MODULE Catalog -------------------------------
(***************************************************************************)
(* catalog.json and the commands that share it.  A command is a process of *)
(* its own: label set and unset ask the daemon whether the angl exists and *)
(* then update the file; view save and delete only update it; query, ls    *)
(* and logs ask the daemon for its list and then read the file.            *)
(*                                                                         *)
(* An update (catalog.Update) locks catalog.json.lock, loads, changes and  *)
(* replaces the file, and unlocks.  Any of its steps can fail, and the     *)
(* process can be killed between any two of them.  processLock keeps apart *)
(* goroutines of one process and has nobody to keep apart here.            *)
(***************************************************************************)
EXTENDS CatalogStore

CONSTANTS
    Clients,  \* commands that run at once
    Asked,    \* the updates they are asked for
    Queried   \* the queries

ASSUME CatalogAssumption ==
    /\ Asked \subseteq Updates /\ Queried \subseteq Queries
    /\ Nil \notin Clients /\ Nil \notin Asked /\ Nil \notin Queried /\ Nil \notin Stores

VARIABLES
    disk,  \* catalog.json
    lock,  \* who has locked catalog.json.lock
    run,   \* the command each client runs
    live,  \* the list of the daemon
    known  \* history: the names the daemon has ever listed

vars == <<disk, lock, run, live, known>>

\* ok: whether the update was saved; store: the catalog it loaded, then what it
\* makes of it; seen, names: what a query is told and what it answers.
NoCommand == [at |-> "idle", update |-> Nil, ok |-> FALSE, store |-> Nil,
              query |-> Nil, seen |-> Nil, names |-> {}]

Commands ==
    [at : {"idle", "status", "lock", "load", "replace", "unlock", "list", "read", "answer"},
     update : Asked \cup {Nil}, ok : BOOLEAN, store : Stores \cup {Nil},
     query : Queried \cup {Nil}, seen : Inventories \cup {Nil},
     names : SUBSET Names]

TypeOK ==
    /\ disk \in Stores
    /\ lock \in Clients \cup {Nil}
    /\ run \in [Clients -> Commands]
    /\ live \in Inventories
    /\ known \subseteq Names

Init ==
    /\ disk = Empty
    /\ lock = Nil
    /\ run = [c \in Clients |-> NoCommand]
    /\ live \in Inventories
    /\ known = Listed(live)

At(c, l) == run[c].at = l
Become(c, r) == run' = [run EXCEPT ![c] = r]
GoTo(c, l) == run' = [run EXCEPT ![c].at = l]
Return(c) == Become(c, NoCommand)

-----------------------------------------------------------------------------
(* Updates.                                                                *)

AskUpdate(c, u) ==
    /\ At(c, "idle")
    /\ Become(c, [NoCommand EXCEPT !.at = IF u.op \in {"set", "unset"} THEN "status" ELSE "lock",
                                   !.update = u])
    /\ UNCHANGED <<disk, lock, live, known>>

\* rpcCallRaw("status"): an error if the daemon does not know the angl.
Status(c) ==
    /\ At(c, "status")
    /\ live[run[c].update.name] # Nil
    /\ GoTo(c, "lock")
    /\ UNCHANGED <<disk, lock, live, known>>

\* The command fails before it has locked anything.
FailEarly(c) ==
    /\ run[c].at \in {"status", "lock"}
    /\ Return(c)
    /\ UNCHANGED <<disk, lock, live, known>>

\* Mutant of Lock: the lock is shared.
Lock_Shared(c) ==
    /\ At(c, "lock")
    /\ lock' = c
    /\ GoTo(c, "load")
    /\ UNCHANGED <<disk, live, known>>

Lock(c) ==
    /\ At(c, "lock")
    /\ lock = Nil
    /\ lock' = c
    /\ GoTo(c, "load")
    /\ UNCHANGED <<disk, live, known>>

\* Load and the update function on what was loaded; it may refuse.
Load(c) ==
    /\ At(c, "load")
    /\ run' = IF Refused(disk, run[c].update)
              THEN [run EXCEPT ![c].at = "unlock"]
              ELSE [run EXCEPT ![c].at = "replace",
                               ![c].store = Effect(disk, run[c].update)]
    /\ UNCHANGED <<disk, lock, live, known>>

\* Save, up to MoveFileEx: what was written aside takes the file's place.
Replace(c) ==
    /\ At(c, "replace")
    /\ disk' = run[c].store
    /\ run' = [run EXCEPT ![c].at = "unlock", ![c].ok = TRUE, ![c].store = Nil]
    /\ UNCHANGED <<lock, live, known>>

\* Load or Save returns an error: the file is as it was.
FailLocked(c) ==
    /\ run[c].at \in {"load", "replace"}
    /\ run' = [run EXCEPT ![c].at = "unlock", ![c].store = Nil]
    /\ UNCHANGED <<disk, lock, live, known>>

\* Mutant of Unlock: the lock is kept when the update failed.
Unlock_OnSuccess(c) ==
    /\ At(c, "unlock")
    /\ lock' = IF run[c].ok THEN Nil ELSE lock
    /\ Return(c)
    /\ UNCHANGED <<disk, live, known>>

\* The deferred unlock, and the answer.
Unlock(c) ==
    /\ At(c, "unlock")
    /\ lock' = Nil
    /\ Return(c)
    /\ UNCHANGED <<disk, live, known>>

-----------------------------------------------------------------------------
(* query, ls and logs.                                                     *)

AskQuery(c, q) ==
    /\ At(c, "idle")
    /\ Become(c, [NoCommand EXCEPT !.at = "list", !.query = q])
    /\ UNCHANGED <<disk, lock, live, known>>

\* observationStatuses.
List(c) ==
    /\ At(c, "list")
    /\ run' = [run EXCEPT ![c].at = "read", ![c].seen = live]
    /\ UNCHANGED <<disk, lock, live, known>>

Answer(c, store) ==
    IF QueryRefused(run[c].query, run[c].seen, store) THEN Return(c)
    ELSE Become(c, [NoCommand EXCEPT !.at = "answer",
            !.names = resolveObservationNames(run[c].query, run[c].seen, store)])

\* catalog.Load without the lock: the file is replaced, never written in place.
Read(c) ==
    /\ At(c, "read")
    /\ \/ Answer(c, disk)
       \/ run[c].query.tolerant /\ Answer(c, Empty)
    /\ UNCHANGED <<disk, lock, live, known>>

\* The answer is printed, or the daemon or the file could not be read.
QueryReturns(c) ==
    /\ run[c].at \in {"list", "read", "answer"}
    /\ Return(c)
    /\ UNCHANGED <<disk, lock, live, known>>

-----------------------------------------------------------------------------
(* The environment.                                                        *)

\* The process ends anywhere; the system releases its lock.
Kill(c) ==
    /\ ~At(c, "idle")
    /\ lock' = IF lock = c THEN Nil ELSE lock
    /\ Return(c)
    /\ UNCHANGED <<disk, live, known>>

\* Angls are registered, deleted, started, stopped.
DaemonMoves(n) ==
    /\ \E i \in [Reserved -> Values] \cup {Nil} : live' = [live EXCEPT ![n] = i]
    /\ known' = known \cup Listed(live')
    /\ UNCHANGED <<disk, lock, run>>

Continue(c) ==
    \/ Status(c) \/ FailEarly(c) \/ Lock(c) \/ Load(c) \/ Replace(c) \/ FailLocked(c)
    \/ Unlock(c) \/ List(c) \/ Read(c) \/ QueryReturns(c)

Next ==
    \/ \E c \in Clients :
          \/ \E u \in Asked : AskUpdate(c, u)
          \/ \E q \in Queried : AskQuery(c, q)
          \/ Continue(c) \/ Kill(c)
    \/ \E n \in Names : DaemonMoves(n)

Spec == Init /\ [][Next]_vars

(***************************************************************************)
(* Fairness: a process goes on; LockFileEx serves those who wait in turn.  *)
(* Failing is not fair, or a command could be counted on to give up.       *)
(***************************************************************************)
Proceed(c) ==
    \/ Load(c) \/ Replace(c) \/ Unlock(c) \/ List(c) \/ Read(c) \/ QueryReturns(c)
    \/ Status(c)
    \/ At(c, "status") /\ live[run[c].update.name] = Nil /\ FailEarly(c)

FairSpec == Spec /\ \A c \in Clients : WF_vars(Proceed(c)) /\ SF_vars(Lock(c))

-----------------------------------------------------------------------------
(* Properties.                                                             *)

Holds(c) == run[c].at \in {"load", "replace", "unlock"}

\* Only angls the daemon has known get labels, however late the update comes.
LabelsAreKnown == \A n \in Names : disk.labels[n] # NoLabels => n \in known

\* The lock is held by exactly the command that is between Load and Save, what
\* that command is about to save is its update of the file as it is now, and
\* an update past its status check is about a known angl.
Locked(c) ==
    /\ Holds(c) <=> lock = c
    /\ (Holds(c) \/ run[c].at \in {"status", "lock"}) <=> run[c].update # Nil
    /\ At(c, "status") => run[c].update.op \in {"set", "unset"}
    /\ (Holds(c) \/ At(c, "lock")) /\ run[c].update.op = "set" => run[c].update.name \in known
    /\ At(c, "replace") =>
          /\ ~Refused(disk, run[c].update)
          /\ run[c].store = Effect(disk, run[c].update)
    /\ run[c].ok => At(c, "unlock")
    /\ At(c, "idle") => run[c] = NoCommand

IInv ==
    /\ TypeOK
    /\ Listed(live) \subseteq known
    /\ LabelsAreKnown
    /\ \A c \in Clients : Locked(c)

\* A view that exists is replaced or removed only by a command that was asked
\* to: a second save without --force never wins a race against the first
\* ("Saving an existing name fails unless --force is supplied").
NoSilentOverwrite ==
    [][\A v \in Views :
          disk.views[v] # Nil /\ disk'.views[v] # disk.views[v] =>
             \E c \in Clients :
                /\ At(c, "replace") /\ run[c].update.op \in {"save", "delete"}
                /\ run[c].update.view = v
                /\ run[c].update.op = "save" => run[c].update.force]_vars

\* "explicit names, repeated selectors, and a saved view are intersected", and
\* each term is about the live field where there is one (the documented rule,
\* stated term by term on what the command read).
Meets(n, r, seen, labels) ==
    LET text == IF r.key \in Reserved THEN seen[n][r.key] ELSE labels[n][r.key]
    IN CASE r.operator = "="          -> text = r.value
         [] r.operator = "!="         -> text # r.value
         [] r.operator = "exists"     -> text # Nil
         [] r.operator = "not-exists" -> text = Nil

Intersection(q, seen, store) ==
    {n \in Listed(seen) :
        /\ q.names # {} => n \in q.names
        /\ \A r \in q.selector : Meets(n, r, seen, store.labels)
        /\ q.view # Nil => \A r \in store.views[q.view] : Meets(n, r, seen, store.labels)}

QueryIsIntersection ==
    [][\A c \in Clients : At(c, "read") /\ run'[c].at = "answer" =>
          \E store \in {disk} \cup (IF run[c].query.tolerant THEN {Empty} ELSE {}) :
             run'[c].names = Intersection(run[c].query, run[c].seen, store)]_vars

\* Every command comes back, whoever was killed or failed before it.
CommandsReturn == \A c \in Clients : ~At(c, "idle") ~> At(c, "idle")

\* The commands' view of the catalog: updates that happen at one moment.
CallOf(r) ==
    IF r.update = Nil THEN [update |-> Nil, result |-> "none"]
    ELSE [update |-> r.update,
          result |-> IF r.at # "unlock" THEN "pending" ELSE IF r.ok THEN "ok" ELSE "failed"]

calls == [c \in Clients |-> CallOf(run[c])]

Atomic == INSTANCE AtomicCatalog WITH catalog <- disk

ImplementsAtomicCatalog == Atomic!Spec
=============================================================================
