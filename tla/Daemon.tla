------------------------------- MODULE Daemon -------------------------------
(***************************************************************************)
(* daemon/daemon.go: the registry of angls and the requests of concurrent  *)
(* clients on it.  d.mu (a readers-writer lock) guards d.config and        *)
(* d.processes; config.json is the disk.  Enable and Disable keep the      *)
(* Process they looked up after they release d.mu; Stop, Delete and Reload *)
(* wait for a child to end while they hold it.                             *)
(*                                                                         *)
(* A request that blocks is several actions, its locals in req[c]; what    *)
(* runs under one lock without blocking is one action.  Requests that are  *)
(* refused ("unknown angl", "already exists") change nothing and are no    *)
(* steps.                                                                  *)
(***************************************************************************)
EXTENDS Process, FiniteSets

CONSTANTS
    Names,       \* angl names
    Clients,     \* RPC goroutines
    Commands,    \* what a definition can differ in, beside enabled
    Nil,         \* no object, no definition, no client
    Ops,         \* the requests the clients make
    Alone,       \* bound on concurrency: requests made only when no other runs
    FailingSaves,\* the requests whose SaveConfig can return an error
    UserEdits    \* whether the user edits config.json

Defs == [enabled : BOOLEAN, cmd : Commands]

ASSUME DaemonAssumption ==
    /\ Ops \subseteq {"exec", "stop", "enable", "disable", "register", "delete", "reload"}
    /\ Alone \subseteq Ops
    /\ FailingSaves \subseteq Ops
    /\ UserEdits \in BOOLEAN
    /\ Nil \notin Procs \cup Clients \cup Defs

VARIABLES
    config,    \* d.config.Angls
    disk,      \* config.json
    processes, \* d.processes
    writer,    \* who holds d.mu.Lock
    readers,   \* who holds d.mu.RLock
    req,       \* the request each client is in
    dirty      \* history: the user edited config.json, nothing read or replaced it since

daemonVars == <<config, disk, processes, writer, readers, req, dirty>>
vars == <<processVars, daemonVars>>

Configs == [Names -> Defs \cup {Nil}]

NoRequest == [op |-> "none", at |-> "idle", name |-> Nil, proc |-> Nil,
              handle |-> 0, cfg |-> Nil, todo |-> {}]
Requests ==
    [op : {"none", "boot", "stop", "enable", "disable", "delete", "reload"},
     at : {"idle", "write", "start", "capture", "cancel", "await", "locking",
           "reload", "new"},
     name : Names \cup {Nil}, proc : Procs \cup {Nil}, handle : 0 .. MaxGen,
     cfg : Configs \cup {Nil}, todo : SUBSET Names]

TypeOK ==
    /\ ProcessTypeOK
    /\ config \in Configs /\ disk \in Configs
    /\ processes \in [Names -> Procs \cup {Nil}]
    /\ writer \in Clients \cup {Nil}
    /\ readers \subseteq Clients
    /\ req \in [Clients -> Requests]
    /\ dirty \in BOOLEAN

\* Run holds the lock and creates every configured angl, as Reload adds them.
Boot == [NoRequest EXCEPT !.op = "boot", !.at = "reload", !.cfg = disk, !.todo = Names]

Init ==
    /\ NewProcesses
    /\ enabled = [p \in Procs |-> FALSE]
    /\ disk \in Configs
    /\ config = disk
    /\ processes = [n \in Names |-> Nil]
    /\ readers = {}
    /\ writer \in Clients
    /\ req = [c \in Clients |-> IF c = writer THEN Boot ELSE NoRequest]
    /\ dirty = FALSE

-----------------------------------------------------------------------------
(* Locks and the bounds on what clients ask for.                           *)

Idle(c) == req[c].at = "idle"
Quiet == \A c \in Clients : Idle(c)

\* The operator's discipline, a bound: a request in Alone overlaps no other.
MayBegin(c, op) ==
    /\ op \in Ops /\ Idle(c)
    /\ \A d \in Clients : req[d].op \notin Alone
    /\ op \in Alone => Quiet

CanRLock == writer = Nil
CanLock == writer = Nil /\ readers = {}

\* Objects nothing refers to any more, free to be allocated again.
Free ==
    {p \in Procs :
        /\ \A n \in Names : processes[n] # p
        /\ \A c \in Clients : req[c].proc # p
        /\ \A g \in Gens : pc[p][g] \in {"idle", "ended"} /\ ~alive[p][g]}

\* Bounds: a start or an allocation is asked for only when there is room for
\* it after those already under way.
Room(p) ==
    gen[p] + Cardinality({c \in Clients : req[c].op = "enable" /\ req[c].proc = p}) < MaxGen
RoomToAllocate(k) ==
    k + Cardinality({c \in Clients : req[c].op \in {"reload", "boot"}}) * Cardinality(Names)
        <= Cardinality(Free)

Become(c, r) == req' = [req EXCEPT ![c] = r]
GoTo(c, l) == Become(c, [req[c] EXCEPT !.at = l])
Return(c) == Become(c, NoRequest)

\* NewProcess(name, def): a cell with no past.
New(p, e) ==
    /\ state' = [state EXCEPT ![p] = NewState(e)]
    /\ enabled' = [enabled EXCEPT ![p] = e]
    /\ restarts' = [restarts EXCEPT ![p] = 0]
    /\ gen' = [gen EXCEPT ![p] = 0]
    /\ pc' = [pc EXCEPT ![p] = [g \in Gens |-> "idle"]]
    /\ cancelled' = [cancelled EXCEPT ![p] = [g \in Gens |-> FALSE]]
    /\ UNCHANGED <<pid, handle, wake, backoff, retry, woken, alive, parentDone>>

\* SaveConfig(d.config): the disk is replaced, or an error leaves it alone.
Save(cfg) == disk' = cfg /\ dirty' = FALSE
SaveFails(op) == op \in FailingSaves /\ UNCHANGED <<disk, dirty>>

-----------------------------------------------------------------------------
(* exec and stop: under RLock.                                             *)

ExecAngl(c, n) ==
    /\ MayBegin(c, "exec")
    /\ CanRLock
    /\ processes[n] # Nil
    /\ Room(processes[n])
    /\ Exec(processes[n])
    /\ UNCHANGED daemonVars

\* StopRunning captures; RLock is kept until the child has ended.
StopAngl(c, n) ==
    /\ MayBegin(c, "stop")
    /\ CanRLock
    /\ processes[n] # Nil
    /\ LET p == processes[n] IN
       /\ state[p] = "running"
       /\ Become(c, [NoRequest EXCEPT !.op = "stop", !.at = "cancel", !.proc = p,
                                      !.handle = handle[p]])
    /\ readers' = readers \cup {c}
    /\ UNCHANGED <<processVars, config, disk, processes, writer, dirty>>

StopAnglReturn(c) ==
    /\ req[c].op = "stop" /\ req[c].at = "await"
    /\ DoneClosed(req[c].proc, req[c].handle)
    /\ readers' = readers \ {c}
    /\ Return(c)
    /\ UNCHANGED <<processVars, config, disk, processes, writer, dirty>>

-----------------------------------------------------------------------------
(* Process.Stop as the other requests call it.                             *)

StopCapture(c) ==
    /\ req[c].at = "capture"
    /\ Become(c, [req[c] EXCEPT !.at = "cancel", !.handle = handle[req[c].proc]])
    /\ UNCHANGED <<processVars, config, disk, processes, writer, readers, dirty>>

StopCancel(c) ==
    /\ req[c].at = "cancel"
    /\ Cancel(req[c].proc, req[c].handle)
    /\ GoTo(c, "await")
    /\ UNCHANGED <<config, disk, processes, writer, readers, dirty>>

\* Mutant of Stopped: done is not waited for.
Stopped_NoWait(c) == req[c].at = "await"

Stopped(c) == req[c].at = "await" /\ DoneClosed(req[c].proc, req[c].handle)

-----------------------------------------------------------------------------
(* enable and disable: the definition under Lock, the object after it.     *)

\* The locked part of both; an error of SaveConfig leaves d.config changed.
SetEnabled(c, n, op, e, next) ==
    /\ MayBegin(c, op)
    /\ CanLock
    /\ config[n] # Nil
    /\ config' = [config EXCEPT ![n].enabled = e]
    /\ \/ /\ SaveFails(op)
          /\ UNCHANGED req
       \/ /\ Save(config')
          /\ Become(c, IF processes[n] = Nil THEN NoRequest
                       ELSE [NoRequest EXCEPT !.op = op, !.at = next, !.name = n,
                                              !.proc = processes[n]])
    /\ UNCHANGED <<processVars, processes, writer, readers>>

Enable(c, n) ==
    /\ processes[n] # Nil => Room(processes[n])
    /\ SetEnabled(c, n, "enable", TRUE, "write")

\* Mutant of Disable: the angl is marked disabled without being stopped.
Disable_NoStop(c, n) == SetEnabled(c, n, "disable", FALSE, "await")

Disable(c, n) == SetEnabled(c, n, "disable", FALSE, "capture")

\* Mutant of EnableWrite: the object keeps its old definition.
EnableWrite_Forgotten(c) ==
    /\ req[c].at = "write"
    /\ GoTo(c, "start")
    /\ UNCHANGED <<processVars, config, disk, processes, writer, readers, dirty>>

\* p.def = def, under p.mu.
EnableWrite(c) ==
    /\ req[c].at = "write"
    /\ enabled' = [enabled EXCEPT ![req[c].proc] = TRUE]
    /\ GoTo(c, "start")
    /\ UNCHANGED <<state, pid, restarts, gen, handle, wake, loopVars, parentDone,
                   config, disk, processes, writer, readers, dirty>>

\* p.Start: nothing if the angl is active.
EnableStart(c) ==
    /\ req[c].op = "enable" /\ req[c].at = "start"
    /\ \/ Start(req[c].proc)
       \/ state[req[c].proc] \in Active /\ UNCHANGED processVars
    /\ Return(c)
    /\ UNCHANGED <<config, disk, processes, writer, readers, dirty>>

\* The tail of Disable: the state is written without looking at what it is.
DisableFinish(c) ==
    /\ req[c].op = "disable"
    /\ Stopped(c)
    /\ enabled' = [enabled EXCEPT ![req[c].proc] = FALSE]
    /\ state' = [state EXCEPT ![req[c].proc] = "disabled"]
    /\ Return(c)
    /\ UNCHANGED <<pid, restarts, gen, handle, wake, loopVars, parentDone,
                   config, disk, processes, writer, readers, dirty>>

-----------------------------------------------------------------------------
(* register and delete: under Lock, undone when SaveConfig fails.          *)

Register(c, n) ==
    /\ MayBegin(c, "register")
    /\ CanLock
    /\ config[n] = Nil
    /\ RoomToAllocate(1)
    /\ \E p \in Free, m \in Commands :
          /\ New(p, FALSE)
          /\ processes' = [processes EXCEPT ![n] = p]
          /\ config' = [config EXCEPT ![n] = [enabled |-> FALSE, cmd |-> m]]
    /\ Save(config')
    /\ UNCHANGED <<writer, readers, req>>

\* Mutant of SaveFailed: d.config keeps the deletion that was not saved.
SaveFailed_Kept(c, n, op) ==
    /\ MayBegin(c, op)
    /\ CanLock
    /\ op = "delete" /\ config[n] # Nil
    /\ SaveFails(op)
    /\ config' = [config EXCEPT ![n] = Nil]
    /\ UNCHANGED <<processVars, processes, writer, readers, req>>

\* The error path of Register and Delete: what is left once it is undone.
SaveFailed(c, n, op) ==
    /\ MayBegin(c, op)
    /\ CanLock
    /\ (op = "register" /\ config[n] = Nil) \/ (op = "delete" /\ config[n] # Nil)
    /\ SaveFails(op)
    /\ UNCHANGED <<processVars, config, processes, writer, readers, req>>

Delete(c, n) ==
    /\ MayBegin(c, "delete")
    /\ CanLock
    /\ config[n] # Nil
    /\ config' = [config EXCEPT ![n] = Nil]
    /\ Save(config')
    /\ IF processes[n] = Nil
       THEN UNCHANGED <<writer, req>>
       ELSE /\ writer' = c
            /\ Become(c, [NoRequest EXCEPT !.op = "delete", !.at = "capture",
                                           !.name = n, !.proc = processes[n]])
    /\ UNCHANGED <<processVars, processes, readers>>

\* Mutant of DeleteFinish: the lock is not released.
DeleteFinish_KeepLock(c) ==
    /\ req[c].op = "delete"
    /\ Stopped(c)
    /\ processes' = [processes EXCEPT ![req[c].name] = Nil]
    /\ Return(c)
    /\ UNCHANGED <<processVars, config, disk, writer, readers, dirty>>

DeleteFinish(c) ==
    /\ req[c].op = "delete"
    /\ Stopped(c)
    /\ processes' = [processes EXCEPT ![req[c].name] = Nil]
    /\ writer' = Nil
    /\ Return(c)
    /\ UNCHANGED <<processVars, config, disk, readers, dirty>>

-----------------------------------------------------------------------------
(* reload: config.json is read before the lock is taken.                   *)

Reload(c) ==
    /\ MayBegin(c, "reload")
    /\ RoomToAllocate(Cardinality(Names))
    /\ Become(c, [NoRequest EXCEPT !.op = "reload", !.at = "locking", !.cfg = disk])
    /\ UNCHANGED <<processVars, config, disk, processes, writer, readers, dirty>>

ReloadLock(c) ==
    /\ req[c].at = "locking"
    /\ CanLock
    /\ writer' = c
    /\ Become(c, [req[c] EXCEPT !.at = "reload", !.todo = Names])
    /\ UNCHANGED <<processVars, config, disk, processes, readers, dirty>>

Removed(c) == {n \in req[c].todo : req[c].cfg[n] = Nil /\ processes[n] # Nil}
Visit(c, n, l) == Become(c, [req[c] EXCEPT !.name = n, !.at = l, !.proc = processes[n],
                                           !.todo = @ \ {n}])

\* Angls that left the file are stopped and dropped, before anything else;
\* those whose definition differs from d.config are stopped and replaced.
ReloadStop(c, n) ==
    /\ req[c].at = "reload" /\ n \in req[c].todo
    /\ processes[n] # Nil
    /\ \/ n \in Removed(c)
       \/ Removed(c) = {} /\ req[c].cfg[n] # config[n]
    /\ Visit(c, n, "capture")
    /\ UNCHANGED <<processVars, config, disk, processes, writer, readers, dirty>>

ReloadAdd(c, n) ==
    /\ req[c].at = "reload" /\ n \in req[c].todo
    /\ Removed(c) = {} /\ processes[n] = Nil /\ req[c].cfg[n] # Nil
    /\ Visit(c, n, "new")
    /\ UNCHANGED <<processVars, config, disk, processes, writer, readers, dirty>>

ReloadStopped(c) ==
    /\ req[c].op = "reload"
    /\ Stopped(c)
    /\ LET n == req[c].name IN
       \/ /\ req[c].cfg[n] = Nil
          /\ processes' = [processes EXCEPT ![n] = Nil]
          /\ Become(c, [req[c] EXCEPT !.at = "reload", !.proc = Nil, !.handle = 0])
       \/ /\ req[c].cfg[n] # Nil
          /\ Become(c, [req[c] EXCEPT !.at = "new", !.handle = 0])
          /\ UNCHANGED processes
    /\ UNCHANGED <<processVars, config, disk, writer, readers, dirty>>

ReloadNew(c) ==
    /\ req[c].at = "new"
    /\ LET n == req[c].name
           e == req[c].cfg[n].enabled
       IN \E p \in Free :
             /\ New(p, e)
             /\ processes' = [processes EXCEPT ![n] = p]
             /\ Become(c, [req[c] EXCEPT !.at = IF e THEN "start" ELSE "reload",
                                         !.proc = p])
    /\ UNCHANGED <<config, disk, writer, readers, dirty>>

ReloadStart(c) ==
    /\ req[c].op \in {"reload", "boot"} /\ req[c].at = "start"
    /\ Start(req[c].proc)
    /\ GoTo(c, "reload")
    /\ UNCHANGED <<config, disk, processes, writer, readers, dirty>>

\* All that is left in todo is unchanged.
ReloadFinish(c) ==
    /\ req[c].at = "reload"
    /\ \A n \in req[c].todo :
          req[c].cfg[n] = (IF processes[n] = Nil THEN Nil ELSE config[n])
    /\ config' = req[c].cfg
    /\ writer' = Nil
    /\ dirty' = (dirty /\ disk # req[c].cfg)
    /\ Return(c)
    /\ UNCHANGED <<processVars, disk, processes, readers>>

-----------------------------------------------------------------------------
\* The user's editor.
EditConfig(n) ==
    /\ UserEdits
    /\ \E d \in Defs \cup {Nil} : disk' = [disk EXCEPT ![n] = d]
    /\ dirty' = TRUE
    /\ UNCHANGED <<processVars, config, processes, writer, readers, req>>

Loop(p, g) == runLoop(p, g) /\ UNCHANGED daemonVars

Request(c, n) ==
    \/ ExecAngl(c, n) \/ StopAngl(c, n) \/ Enable(c, n) \/ Disable(c, n)
    \/ Register(c, n) \/ Delete(c, n)
    \/ \E op \in {"register", "delete"} : SaveFailed(c, n, op)

Continue(c) ==
    \/ StopAnglReturn(c) \/ StopCapture(c) \/ StopCancel(c)
    \/ EnableWrite(c) \/ EnableStart(c) \/ DisableFinish(c) \/ DeleteFinish(c)
    \/ ReloadLock(c) \/ ReloadStopped(c) \/ ReloadNew(c) \/ ReloadStart(c)
    \/ ReloadFinish(c)
    \/ \E n \in Names : ReloadStop(c, n) \/ ReloadAdd(c, n)

Next ==
    \/ \E c \in Clients, n \in Names : Request(c, n)
    \/ \E c \in Clients : Reload(c) \/ Continue(c)
    \/ \E n \in Names : EditConfig(n)
    \/ \E p \in Procs, g \in Gens : Loop(p, g)

Spec == Init /\ [][Next]_vars

(***************************************************************************)
(* Fairness: goroutines that can run do, the lock is granted in the end (a *)
(* waiting writer keeps new readers of a sync.RWMutex out, so it need not  *)
(* be free all the time).  No client has to ask, no child has to exit by   *)
(* itself, no timer has to be short.                                       *)
(***************************************************************************)
Fairness ==
    /\ \A p \in Procs, g \in Gens : WF_vars(Scheduled(p, g) /\ UNCHANGED daemonVars)
    /\ \A c \in Clients : WF_vars(Continue(c)) /\ SF_vars(ReloadLock(c))

FairSpec == Spec /\ Fairness

-----------------------------------------------------------------------------
(* Properties.                                                             *)

Managed == {processes[n] : n \in Names} \ {Nil}

(* The invariant behind the properties below, and the disciplines of the
   clients that they need: each property names its own. *)

\* Nothing overlaps a disable, whose tail writes the state it did not look at.
DisableAlone == Ops \cap {"disable"} \subseteq Alone

\* Nor an enable, which starts the object it looked up before.
IntentsAlone == Ops \cap {"enable", "disable"} \subseteq Alone

\* Nor a reload, which reads the file before it takes the lock.
ReloadAlone == Ops \cap {"reload"} \subseteq Alone

\* Enable and Disable leave d.config changed when SaveConfig fails.
SavesSucceed == FailingSaves \cap {"enable", "disable"} = {}

\* A request under way that changes the registry, or is about to.
Busy(c) == req[c].op \notin {"none", "stop"} /\ req[c].at # "locking"

\* Where a request of each kind can be.
Place(r) ==
    \/ r.op = "none" /\ r.at = "idle"
    \/ r.op = "stop" /\ r.at \in {"cancel", "await"}
    \/ r.op = "enable" /\ r.at \in {"write", "start"}
    \/ r.op \in {"disable", "delete"} /\ r.at \in {"capture", "cancel", "await"}
    \/ r.op = "boot" /\ r.at \in {"reload", "new", "start"}
    \/ r.op = "reload" /\ r.at \in {"locking", "reload", "capture", "cancel", "await", "new", "start"}

\* What a request knows wherever it needs it: an object, an angl, a definition;
\* the angl a reload is at is not one that is left to do.
Known(r) ==
    /\ r.at \in {"write", "start", "capture", "cancel", "await"} => r.proc \in Procs
    /\ r.op \notin {"none", "stop"} /\ r.at \notin {"locking", "reload"} => r.name \in Names
    /\ r.op \in {"boot", "reload"} => r.cfg \in Configs
    /\ r.op \in {"boot", "reload"} /\ r.at \in {"capture", "cancel", "await", "new"} =>
          r.name \notin r.todo
    /\ r.at = "new" => r.cfg[r.name] # Nil

\* The requests that hold d.mu.
Holds(r) == r.op \in {"delete", "boot"} \/ (r.op = "reload" /\ r.at # "locking")

\* Whatever the clients ask for: the writer is the one request that is past its
\* Lock, it keeps out those that hold the lock for reading, every request has at
\* hand what it needs, and the discipline is kept.
Locking ==
    /\ writer # Nil => readers = {}
    /\ \A c \in Clients :
          /\ req[c].op \in Ops \cup {"none", "boot"}
          /\ Place(req[c]) /\ Known(req[c])
          /\ Idle(c) => req[c] = NoRequest
          /\ c \in readers <=> req[c].op = "stop"
          /\ writer = c <=> Holds(req[c])
          /\ req[c].op \in Alone => \A d \in Clients \ {c} : Idle(d)
          /\ req[c].op = "boot" => \A n \in req[c].todo : processes[n] = Nil

\* The object of angl n is there, and means, as definition d says.
Agrees(n, d) ==
    /\ processes[n] = Nil <=> d = Nil
    /\ SavesSucceed /\ d # Nil => enabled[processes[n]] = d.enabled

\* The angls a request has taken apart and not put together again.
Touched(c) ==
    IF req[c].at \in {"write", "capture", "cancel", "await", "new"} THEN {req[c].name} ELSE {}

\* What the object of n has to agree with while c is under way: a boot or a
\* reload has done what is no longer in todo, and a boot begins with no object.
Expected(c, n) ==
    IF req[c].op \notin {"boot", "reload"} THEN config[n]
    ELSE IF n \notin req[c].todo THEN req[c].cfg[n]
    ELSE IF req[c].op = "boot" THEN Nil ELSE config[n]

\* The locals of a request are about the angl as it is.
Locals(c) ==
    LET n == req[c].name
        r == req[c]
    IN /\ r.at \in {"write", "start", "capture", "cancel", "await"} => r.proc = processes[n]
       /\ r.op = "enable" => config[n] # Nil /\ config[n].enabled
       /\ r.op = "disable" => config[n] # Nil /\ ~config[n].enabled
       /\ r.op = "delete" => config[n] = Nil

Agreement ==
    /\ \A n, m \in Names : processes[n] = processes[m] /\ processes[n] # Nil => n = m
    /\ (\A c \in Clients : ~Busy(c)) => \A n \in Names : Agrees(n, config[n])
    /\ \A c \in Clients : Busy(c) =>
          /\ Locals(c)
          /\ \A n \in Names \ Touched(c) : Agrees(n, Expected(c, n))

\* The file is what the daemon works by, or has been edited; a boot or a reload
\* that is under way has read that file.
Durable ==
    /\ ~dirty => disk = config
    /\ \A c \in Clients : req[c].op \in {"boot", "reload"} /\ ~dirty => req[c].cfg = disk

RegistryInv ==
    TypeOK /\ Locking /\ Agreement /\ (ReloadAlone /\ SavesSucceed => Durable)

\* A request that stops an angl knows the handle of its latest generation, and
\* replaces only an object that has come to rest.
Supervised(c) ==
    LET r == req[c] IN
    /\ r.at \in {"cancel", "await"} =>
          r.handle \in {0, gen[r.proc]} /\ (r.handle = 0 => handle[r.proc] = 0)
    /\ r.at = "new" => processes[r.name] = Nil \/ handle[processes[r.name]] = 0

\* Fields and goroutines agree, and what is not in the registry is at rest.
Supervision ==
    /\ \A p \in Procs : LoopInv(p)
    /\ \A p \in Procs \ Managed : handle[p] = 0
    /\ \A c \in Clients : Busy(c) => Supervised(c)

IInv == RegistryInv /\ Supervision

\* Every child that runs belongs to an object that is in d.processes, and to
\* the generation whose handle that object holds: stop, delete, reload and the
\* shutdown reach it, and an angl never has two.
EveryChildIsManaged ==
    \A p \in Procs : \A g \in LiveChildren(p) : p \in Managed /\ handle[p] = g

\* "never creates a second copy of a starting or running angl" (process.go
\* 100-101), now with Enable and Disable writing the fields as well.
SingleCopy ==
    \A p \in Procs : \A g, h \in LiveChildren(p) : g = h

\* When no request is under way, the registry holds an object for exactly the
\* configured angls, and its own definition has the configured intent: the
\* state it will show when it stops is the one that was asked for.
IntentAgrees ==
    Quiet => \A n \in Names :
        /\ processes[n] = Nil <=> config[n] = Nil
        /\ config[n] # Nil => enabled[processes[n]] = config[n].enabled

\* The file holds what the daemon works by, unless the user has edited it since.
ConfigIsDurable == Quiet /\ ~dirty => disk = config

\* A disable that comes back has ended the child, and shows so.
DisableIsComplete ==
    [][\A c \in Clients :
          req[c].op = "disable" /\ req[c].at = "await" /\ req'[c].at = "idle"
             => LiveChildren(req[c].proc) = {} /\ handle[req[c].proc] = 0]_vars

\* "delete removes the definition after stopping any owned process"
\* (README.md 149): once no request is under way, a child that runs belongs
\* to an angl that is still registered.
DeletedAnglIsStopped ==
    Quiet => \A p \in Procs : LiveChildren(p) # {} => p \in Managed

\* Every request returns, whatever the other requests do (given that taskkill
\* works): nobody waits for ever for the lock or for a child that was stopped.
RequestsReturn == \A c \in Clients : ~Idle(c) ~> Idle(c)
=============================================================================
