---------------------------- MODULE Daemon_proofs ----------------------------
(***************************************************************************)
(* Proofs about Daemon, for any angls, objects, clients and definitions:   *)
(* what d.mu keeps apart whatever the clients ask for, and what it takes   *)
(* of them that an object has one child, that the file holds what the      *)
(* daemon works by, and that registry, objects and definitions agree.      *)
(***************************************************************************)
EXTENDS Daemon, Process_proofs

(***************************************************************************)
(* Records of requests.                                                    *)
(***************************************************************************)

Ats == {"idle", "write", "start", "capture", "cancel", "await", "locking", "reload", "new"}
OpsOf == {"none", "boot", "stop", "enable", "disable", "delete", "reload"}

LEMMA FieldTypes ==
    ASSUME NEW r \in Requests
    PROVE  /\ r.op \in OpsOf /\ r.at \in Ats
           /\ r.name \in Names \cup {Nil} /\ r.proc \in Procs \cup {Nil}
           /\ r.handle \in 0 .. MaxGen
           /\ r.cfg \in Configs \cup {Nil} /\ r.todo \in SUBSET Names
  BY DEF Requests, Ats, OpsOf

LEMMA Writes ==
    ASSUME TypeOK, NEW c \in Clients, NEW r \in Requests, Become(c, r)
    PROVE  /\ req' \in [Clients -> Requests]
           /\ req'[c] = r
           /\ \A d \in Clients \ {c} : req'[d] = req[d]
  BY DEF Become, TypeOK

LEMMA AtSet ==
    ASSUME NEW r \in Requests, NEW a \in Ats, NEW s, s = [r EXCEPT !.at = a]
    PROVE  /\ s \in Requests
           /\ s.op = r.op /\ s.at = a /\ s.name = r.name /\ s.proc = r.proc
           /\ s.handle = r.handle /\ s.cfg = r.cfg /\ s.todo = r.todo
  BY DEF Requests, Ats

LEMMA NoRequestType == NoRequest \in Requests
  BY ZeroType DEF Requests, NoRequest

LEMMA BootType ==
    ASSUME disk \in Configs
    PROVE  /\ Boot \in Requests
           /\ Boot.op = "boot" /\ Boot.at = "reload" /\ Boot.cfg = disk /\ Boot.todo = Names
  BY ZeroType DEF Requests, NoRequest, Boot

(***************************************************************************)
(* Types and the lock: what holds whatever the clients ask for.            *)
(***************************************************************************)

LockInv == TypeOK /\ Locking

\* What is known of a request that is under way.
LEMMA RequestKnown ==
    ASSUME LockInv, NEW c \in Clients
    PROVE  /\ req[c] \in Requests /\ Place(req[c]) /\ Known(req[c])
           /\ req[c].op \in Ops \cup {"none", "boot"}
           /\ Idle(c) => req[c] = NoRequest
           /\ c \in readers <=> req[c].op = "stop"
           /\ writer = c <=> Holds(req[c])
           /\ c # Nil
  BY DaemonAssumption DEF LockInv, TypeOK, Locking

\* No step of the requests or of the lock.
LEMMA LockKept ==
    ASSUME Locking, UNCHANGED <<req, writer, readers, processes>>
    PROVE  Locking'
  BY DEF Locking, Idle

\* One request moves: what is left to show of Locking.
LEMMA LockStep ==
    ASSUME Locking, NEW c \in Clients,
           \A d \in Clients \ {c} : /\ req'[d] = req[d]
                                    /\ writer' = d <=> writer = d
                                    /\ d \in readers' <=> d \in readers
                                    /\ req[d].op \in Alone => req'[c].at = "idle"
                                    /\ req[d].op = "boot" => UNCHANGED processes,
           writer' # Nil => readers' = {},
           req'[c].op \in Ops \cup {"none", "boot"}, Place(req'[c]), Known(req'[c]),
           req'[c].at = "idle" => req'[c] = NoRequest,
           c \in readers' <=> req'[c].op = "stop",
           writer' = c <=> Holds(req'[c]),
           req'[c].op \in Alone => \A d \in Clients \ {c} : Idle(d),
           req'[c].op = "boot" => \A n \in req'[c].todo : processes'[n] = Nil
    PROVE  Locking'
<1> SUFFICES ASSUME NEW e \in Clients
             PROVE  /\ req'[e].op \in Ops \cup {"none", "boot"}
                    /\ Place(req'[e]) /\ Known(req'[e])
                    /\ req'[e].at = "idle" => req'[e] = NoRequest
                    /\ e \in readers' <=> req'[e].op = "stop"
                    /\ writer' = e <=> Holds(req'[e])
                    /\ req'[e].op \in Alone => \A d \in Clients \ {e} : req'[d].at = "idle"
                    /\ req'[e].op = "boot" => \A n \in req'[e].todo : processes'[n] = Nil
  BY DEF Locking, Idle
<1>1. CASE e = c
  BY <1>1 DEF Idle
<1>2. CASE e # c
  <2>1. /\ req'[e] = req[e] /\ Place(req[e]) /\ Known(req[e])
        /\ req[e].op \in Ops \cup {"none", "boot"}
        /\ req[e].at = "idle" => req[e] = NoRequest
        /\ e \in readers' <=> req[e].op = "stop"
        /\ writer' = e <=> Holds(req[e])
    BY <1>2 DEF Locking, Idle
  <2>2. ASSUME req[e].op \in Alone, NEW d \in Clients \ {e} PROVE req'[d].at = "idle"
    <3>1. CASE d = c
      BY <1>2, <2>2, <3>1
    <3>2. CASE d # c
      BY <2>2, <3>2 DEF Locking, Idle
    <3> QED
      BY <3>1, <3>2
  <2>3. req[e].op = "boot" => \A n \in req[e].todo : processes'[n] = Nil
    BY <1>2 DEF Locking
  <2> QED
    BY <2>1, <2>2, <2>3
<1> QED
  BY <1>1, <1>2

\* A request that is under way keeps out those that want to be alone.
LEMMA NoneAlone ==
    ASSUME LockInv, NEW c \in Clients, ~Idle(c)
    PROVE  /\ \A d \in Clients \ {c} : req[d].op \notin Alone
           /\ req[c].op \in Alone => \A d \in Clients \ {c} : Idle(d)
  BY DEF LockInv, Locking

\* Who holds the lock is the only one, and who boots holds it.
LEMMA HolderIsOne ==
    ASSUME LockInv, NEW c \in Clients, Holds(req[c])
    PROVE  /\ writer = c /\ readers = {}
           /\ \A d \in Clients \ {c} : /\ ~Holds(req[d])
                                       /\ req[d].op # "stop" /\ req[d].op # "boot"
<1>1. writer = c /\ c # Nil
  BY RequestKnown
<1>2. readers = {}
  BY <1>1 DEF LockInv, Locking
<1> QED
  BY <1>1, <1>2, RequestKnown DEF Holds

\* Nobody holds a lock that can be taken.
LEMMA NobodyHolds ==
    ASSUME LockInv, writer = Nil, NEW d \in Clients
    PROVE  ~Holds(req[d]) /\ req[d].op # "boot"
  BY RequestKnown DEF Holds

\* A request under way moves on, stays the same and keeps what it holds.
LEMMA MovesLock ==
    ASSUME LockInv, NEW c \in Clients, ~Idle(c),
           \A d \in Clients \ {c} : req'[d] = req[d],
           UNCHANGED <<writer, readers>>,
           req'[c].op = req[c].op, req'[c].at # "idle",
           Place(req'[c]), Known(req'[c]), Holds(req'[c]) <=> Holds(req[c]),
           Holds(req[c]) \/ UNCHANGED processes,
           req[c].op = "boot" => \A n \in req'[c].todo : processes'[n] = Nil
    PROVE  Locking'
<1>1. \A d \in Clients \ {c} : req[d].op \notin Alone
  BY NoneAlone
<1>2. \A d \in Clients \ {c} : req[d].op = "boot" => UNCHANGED processes
  BY HolderIsOne
<1>3. req'[c].op \in Alone => \A d \in Clients \ {c} : Idle(d)
  BY NoneAlone
<1>4. writer' # Nil => readers' = {}
  BY DEF LockInv, Locking
<1> QED
  BY <1>1, <1>2, <1>3, <1>4, RequestKnown, LockStep DEF LockInv

\* A request comes back, and lets go of what it holds.
LEMMA ReturnsLock ==
    ASSUME LockInv, NEW c \in Clients, ~Idle(c), req'[c] = NoRequest,
           \A d \in Clients \ {c} : /\ req'[d] = req[d]
                                    /\ d \in readers' <=> d \in readers,
           c \notin readers', readers' \subseteq readers,
           writer' = IF Holds(req[c]) THEN Nil ELSE writer,
           Holds(req[c]) \/ UNCHANGED processes
    PROVE  Locking'
<1>1. req'[c].op = "none" /\ req'[c].at = "idle"
  BY DEF NoRequest
<1>2. Place(req'[c]) /\ Known(req'[c]) /\ ~Holds(req'[c])
  BY <1>1 DEF Place, Known, Holds
<1>3. "none" \notin Alone
  BY DaemonAssumption
<1>4. \A d \in Clients \ {c} : req[d].op = "boot" => UNCHANGED processes
  BY HolderIsOne
<1>5. writer' # c /\ \A d \in Clients \ {c} : writer' = d <=> writer = d
  BY RequestKnown, HolderIsOne
<1>6. writer' # Nil => readers' = {}
  BY DEF LockInv, Locking
<1> QED
  BY <1>1, <1>2, <1>3, <1>4, <1>5, <1>6, LockStep DEF LockInv

\* A request begins.
LEMMA BeginsLock ==
    ASSUME LockInv, NEW c \in Clients, NEW op \in Ops, MayBegin(c, op),
           req'[c].op = op, req'[c].at # "idle",
           \A d \in Clients \ {c} : /\ req'[d] = req[d]
                                    /\ d \in readers' <=> d \in readers
                                    /\ writer' = d <=> writer = d,
           writer' # Nil => readers' = {},
           Place(req'[c]), Known(req'[c]), UNCHANGED processes,
           c \in readers' <=> op = "stop",
           writer' = c <=> Holds(req'[c])
    PROVE  Locking'
<1>1. op # "boot"
  BY DaemonAssumption
<1>2. \A d \in Clients \ {c} : req[d].op \notin Alone
  BY DEF MayBegin
<1>3. op \in Alone => \A d \in Clients \ {c} : Idle(d)
  BY DEF MayBegin, Quiet
<1> QED
  BY <1>1, <1>2, <1>3, LockStep DEF LockInv

(***************************************************************************)
(* What the steps of a request write about it.                             *)
(***************************************************************************)

Only(c) == req' \in [Clients -> Requests] /\ \A d \in Clients \ {c} : req'[d] = req[d]

\* The request c is as it was but for its place and its handle.
Moved(c, a) ==
    /\ Only(c)
    /\ req'[c].at = a
    /\ req'[c].op = req[c].op /\ req'[c].name = req[c].name /\ req'[c].cfg = req[c].cfg

LEMMA Returned ==
    ASSUME LockInv, NEW c \in Clients, Return(c)
    PROVE  Only(c) /\ req'[c] = NoRequest /\ req'[c].op = "none" /\ req'[c].at = "idle"
  BY NoRequestType, Writes DEF LockInv, Return, Only, NoRequest

LEMMA Went ==
    ASSUME LockInv, NEW c \in Clients, NEW a \in Ats, GoTo(c, a)
    PROVE  /\ Moved(c, a)
           /\ req'[c].proc = req[c].proc /\ req'[c].todo = req[c].todo
           /\ req'[c].handle = req[c].handle
<1>1. PICK r : r = [req[c] EXCEPT !.at = a]
  OBVIOUS
<1> QED
  BY <1>1, RequestKnown, AtSet, Writes DEF LockInv, GoTo, Only, Moved

LEMMA Captured ==
    ASSUME LockInv, NEW c \in Clients, StopCapture(c)
    PROVE  /\ Moved(c, "cancel")
           /\ req'[c].proc = req[c].proc /\ req'[c].todo = req[c].todo
           /\ req[c].proc \in Procs /\ req'[c].handle = handle[req[c].proc]
           /\ req[c].op \in {"disable", "delete", "reload"} /\ req[c].at = "capture"
<1>1. req[c] \in Requests /\ Place(req[c]) /\ Known(req[c]) /\ req[c].at = "capture"
  BY RequestKnown DEF StopCapture
<1>2. req[c].proc \in Procs /\ req[c].op \in {"disable", "delete", "reload"}
  BY <1>1 DEF Place, Known
<1>3. PICK h \in 0 .. MaxGen : h = handle[req[c].proc]
  BY <1>2 DEF LockInv, TypeOK, ProcessTypeOK
<1>4. PICK q \in Requests : q = req[c]
  BY <1>1
<1>5. PICK r : r = [q EXCEPT !.at = "cancel", !.handle = h]
  OBVIOUS
<1>6. Become(c, r)
  BY <1>3, <1>4, <1>5 DEF StopCapture
<1>7. /\ r \in Requests
      /\ r.op = q.op /\ r.at = "cancel" /\ r.name = q.name /\ r.proc = q.proc
      /\ r.handle = h /\ r.cfg = q.cfg /\ r.todo = q.todo
  BY <1>5 DEF Requests
<1> QED
  BY <1>1, <1>2, <1>3, <1>4, <1>6, <1>7, Writes DEF LockInv, Only, Moved

LEMMA StopBegun ==
    ASSUME LockInv, NEW c \in Clients, NEW n \in Names, StopAngl(c, n)
    PROVE  /\ Only(c) /\ req'[c].op = "stop" /\ req'[c].at = "cancel"
           /\ req'[c].proc \in Procs
<1>1. processes[n] \in Procs
  BY DEF StopAngl, LockInv, TypeOK
<1>2. PICK p \in Procs : p = processes[n]
  BY <1>1
<1>3. PICK h \in 0 .. MaxGen : h = handle[p]
  BY DEF LockInv, TypeOK, ProcessTypeOK
<1>4. PICK r : r = [NoRequest EXCEPT !.op = "stop", !.at = "cancel", !.proc = p, !.handle = h]
  OBVIOUS
<1>5. Become(c, r)
  BY <1>2, <1>3, <1>4 DEF StopAngl
<1>6. r \in Requests /\ r.op = "stop" /\ r.at = "cancel" /\ r.proc = p
  BY <1>4 DEF Requests, NoRequest
<1> QED
  BY <1>5, <1>6, Writes DEF LockInv, Only

\* Enable, Disable and Delete on an angl that has an object.
LEMMA IntentBegun ==
    ASSUME LockInv, NEW c \in Clients, NEW op \in OpsOf, NEW a \in Ats, NEW n \in Names,
           processes[n] # Nil,
           Become(c, [NoRequest EXCEPT !.op = op, !.at = a, !.name = n, !.proc = processes[n]])
    PROVE  /\ Only(c) /\ req'[c].op = op /\ req'[c].at = a
           /\ req'[c].name = n /\ req'[c].proc = processes[n] /\ processes[n] \in Procs
<1>1. PICK p \in Procs : p = processes[n]
  BY DEF LockInv, TypeOK
<1>2. PICK r : r = [NoRequest EXCEPT !.op = op, !.at = a, !.name = n, !.proc = p]
  OBVIOUS
<1>3. r \in Requests /\ r.op = op /\ r.at = a /\ r.name = n /\ r.proc = p
  BY <1>2, ZeroType DEF Requests, NoRequest, Ats, OpsOf
<1>4. Become(c, r)
  BY <1>1, <1>2
<1> QED
  BY <1>1, <1>3, <1>4, Writes DEF LockInv, Only

LEMMA ReloadBegun ==
    ASSUME LockInv, NEW c \in Clients, Reload(c)
    PROVE  /\ Only(c) /\ req'[c].op = "reload" /\ req'[c].at = "locking"
           /\ req'[c].cfg = disk /\ disk \in Configs
<1>1. disk \in Configs
  BY DEF LockInv, TypeOK
<1>2. PICK r : r = [NoRequest EXCEPT !.op = "reload", !.at = "locking", !.cfg = disk]
  OBVIOUS
<1>3. Become(c, r)
  BY <1>2 DEF Reload
<1>4. r \in Requests /\ r.op = "reload" /\ r.at = "locking" /\ r.cfg = disk
  BY <1>1, <1>2, ZeroType DEF Requests, NoRequest
<1> QED
  BY <1>1, <1>3, <1>4, Writes DEF LockInv, Only

LEMMA ReloadLocked ==
    ASSUME LockInv, NEW c \in Clients, ReloadLock(c)
    PROVE  /\ Moved(c, "reload") /\ req'[c].todo = Names
           /\ req[c].op = "reload" /\ req[c].at = "locking"
<1>1. req[c] \in Requests /\ Place(req[c]) /\ req[c].at = "locking"
  BY RequestKnown DEF ReloadLock
<1>2. PICK t \in SUBSET Names : t = Names
  OBVIOUS
<1>3. PICK q \in Requests : q = req[c]
  BY <1>1
<1>4. PICK r : r = [q EXCEPT !.at = "reload", !.todo = t]
  OBVIOUS
<1>5. Become(c, r)
  BY <1>2, <1>3, <1>4 DEF ReloadLock
<1>6. /\ r \in Requests
      /\ r.op = q.op /\ r.at = "reload" /\ r.name = q.name
      /\ r.cfg = q.cfg /\ r.todo = t
  BY <1>4 DEF Requests
<1>7. req[c].op = "reload"
  BY <1>1 DEF Place
<1> QED
  BY <1>1, <1>2, <1>3, <1>5, <1>6, <1>7, Writes DEF LockInv, Only, Moved

LEMMA Visited ==
    ASSUME LockInv, NEW c \in Clients, NEW n \in Names, NEW l \in {"capture", "new"},
           req[c].at = "reload", Visit(c, n, l)
    PROVE  /\ Only(c)
           /\ req'[c].op = req[c].op /\ req'[c].at = l /\ req'[c].name = n
           /\ req'[c].proc = processes[n] /\ req'[c].cfg = req[c].cfg
           /\ req'[c].todo = req[c].todo \ {n}
           /\ req[c].op \in {"boot", "reload"}
<1>1. req[c] \in Requests /\ Place(req[c])
  BY RequestKnown
<1>2. PICK p \in Procs \cup {Nil} : p = processes[n]
  BY DEF LockInv, TypeOK
<1>3. PICK q \in Requests : q = req[c]
  BY <1>1
<1>4. PICK r : r = [q EXCEPT !.name = n, !.at = l, !.proc = p, !.todo = @ \ {n}]
  OBVIOUS
<1>5. Become(c, r)
  BY <1>2, <1>3, <1>4 DEF Visit
<1>6. /\ r \in Requests
      /\ r.op = q.op /\ r.at = l /\ r.name = n /\ r.proc = p
      /\ r.cfg = q.cfg /\ r.todo = q.todo \ {n}
  BY <1>4 DEF Requests
<1>7. req[c].op \in {"boot", "reload"}
  BY <1>1 DEF Place
<1> QED
  BY <1>2, <1>3, <1>5, <1>6, <1>7, Writes DEF LockInv, Only

\* The angl of a reload has ended: it has left the file, or it is replaced.
LEMMA Replaced ==
    ASSUME LockInv, NEW c \in Clients, ReloadStopped(c)
    PROVE  /\ req[c].op = "reload" /\ req[c].at = "await" /\ req[c].name \in Names
           /\ req'[c].todo = req[c].todo
           /\ \/ /\ Moved(c, "reload")
                 /\ req[c].cfg[req[c].name] = Nil
                 /\ processes' = [processes EXCEPT ![req[c].name] = Nil]
              \/ /\ Moved(c, "new")
                 /\ req[c].cfg[req[c].name] # Nil
                 /\ UNCHANGED processes
<1>1. /\ req[c] \in Requests /\ Known(req[c])
      /\ req[c].op = "reload" /\ req[c].at = "await" /\ req[c].name \in Names
  BY RequestKnown DEF ReloadStopped, Stopped, Known
<1>2. PICK q \in Requests : q = req[c]
  BY <1>1
<1>3. PICK r : r = [q EXCEPT !.at = "reload", !.proc = Nil, !.handle = 0]
  OBVIOUS
<1>4. PICK s : s = [q EXCEPT !.at = "new", !.handle = 0]
  OBVIOUS
<1>5. /\ r \in Requests
      /\ r.op = q.op /\ r.at = "reload" /\ r.name = q.name /\ r.cfg = q.cfg /\ r.todo = q.todo
  BY <1>3, ZeroType DEF Requests
<1>6. /\ s \in Requests
      /\ s.op = q.op /\ s.at = "new" /\ s.name = q.name /\ s.cfg = q.cfg /\ s.todo = q.todo
  BY <1>4, ZeroType DEF Requests
<1>7. \/ /\ Become(c, r) /\ req[c].cfg[req[c].name] = Nil
         /\ processes' = [processes EXCEPT ![req[c].name] = Nil]
      \/ Become(c, s) /\ req[c].cfg[req[c].name] # Nil /\ UNCHANGED processes
  BY <1>2, <1>3, <1>4 DEF ReloadStopped
<1>8. CASE Become(c, r) /\ req[c].cfg[req[c].name] = Nil
           /\ processes' = [processes EXCEPT ![req[c].name] = Nil]
  BY <1>1, <1>2, <1>5, <1>8, Writes DEF LockInv, Only, Moved
<1>9. CASE Become(c, s) /\ req[c].cfg[req[c].name] # Nil /\ UNCHANGED processes
  BY <1>1, <1>2, <1>6, <1>9, Writes DEF LockInv, Only, Moved
<1> QED
  BY <1>7, <1>8, <1>9

\* An object that is free is not in the registry, nor in anybody's hand.
LEMMA FreeType ==
    ASSUME NEW p \in Free
    PROVE  /\ p \in Procs /\ p # Nil /\ \A n \in Names : processes[n] # p
           /\ \A c \in Clients : req[c].proc # p
           /\ \A g \in Gens : pc[p][g] \in {"idle", "ended"} /\ ~alive[p][g]
  BY DaemonAssumption DEF Free

\* A boot or a reload puts a new object in the registry.
LEMMA Renewed ==
    ASSUME LockInv, NEW c \in Clients, ReloadNew(c)
    PROVE  \E p \in Free, e \in BOOLEAN :
              /\ e = req[c].cfg[req[c].name].enabled
              /\ New(p, e)
              /\ processes' = [processes EXCEPT ![req[c].name] = p]
              /\ Moved(c, IF e THEN "start" ELSE "reload")
              /\ req'[c].proc = p /\ req'[c].todo = req[c].todo
              /\ req[c].op \in {"boot", "reload"} /\ req[c].at = "new" /\ req[c].name \in Names
<1> DEFINE q == req[c]
<1>1. /\ q \in Requests /\ q.at = "new" /\ q.op \in {"boot", "reload"}
      /\ q.name \in Names /\ q.cfg \in Configs /\ q.cfg[q.name] # Nil
  BY RequestKnown DEF ReloadNew, Place, Known
<1>2. q.cfg[q.name] \in Defs
  BY <1>1 DEF Configs
<1>3. PICK e \in BOOLEAN : e = q.cfg[q.name].enabled
  BY <1>2 DEF Defs
<1>4. PICK p \in Free :
         /\ New(p, e)
         /\ processes' = [processes EXCEPT ![q.name] = p]
         /\ Become(c, [q EXCEPT !.at = IF e THEN "start" ELSE "reload", !.proc = p])
  BY <1>3 DEF ReloadNew
<1>5. PICK l \in Ats : l = IF e THEN "start" ELSE "reload"
  BY DEF Ats
<1>6. PICK r : r = [q EXCEPT !.at = l, !.proc = p]
  OBVIOUS
<1>7. p \in Procs
  BY FreeType
<1> HIDE DEF q
<1>l. l \in {"start", "reload"}
  BY <1>5
<1>8. /\ r \in Requests
      /\ r.op = q.op /\ r.at = l /\ r.name = q.name /\ r.proc = p
      /\ r.cfg = q.cfg /\ r.todo = q.todo
  BY <1>1, <1>6, <1>7, <1>l DEF Requests
<1>9. Become(c, r)
  BY <1>4, <1>5, <1>6
<1>10. Moved(c, l) /\ req'[c].proc = p /\ req'[c].todo = q.todo
  BY <1>8, <1>9, Writes DEF LockInv, Only, Moved, q
<1> QED
  BY <1>1, <1>3, <1>4, <1>5, <1>10 DEF q


(***************************************************************************)
(* Types and the lock, step by step.                                       *)
(***************************************************************************)

\* What the variables of the objects are when no step of theirs is taken.
LEMMA FieldsKept ==
    ASSUME UNCHANGED processVars
    PROVE  /\ ProcessTypeOK => ProcessTypeOK'
           /\ UNCHANGED <<state, pid, gen, handle, wake, pc, woken, alive, enabled>>
  BY DEF ProcessTypeOK, processVars, fieldVars, loopVars

LEMMA LoopKeepsEnabled ==
    ASSUME NEW p \in Procs, NEW g \in Gens, runLoop(p, g)
    PROVE  enabled' = enabled
  BY DEF runLoop, Scheduled, fieldVars, Begin, Launch, LaunchFails, MarkRunning, Reap,
         KillChild, AwaitExit, BeginInterval, ResetHealthy, AccountExit, WaitSignalled,
         WaitReturns, ClearWake, Cleanup, ChildExits

LEMMA StartKeepsEnabled ==
    ASSUME NEW p \in Procs, Start(p)
    PROVE  enabled' = enabled
  BY DEF Start, startLocked

LEMMA LoopLocks ==
    ASSUME LockInv, NEW p \in Procs, NEW g \in Gens, Loop(p, g)
    PROVE  LockInv'
<1>1. TypeOK'
  BY LoopType DEF Loop, daemonVars, LockInv, TypeOK
<1>2. Locking'
  BY LockKept DEF Loop, daemonVars, LockInv
<1> QED
  BY <1>1, <1>2 DEF LockInv

LEMMA ExecAnglLocks ==
    ASSUME LockInv, NEW c \in Clients, NEW n \in Names, ExecAngl(c, n)
    PROVE  LockInv'
<1>1. processes[n] \in Procs
  BY DEF ExecAngl, LockInv, TypeOK
<1>2. TypeOK'
  BY <1>1, StartType, ForceWaitType DEF ExecAngl, Exec, daemonVars, LockInv, TypeOK
<1>3. Locking'
  BY LockKept DEF ExecAngl, daemonVars, LockInv
<1> QED
  BY <1>2, <1>3 DEF LockInv

LEMMA EditConfigLocks ==
    ASSUME LockInv, NEW n \in Names, EditConfig(n)
    PROVE  LockInv'
<1>1. UNCHANGED <<processVars, config, processes, writer, readers, req>> /\ dirty' = TRUE
  BY DEF EditConfig
<1>2. disk' \in Configs
  BY DEF EditConfig, LockInv, TypeOK, Configs
<1>3. TypeOK'
  BY <1>1, <1>2, FieldsKept DEF LockInv, TypeOK
<1>4. Locking'
  BY <1>1, LockKept DEF LockInv
<1> QED
  BY <1>3, <1>4 DEF LockInv

LEMMA SaveFailedLocks ==
    ASSUME LockInv, NEW c \in Clients, NEW n \in Names, NEW op, SaveFailed(c, n, op)
    PROVE  LockInv'
<1>1. UNCHANGED <<processVars, config, processes, writer, readers, req, disk, dirty>>
  BY DEF SaveFailed, SaveFails
<1>2. TypeOK'
  BY <1>1, FieldsKept DEF LockInv, TypeOK
<1>3. Locking'
  BY <1>1, LockKept DEF LockInv
<1> QED
  BY <1>2, <1>3 DEF LockInv

LEMMA StopAnglLocks ==
    ASSUME LockInv, NEW c \in Clients, NEW n \in Names, StopAngl(c, n)
    PROVE  LockInv'
<1>1. /\ MayBegin(c, "stop") /\ "stop" \in Ops /\ writer = Nil /\ readers' = readers \cup {c}
      /\ UNCHANGED <<processVars, config, disk, processes, writer, dirty>>
  BY DEF StopAngl, CanRLock, MayBegin
<1>2. Only(c) /\ req'[c].op = "stop" /\ req'[c].at = "cancel" /\ req'[c].proc \in Procs
  BY StopBegun
<1>3. TypeOK'
  BY <1>1, <1>2, FieldsKept DEF LockInv, TypeOK, Only
<1>4. Place(req'[c]) /\ Known(req'[c]) /\ ~Holds(req'[c])
  BY <1>2 DEF Place, Known, Holds
<1>5. writer' # c
  BY <1>1, DaemonAssumption
<1>6. Locking'
  BY <1>1, <1>2, <1>4, <1>5, BeginsLock DEF Only
<1> QED
  BY <1>3, <1>6 DEF LockInv

LEMMA StopAnglReturnLocks ==
    ASSUME LockInv, NEW c \in Clients, StopAnglReturn(c)
    PROVE  LockInv'
<1>1. /\ req[c].op = "stop" /\ req[c].at = "await" /\ Return(c) /\ readers' = readers \ {c}
      /\ UNCHANGED <<processVars, config, disk, processes, writer, dirty>>
  BY DEF StopAnglReturn
<1>2. Only(c) /\ req'[c] = NoRequest
  BY <1>1, Returned
<1>3. TypeOK'
  BY <1>1, <1>2, FieldsKept DEF LockInv, TypeOK, Only
<1>4. ~Idle(c) /\ ~Holds(req[c])
  BY <1>1 DEF Idle, Holds
<1>5. Locking'
  BY <1>1, <1>2, <1>4, ReturnsLock DEF Only
<1> QED
  BY <1>3, <1>5 DEF LockInv

LEMMA StopCaptureLocks ==
    ASSUME LockInv, NEW c \in Clients, StopCapture(c)
    PROVE  LockInv'
<1>1. UNCHANGED <<processVars, config, disk, processes, writer, readers, dirty>>
  BY DEF StopCapture
<1>2. /\ Moved(c, "cancel") /\ req'[c].proc = req[c].proc /\ req'[c].todo = req[c].todo
      /\ req[c].proc \in Procs
      /\ req[c].op \in {"disable", "delete", "reload"} /\ req[c].at = "capture"
  BY Captured
<1>3. TypeOK'
  BY <1>1, <1>2, FieldsKept DEF LockInv, TypeOK, Moved, Only
<1>4. Known(req[c]) /\ ~Idle(c)
  BY <1>2, RequestKnown DEF Idle
<1>5. Place(req'[c]) /\ Known(req'[c]) /\ (Holds(req'[c]) <=> Holds(req[c]))
  BY <1>2, <1>4 DEF Place, Known, Holds, Moved
<1>6. Locking'
  BY <1>1, <1>2, <1>4, <1>5, MovesLock DEF Moved, Only
<1> QED
  BY <1>3, <1>6 DEF LockInv

LEMMA StopCancelLocks ==
    ASSUME LockInv, NEW c \in Clients, StopCancel(c)
    PROVE  LockInv'
<1>1. /\ req[c].at = "cancel" /\ Cancel(req[c].proc, req[c].handle) /\ GoTo(c, "await")
      /\ UNCHANGED <<config, disk, processes, writer, readers, dirty>>
  BY DEF StopCancel
<1>2. "await" \in Ats
  BY DEF Ats
<1>3. Moved(c, "await") /\ req'[c].proc = req[c].proc /\ req'[c].todo = req[c].todo
  BY <1>1, <1>2, Went
<1>4. Known(req[c]) /\ Place(req[c]) /\ ~Idle(c) /\ req[c] \in Requests
  BY <1>1, RequestKnown DEF Idle
<1>5. req[c].proc \in Procs /\ req[c].op \in {"stop", "disable", "delete", "reload"}
  BY <1>1, <1>4 DEF Known, Place
<1>6. req[c].handle \in 0 .. MaxGen
  BY <1>4, FieldTypes
<1>7. TypeOK'
  BY <1>1, <1>3, <1>5, <1>6, CancelType DEF LockInv, TypeOK, Moved, Only
<1>8. Place(req'[c]) /\ Known(req'[c]) /\ (Holds(req'[c]) <=> Holds(req[c]))
  BY <1>1, <1>3, <1>4, <1>5 DEF Place, Known, Holds, Moved
<1>9. Locking'
  BY <1>1, <1>3, <1>4, <1>5, <1>8, MovesLock DEF Moved, Only
<1> QED
  BY <1>7, <1>9 DEF LockInv

LEMMA DefinitionSet ==
    ASSUME config \in Configs, NEW n \in Names, config[n] # Nil, NEW e \in BOOLEAN,
           config' = [config EXCEPT ![n].enabled = e]
    PROVE  /\ config' \in Configs /\ config'[n] # Nil /\ config'[n].enabled = e
           /\ \A m \in Names \ {n} : config'[m] = config[m]
<1>1. config[n] \in Defs
  BY DEF Configs
<1>2. PICK d : d = config[n]
  OBVIOUS
<1>3. PICK r : r = [d EXCEPT !.enabled = e]
  OBVIOUS
<1>4. r \in Defs /\ r.enabled = e
  BY <1>1, <1>2, <1>3 DEF Defs
<1>5. config' = [config EXCEPT ![n] = r]
  BY <1>2, <1>3
<1>6. r # Nil
  BY <1>4, DaemonAssumption
<1> QED
  BY <1>4, <1>5, <1>6 DEF Configs

\* What Enable and Disable do under the lock: the definition is set, and saved
\* or not; the request goes on with the object of the angl, or is over.
IntentSet(c, n, op, e, next) ==
    /\ MayBegin(c, op) /\ op \in Ops /\ CanLock
    /\ UNCHANGED <<processVars, processes, writer, readers>>
    /\ config' \in Configs /\ config[n] # Nil /\ config'[n] # Nil
    /\ config'[n].enabled = e
    /\ \A m \in Names \ {n} : config'[m] = config[m]
    /\ \/ ~SavesSucceed /\ UNCHANGED <<disk, dirty, req>>
       \/ /\ disk' = config' /\ dirty' = FALSE
          /\ \/ UNCHANGED req /\ processes[n] = Nil
             \/ /\ Only(c) /\ req'[c].op = op /\ req'[c].at = next
                /\ req'[c].name = n /\ req'[c].proc = processes[n]
                /\ processes[n] \in Procs

LEMMA EnabledSet ==
    ASSUME LockInv, NEW c \in Clients, NEW n \in Names,
           NEW op \in {"enable", "disable"}, NEW e \in BOOLEAN, NEW next \in {"write", "capture"},
           SetEnabled(c, n, op, e, next)
    PROVE  IntentSet(c, n, op, e, next)
<1> USE DEF IntentSet
<1>1. /\ MayBegin(c, op) /\ op \in Ops /\ CanLock /\ config[n] # Nil
      /\ config' = [config EXCEPT ![n].enabled = e]
      /\ UNCHANGED <<processVars, processes, writer, readers>>
  BY DEF SetEnabled, MayBegin
<1>2. /\ config' \in Configs /\ config'[n] # Nil /\ config'[n].enabled = e
      /\ \A m \in Names \ {n} : config'[m] = config[m]
  BY <1>1, DefinitionSet DEF LockInv, TypeOK
<1>3. CASE SaveFails(op) /\ UNCHANGED req
  BY <1>1, <1>2, <1>3 DEF SaveFails, SavesSucceed
<1>4. CASE Save(config') /\ processes[n] = Nil /\ Become(c, NoRequest)
  <2>1. req[c] = NoRequest
    BY <1>1, RequestKnown DEF MayBegin
  <2>2. UNCHANGED req
    BY <1>4, <2>1 DEF Become, LockInv, TypeOK
  <2> QED
    BY <1>1, <1>2, <1>4, <2>2 DEF Save
<1>5. CASE /\ Save(config') /\ processes[n] # Nil
           /\ Become(c, [NoRequest EXCEPT !.op = op, !.at = next, !.name = n,
                                          !.proc = processes[n]])
  <2>1. op \in OpsOf /\ next \in Ats
    BY DEF OpsOf, Ats
  <2>2. /\ Only(c) /\ req'[c].op = op /\ req'[c].at = next
        /\ req'[c].name = n /\ req'[c].proc = processes[n] /\ processes[n] \in Procs
    BY <1>5, <2>1, IntentBegun
  <2> QED
    BY <1>1, <1>2, <1>5, <2>2 DEF Save
<1> QED
  BY <1>3, <1>4, <1>5 DEF SetEnabled

LEMMA EnabledSetLocks ==
    ASSUME LockInv, NEW c \in Clients, NEW n \in Names,
           NEW op \in {"enable", "disable"}, NEW e \in BOOLEAN, NEW next \in {"write", "capture"},
           SetEnabled(c, n, op, e, next), op = "enable" <=> next = "write"
    PROVE  LockInv'
<1>0. IntentSet(c, n, op, e, next)
  BY EnabledSet
<1>1. /\ MayBegin(c, op) /\ op \in Ops /\ CanLock /\ config' \in Configs
      /\ UNCHANGED <<processVars, processes, writer, readers>>
      /\ UNCHANGED <<disk, dirty>> \/ (disk' = config' /\ dirty' = FALSE)
      /\ \/ UNCHANGED req
         \/ /\ Only(c) /\ req'[c].op = op /\ req'[c].at = next
            /\ req'[c].name = n /\ req'[c].proc \in Procs
  BY <1>0 DEF IntentSet
<1>2. TypeOK'
  BY <1>1, FieldsKept DEF LockInv, TypeOK, Only
<1>3. CASE UNCHANGED req
  BY <1>1, <1>2, <1>3, LockKept DEF LockInv
<1>4. CASE /\ Only(c) /\ req'[c].op = op /\ req'[c].at = next
           /\ req'[c].name = n /\ req'[c].proc \in Procs
  <2>1. Place(req'[c]) /\ Known(req'[c]) /\ ~Holds(req'[c]) /\ req'[c].at # "idle"
    BY <1>1, <1>4 DEF Place, Known, Holds
  <2>2. writer' = Nil /\ writer' # c /\ readers' = {} /\ op # "stop"
    BY <1>1, DaemonAssumption DEF CanLock
  <2>3. Locking'
    BY <1>1, <1>4, <2>1, <2>2, BeginsLock DEF Only
  <2> QED
    BY <1>2, <2>3 DEF LockInv
<1> QED
  BY <1>1, <1>3, <1>4

LEMMA EnableWriteLocks ==
    ASSUME LockInv, NEW c \in Clients, EnableWrite(c)
    PROVE  LockInv'
<1>1. /\ req[c].at = "write" /\ enabled' = [enabled EXCEPT ![req[c].proc] = TRUE]
      /\ GoTo(c, "start")
      /\ UNCHANGED <<state, pid, restarts, gen, handle, wake, loopVars, parentDone,
                     config, disk, processes, writer, readers, dirty>>
  BY DEF EnableWrite
<1>2. "start" \in Ats
  BY DEF Ats
<1>3. Moved(c, "start") /\ req'[c].proc = req[c].proc /\ req'[c].todo = req[c].todo
  BY <1>1, <1>2, Went
<1>4. Known(req[c]) /\ req[c].op = "enable" /\ ~Idle(c)
  BY <1>1, RequestKnown DEF Idle, Place
<1>5. TypeOK'
  <2>1. ProcessTypeOK'
    BY <1>1 DEF LockInv, TypeOK, ProcessTypeOK, loopVars
  <2> QED
    BY <1>1, <1>3, <2>1 DEF LockInv, TypeOK, Moved, Only
<1>6. Place(req'[c]) /\ Known(req'[c]) /\ (Holds(req'[c]) <=> Holds(req[c]))
  BY <1>1, <1>3, <1>4 DEF Place, Known, Holds, Moved
<1>7. Locking'
  BY <1>1, <1>3, <1>4, <1>6, MovesLock DEF Moved, Only
<1> QED
  BY <1>5, <1>7 DEF LockInv

\* The object of an enable or of a reload that starts it.
LEMMA StartedProc ==
    ASSUME LockInv, NEW c \in Clients, req[c].at \in {"write", "start", "capture", "cancel", "await"}
    PROVE  req[c].proc \in Procs
  BY RequestKnown DEF Known

LEMMA EnableStartLocks ==
    ASSUME LockInv, NEW c \in Clients, EnableStart(c)
    PROVE  LockInv'
<1>1. /\ req[c].op = "enable" /\ req[c].at = "start" /\ Return(c)
      /\ Start(req[c].proc) \/ UNCHANGED processVars
      /\ UNCHANGED <<config, disk, processes, writer, readers, dirty>>
  BY DEF EnableStart
<1>2. Only(c) /\ req'[c] = NoRequest
  BY <1>1, Returned
<1>3. req[c].proc \in Procs
  BY <1>1, StartedProc
<1>4. ProcessTypeOK'
  BY <1>1, <1>3, StartType, FieldsKept DEF LockInv, TypeOK
<1>5. TypeOK'
  BY <1>1, <1>2, <1>4 DEF LockInv, TypeOK, Only
<1>6. ~Idle(c) /\ ~Holds(req[c]) /\ c \notin readers
  BY <1>1, RequestKnown DEF Idle, Holds
<1>7. Locking'
  BY <1>1, <1>2, <1>6, ReturnsLock DEF Only
<1> QED
  BY <1>5, <1>7 DEF LockInv

LEMMA DisableFinishLocks ==
    ASSUME LockInv, NEW c \in Clients, DisableFinish(c)
    PROVE  LockInv'
<1>1. /\ req[c].op = "disable" /\ req[c].at = "await" /\ Return(c)
      /\ enabled' = [enabled EXCEPT ![req[c].proc] = FALSE]
      /\ state' = [state EXCEPT ![req[c].proc] = "disabled"]
      /\ UNCHANGED <<pid, restarts, gen, handle, wake, loopVars, parentDone,
                     config, disk, processes, writer, readers, dirty>>
  BY DEF DisableFinish, Stopped
<1>2. Only(c) /\ req'[c] = NoRequest
  BY <1>1, Returned
<1>3. ProcessTypeOK'
  BY <1>1 DEF LockInv, TypeOK, ProcessTypeOK, loopVars, States
<1>4. TypeOK'
  BY <1>1, <1>2, <1>3 DEF LockInv, TypeOK, Only
<1>5. ~Idle(c) /\ ~Holds(req[c]) /\ c \notin readers
  BY <1>1, RequestKnown DEF Idle, Holds
<1>6. Locking'
  BY <1>1, <1>2, <1>5, ReturnsLock DEF Only
<1> QED
  BY <1>4, <1>6 DEF LockInv

LEMMA NewType ==
    ASSUME ProcessTypeOK, NEW p \in Procs, NEW e \in BOOLEAN, New(p, e)
    PROVE  /\ ProcessTypeOK'
           /\ enabled' = [enabled EXCEPT ![p] = e]
<1> USE DEF New
<1>1. state' \in [Procs -> States]
  BY DEF ProcessTypeOK, States, NewState
<1>2. restarts' \in [Procs -> 0 .. RestartCap] /\ gen' \in [Procs -> 0 .. MaxGen]
  BY ZeroType DEF ProcessTypeOK
<1>3. pc' \in [Procs -> [Gens -> Points]]
  BY DEF ProcessTypeOK, Points
<1>4. cancelled' \in [Procs -> [Gens -> BOOLEAN]]
  BY DEF ProcessTypeOK
<1> QED
  BY <1>1, <1>2, <1>3, <1>4 DEF ProcessTypeOK

\* What Register does under the lock: a free object, a disabled definition.
LEMMA Registered ==
    ASSUME LockInv, NEW c \in Clients, NEW n \in Names, Register(c, n)
    PROVE  \E p \in Free :
              /\ MayBegin(c, "register") /\ CanLock /\ config[n] = Nil
              /\ disk' = config' /\ dirty' = FALSE /\ UNCHANGED <<writer, readers, req>>
              /\ New(p, FALSE)
              /\ processes' = [processes EXCEPT ![n] = p]
              /\ config' \in Configs /\ config'[n] # Nil /\ config'[n].enabled = FALSE
              /\ \A k \in Names \ {n} : config'[k] = config[k]
<1>1. PICK p \in Free, m \in Commands :
         /\ New(p, FALSE)
         /\ processes' = [processes EXCEPT ![n] = p]
         /\ config' = [config EXCEPT ![n] = [enabled |-> FALSE, cmd |-> m]]
  BY DEF Register
<1>2. PICK d : d = [enabled |-> FALSE, cmd |-> m]
  OBVIOUS
<1>3. d \in Defs /\ d.enabled = FALSE
  BY <1>1, <1>2 DEF Defs
<1>4. d # Nil
  BY <1>3, DaemonAssumption
<1>5. config' = [config EXCEPT ![n] = d]
  BY <1>1, <1>2
<1>6. /\ config' \in Configs /\ config'[n] = d
      /\ \A k \in Names \ {n} : config'[k] = config[k]
  BY <1>3, <1>5 DEF LockInv, TypeOK, Configs
<1> QED
  BY <1>1, <1>3, <1>4, <1>6 DEF Register, Save

LEMMA RegisterLocks ==
    ASSUME LockInv, NEW c \in Clients, NEW n \in Names, Register(c, n)
    PROVE  LockInv'
<1>1. PICK p \in Free :
         /\ CanLock /\ New(p, FALSE) /\ processes' = [processes EXCEPT ![n] = p]
         /\ disk' = config' /\ dirty' = FALSE /\ UNCHANGED <<writer, readers, req>>
         /\ config' \in Configs
  BY Registered
<1>2. p \in Procs
  BY FreeType
<1>3. ProcessTypeOK'
  BY <1>1, <1>2, NewType DEF LockInv, TypeOK
<1>4. TypeOK'
  BY <1>1, <1>2, <1>3 DEF LockInv, TypeOK
<1>5. \A d \in Clients : req[d].op # "boot"
  BY <1>1, NobodyHolds DEF CanLock
<1>6. Locking'
  BY <1>1, <1>5 DEF LockInv, Locking, Idle
<1> QED
  BY <1>4, <1>6 DEF LockInv

\* What Delete does as it takes the lock: the definition goes, and the request
\* goes on to stop the object, unless there is none.
LEMMA Deleted ==
    ASSUME LockInv, NEW c \in Clients, NEW n \in Names, Delete(c, n)
    PROVE  /\ MayBegin(c, "delete") /\ "delete" \in Ops /\ CanLock
           /\ UNCHANGED <<processVars, processes, readers>>
           /\ disk' = config' /\ dirty' = FALSE
           /\ config' \in Configs /\ config[n] # Nil /\ config'[n] = Nil
           /\ \A k \in Names \ {n} : config'[k] = config[k]
           /\ \/ processes[n] = Nil /\ UNCHANGED <<writer, req>>
              \/ /\ writer' = c /\ Only(c)
                 /\ req'[c].op = "delete" /\ req'[c].at = "capture" /\ req'[c].name = n
                 /\ req'[c].proc = processes[n] /\ processes[n] \in Procs
<1>1. /\ MayBegin(c, "delete") /\ "delete" \in Ops /\ CanLock /\ config[n] # Nil
      /\ config' = [config EXCEPT ![n] = Nil]
      /\ disk' = config' /\ dirty' = FALSE
      /\ UNCHANGED <<processVars, processes, readers>>
  BY DEF Delete, Save, MayBegin
<1>2. config' \in Configs /\ config'[n] = Nil /\ \A k \in Names \ {n} : config'[k] = config[k]
  BY <1>1 DEF LockInv, TypeOK, Configs
<1>3. CASE processes[n] = Nil
  BY <1>1, <1>2, <1>3 DEF Delete
<1>4. CASE processes[n] # Nil
  <2>1. /\ writer' = c
        /\ Become(c, [NoRequest EXCEPT !.op = "delete", !.at = "capture", !.name = n,
                                       !.proc = processes[n]])
    BY <1>4 DEF Delete
  <2>2. "delete" \in OpsOf /\ "capture" \in Ats
    BY DEF OpsOf, Ats
  <2>3. /\ Only(c) /\ req'[c].op = "delete" /\ req'[c].at = "capture"
        /\ req'[c].name = n /\ req'[c].proc = processes[n] /\ processes[n] \in Procs
    BY <1>4, <2>1, <2>2, IntentBegun
  <2> QED
    BY <1>1, <1>2, <2>1, <2>3
<1> QED
  BY <1>3, <1>4

LEMMA DeleteLocks ==
    ASSUME LockInv, NEW c \in Clients, NEW n \in Names, Delete(c, n)
    PROVE  LockInv'
<1>1. /\ MayBegin(c, "delete") /\ "delete" \in Ops /\ CanLock /\ config' \in Configs
      /\ UNCHANGED <<processVars, processes, readers>>
      /\ disk' = config' /\ dirty' = FALSE
      /\ \/ UNCHANGED <<writer, req>>
         \/ /\ writer' = c /\ Only(c)
            /\ req'[c].op = "delete" /\ req'[c].at = "capture" /\ req'[c].name = n
            /\ req'[c].proc \in Procs
  BY Deleted
<1>2. TypeOK'
  BY <1>1, FieldsKept DEF LockInv, TypeOK, Only
<1>3. CASE UNCHANGED <<writer, req>>
  BY <1>1, <1>2, <1>3, LockKept DEF LockInv
<1>4. CASE /\ writer' = c /\ Only(c)
           /\ req'[c].op = "delete" /\ req'[c].at = "capture" /\ req'[c].name = n
           /\ req'[c].proc \in Procs
  <2>1. Place(req'[c]) /\ Known(req'[c]) /\ Holds(req'[c]) /\ req'[c].at # "idle"
    BY <1>4 DEF Place, Known, Holds
  <2>2. \A d \in Clients \ {c} : writer' = d <=> writer = d
    BY <1>1, <1>4, DaemonAssumption DEF CanLock
  <2>3. readers' = {}
    BY <1>1 DEF CanLock
  <2>4. Locking'
    BY <1>1, <1>4, <2>1, <2>2, <2>3, BeginsLock DEF Only
  <2> QED
    BY <1>2, <2>4 DEF LockInv
<1> QED
  BY <1>1, <1>3, <1>4

LEMMA DeleteFinishLocks ==
    ASSUME LockInv, NEW c \in Clients, DeleteFinish(c)
    PROVE  LockInv'
<1>1. /\ req[c].op = "delete" /\ req[c].at = "await" /\ Return(c)
      /\ processes' = [processes EXCEPT ![req[c].name] = Nil] /\ writer' = Nil
      /\ UNCHANGED <<processVars, config, disk, readers, dirty>>
  BY DEF DeleteFinish, Stopped
<1>2. Only(c) /\ req'[c] = NoRequest
  BY <1>1, Returned
<1>3. TypeOK'
  BY <1>1, <1>2, FieldsKept DEF LockInv, TypeOK, Only
<1>4. ~Idle(c) /\ Holds(req[c]) /\ c \notin readers
  BY <1>1, RequestKnown DEF Idle, Holds
<1>5. Locking'
  BY <1>1, <1>2, <1>4, ReturnsLock DEF Only
<1> QED
  BY <1>3, <1>5 DEF LockInv

LEMMA ReloadLocks ==
    ASSUME LockInv, NEW c \in Clients, Reload(c)
    PROVE  LockInv'
<1>1. /\ MayBegin(c, "reload") /\ "reload" \in Ops
      /\ UNCHANGED <<processVars, config, disk, processes, writer, readers, dirty>>
  BY DEF Reload, MayBegin
<1>2. /\ Only(c) /\ req'[c].op = "reload" /\ req'[c].at = "locking"
      /\ req'[c].cfg = disk /\ disk \in Configs
  BY ReloadBegun
<1>3. TypeOK'
  BY <1>1, <1>2, FieldsKept DEF LockInv, TypeOK, Only
<1>4. Place(req'[c]) /\ Known(req'[c]) /\ ~Holds(req'[c])
  BY <1>2 DEF Place, Known, Holds
<1>5. req[c] = NoRequest
  BY <1>1, RequestKnown DEF MayBegin
<1>6. writer # c /\ c \notin readers
  BY <1>5, RequestKnown DEF NoRequest, Holds
<1>7. writer' # Nil => readers' = {}
  BY <1>1 DEF LockInv, Locking
<1>8. Locking'
  BY <1>1, <1>2, <1>4, <1>6, <1>7, BeginsLock DEF Only
<1> QED
  BY <1>3, <1>8 DEF LockInv

LEMMA ReloadLockLocks ==
    ASSUME LockInv, NEW c \in Clients, ReloadLock(c)
    PROVE  LockInv'
<1>1. /\ CanLock /\ writer' = c
      /\ UNCHANGED <<processVars, config, disk, processes, readers, dirty>>
  BY DEF ReloadLock
<1>2. /\ Moved(c, "reload") /\ req'[c].todo = Names
      /\ req[c].op = "reload" /\ req[c].at = "locking"
  BY ReloadLocked
<1>3. TypeOK'
  BY <1>1, <1>2, FieldsKept DEF LockInv, TypeOK, Moved, Only
<1>4. Known(req[c]) /\ ~Idle(c)
  BY <1>2, RequestKnown DEF Idle
<1>5. Place(req'[c]) /\ Known(req'[c]) /\ Holds(req'[c])
  BY <1>2, <1>4 DEF Place, Known, Holds, Moved
<1>6. /\ \A d \in Clients \ {c} : req[d].op \notin Alone
      /\ req[c].op \in Alone => \A d \in Clients \ {c} : Idle(d)
  BY <1>4, NoneAlone
<1>7. \A d \in Clients \ {c} : writer' = d <=> writer = d
  BY <1>1, DaemonAssumption DEF CanLock
<1>8. writer' # Nil => readers' = {}
  BY <1>1 DEF CanLock
<1>9. c \notin readers /\ req[c].op \in Ops
  BY <1>2, RequestKnown
<1>10. Locking'
  BY <1>1, <1>2, <1>5, <1>6, <1>7, <1>8, <1>9, LockStep DEF Moved, Only, LockInv
<1> QED
  BY <1>3, <1>10 DEF LockInv

\* A boot or a reload that is at the angls of its configuration.
LEMMA AtWork ==
    ASSUME LockInv, NEW c \in Clients, Holds(req[c])
    PROVE  ~Idle(c) /\ Known(req[c]) /\ writer = c
  BY RequestKnown DEF Holds, Place, Idle

LEMMA VisitLocks ==
    ASSUME LockInv, NEW c \in Clients, NEW n \in Names, NEW l \in {"capture", "new"},
           req[c].at = "reload", n \in req[c].todo, Visit(c, n, l),
           UNCHANGED <<processVars, config, disk, processes, writer, readers, dirty>>,
           l = "capture" => processes[n] # Nil,
           l = "new" => req[c].cfg[n] # Nil
    PROVE  LockInv'
<1>1. /\ Only(c) /\ req'[c].op = req[c].op /\ req'[c].at = l /\ req'[c].name = n
      /\ req'[c].proc = processes[n] /\ req'[c].cfg = req[c].cfg
      /\ req'[c].todo = req[c].todo \ {n} /\ req[c].op \in {"boot", "reload"}
  BY Visited
<1>2. Holds(req[c]) /\ Known(req[c]) /\ ~Idle(c)
  BY <1>1, AtWork DEF Holds
<1>3. TypeOK'
  BY <1>1, FieldsKept DEF LockInv, TypeOK, Only
<1>4. req[c].op = "boot" => \A k \in req[c].todo : processes[k] = Nil
  BY DEF LockInv, Locking
<1>5. l = "capture" => processes[n] \in Procs /\ req[c].op = "reload"
  BY <1>1, <1>4 DEF LockInv, TypeOK
<1>6. Place(req'[c]) /\ Known(req'[c]) /\ Holds(req'[c])
  BY <1>1, <1>2, <1>5 DEF Place, Known, Holds
<1>7. req[c].op = "boot" => \A k \in req'[c].todo : processes'[k] = Nil
  BY <1>1, <1>4
<1>8. Locking'
  BY <1>1, <1>2, <1>6, <1>7, MovesLock DEF Only
<1> QED
  BY <1>3, <1>8 DEF LockInv

LEMMA ReloadStopLocks ==
    ASSUME LockInv, NEW c \in Clients, NEW n \in Names, ReloadStop(c, n)
    PROVE  LockInv'
  BY VisitLocks DEF ReloadStop

LEMMA ReloadAddLocks ==
    ASSUME LockInv, NEW c \in Clients, NEW n \in Names, ReloadAdd(c, n)
    PROVE  LockInv'
  BY VisitLocks DEF ReloadAdd

LEMMA ReloadStoppedLocks ==
    ASSUME LockInv, NEW c \in Clients, ReloadStopped(c)
    PROVE  LockInv'
<1>1. UNCHANGED <<processVars, config, disk, writer, readers, dirty>>
  BY DEF ReloadStopped
<1>2. /\ req[c].op = "reload" /\ req[c].at = "await" /\ req[c].name \in Names
      /\ req'[c].todo = req[c].todo
      /\ \/ /\ Moved(c, "reload")
            /\ processes' = [processes EXCEPT ![req[c].name] = Nil]
         \/ /\ Moved(c, "new")
            /\ req[c].cfg[req[c].name] # Nil
            /\ UNCHANGED processes
  BY Replaced
<1>3. Holds(req[c]) /\ Known(req[c]) /\ ~Idle(c)
  BY <1>2, AtWork DEF Holds
<1>4. TypeOK'
  BY <1>1, <1>2, FieldsKept DEF LockInv, TypeOK, Moved, Only
<1>5. Place(req'[c]) /\ Known(req'[c]) /\ Holds(req'[c])
  BY <1>2, <1>3 DEF Place, Known, Holds, Moved
<1>6. Locking'
  BY <1>1, <1>2, <1>3, <1>5, MovesLock DEF Moved, Only
<1> QED
  BY <1>4, <1>6 DEF LockInv

LEMMA ReloadNewLocks ==
    ASSUME LockInv, NEW c \in Clients, ReloadNew(c)
    PROVE  LockInv'
<1>1. UNCHANGED <<config, disk, writer, readers, dirty>>
  BY DEF ReloadNew
<1>2. PICK p \in Free, e \in BOOLEAN :
         /\ New(p, e)
         /\ processes' = [processes EXCEPT ![req[c].name] = p]
         /\ Moved(c, IF e THEN "start" ELSE "reload")
         /\ req'[c].proc = p /\ req'[c].todo = req[c].todo
         /\ req[c].op \in {"boot", "reload"} /\ req[c].at = "new" /\ req[c].name \in Names
  BY Renewed
<1>3. Holds(req[c]) /\ Known(req[c]) /\ ~Idle(c)
  BY <1>2, AtWork DEF Holds
<1>4. p \in Procs
  BY FreeType
<1>5. ProcessTypeOK'
  BY <1>2, <1>4, NewType DEF LockInv, TypeOK
<1>6. TypeOK'
  BY <1>1, <1>2, <1>4, <1>5 DEF LockInv, TypeOK, Moved, Only
<1>7. req'[c].at \in {"start", "reload"} /\ Moved(c, req'[c].at)
  BY <1>2 DEF Moved
<1>8. Place(req'[c]) /\ Known(req'[c]) /\ Holds(req'[c])
  BY <1>2, <1>3, <1>4, <1>7 DEF Place, Known, Holds, Moved
<1>9. req[c].op = "boot" => \A k \in req'[c].todo : processes'[k] = Nil
  <2>1. req[c].name \notin req[c].todo
    BY <1>2, <1>3 DEF Known
  <2>2. req[c].todo \subseteq Names
    BY RequestKnown, FieldTypes
  <2>3. req[c].op = "boot" => \A k \in req[c].todo : processes[k] = Nil
    BY DEF LockInv, Locking
  <2>4. \A k \in req[c].todo : processes'[k] = processes[k]
    BY <1>2, <2>1, <2>2 DEF LockInv, TypeOK
  <2> QED
    BY <1>2, <2>3, <2>4
<1>10. Locking'
  BY <1>1, <1>2, <1>3, <1>7, <1>8, <1>9, MovesLock DEF Moved, Only
<1> QED
  BY <1>6, <1>10 DEF LockInv

LEMMA ReloadStartLocks ==
    ASSUME LockInv, NEW c \in Clients, ReloadStart(c)
    PROVE  LockInv'
<1>1. /\ req[c].op \in {"reload", "boot"} /\ req[c].at = "start"
      /\ Start(req[c].proc) /\ GoTo(c, "reload")
      /\ UNCHANGED <<config, disk, processes, writer, readers, dirty>>
  BY DEF ReloadStart
<1>2. "reload" \in Ats
  BY DEF Ats
<1>3. Moved(c, "reload") /\ req'[c].proc = req[c].proc /\ req'[c].todo = req[c].todo
  BY <1>1, <1>2, Went
<1>4. Holds(req[c]) /\ Known(req[c]) /\ ~Idle(c)
  BY <1>1, AtWork DEF Holds
<1>5. ProcessTypeOK'
  BY <1>1, StartedProc, StartType DEF LockInv, TypeOK
<1>6. TypeOK'
  BY <1>1, <1>3, <1>5 DEF LockInv, TypeOK, Moved, Only
<1>7. Place(req'[c]) /\ Known(req'[c]) /\ Holds(req'[c])
  BY <1>1, <1>3, <1>4 DEF Place, Known, Holds, Moved
<1>8. req[c].op = "boot" => \A k \in req'[c].todo : processes'[k] = Nil
  BY <1>1, <1>3 DEF LockInv, Locking
<1>9. Locking'
  BY <1>1, <1>3, <1>4, <1>7, <1>8, MovesLock DEF Moved, Only
<1> QED
  BY <1>6, <1>9 DEF LockInv

LEMMA ReloadFinishLocks ==
    ASSUME LockInv, NEW c \in Clients, ReloadFinish(c)
    PROVE  LockInv'
<1>1. /\ req[c].at = "reload" /\ Return(c)
      /\ config' = req[c].cfg /\ writer' = Nil /\ dirty' = (dirty /\ disk # req[c].cfg)
      /\ UNCHANGED <<processVars, disk, processes, readers>>
  BY DEF ReloadFinish
<1>2. req[c].op \in {"boot", "reload"}
  BY <1>1, RequestKnown DEF Place
<1>3. Only(c) /\ req'[c] = NoRequest
  BY <1>1, Returned
<1>4. Holds(req[c]) /\ Known(req[c]) /\ ~Idle(c) /\ c \notin readers
  BY <1>1, <1>2, AtWork, RequestKnown DEF Holds
<1>5. config' \in Configs
  BY <1>1, <1>2, <1>4 DEF Known
<1>6. TypeOK'
  BY <1>1, <1>3, <1>5, FieldsKept DEF LockInv, TypeOK, Only
<1>7. Locking'
  BY <1>1, <1>3, <1>4, ReturnsLock DEF Only
<1> QED
  BY <1>6, <1>7 DEF LockInv

LEMMA InitLocks == Init => LockInv
<1> SUFFICES ASSUME Init PROVE LockInv
  OBVIOUS
<1>1. /\ disk \in Configs /\ config = disk /\ processes = [n \in Names |-> Nil]
      /\ readers = {} /\ writer \in Clients /\ dirty = FALSE
      /\ req = [c \in Clients |-> IF c = writer THEN Boot ELSE NoRequest]
  BY DEF Init
<1>2. /\ Boot \in Requests
      /\ Boot.op = "boot" /\ Boot.at = "reload" /\ Boot.cfg = disk /\ Boot.todo = Names
  BY <1>1, BootType
<1>3. NoRequest.op = "none" /\ NoRequest.at = "idle"
  BY DEF NoRequest
<1>4. TypeOK
  BY <1>1, <1>2, NoRequestType, NewProcessesType DEF Init, TypeOK
<1>5. /\ Place(Boot) /\ Known(Boot) /\ Holds(Boot)
      /\ Place(NoRequest) /\ Known(NoRequest) /\ ~Holds(NoRequest)
  BY <1>1, <1>2, <1>3 DEF Place, Known, Holds
<1>6. Boot.op \notin Alone /\ NoRequest.op \notin Alone
  BY <1>2, <1>3, DaemonAssumption
<1>7. Locking
  BY <1>1, <1>2, <1>3, <1>5, <1>6 DEF Locking, Idle
<1> QED
  BY <1>4, <1>7 DEF LockInv

LEMMA StepLocks == LockInv /\ [Next]_vars => LockInv'
<1> SUFFICES ASSUME LockInv, [Next]_vars PROVE LockInv'
  OBVIOUS
<1>1. CASE UNCHANGED vars
  <2>1. UNCHANGED <<processVars, config, disk, processes, writer, readers, req, dirty>>
    BY <1>1 DEF vars, daemonVars
  <2>2. TypeOK'
    BY <2>1, FieldsKept DEF LockInv, TypeOK
  <2> QED
    BY <2>1, <2>2, LockKept DEF LockInv
<1>2. ASSUME NEW c \in Clients, NEW n \in Names, Request(c, n) PROVE LockInv'
  BY <1>2, EnabledSetLocks, ExecAnglLocks, StopAnglLocks, RegisterLocks, DeleteLocks,
     SaveFailedLocks DEF Request, Enable, Disable
<1>3. ASSUME NEW c \in Clients, Continue(c) PROVE LockInv'
  BY <1>3, StopAnglReturnLocks, StopCaptureLocks, StopCancelLocks, EnableWriteLocks,
     EnableStartLocks, DisableFinishLocks, DeleteFinishLocks, ReloadLockLocks,
     ReloadStoppedLocks, ReloadNewLocks, ReloadStartLocks, ReloadFinishLocks,
     ReloadStopLocks, ReloadAddLocks DEF Continue
<1> QED
  BY <1>1, <1>2, <1>3, ReloadLocks, EditConfigLocks, LoopLocks DEF Next

(* Whatever mix of requests, failing saves, edits, exits and timers the daemon
   sees, and however they overlap: one writer or many readers hold d.mu, only a
   delete, a boot or a reload past its Lock is the writer, a request that is
   refused or done holds nothing, and every blocked request has the object, the
   angl and the definition it goes on with. *)
THEOREM LockInvHolds == Spec => []LockInv
<1> QED
  BY InitLocks, StepLocks, PTL DEF Spec

(***************************************************************************)
(* The goroutines: what each step leaves to them, when no request overlaps *)
(* a disable.                                                              *)
(***************************************************************************)

Loops ==
    /\ \A p \in Procs : LoopInv(p)
    /\ \A c \in Clients : req[c].op = "disable" => Supervised(c)

LoopsInv == LockInv /\ Loops

LEMMA Objects == LoopsInv => ObjectsInv /\ LockInv
  BY DEF LoopsInv, Loops, LockInv, TypeOK, ObjectsInv

\* Whoever begins, or goes on, finds no other client in a disable.
LEMMA NoOtherDisable ==
    ASSUME LockInv, DisableAlone, NEW c \in Clients,
           ~Idle(c) \/ \E op \in Ops : MayBegin(c, op)
    PROVE  \A d \in Clients \ {c} : req[d].op # "disable"
<1> SUFFICES ASSUME NEW d \in Clients \ {c}, req[d].op = "disable" PROVE FALSE
  OBVIOUS
<1>1. req[d].op \in Alone
  BY RequestKnown DEF DisableAlone
<1> QED
  BY <1>1, NoneAlone DEF MayBegin

\* Steps of a request that leave the objects alone.
LEMMA RequestLoops ==
    ASSUME LoopsInv, DisableAlone, NEW c \in Clients,
           ~Idle(c) \/ \E op \in Ops : MayBegin(c, op),
           UNCHANGED <<state, pid, gen, handle, wake, pc, woken, alive>>,
           \A d \in Clients \ {c} : req'[d] = req[d],
           req'[c].op # "disable"
    PROVE  Loops'
<1>1. \A d \in Clients \ {c} : req'[d].op # "disable"
  BY NoOtherDisable DEF LoopsInv
<1> QED
  BY <1>1, Frame DEF LoopsInv, Loops

\* Steps of no request that leave the objects alone.
LEMMA SilentLoops ==
    ASSUME LoopsInv, UNCHANGED <<state, pid, gen, handle, wake, pc, woken, alive, req>>
    PROVE  Loops'
<1>1. \A p \in Procs : LoopInv(p)'
  BY Frame DEF LoopsInv, Loops
<1>2. ASSUME NEW c \in Clients, req'[c].op = "disable" PROVE Supervised(c)'
  <2>1. Supervised(c) /\ req[c].at # "new"
    BY <1>2, RequestKnown DEF LoopsInv, Loops, Place
  <2> QED
    BY <2>1 DEF Supervised
<1> QED
  BY <1>1, <1>2 DEF Loops

\* Steps of a request on its object.
LEMMA ObjectLoops ==
    ASSUME LoopsInv, DisableAlone, NEW c \in Clients,
           ~Idle(c) \/ \E op \in Ops : MayBegin(c, op),
           \A p \in Procs : LoopInv(p)',
           \A d \in Clients \ {c} : req'[d] = req[d],
           req'[c].op # "disable"
    PROVE  Loops'
<1>1. \A d \in Clients \ {c} : req'[d].op # "disable"
  BY NoOtherDisable DEF LoopsInv
<1> QED
  BY <1>1 DEF Loops

LEMMA LoopLoops ==
    ASSUME LoopsInv, NEW p \in Procs, NEW g \in Gens, Loop(p, g)
    PROVE  Loops'
<1>1. \A q \in Procs : LoopInv(q)'
  BY Objects, LoopStepInv DEF Loop
<1>2. gen' = gen /\ \A q \in Procs : handle[q] = 0 => handle'[q] = 0
  BY Objects, LoopStartsNothing DEF Loop
<1>3. UNCHANGED <<processes, req>>
  BY DEF Loop, daemonVars
<1>4. ASSUME NEW c \in Clients, req[c].op = "disable" PROVE Supervised(c)'
  <2>1. Supervised(c) /\ Place(req[c]) /\ Known(req[c])
    BY <1>4, RequestKnown DEF LoopsInv, Loops
  <2>2. req[c].at \in {"capture", "cancel", "await"} /\ req[c].proc \in Procs
    BY <1>4, <2>1 DEF Place, Known
  <2> QED
    BY <1>2, <1>3, <2>1, <2>2 DEF Supervised
<1> QED
  BY <1>1, <1>3, <1>4 DEF Loops

LEMMA ExecAnglLoops ==
    ASSUME LoopsInv, DisableAlone, NEW c \in Clients, NEW n \in Names, ExecAngl(c, n)
    PROVE  Loops'
<1> DEFINE p == processes[n]
<1>1. /\ MayBegin(c, "exec") /\ "exec" \in Ops /\ UNCHANGED req
      /\ Start(p) \/ ForceWait(p)
  BY DEF ExecAngl, Exec, daemonVars, MayBegin
<1>2. p \in Procs
  BY DEF ExecAngl, LoopsInv, LockInv, TypeOK
<1>3. \A q \in Procs : LoopInv(q)'
  BY <1>1, <1>2, Objects, StartInv, ForceWaitInv
<1>4. req[c].op # "disable"
  BY <1>1, RequestKnown DEF MayBegin, NoRequest, LoopsInv
<1> QED
  BY <1>1, <1>3, <1>4, ObjectLoops

\* An object that nothing refers to becomes a new one.
LEMMA NewRests ==
    ASSUME LoopsInv, NEW p \in Free, NEW e \in BOOLEAN, New(p, e)
    PROVE  /\ \A q \in Procs : LoopInv(q)'
           /\ handle' = handle
<1>1. p \in Procs /\ LoopInv(p) /\ \A g \in Gens : pc[p][g] \in {"idle", "ended"} /\ ~alive[p][g]
  BY FreeType DEF LoopsInv, Loops
<1>2. gen[p] # 0 => gen[p] \in Gens
  BY <1>1, ProcessAssumption DEF LoopsInv, LockInv, TypeOK, ProcessTypeOK, Gens
<1>3. pid[p] = 0 /\ handle[p] = 0 /\ wake[p] = 0
  BY <1>1, <1>2 DEF LoopInv, FieldsAgree, AtRest
<1> USE DEF LoopsInv, LockInv, TypeOK, ProcessTypeOK, New
<1>4. UNCHANGED <<pid, handle, wake, woken, alive>>
  OBVIOUS
<1>5. LoopInv(p)'
  <2>1. state'[p] \notin Active
    BY <1>1 DEF NewState, Active
  <2>2. gen'[p] = 0 /\ \A g \in Gens : pc'[p][g] = "idle"
    BY <1>1
  <2>3. AtRest(p)'
    BY <1>3, <1>4, <2>1 DEF AtRest
  <2> QED
    BY <1>1, <1>4, <2>2, <2>3 DEF LoopInv, Gens
<1>6. ASSUME NEW q \in Procs, q # p PROVE LoopInv(q)'
  <2>1. state'[q] = state[q] /\ gen'[q] = gen[q] /\ pc'[q] = pc[q]
    BY <1>6
  <2>2. LoopInv(q)
    BY DEF Loops
  <2> QED
    BY <1>4, <2>1, <2>2, Frame
<1> QED
  BY <1>4, <1>5, <1>6

\* What a request that stops an object knows of it.
LEMMA CapturedHandle ==
    ASSUME LoopsInv, NEW c \in Clients, StopCapture(c)
    PROVE  Supervised(c)'
<1>1. /\ Moved(c, "cancel")
      /\ req'[c].proc = req[c].proc
      /\ req[c].proc \in Procs /\ req'[c].handle = handle[req[c].proc]
  BY Captured DEF LoopsInv
<1>2. handle[req[c].proc] \in {0, gen[req[c].proc]}
  BY <1>1, Objects, HandleIsLatest
<1>3. UNCHANGED <<gen, handle>>
  BY FieldsKept DEF StopCapture
<1> QED
  BY <1>1, <1>2, <1>3 DEF Supervised, Moved

LEMMA CancelFields ==
    ASSUME NEW c \in Clients, StopCancel(c)
    PROVE  UNCHANGED <<state, pid, gen, handle, wake, pc, woken, alive, enabled>>
  BY DEF StopCancel, Cancel, fieldVars

LEMMA CancelledHandle ==
    ASSUME LockInv, NEW c \in Clients, StopCancel(c), Supervised(c)
    PROVE  Supervised(c)'
<1>1. req[c].at = "cancel" /\ GoTo(c, "await") /\ "await" \in Ats
  BY DEF StopCancel, Ats
<1>2. Moved(c, "await") /\ req'[c].proc = req[c].proc /\ req'[c].handle = req[c].handle
  BY <1>1, Went
<1>3. UNCHANGED <<gen, handle>>
  BY CancelFields
<1> QED
  BY <1>1, <1>2, <1>3 DEF Supervised, Moved

\* An object whose request has come out of the wait is at rest.
LEMMA StoppedRests ==
    ASSUME LoopsInv, NEW c \in Clients, Stopped(c), Supervised(c)
    PROVE  /\ req[c].proc \in Procs /\ handle[req[c].proc] = 0
           /\ AtRest(req[c].proc) /\ LiveChildren(req[c].proc) = {}
           /\ gen[req[c].proc] # 0 => pc[req[c].proc][gen[req[c].proc]] = "ended"
<1> DEFINE q == req[c]
<1>1. q.at = "await" /\ DoneClosed(q.proc, q.handle)
  BY DEF Stopped
<1>2. q.proc \in Procs
  BY <1>1, StartedProc DEF LoopsInv
<1>3. q.handle \in {0, gen[q.proc]} /\ (q.handle = 0 => handle[q.proc] = 0)
  BY <1>1 DEF Supervised
<1>4. handle[q.proc] = 0
  BY <1>1, <1>2, <1>3, Objects, DoneRests
<1> QED
  BY <1>2, <1>4, Objects, NoHandleRests

\* The tail of Disable: the state of an object at rest.
LEMMA DisabledRests ==
    ASSUME LoopsInv, NEW c \in Clients, DisableFinish(c), Supervised(c)
    PROVE  (\A p \in Procs : LoopInv(p)') /\ handle' = handle
<1>0. PICK p : p = req[c].proc
  OBVIOUS
<1>1. /\ Stopped(c)
      /\ state' = [state EXCEPT ![p] = "disabled"]
      /\ UNCHANGED <<pid, gen, handle, wake, pc, woken, alive>>
  BY <1>0 DEF DisableFinish, loopVars
<1>2. p \in Procs /\ handle[p] = 0 /\ AtRest(p) /\ (gen[p] # 0 => pc[p][gen[p]] = "ended")
  BY <1>0, <1>1, StoppedRests
<1>3. LoopInv(p)'
  <2>1. state'[p] = "disabled"
    BY <1>1, <1>2 DEF LoopsInv, LockInv, TypeOK, ProcessTypeOK
  <2>2. AtRest(p)'
    BY <1>1, <1>2, <2>1 DEF AtRest, Active
  <2>3. LoopInv(p)
    BY <1>2 DEF LoopsInv, Loops
  <2>4. gen[p] # 0 => FieldsAgree(p, gen[p])'
    BY <1>1, <1>2, <2>2 DEF FieldsAgree, AtRest, Waiting
  <2> QED
    BY <1>1, <2>2, <2>3, <2>4 DEF LoopInv, FieldsAgree
<1>4. ASSUME NEW q \in Procs, q # p PROVE LoopInv(q)'
  <2>1. state'[q] = state[q]
    BY <1>1, <1>4
  <2>2. LoopInv(q)
    BY DEF LoopsInv, Loops
  <2> QED
    BY <1>1, <2>1, <2>2, Frame
<1> QED
  BY <1>1, <1>3, <1>4

LEMMA StopAnglLoops ==
    ASSUME LoopsInv, DisableAlone, NEW c \in Clients, NEW n \in Names, StopAngl(c, n)
    PROVE  Loops'
<1>1. MayBegin(c, "stop") /\ "stop" \in Ops
  BY DEF StopAngl, MayBegin
<1>2. Only(c) /\ req'[c].op # "disable"
  BY StopBegun DEF LoopsInv
<1>3. UNCHANGED <<state, pid, gen, handle, wake, pc, woken, alive>>
  BY FieldsKept DEF StopAngl
<1> QED
  BY <1>1, <1>2, <1>3, RequestLoops DEF Only

\* A request that comes back.
LEMMA ReturnLoops ==
    ASSUME LoopsInv, DisableAlone, NEW c \in Clients, Return(c), ~Idle(c),
           \A p \in Procs : LoopInv(p)'
    PROVE  Loops'
<1>1. Only(c) /\ req'[c].op # "disable"
  BY Returned DEF LoopsInv
<1> QED
  BY <1>1, ObjectLoops DEF Only

LEMMA FrameLoops ==
    ASSUME LoopsInv, UNCHANGED <<state, pid, gen, handle, wake, pc, woken, alive>>
    PROVE  \A p \in Procs : LoopInv(p)'
  BY Frame DEF LoopsInv, Loops

LEMMA StopAnglReturnLoops ==
    ASSUME LoopsInv, DisableAlone, NEW c \in Clients, StopAnglReturn(c)
    PROVE  Loops'
<1>1. Return(c) /\ ~Idle(c)
  BY DEF StopAnglReturn, Idle
<1>2. UNCHANGED <<state, pid, gen, handle, wake, pc, woken, alive>>
  BY FieldsKept DEF StopAnglReturn
<1> QED
  BY <1>1, <1>2, FrameLoops, ReturnLoops

\* A disable goes on.
LEMMA DisableLoops ==
    ASSUME LoopsInv, DisableAlone, NEW c \in Clients,
           ~Idle(c) \/ \E op \in Ops : MayBegin(c, op),
           \A p \in Procs : LoopInv(p)', Only(c), Supervised(c)'
    PROVE  Loops'
<1>1. \A d \in Clients \ {c} : req'[d].op # "disable"
  BY NoOtherDisable DEF LoopsInv, Only
<1> QED
  BY <1>1 DEF Loops

LEMMA StopCaptureLoops ==
    ASSUME LoopsInv, DisableAlone, NEW c \in Clients, StopCapture(c)
    PROVE  Loops'
<1>1. Only(c) /\ ~Idle(c)
  BY Captured DEF LoopsInv, Moved, StopCapture, Idle
<1>2. UNCHANGED <<state, pid, gen, handle, wake, pc, woken, alive>>
  BY FieldsKept DEF StopCapture
<1> QED
  BY <1>1, <1>2, FrameLoops, CapturedHandle, DisableLoops

LEMMA StopCancelLoops ==
    ASSUME LoopsInv, DisableAlone, NEW c \in Clients, StopCancel(c)
    PROVE  Loops'
<1>1. req[c].at = "cancel" /\ GoTo(c, "await") /\ "await" \in Ats
  BY DEF StopCancel, Ats
<1>2. Moved(c, "await") /\ ~Idle(c)
  BY <1>1, Went DEF LoopsInv, Idle
<1>3. UNCHANGED <<state, pid, gen, handle, wake, pc, woken, alive>>
  BY CancelFields
<1>4. CASE req[c].op = "disable"
  <2>1. Supervised(c)'
    BY <1>4, CancelledHandle DEF LoopsInv, Loops
  <2> QED
    BY <1>2, <1>3, <2>1, FrameLoops, DisableLoops DEF Moved
<1>5. CASE req[c].op # "disable"
  BY <1>2, <1>3, <1>5, RequestLoops DEF Moved, Only
<1> QED
  BY <1>4, <1>5

LEMMA EnabledSetLoops ==
    ASSUME LoopsInv, DisableAlone, NEW c \in Clients, NEW n \in Names,
           NEW op \in {"enable", "disable"}, NEW e \in BOOLEAN, NEW next \in {"write", "capture"},
           SetEnabled(c, n, op, e, next)
    PROVE  Loops'
<1>0. IntentSet(c, n, op, e, next)
  BY EnabledSet DEF LoopsInv
<1>1. /\ MayBegin(c, op) /\ op \in Ops /\ UNCHANGED processVars
      /\ UNCHANGED req \/ (Only(c) /\ req'[c].at = next)
  BY <1>0 DEF IntentSet
<1>2. UNCHANGED <<state, pid, gen, handle, wake, pc, woken, alive>>
  BY <1>1, FieldsKept
<1>3. CASE UNCHANGED req
  BY <1>2, <1>3, SilentLoops
<1>4. CASE Only(c) /\ req'[c].at = next
  <2>1. Supervised(c)'
    BY <1>4 DEF Supervised
  <2> QED
    BY <1>1, <1>2, <1>4, <2>1, FrameLoops, DisableLoops
<1> QED
  BY <1>1, <1>3, <1>4

LEMMA EnableWriteLoops ==
    ASSUME LoopsInv, DisableAlone, NEW c \in Clients, EnableWrite(c)
    PROVE  Loops'
<1>1. req[c].at = "write" /\ GoTo(c, "start") /\ "start" \in Ats
  BY DEF EnableWrite, Ats
<1>2. Moved(c, "start") /\ ~Idle(c)
  BY <1>1, Went DEF LoopsInv, Idle
<1>3. UNCHANGED <<state, pid, gen, handle, wake, pc, woken, alive>>
  BY DEF EnableWrite, loopVars
<1>4. Supervised(c)'
  BY <1>2 DEF Supervised, Moved
<1> QED
  BY <1>2, <1>3, <1>4, FrameLoops, DisableLoops DEF Moved

LEMMA EnableStartLoops ==
    ASSUME LoopsInv, DisableAlone, NEW c \in Clients, EnableStart(c)
    PROVE  Loops'
<1>1. /\ req[c].at = "start" /\ Return(c) /\ ~Idle(c)
      /\ Start(req[c].proc) \/ UNCHANGED processVars
  BY DEF EnableStart, Idle
<1>2. req[c].proc \in Procs
  BY <1>1, StartedProc DEF LoopsInv
<1>3. CASE Start(req[c].proc)
  BY <1>1, <1>2, <1>3, Objects, StartInv, ReturnLoops
<1>4. CASE UNCHANGED processVars
  BY <1>1, <1>4, FieldsKept, FrameLoops, ReturnLoops
<1> QED
  BY <1>1, <1>3, <1>4

LEMMA DisableFinishLoops ==
    ASSUME LoopsInv, DisableAlone, NEW c \in Clients, DisableFinish(c)
    PROVE  Loops'
<1>1. req[c].op = "disable" /\ Return(c) /\ ~Idle(c)
  BY DEF DisableFinish, Stopped, Idle
<1>2. Supervised(c)
  BY <1>1 DEF LoopsInv, Loops
<1> QED
  BY <1>1, <1>2, DisabledRests, ReturnLoops

LEMMA RegisterLoops ==
    ASSUME LoopsInv, DisableAlone, NEW c \in Clients, NEW n \in Names, Register(c, n)
    PROVE  Loops'
<1>1. PICK p \in Free : MayBegin(c, "register") /\ New(p, FALSE) /\ UNCHANGED req
  BY DEF Register
<1>2. \A q \in Procs : LoopInv(q)'
  BY <1>1, NewRests
<1>3. "register" \in Ops /\ req[c].op # "disable"
  BY <1>1, RequestKnown DEF MayBegin, NoRequest, LoopsInv
<1> QED
  BY <1>1, <1>2, <1>3, ObjectLoops

LEMMA DeleteLoops ==
    ASSUME LoopsInv, DisableAlone, NEW c \in Clients, NEW n \in Names, Delete(c, n)
    PROVE  Loops'
<1>1. /\ MayBegin(c, "delete") /\ "delete" \in Ops /\ UNCHANGED processVars
      /\ UNCHANGED req \/ (Only(c) /\ req'[c].op = "delete")
  BY Deleted DEF LoopsInv
<1>2. UNCHANGED <<state, pid, gen, handle, wake, pc, woken, alive>>
  BY <1>1, FieldsKept
<1> QED
  BY <1>1, <1>2, SilentLoops, RequestLoops DEF Only

LEMMA DeleteFinishLoops ==
    ASSUME LoopsInv, DisableAlone, NEW c \in Clients, DeleteFinish(c)
    PROVE  Loops'
<1>1. Return(c) /\ ~Idle(c)
  BY DEF DeleteFinish, Stopped, Idle
<1>2. UNCHANGED <<state, pid, gen, handle, wake, pc, woken, alive>>
  BY FieldsKept DEF DeleteFinish
<1> QED
  BY <1>1, <1>2, FrameLoops, ReturnLoops

LEMMA ReloadLoops ==
    ASSUME LoopsInv, DisableAlone, NEW c \in Clients, Reload(c)
    PROVE  Loops'
<1>1. MayBegin(c, "reload") /\ "reload" \in Ops
  BY DEF Reload, MayBegin
<1>2. Only(c) /\ req'[c].op # "disable"
  BY ReloadBegun DEF LoopsInv
<1>3. UNCHANGED <<state, pid, gen, handle, wake, pc, woken, alive>>
  BY FieldsKept DEF Reload
<1> QED
  BY <1>1, <1>2, <1>3, RequestLoops DEF Only

LEMMA ReloadLockLoops ==
    ASSUME LoopsInv, DisableAlone, NEW c \in Clients, ReloadLock(c)
    PROVE  Loops'
<1>1. Only(c) /\ req'[c].op # "disable" /\ ~Idle(c)
  BY ReloadLocked DEF LoopsInv, Moved, Idle
<1>2. UNCHANGED <<state, pid, gen, handle, wake, pc, woken, alive>>
  BY FieldsKept DEF ReloadLock
<1> QED
  BY <1>1, <1>2, RequestLoops DEF Only

LEMMA VisitLoops ==
    ASSUME LoopsInv, DisableAlone, NEW c \in Clients, NEW n \in Names,
           NEW l \in {"capture", "new"},
           req[c].at = "reload", Visit(c, n, l), UNCHANGED processVars
    PROVE  Loops'
<1>1. Only(c) /\ req'[c].op # "disable" /\ ~Idle(c)
  BY Visited DEF LoopsInv, Idle
<1> QED
  BY <1>1, FieldsKept, RequestLoops DEF Only

LEMMA ReloadStoppedLoops ==
    ASSUME LoopsInv, DisableAlone, NEW c \in Clients, ReloadStopped(c)
    PROVE  Loops'
<1>1. Only(c) /\ req'[c].op # "disable" /\ ~Idle(c)
  BY Replaced DEF LoopsInv, Moved, Idle
<1>2. UNCHANGED <<state, pid, gen, handle, wake, pc, woken, alive>>
  BY FieldsKept DEF ReloadStopped
<1> QED
  BY <1>1, <1>2, RequestLoops DEF Only

LEMMA ReloadNewLoops ==
    ASSUME LoopsInv, DisableAlone, NEW c \in Clients, ReloadNew(c)
    PROVE  Loops'
<1>1. PICK p \in Free, e \in BOOLEAN :
         /\ New(p, e) /\ Moved(c, IF e THEN "start" ELSE "reload")
         /\ req[c].op \in {"boot", "reload"} /\ req[c].at = "new"
  BY Renewed DEF LoopsInv
<1>2. Only(c) /\ req'[c].op # "disable" /\ ~Idle(c)
  BY <1>1 DEF Moved, Idle
<1>3. \A q \in Procs : LoopInv(q)'
  BY <1>1, NewRests
<1> QED
  BY <1>2, <1>3, ObjectLoops DEF Only

LEMMA ReloadStartLoops ==
    ASSUME LoopsInv, DisableAlone, NEW c \in Clients, ReloadStart(c)
    PROVE  Loops'
<1>1. /\ req[c].op \in {"reload", "boot"} /\ req[c].at = "start" /\ ~Idle(c)
      /\ Start(req[c].proc) /\ GoTo(c, "reload") /\ "reload" \in Ats
  BY DEF ReloadStart, Idle, Ats
<1>2. Only(c) /\ req'[c].op # "disable"
  BY <1>1, Went DEF LoopsInv, Moved
<1>3. req[c].proc \in Procs
  BY <1>1, StartedProc DEF LoopsInv
<1>4. \A q \in Procs : LoopInv(q)'
  BY <1>1, <1>3, Objects, StartInv
<1> QED
  BY <1>1, <1>2, <1>4, ObjectLoops DEF Only

LEMMA ReloadFinishLoops ==
    ASSUME LoopsInv, DisableAlone, NEW c \in Clients, ReloadFinish(c)
    PROVE  Loops'
<1>1. Return(c) /\ ~Idle(c)
  BY DEF ReloadFinish, Idle
<1>2. UNCHANGED <<state, pid, gen, handle, wake, pc, woken, alive>>
  BY FieldsKept DEF ReloadFinish
<1> QED
  BY <1>1, <1>2, FrameLoops, ReturnLoops

LEMMA InitLoops == Init => Loops
<1> SUFFICES ASSUME Init PROVE Loops
  OBVIOUS
<1>1. ASSUME NEW p \in Procs PROVE LoopInv(p)
  BY ProcessAssumption DEF Init, NewProcesses, NoLoop, NewState, LoopInv, AtRest,
     Active, Gens
<1>2. \A c \in Clients : req[c] = Boot \/ req[c] = NoRequest
  BY DEF Init
<1>3. Boot.op # "disable" /\ NoRequest.op # "disable"
  BY BootType DEF Init, NoRequest
<1> QED
  BY <1>1, <1>2, <1>3 DEF Loops

LEMMA StepLoops ==
    ASSUME DisableAlone, LoopsInv, [Next]_vars
    PROVE  LoopsInv'
<1>1. LockInv'
  BY StepLocks DEF LoopsInv
<1>2. CASE UNCHANGED vars
  <2>1. UNCHANGED <<processVars, req>>
    BY <1>2 DEF vars, daemonVars
  <2> QED
    BY <1>1, <2>1, FieldsKept, SilentLoops DEF LoopsInv
<1>3. ASSUME NEW c \in Clients, NEW n \in Names, Request(c, n) PROVE Loops'
  <2>1. ASSUME NEW op, SaveFailed(c, n, op) PROVE Loops'
    BY <2>1, FieldsKept, SilentLoops DEF SaveFailed
  <2> QED
    BY <1>3, <2>1, EnabledSetLoops, ExecAnglLoops, StopAnglLoops, RegisterLoops,
       DeleteLoops DEF Request, Enable, Disable
<1>4. ASSUME NEW c \in Clients, NEW n \in Names, ReloadStop(c, n) \/ ReloadAdd(c, n)
      PROVE  Loops'
  BY <1>4, VisitLoops DEF ReloadStop, ReloadAdd
<1>5. ASSUME NEW c \in Clients, Continue(c) PROVE Loops'
  BY <1>4, <1>5, StopAnglReturnLoops, StopCaptureLoops, StopCancelLoops, EnableWriteLoops,
     EnableStartLoops, DisableFinishLoops, DeleteFinishLoops, ReloadLockLoops,
     ReloadStoppedLoops, ReloadNewLoops, ReloadStartLoops, ReloadFinishLoops DEF Continue
<1>6. ASSUME NEW n \in Names, EditConfig(n) PROVE Loops'
  BY <1>6, FieldsKept, SilentLoops DEF EditConfig
<1> QED
  BY <1>1, <1>2, <1>3, <1>5, <1>6, ReloadLoops, LoopLoops DEF Next, LoopsInv

LEMMA LoopsInvHolds ==
    ASSUME DisableAlone
    PROVE  Spec => []LoopsInv
<1>1. Init => LoopsInv
  BY InitLocks, InitLoops DEF LoopsInv
<1>2. LoopsInv /\ [Next]_vars => LoopsInv'
  BY StepLoops
<1> QED
  BY <1>1, <1>2, PTL DEF Spec

(* However requests, exits and timers overlap, and whether or not the saves
   succeed, an object never has two children, as long as nothing overlaps a
   disable: Start and the loop are enough for it, DisableFinish is the one
   writer of the state that does not look at it. *)
THEOREM SingleCopyHolds == DisableAlone => (Spec => []SingleCopy)
<1> SUFFICES ASSUME DisableAlone PROVE Spec => []SingleCopy
  OBVIOUS
<1>1. LoopsInv => SingleCopy
  BY Objects, LiveIsLatest DEF SingleCopy
<1>2. Spec => []LoopsInv
  BY LoopsInvHolds
<1> QED
  BY <1>1, <1>2, PTL

(* A disable that comes back has ended the child it found, and nobody has
   started another one meanwhile. *)
THEOREM DisableIsCompleteHolds == DisableAlone => (Spec => DisableIsComplete)
<1> SUFFICES ASSUME DisableAlone PROVE Spec => DisableIsComplete
  OBVIOUS
<1> DEFINE A == \A c \in Clients :
        req[c].op = "disable" /\ req[c].at = "await" /\ req'[c].at = "idle"
           => LiveChildren(req[c].proc) = {} /\ handle[req[c].proc] = 0
<1>1. ASSUME LoopsInv, [Next]_vars PROVE [A]_vars
  <2> SUFFICES ASSUME NEW c \in Clients, req[c].op = "disable", req[c].at = "await",
                      req'[c].at = "idle"
               PROVE  LiveChildren(req[c].proc) = {} /\ handle[req[c].proc] = 0
    OBVIOUS
  <2>1. Supervised(c)
    BY <1>1 DEF LoopsInv, Loops
  <2>2. Stopped(c)
    <3>1. req'[c] # req[c]
      OBVIOUS
    <3>2. ASSUME NEW d \in Clients, NEW r, Become(d, r), d # c PROVE FALSE
      BY <1>1, <3>1, <3>2 DEF Become, LoopsInv, LockInv, TypeOK
    <3>3. ASSUME NEW d \in Clients, Continue(d) PROVE d = c /\ DisableFinish(c)
      <4>1. d = c
        BY <1>1, <3>1, <3>2, <3>3
        DEF Continue, StopAnglReturn, StopCapture, StopCancel, EnableWrite, EnableStart,
            DisableFinish, DeleteFinish, ReloadLock, ReloadStop, ReloadAdd, ReloadStopped,
            ReloadNew, ReloadStart, ReloadFinish, Return, GoTo, Visit
      <4> QED
        BY <3>3, <4>1
        DEF Continue, StopAnglReturn, StopCapture, StopCancel, EnableWrite, EnableStart,
            DisableFinish, DeleteFinish, ReloadLock, ReloadStop, ReloadAdd, ReloadStopped,
            ReloadNew, ReloadStart, ReloadFinish
    <3>4. ASSUME NEW d \in Clients, NEW n \in Names, Request(d, n) PROVE FALSE
      <4>1. CASE UNCHANGED req
        BY <3>1, <4>1
      <4>2. CASE ~UNCHANGED req
        BY <1>1, <3>1, <3>2, <3>4, <4>2
        DEF Request, ExecAngl, StopAngl, Enable, Disable, SetEnabled, Register, Delete,
            SaveFailed, daemonVars, MayBegin, Idle
      <4> QED
        BY <4>1, <4>2
    <3> QED
      BY <1>1, <3>1, <3>2, <3>3, <3>4
      DEF Next, Reload, MayBegin, Idle, EditConfig, Loop, vars, daemonVars, DisableFinish
  <2> QED
    BY <1>1, <2>1, <2>2, StoppedRests
<1>2. Spec => []LoopsInv
  BY LoopsInvHolds
<1> QED
  BY <1>1, <1>2, PTL DEF Spec, DisableIsComplete

(***************************************************************************)
(* The file: what each step leaves to it, when no request overlaps a       *)
(* reload and the saves of Enable and Disable succeed.                     *)
(***************************************************************************)

\* Whoever begins finds no other client in a reload.
LEMMA NoReload ==
    ASSUME LockInv, ReloadAlone, NEW c \in Clients, NEW op \in Ops, MayBegin(c, op)
    PROVE  \A d \in Clients : req[d].op # "reload"
<1> SUFFICES ASSUME NEW d \in Clients, req[d].op = "reload" PROVE FALSE
  OBVIOUS
<1>1. req[d].op \in Alone
  BY RequestKnown DEF ReloadAlone
<1> QED
  BY <1>1 DEF MayBegin

\* A save under the lock: nobody holds what the file was.
LEMMA SavedDurable ==
    ASSUME LockInv, ReloadAlone, NEW c \in Clients, NEW op \in Ops, MayBegin(c, op), CanLock,
           disk' = config',
           UNCHANGED req \/ (Only(c) /\ req'[c].op \notin {"boot", "reload"})
    PROVE  Durable'
<1>1. \A d \in Clients : req[d].op \notin {"boot", "reload"}
  BY NoReload, NobodyHolds DEF CanLock
<1> QED
  BY <1>1 DEF Durable, Only

\* A request that moves, or comes back, and leaves the file alone.
LEMMA MovedDurable ==
    ASSUME LockInv, Durable, NEW c \in Clients, Only(c),
           UNCHANGED <<config, disk, dirty>>,
           req'[c].op \in {"boot", "reload"} => req'[c].op = req[c].op /\ req'[c].cfg = req[c].cfg
    PROVE  Durable'
  BY DEF Durable, Only

LEMMA SilentDurable ==
    ASSUME Durable, UNCHANGED <<config, disk, dirty, req>>
    PROVE  Durable'
  BY DEF Durable

LEMMA WentDurable ==
    ASSUME LockInv, Durable, NEW c \in Clients, NEW a \in Ats, GoTo(c, a),
           UNCHANGED <<config, disk, dirty>>
    PROVE  Durable'
  BY Went, MovedDurable DEF Moved

LEMMA ReturnDurable ==
    ASSUME LockInv, Durable, NEW c \in Clients, Return(c), UNCHANGED <<config, disk, dirty>>
    PROVE  Durable'
<1>1. Only(c) /\ req'[c].op \notin {"boot", "reload"}
  BY Returned
<1> QED
  BY <1>1, MovedDurable

LEMMA ReloadFinishDurable ==
    ASSUME LockInv, Durable, ReloadAlone, NEW c \in Clients, ReloadFinish(c)
    PROVE  Durable'
<1>1. /\ req[c].at = "reload" /\ Return(c) /\ config' = req[c].cfg
      /\ dirty' = (dirty /\ disk # req[c].cfg) /\ UNCHANGED disk
  BY DEF ReloadFinish
<1>2. req[c].op \in {"boot", "reload"} /\ ~Idle(c)
  BY <1>1, RequestKnown DEF Place, Idle
<1>3. Only(c) /\ req'[c].op \notin {"boot", "reload"}
  BY <1>1, Returned
<1>4. \A d \in Clients \ {c} : req[d].op \notin {"boot", "reload"}
  <2>1. \A d \in Clients \ {c} : req[d].op # "boot"
    BY <1>1, <1>2, HolderIsOne DEF Holds
  <2>2. ASSUME NEW d \in Clients \ {c}, req[d].op = "reload" PROVE FALSE
    <3>1. req[d].op \in Alone
      BY <2>2, RequestKnown DEF ReloadAlone
    <3> QED
      BY <1>2, <3>1, NoneAlone
  <2> QED
    BY <2>1, <2>2
<1> QED
  BY <1>1, <1>2, <1>3, <1>4 DEF Durable, Only

LEMMA RequestDurable ==
    ASSUME LockInv, Durable, ReloadAlone, SavesSucceed,
           NEW c \in Clients, NEW n \in Names, Request(c, n)
    PROVE  Durable'
<1>1. CASE ExecAngl(c, n)
  BY <1>1, SilentDurable DEF ExecAngl, daemonVars
<1>2. CASE StopAngl(c, n)
  <2>1. Only(c) /\ req'[c].op = "stop" /\ UNCHANGED <<config, disk, dirty>>
    BY <1>2, StopBegun DEF StopAngl
  <2> QED
    BY <2>1, MovedDurable
<1>3. ASSUME NEW op \in {"enable", "disable"}, NEW e \in BOOLEAN,
             NEW next \in {"write", "capture"}, SetEnabled(c, n, op, e, next)
      PROVE  Durable'
  <2>1. IntentSet(c, n, op, e, next)
    BY <1>3, EnabledSet
  <2>2. /\ MayBegin(c, op) /\ op \in Ops /\ CanLock /\ disk' = config'
        /\ UNCHANGED req \/ (Only(c) /\ req'[c].op = op)
    BY <2>1 DEF IntentSet
  <2> QED
    BY <2>2, SavedDurable
<1>4. CASE Register(c, n)
  <2>1. /\ MayBegin(c, "register") /\ "register" \in Ops /\ CanLock
        /\ disk' = config' /\ UNCHANGED req
    BY <1>4 DEF Register, Save, MayBegin
  <2> QED
    BY <2>1, SavedDurable
<1>5. CASE Delete(c, n)
  <2>1. /\ MayBegin(c, "delete") /\ "delete" \in Ops /\ CanLock /\ disk' = config'
        /\ UNCHANGED req \/ (Only(c) /\ req'[c].op = "delete")
    BY <1>5, Deleted
  <2> QED
    BY <2>1, SavedDurable
<1>6. ASSUME NEW op, SaveFailed(c, n, op) PROVE Durable'
  BY <1>6, SilentDurable DEF SaveFailed, SaveFails
<1> QED
  BY <1>1, <1>2, <1>3, <1>4, <1>5, <1>6 DEF Request, Enable, Disable

LEMMA ContinueDurable ==
    ASSUME LockInv, Durable, ReloadAlone, NEW c \in Clients, Continue(c)
    PROVE  Durable'
<1> USE DEF Ats
<1>1. CASE StopAnglReturn(c) \/ EnableStart(c) \/ DisableFinish(c) \/ DeleteFinish(c)
  BY <1>1, ReturnDurable DEF StopAnglReturn, EnableStart, DisableFinish, DeleteFinish
<1>2. CASE StopCancel(c) \/ EnableWrite(c) \/ ReloadStart(c)
  BY <1>2, WentDurable DEF StopCancel, EnableWrite, ReloadStart
<1>3. CASE StopCapture(c)
  BY <1>3, Captured, MovedDurable DEF StopCapture, Moved
<1>4. CASE ReloadLock(c)
  BY <1>4, ReloadLocked, MovedDurable DEF ReloadLock, Moved
<1>5. CASE ReloadStopped(c)
  BY <1>5, Replaced, MovedDurable DEF ReloadStopped, Moved
<1>6. CASE ReloadNew(c)
  <2>1. Only(c) /\ req'[c].op = req[c].op /\ req'[c].cfg = req[c].cfg
    BY <1>6, Renewed DEF Moved
  <2> QED
    BY <1>6, <2>1, MovedDurable DEF ReloadNew
<1>7. ASSUME NEW n \in Names, ReloadStop(c, n) \/ ReloadAdd(c, n) PROVE Durable'
  <2>1. Only(c) /\ req'[c].op = req[c].op /\ req'[c].cfg = req[c].cfg
    BY <1>7, Visited DEF ReloadStop, ReloadAdd
  <2> QED
    BY <1>7, <2>1, MovedDurable DEF ReloadStop, ReloadAdd
<1> QED
  BY <1>1, <1>2, <1>3, <1>4, <1>5, <1>6, <1>7, ReloadFinishDurable DEF Continue

LEMMA StepDurable ==
    ASSUME ReloadAlone, SavesSucceed, LockInv, Durable, [Next]_vars
    PROVE  Durable'
<1>1. CASE UNCHANGED vars
  BY <1>1, SilentDurable DEF vars, daemonVars
<1>2. ASSUME NEW c \in Clients, Reload(c) PROVE Durable'
  <2>1. /\ MayBegin(c, "reload") /\ "reload" \in Ops /\ UNCHANGED <<config, disk, dirty>>
        /\ Only(c) /\ req'[c].cfg = disk
    BY <1>2, ReloadBegun DEF Reload, MayBegin
  <2> QED
    BY <2>1 DEF Durable, Only
<1>3. ASSUME NEW n \in Names, EditConfig(n) PROVE Durable'
  BY <1>3 DEF EditConfig, Durable
<1>4. ASSUME NEW p \in Procs, NEW g \in Gens, Loop(p, g) PROVE Durable'
  BY <1>4, SilentDurable DEF Loop, daemonVars
<1> QED
  BY <1>1, <1>2, <1>3, <1>4, RequestDurable, ContinueDurable DEF Next

LEMMA DurableHolds ==
    ASSUME ReloadAlone, SavesSucceed
    PROVE  Spec => []Durable
<1>1. Init => Durable
  BY BootType DEF Init, Durable, NoRequest
<1>2. LockInv /\ Durable /\ [Next]_vars => Durable'
  BY StepDurable
<1> QED
  BY <1>1, <1>2, LockInvHolds, PTL DEF Spec

(* Between requests config.json holds what the daemon works by, unless the user
   edited it since: also after deletions and registrations that were undone
   because their save failed, and whatever else overlaps, as long as nothing
   overlaps a reload and the saves of Enable and Disable succeed. *)
THEOREM ConfigIsDurableHolds == ReloadAlone /\ SavesSucceed => (Spec => []ConfigIsDurable)
<1> SUFFICES ASSUME ReloadAlone, SavesSucceed PROVE Spec => []ConfigIsDurable
  OBVIOUS
<1>1. Durable => ConfigIsDurable
  BY DEF Durable, ConfigIsDurable
<1>2. Spec => []Durable
  BY DurableHolds
<1> QED
  BY <1>1, <1>2, PTL

(***************************************************************************)
(* Registry, objects and definitions: what each step leaves to their       *)
(* agreement, when no request overlaps an enable or a disable.             *)
(***************************************************************************)

AgreeInv == LockInv /\ Agreement

\* A request that changes the registry has it to itself.
LEMMA BusyAlone ==
    ASSUME LockInv, IntentsAlone, NEW c \in Clients, Busy(c)
    PROVE  /\ \A d \in Clients \ {c} : ~Busy(d) /\ req[d].op # "stop"
           /\ ~Idle(c)
<1>1. ~Idle(c) /\ Place(req[c])
  BY RequestKnown DEF Busy, Place, Idle
<1>2. CASE req[c].op \in {"enable", "disable"}
  <2>1. req[c].op \in Alone
    BY <1>2, RequestKnown DEF IntentsAlone
  <2>2. \A d \in Clients \ {c} : Idle(d)
    BY <1>1, <2>1, NoneAlone
  <2>3. \A d \in Clients \ {c} : req[d] = NoRequest
    BY <2>2, RequestKnown
  <2> QED
    BY <1>1, <2>3 DEF Busy, NoRequest
<1>3. CASE Holds(req[c])
  <2>1. \A d \in Clients \ {c} : ~Holds(req[d]) /\ req[d].op # "stop"
    BY <1>3, HolderIsOne
  <2>2. ASSUME NEW d \in Clients \ {c}, Busy(d) PROVE FALSE
    <3>1. req[d].op \in {"enable", "disable"}
      BY <2>1, <2>2, RequestKnown DEF Busy, Holds, Place
    <3>2. req[d].op \in Alone
      BY <3>1, RequestKnown DEF IntentsAlone
    <3> QED
      BY <1>1, <3>2, NoneAlone
  <2> QED
    BY <1>1, <2>1, <2>2
<1> QED
  BY <1>1, <1>2, <1>3 DEF Busy, Holds, Place

\* A request that gets the lock finds no other that changes the registry.
LEMMA NoneBusy ==
    ASSUME LockInv, IntentsAlone, NEW c \in Clients, NEW op \in Ops, MayBegin(c, op), writer = Nil
    PROVE  \A d \in Clients : ~Busy(d)
<1> SUFFICES ASSUME NEW d \in Clients, Busy(d) PROVE FALSE
  OBVIOUS
<1>1. ~Holds(req[d])
  BY NobodyHolds
<1>2. req[d].op \in {"enable", "disable"}
  BY <1>1, RequestKnown DEF Busy, Holds, Place
<1>3. req[d].op \in Alone
  BY <1>2, RequestKnown DEF IntentsAlone
<1> QED
  BY <1>3 DEF MayBegin

\* So does a reload that has waited for it.
LEMMA LockedNoneBusy ==
    ASSUME LockInv, IntentsAlone, NEW c \in Clients, req[c].at = "locking", writer = Nil
    PROVE  \A d \in Clients : ~Busy(d)
<1> SUFFICES ASSUME NEW d \in Clients, Busy(d) PROVE FALSE
  OBVIOUS
<1>1. ~Holds(req[d]) /\ d # c /\ ~Idle(c)
  BY NobodyHolds DEF Busy, Idle
<1>2. req[d].op \in {"enable", "disable"}
  BY <1>1, RequestKnown DEF Busy, Holds, Place
<1>3. req[d].op \in Alone
  BY <1>2, RequestKnown DEF IntentsAlone
<1> QED
  BY <1>1, <1>3, NoneAlone

\* What the registry is while nobody is busy.
LEMMA QuietRegistry ==
    ASSUME AgreeInv, \A d \in Clients : ~Busy(d)
    PROVE  /\ \A n, m \in Names : processes[n] = processes[m] /\ processes[n] # Nil => n = m
           /\ \A n \in Names : Agrees(n, config[n])
  BY DEF AgreeInv, Agreement

\* What Agreement says of the one request that is busy.
LEMMA BusyRegistry ==
    ASSUME AgreeInv, NEW c \in Clients, Busy(c)
    PROVE  /\ \A n, m \in Names : processes[n] = processes[m] /\ processes[n] # Nil => n = m
           /\ Locals(c)
           /\ \A n \in Names : n \notin Touched(c) => Agrees(n, Expected(c, n))
  BY DEF AgreeInv, Agreement

\* Steps that leave the registry alone, and those who change it.
LEMMA AgreementKept ==
    ASSUME Agreement, UNCHANGED <<enabled, config, processes>>,
           \A d \in Clients : req'[d] = req[d] \/ (~Busy(d) /\ ~Busy(d)')
    PROVE  Agreement'
<1>1. \A d \in Clients : Busy(d)' => Busy(d) /\ req'[d] = req[d]
  BY DEF Busy
<1>2. \A d \in Clients : Busy(d) => Busy(d)'
  BY DEF Busy
<1>3. \A n \in Names : Agrees(n, config[n]) => Agrees(n, config[n])'
  BY DEF Agrees
<1>4. ASSUME NEW d \in Clients, Busy(d)' PROVE Locals(d)'
  <2>1. Locals(d) /\ req'[d] = req[d]
    BY <1>1, <1>4 DEF Agreement
  <2> QED
    BY <2>1 DEF Locals
<1>5. ASSUME NEW d \in Clients, Busy(d)', NEW n \in Names, ~(n \in Touched(d))'
      PROVE  Agrees(n, Expected(d, n))'
  <2>1. req'[d] = req[d] /\ n \notin Touched(d)
    BY <1>1, <1>5 DEF Touched
  <2>2. Agrees(n, Expected(d, n))
    BY <1>1, <1>5, <2>1 DEF Agreement
  <2>3. Expected(d, n)' = Expected(d, n)
    BY <2>1 DEF Expected
  <2> QED
    BY <2>2, <2>3 DEF Agrees
<1> QED
  BY <1>1, <1>2, <1>3, <1>4, <1>5 DEF Agreement

LEMMA AgreementSilent ==
    ASSUME Agreement, UNCHANGED <<enabled, config, processes, req>>
    PROVE  Agreement'
  BY AgreementKept

LEMMA AgreementQuiet ==
    ASSUME \A d \in Clients : ~Busy(d)',
           \A n, m \in Names : processes'[n] = processes'[m] /\ processes'[n] # Nil => n = m,
           \A n \in Names : Agrees(n, config[n])'
    PROVE  Agreement'
  BY DEF Agreement

LEMMA AgreementBusy ==
    ASSUME NEW c \in Clients, Busy(c)', \A d \in Clients \ {c} : ~Busy(d)',
           \A n, m \in Names : processes'[n] = processes'[m] /\ processes'[n] # Nil => n = m,
           Locals(c)',
           \A n \in Names : ~(n \in Touched(c))' => Agrees(n, Expected(c, n))'
    PROVE  Agreement'
  BY DEF Agreement

\* A busy request moves on and stays the same request.
LEMMA AgreementMoves ==
    ASSUME AgreeInv, IntentsAlone, NEW c \in Clients, Busy(c), Only(c), Busy(c)',
           \A n, m \in Names : processes'[n] = processes'[m] /\ processes'[n] # Nil => n = m,
           Locals(c)',
           \A n \in Names : ~(n \in Touched(c))' => Agrees(n, Expected(c, n))'
    PROVE  Agreement'
<1>1. \A d \in Clients \ {c} : ~Busy(d)'
  BY BusyAlone DEF AgreeInv, Only, Busy
<1> QED
  BY <1>1, AgreementBusy

\* A busy request comes back.
LEMMA AgreementReturns ==
    ASSUME AgreeInv, IntentsAlone, NEW c \in Clients, Busy(c), Return(c),
           \A n, m \in Names : processes'[n] = processes'[m] /\ processes'[n] # Nil => n = m,
           \A n \in Names : Agrees(n, config[n])'
    PROVE  Agreement'
<1>1. Only(c) /\ req'[c].op = "none"
  BY Returned DEF AgreeInv
<1>2. \A d \in Clients : ~Busy(d)'
  BY <1>1, BusyAlone DEF AgreeInv, Only, Busy
<1> QED
  BY <1>2, AgreementQuiet

\* A request begins to be busy.
LEMMA AgreementBegins ==
    ASSUME NEW c \in Clients, \A d \in Clients : ~Busy(d), Only(c), Busy(c)',
           \A n, m \in Names : processes'[n] = processes'[m] /\ processes'[n] # Nil => n = m,
           Locals(c)',
           \A n \in Names : ~(n \in Touched(c))' => Agrees(n, Expected(c, n))'
    PROVE  Agreement'
<1>1. \A d \in Clients \ {c} : ~Busy(d)'
  BY DEF Only, Busy
<1> QED
  BY <1>1, AgreementBusy

LEMMA LoopAgrees ==
    ASSUME AgreeInv, NEW p \in Procs, NEW g \in Gens, Loop(p, g)
    PROVE  Agreement'
  BY LoopKeepsEnabled, AgreementSilent DEF Loop, daemonVars, AgreeInv

LEMMA ExecAnglAgrees ==
    ASSUME AgreeInv, NEW c \in Clients, NEW n \in Names, ExecAngl(c, n)
    PROVE  Agreement'
<1>1. enabled' = enabled
  BY DEF ExecAngl, Exec, Start, startLocked, ForceWait
<1> QED
  BY <1>1, AgreementSilent DEF ExecAngl, daemonVars, AgreeInv

LEMMA StopAnglAgrees ==
    ASSUME AgreeInv, NEW c \in Clients, NEW n \in Names, StopAngl(c, n)
    PROVE  Agreement'
<1>1. Only(c) /\ req'[c].op = "stop" /\ Idle(c)
  BY StopBegun DEF AgreeInv, StopAngl, MayBegin
<1>2. ~Busy(c) /\ ~Busy(c)'
  BY <1>1, RequestKnown DEF AgreeInv, Busy, NoRequest
<1>3. UNCHANGED <<enabled, config, processes>>
  BY FieldsKept DEF StopAngl
<1> QED
  BY <1>1, <1>2, <1>3, AgreementKept DEF AgreeInv, Only

LEMMA StopAnglReturnAgrees ==
    ASSUME AgreeInv, NEW c \in Clients, StopAnglReturn(c)
    PROVE  Agreement'
<1>1. req[c].op = "stop" /\ Return(c)
  BY DEF StopAnglReturn
<1>2. Only(c) /\ req'[c].op = "none"
  BY <1>1, Returned DEF AgreeInv
<1>3. UNCHANGED <<enabled, config, processes>>
  BY FieldsKept DEF StopAnglReturn
<1> QED
  BY <1>1, <1>2, <1>3, AgreementKept DEF AgreeInv, Only, Busy

\* A request that stops an object takes another step to it.
LEMMA StoppingAgrees ==
    ASSUME AgreeInv, IntentsAlone, NEW c \in Clients, NEW a \in {"cancel", "await"},
           req[c].at \in {"capture", "cancel"}, req[c].op \in {"disable", "delete", "reload"},
           Moved(c, a), req'[c].proc = req[c].proc, req'[c].todo = req[c].todo,
           UNCHANGED <<enabled, config, processes>>
    PROVE  Agreement'
<1>1. Busy(c) /\ Busy(c)'
  BY DEF Busy, Moved
<1>2. Locals(c)'
  BY <1>1, BusyRegistry DEF Locals, Moved
<1>3. \A n \in Names : ~(n \in Touched(c))' => Agrees(n, Expected(c, n))'
  BY <1>1, BusyRegistry DEF Touched, Expected, Agrees, Moved
<1> QED
  BY <1>1, <1>2, <1>3, BusyRegistry, AgreementMoves DEF Moved

LEMMA StopCaptureAgrees ==
    ASSUME AgreeInv, IntentsAlone, NEW c \in Clients, StopCapture(c)
    PROVE  Agreement'
<1>1. /\ Moved(c, "cancel")
      /\ req'[c].proc = req[c].proc /\ req'[c].todo = req[c].todo
      /\ req[c].op \in {"disable", "delete", "reload"} /\ req[c].at = "capture"
  BY Captured DEF AgreeInv
<1>2. UNCHANGED <<enabled, config, processes>>
  BY FieldsKept DEF StopCapture
<1> QED
  BY <1>1, <1>2, StoppingAgrees

LEMMA StopCancelAgrees ==
    ASSUME AgreeInv, IntentsAlone, NEW c \in Clients, StopCancel(c)
    PROVE  Agreement'
<1>1. /\ req[c].at = "cancel" /\ GoTo(c, "await") /\ "await" \in Ats
      /\ UNCHANGED <<config, processes>>
  BY DEF StopCancel, Ats
<1>2. Moved(c, "await") /\ req'[c].proc = req[c].proc /\ req'[c].todo = req[c].todo
  BY <1>1, Went DEF AgreeInv
<1>3. enabled' = enabled
  BY CancelFields
<1>4. CASE req[c].op = "stop"
  BY <1>1, <1>2, <1>3, <1>4, AgreementKept DEF AgreeInv, Moved, Only, Busy
<1>5. CASE req[c].op # "stop"
  <2>1. req[c].op \in {"disable", "delete", "reload"}
    BY <1>1, <1>5, RequestKnown DEF AgreeInv, Place
  <2> QED
    BY <1>1, <1>2, <1>3, <2>1, StoppingAgrees
<1> QED
  BY <1>4, <1>5

LEMMA EnabledSetAgrees ==
    ASSUME AgreeInv, IntentsAlone, NEW c \in Clients, NEW n \in Names,
           NEW op \in {"enable", "disable"}, NEW e \in BOOLEAN, NEW next \in {"write", "capture"},
           SetEnabled(c, n, op, e, next),
           \/ op = "enable" /\ e = TRUE /\ next = "write"
           \/ op = "disable" /\ e = FALSE /\ next = "capture"
    PROVE  Agreement'
<1>0. IntentSet(c, n, op, e, next)
  BY EnabledSet DEF AgreeInv
<1>1. /\ MayBegin(c, op) /\ op \in Ops /\ writer = Nil
      /\ UNCHANGED <<processVars, processes>>
      /\ config[n] # Nil /\ config'[n] # Nil /\ config'[n].enabled = e
      /\ \A m \in Names \ {n} : config'[m] = config[m]
  BY <1>0 DEF IntentSet, CanLock
<1>2. enabled' = enabled
  BY <1>1, FieldsKept
<1>3. \A d \in Clients : ~Busy(d)
  BY <1>1, NoneBusy DEF AgreeInv
<1>4. \A m \in Names : Agrees(m, config[m])
  BY <1>3, QuietRegistry
<1>5. \A m \in Names \ {n} : Agrees(m, config[m])'
  BY <1>1, <1>2, <1>4 DEF Agrees
<1>6. CASE ~SavesSucceed /\ UNCHANGED req
  <2>1. Agrees(n, config[n])'
    BY <1>1, <1>4, <1>6 DEF Agrees
  <2>2. \A d \in Clients : ~Busy(d)'
    BY <1>3, <1>6 DEF Busy
  <2> QED
    BY <1>1, <1>3, <1>5, <2>1, <2>2, QuietRegistry, AgreementQuiet
<1>7. CASE processes[n] = Nil
  BY <1>1, <1>4, <1>7 DEF Agrees
<1>8. CASE /\ Only(c) /\ req'[c].op = op /\ req'[c].at = next
           /\ req'[c].name = n /\ req'[c].proc = processes[n] /\ processes[n] \in Procs
  <2>1. Busy(c)'
    BY <1>8 DEF Busy
  <2>2. Locals(c)'
    BY <1>1, <1>8 DEF Locals
  <2>3. \A m \in Names : ~(m \in Touched(c))' => Agrees(m, Expected(c, m))'
    BY <1>5, <1>8 DEF Touched, Expected, Agrees
  <2> QED
    BY <1>1, <1>3, <1>8, <2>1, <2>2, <2>3, QuietRegistry, AgreementBegins
<1> QED
  BY <1>0, <1>6, <1>7, <1>8 DEF IntentSet

\* An object agrees with a definition after the step.
AgreesNext(n, d) ==
    /\ processes'[n] = Nil <=> d = Nil
    /\ SavesSucceed /\ d # Nil => enabled'[processes'[n]] = d.enabled

\* One object's own definition is set: the other angls agree as they did.
LEMMA OthersAgree ==
    ASSUME TypeOK, NEW p \in Procs, NEW e \in BOOLEAN, enabled' = [enabled EXCEPT ![p] = e],
           NEW m \in Names, processes'[m] = processes[m], processes[m] # p,
           NEW d, Agrees(m, d)
    PROVE  AgreesNext(m, d)
<1>1. d # Nil => processes[m] \in Procs \ {p}
  BY DEF Agrees, TypeOK
<1> QED
  BY <1>1 DEF Agrees, AgreesNext, TypeOK, ProcessTypeOK

LEMMA EnableWriteAgrees ==
    ASSUME AgreeInv, IntentsAlone, NEW c \in Clients, EnableWrite(c)
    PROVE  Agreement'
<1> DEFINE q == req[c]
<1>1. /\ q.at = "write" /\ GoTo(c, "start") /\ "start" \in Ats
      /\ enabled' = [enabled EXCEPT ![q.proc] = TRUE] /\ UNCHANGED <<config, processes>>
  BY DEF EnableWrite, Ats
<1>2. Moved(c, "start") /\ req'[c].proc = q.proc
  BY <1>1, Went DEF AgreeInv
<1>3. q.op = "enable" /\ q.proc \in Procs /\ q.name \in Names
  BY <1>1, RequestKnown DEF AgreeInv, Place, Known
<1>4. Busy(c) /\ Busy(c)'
  BY <1>1, <1>2, <1>3 DEF Busy, Moved
<1>5. q.proc = processes[q.name] /\ config[q.name] # Nil /\ config[q.name].enabled
  BY <1>1, <1>3, <1>4, BusyRegistry DEF Locals
<1>6. Locals(c)'
  BY <1>1, <1>2, <1>3, <1>5 DEF Locals, Moved
<1>7. ASSUME NEW n \in Names PROVE Agrees(n, Expected(c, n))'
  <2>1. Expected(c, n)' = config[n] /\ Expected(c, n) = config[n]
    BY <1>1, <1>2, <1>3 DEF Expected, Moved
  <2>2. AgreesNext(n, config[n])
    <3>1. CASE n = q.name
      <4>1. enabled'[q.proc] = TRUE
        BY <1>1, <1>3 DEF AgreeInv, LockInv, TypeOK, ProcessTypeOK
      <4>2. config[n].enabled = TRUE
        BY <1>5, <3>1 DEF AgreeInv, LockInv, TypeOK, Configs, Defs
      <4>3. q.proc # Nil
        BY <1>3, DaemonAssumption
      <4> QED
        BY <1>1, <1>5, <3>1, <4>1, <4>2, <4>3 DEF AgreesNext
    <3>2. CASE n # q.name
      <4>1. Agrees(n, config[n])
        BY <1>1, <1>4, <2>1, <3>2, BusyRegistry DEF Touched
      <4>2. processes[n] # q.proc
        BY <1>3, <1>4, <1>5, <3>2, BusyRegistry, DaemonAssumption
      <4> QED
        BY <1>1, <1>3, <4>1, <4>2, OthersAgree DEF AgreeInv, LockInv
    <3> QED
      BY <3>1, <3>2
  <2> QED
    BY <2>1, <2>2 DEF Agrees, AgreesNext
<1> QED
  BY <1>1, <1>2, <1>4, <1>6, <1>7, BusyRegistry, AgreementMoves DEF Moved

LEMMA EnableStartAgrees ==
    ASSUME AgreeInv, IntentsAlone, NEW c \in Clients, EnableStart(c)
    PROVE  Agreement'
<1>1. /\ req[c].op = "enable" /\ req[c].at = "start" /\ Return(c)
      /\ Start(req[c].proc) \/ UNCHANGED processVars
      /\ UNCHANGED <<config, processes>>
  BY DEF EnableStart
<1>2. Busy(c)
  BY <1>1 DEF Busy
<1>3. enabled' = enabled
  BY <1>1, StartedProc, StartKeepsEnabled, FieldsKept DEF AgreeInv
<1>4. \A n \in Names : Agrees(n, config[n])'
  BY <1>1, <1>2, <1>3, BusyRegistry DEF Touched, Expected, Agrees
<1> QED
  BY <1>1, <1>2, <1>4, BusyRegistry, AgreementReturns

LEMMA DisableFinishAgrees ==
    ASSUME AgreeInv, IntentsAlone, NEW c \in Clients, DisableFinish(c)
    PROVE  Agreement'
<1> DEFINE q == req[c]
<1>1. /\ q.op = "disable" /\ q.at = "await" /\ Return(c)
      /\ enabled' = [enabled EXCEPT ![q.proc] = FALSE] /\ UNCHANGED <<config, processes>>
  BY DEF DisableFinish, Stopped
<1>2. Busy(c) /\ q.proc \in Procs /\ q.name \in Names
  BY <1>1, RequestKnown DEF AgreeInv, Busy, Known
<1>3. q.proc = processes[q.name] /\ config[q.name] # Nil /\ ~config[q.name].enabled
  BY <1>1, <1>2, BusyRegistry DEF Locals
<1>4. ASSUME NEW n \in Names PROVE AgreesNext(n, config[n])
  <2>1. CASE n = q.name
    <3>1. enabled'[q.proc] = FALSE
      BY <1>1, <1>2 DEF AgreeInv, LockInv, TypeOK, ProcessTypeOK
    <3>2. config[n].enabled = FALSE
      BY <1>3, <2>1 DEF AgreeInv, LockInv, TypeOK, Configs, Defs
    <3>3. q.proc # Nil
      BY <1>2, DaemonAssumption
    <3> QED
      BY <1>1, <1>3, <2>1, <3>1, <3>2, <3>3 DEF AgreesNext
  <2>2. CASE n # q.name
    <3>1. Agrees(n, config[n])
      BY <1>1, <1>2, <2>2, BusyRegistry DEF Touched, Expected
    <3>2. processes[n] # q.proc
      BY <1>2, <1>3, <2>2, BusyRegistry, DaemonAssumption
    <3> QED
      BY <1>1, <1>2, <3>1, <3>2, OthersAgree DEF AgreeInv, LockInv
  <2> QED
    BY <2>1, <2>2
<1>5. \A n \in Names : Agrees(n, config[n])'
  BY <1>1, <1>4 DEF Agrees, AgreesNext
<1> QED
  BY <1>1, <1>2, <1>5, BusyRegistry, AgreementReturns

LEMMA RegisterAgrees ==
    ASSUME AgreeInv, IntentsAlone, NEW c \in Clients, NEW n \in Names, Register(c, n)
    PROVE  Agreement'
<1>1. "register" \in Ops
  BY DEF Register, MayBegin
<1>2. PICK p \in Free :
         /\ MayBegin(c, "register") /\ writer = Nil /\ UNCHANGED req
         /\ New(p, FALSE) /\ processes' = [processes EXCEPT ![n] = p]
         /\ config'[n] # Nil /\ config'[n].enabled = FALSE
         /\ \A k \in Names \ {n} : config'[k] = config[k]
  BY Registered DEF AgreeInv, CanLock
<1>3. p \in Procs /\ p # Nil /\ \A k \in Names : processes[k] # p
  BY FreeType
<1>4. \A d \in Clients : ~Busy(d)
  BY <1>1, <1>2, NoneBusy DEF AgreeInv
<1>5. enabled' = [enabled EXCEPT ![p] = FALSE]
  BY <1>2, <1>3, NewType DEF AgreeInv, LockInv, TypeOK
<1>6. processes'[n] = p /\ \A k \in Names \ {n} : processes'[k] = processes[k]
  BY <1>2 DEF AgreeInv, LockInv, TypeOK
<1>7. \A k, j \in Names : processes'[k] = processes'[j] /\ processes'[k] # Nil => k = j
  BY <1>3, <1>4, <1>6, QuietRegistry
<1>8. ASSUME NEW k \in Names PROVE AgreesNext(k, config'[k])
  <2>1. CASE k = n
    <3>1. enabled'[p] = FALSE
      BY <1>3, <1>5 DEF AgreeInv, LockInv, TypeOK, ProcessTypeOK
    <3> QED
      BY <1>2, <1>3, <1>6, <2>1, <3>1 DEF AgreesNext
  <2>2. CASE k # n
    <3>1. Agrees(k, config[k])
      BY <1>4, QuietRegistry
    <3>2. AgreesNext(k, config[k])
      BY <1>3, <1>5, <1>6, <2>2, <3>1, OthersAgree DEF AgreeInv, LockInv
    <3> QED
      BY <1>2, <2>2, <3>2
  <2> QED
    BY <2>1, <2>2
<1>9. \A k \in Names : Agrees(k, config[k])'
  BY <1>8 DEF Agrees, AgreesNext
<1>10. \A d \in Clients : ~Busy(d)'
  BY <1>2, <1>4 DEF Busy
<1> QED
  BY <1>7, <1>9, <1>10, AgreementQuiet

LEMMA DeleteAgrees ==
    ASSUME AgreeInv, IntentsAlone, NEW c \in Clients, NEW n \in Names, Delete(c, n)
    PROVE  Agreement'
<1>1. /\ MayBegin(c, "delete") /\ "delete" \in Ops /\ writer = Nil
      /\ UNCHANGED <<processVars, processes>>
      /\ config[n] # Nil /\ config'[n] = Nil
      /\ \A k \in Names \ {n} : config'[k] = config[k]
      /\ \/ processes[n] = Nil
         \/ /\ Only(c)
            /\ req'[c].op = "delete" /\ req'[c].at = "capture" /\ req'[c].name = n
            /\ req'[c].proc = processes[n]
  BY Deleted DEF AgreeInv, CanLock
<1>2. \A d \in Clients : ~Busy(d)
  BY <1>1, NoneBusy DEF AgreeInv
<1>3. \A k \in Names : Agrees(k, config[k])
  BY <1>2, QuietRegistry
<1>4. processes[n] # Nil
  BY <1>1, <1>3 DEF Agrees
<1>5. enabled' = enabled
  BY <1>1, FieldsKept
<1>6. Busy(c)'
  BY <1>1, <1>4 DEF Busy
<1>7. Locals(c)'
  BY <1>1, <1>4 DEF Locals
<1>8. \A k \in Names : ~(k \in Touched(c))' => Agrees(k, Expected(c, k))'
  BY <1>1, <1>3, <1>4, <1>5 DEF Touched, Expected, Agrees
<1> QED
  BY <1>1, <1>2, <1>4, <1>6, <1>7, <1>8, QuietRegistry, AgreementBegins

LEMMA DeleteFinishAgrees ==
    ASSUME AgreeInv, IntentsAlone, NEW c \in Clients, DeleteFinish(c)
    PROVE  Agreement'
<1> DEFINE n == req[c].name
<1>1. /\ req[c].op = "delete" /\ req[c].at = "await" /\ Return(c)
      /\ processes' = [processes EXCEPT ![n] = Nil]
      /\ UNCHANGED <<processVars, config>>
  BY DEF DeleteFinish, Stopped
<1>2. Busy(c) /\ n \in Names
  BY <1>1, RequestKnown DEF AgreeInv, Busy, Known
<1>3. config[n] = Nil
  BY <1>1, <1>2, BusyRegistry DEF Locals
<1>4. enabled' = enabled
  BY <1>1, FieldsKept
<1>5. processes'[n] = Nil /\ \A k \in Names \ {n} : processes'[k] = processes[k]
  BY <1>1, <1>2 DEF AgreeInv, LockInv, TypeOK
<1>6. \A k, j \in Names : processes'[k] = processes'[j] /\ processes'[k] # Nil => k = j
  BY <1>2, <1>5, BusyRegistry
<1>7. \A k \in Names : Agrees(k, config[k])'
  <2>1. \A k \in Names \ {n} : Agrees(k, config[k])
    BY <1>1, <1>2, BusyRegistry DEF Touched, Expected
  <2> QED
    BY <1>1, <1>3, <1>4, <1>5, <2>1 DEF Agrees
<1> QED
  BY <1>1, <1>2, <1>6, <1>7, AgreementReturns

LEMMA ReloadAgrees ==
    ASSUME AgreeInv, NEW c \in Clients, Reload(c)
    PROVE  Agreement'
<1>1. Only(c) /\ req'[c].at = "locking"
  BY ReloadBegun DEF AgreeInv
<1>2. ~Busy(c) /\ ~Busy(c)'
  BY <1>1, RequestKnown DEF AgreeInv, Reload, MayBegin, Busy, NoRequest
<1>3. UNCHANGED <<enabled, config, processes>>
  BY FieldsKept DEF Reload
<1> QED
  BY <1>1, <1>2, <1>3, AgreementKept DEF AgreeInv, Only

LEMMA ReloadLockAgrees ==
    ASSUME AgreeInv, IntentsAlone, NEW c \in Clients, ReloadLock(c)
    PROVE  Agreement'
<1>1. /\ Moved(c, "reload") /\ req'[c].todo = Names
      /\ req[c].op = "reload" /\ req[c].at = "locking"
  BY ReloadLocked DEF AgreeInv
<1>2. UNCHANGED <<enabled, config, processes>> /\ writer = Nil
  BY FieldsKept DEF ReloadLock, CanLock
<1>3. \A d \in Clients : ~Busy(d)
  BY <1>1, <1>2, LockedNoneBusy DEF AgreeInv
<1>4. Busy(c)' /\ Locals(c)'
  BY <1>1 DEF Busy, Locals, Moved
<1>5. \A k \in Names : Agrees(k, config[k])
  BY <1>3, QuietRegistry
<1>6. \A k \in Names : ~(k \in Touched(c))' => Agrees(k, Expected(c, k))'
  BY <1>1, <1>2, <1>5 DEF Expected, Agrees, Moved
<1> QED
  BY <1>1, <1>2, <1>3, <1>4, <1>6, QuietRegistry, AgreementBegins DEF Moved

\* A visit of an angl takes it out of todo and keeps it in hand.
LEMMA VisitAgrees ==
    ASSUME AgreeInv, IntentsAlone, NEW c \in Clients, NEW n \in Names,
           NEW l \in {"capture", "new"}, req[c].at = "reload", Visit(c, n, l),
           UNCHANGED <<processVars, config, processes>>
    PROVE  Agreement'
<1>1. /\ Only(c)
      /\ req'[c].op = req[c].op /\ req'[c].at = l /\ req'[c].name = n
      /\ req'[c].proc = processes[n] /\ req'[c].cfg = req[c].cfg
      /\ req'[c].todo = req[c].todo \ {n} /\ req[c].op \in {"boot", "reload"}
  BY Visited DEF AgreeInv
<1>2. Busy(c) /\ Busy(c)' /\ enabled' = enabled
  BY <1>1, FieldsKept DEF Busy
<1>3. Locals(c)'
  BY <1>1 DEF Locals
<1>4. ASSUME NEW k \in Names, ~(k \in Touched(c))' PROVE Agrees(k, Expected(c, k))'
  <2>1. k # n
    BY <1>1, <1>4 DEF Touched
  <2>2. Agrees(k, Expected(c, k))
    BY <1>2, BusyRegistry DEF Touched
  <2>3. Expected(c, k)' = Expected(c, k)
    BY <1>1, <2>1 DEF Expected
  <2> QED
    BY <1>2, <2>2, <2>3 DEF Agrees
<1> QED
  BY <1>1, <1>2, <1>3, <1>4, BusyRegistry, AgreementMoves

LEMMA ReloadStoppedAgrees ==
    ASSUME AgreeInv, IntentsAlone, NEW c \in Clients, ReloadStopped(c)
    PROVE  Agreement'
<1> DEFINE q == req[c]
           n == q.name
<1>1. /\ q.op = "reload" /\ q.at = "await" /\ n \in Names /\ req'[c].todo = q.todo
      /\ \/ /\ Moved(c, "reload") /\ q.cfg[n] = Nil
            /\ processes' = [processes EXCEPT ![n] = Nil]
         \/ Moved(c, "new") /\ UNCHANGED processes
  BY Replaced DEF AgreeInv
<1>2. UNCHANGED <<enabled, config>>
  BY FieldsKept DEF ReloadStopped
<1>3. Busy(c) /\ n \notin q.todo
  BY <1>1, RequestKnown DEF Busy, AgreeInv, Known
<1>4. \A k \in Names \ {n} : Agrees(k, Expected(c, k))
  BY <1>1, <1>3, BusyRegistry DEF Touched
<1>5. \A k \in Names : Expected(c, k)' = Expected(c, k)
  BY <1>1, <1>2 DEF Expected, Moved
<1>6. Busy(c)' /\ Locals(c)' /\ Only(c)
  BY <1>1 DEF Busy, Locals, Moved
<1>7. CASE /\ Moved(c, "reload") /\ q.cfg[n] = Nil
           /\ processes' = [processes EXCEPT ![n] = Nil]
  <2>1. processes'[n] = Nil /\ \A k \in Names \ {n} : processes'[k] = processes[k]
    BY <1>1, <1>7 DEF AgreeInv, LockInv, TypeOK
  <2>2. Expected(c, n) = Nil
    BY <1>1, <1>3, <1>7 DEF Expected
  <2>3. \A k \in Names : Agrees(k, Expected(c, k))'
    BY <1>2, <1>4, <1>5, <2>1, <2>2 DEF Agrees
  <2>4. \A k, j \in Names : processes'[k] = processes'[j] /\ processes'[k] # Nil => k = j
    BY <1>3, <2>1, BusyRegistry
  <2> QED
    BY <1>3, <1>6, <2>3, <2>4, AgreementMoves
<1>8. CASE Moved(c, "new") /\ UNCHANGED processes
  <2>1. \A k \in Names : ~(k \in Touched(c))' => Agrees(k, Expected(c, k))'
    BY <1>2, <1>4, <1>5, <1>8 DEF Touched, Agrees, Moved
  <2> QED
    BY <1>3, <1>6, <1>8, <2>1, BusyRegistry, AgreementMoves
<1> QED
  BY <1>1, <1>7, <1>8

LEMMA ReloadNewAgrees ==
    ASSUME AgreeInv, IntentsAlone, NEW c \in Clients, ReloadNew(c)
    PROVE  Agreement'
<1> DEFINE q == req[c]
           n == q.name
<1>1. PICK p \in Free, e \in BOOLEAN :
         /\ e = q.cfg[n].enabled
         /\ New(p, e)
         /\ processes' = [processes EXCEPT ![n] = p]
         /\ Moved(c, IF e THEN "start" ELSE "reload")
         /\ req'[c].proc = p /\ req'[c].todo = q.todo
         /\ q.op \in {"boot", "reload"} /\ q.at = "new" /\ n \in Names
  BY Renewed DEF AgreeInv
<1>2. p \in Procs /\ p # Nil /\ \A k \in Names : processes[k] # p
  BY FreeType
<1>3. q.cfg[n] # Nil /\ n \notin q.todo /\ Busy(c)
  BY <1>1, RequestKnown DEF AgreeInv, Known, Busy
<1>4. enabled' = [enabled EXCEPT ![p] = e]
  BY <1>1, <1>2, NewType DEF AgreeInv, LockInv, TypeOK
<1>5. processes'[n] = p /\ \A k \in Names \ {n} : processes'[k] = processes[k]
  BY <1>1 DEF AgreeInv, LockInv, TypeOK
<1>6. Moved(c, req'[c].at) /\ req'[c].at \in {"start", "reload"} /\ config' = config
  BY <1>1 DEF Moved, ReloadNew
<1>7. Busy(c)' /\ Only(c)
  BY <1>1, <1>6 DEF Busy, Moved
<1>8. Locals(c)'
  BY <1>1, <1>5, <1>6 DEF Locals, Moved
<1>9. \A k \in Names : Expected(c, k)' = Expected(c, k)
  BY <1>1, <1>6 DEF Expected, Moved
<1>10. ASSUME NEW k \in Names PROVE AgreesNext(k, Expected(c, k))
  <2>1. CASE k = n
    <3>1. Expected(c, n) = q.cfg[n]
      BY <1>1, <1>3 DEF Expected
    <3>2. enabled'[p] = e
      BY <1>2, <1>4 DEF AgreeInv, LockInv, TypeOK, ProcessTypeOK
    <3> QED
      BY <1>1, <1>2, <1>3, <1>5, <2>1, <3>1, <3>2 DEF AgreesNext
  <2>2. CASE k # n
    <3>1. Agrees(k, Expected(c, k))
      BY <1>1, <1>3, <2>2, BusyRegistry DEF Touched
    <3> QED
      BY <1>2, <1>4, <1>5, <2>2, <3>1, OthersAgree DEF AgreeInv, LockInv
  <2> QED
    BY <2>1, <2>2
<1>11. \A k \in Names : Agrees(k, Expected(c, k))'
  BY <1>9, <1>10 DEF Agrees, AgreesNext
<1>12. \A k, j \in Names : processes'[k] = processes'[j] /\ processes'[k] # Nil => k = j
  BY <1>2, <1>3, <1>5, BusyRegistry
<1> QED
  BY <1>3, <1>7, <1>8, <1>11, <1>12, AgreementMoves

LEMMA ReloadStartAgrees ==
    ASSUME AgreeInv, IntentsAlone, NEW c \in Clients, ReloadStart(c)
    PROVE  Agreement'
<1>1. /\ req[c].op \in {"reload", "boot"} /\ req[c].at = "start"
      /\ Start(req[c].proc) /\ GoTo(c, "reload") /\ "reload" \in Ats
      /\ UNCHANGED <<config, processes>>
  BY DEF ReloadStart, Ats
<1>2. Moved(c, "reload") /\ req'[c].todo = req[c].todo
  BY <1>1, Went DEF AgreeInv
<1>3. Busy(c) /\ Busy(c)' /\ Locals(c)' /\ Only(c)
  BY <1>1, <1>2 DEF Busy, Locals, Moved
<1>4. enabled' = enabled
  BY <1>1, StartedProc, StartKeepsEnabled DEF AgreeInv
<1>5. \A k \in Names : Agrees(k, Expected(c, k))'
  BY <1>1, <1>2, <1>3, <1>4, BusyRegistry DEF Touched, Expected, Agrees, Moved
<1> QED
  BY <1>1, <1>3, <1>5, BusyRegistry, AgreementMoves

LEMMA ReloadFinishAgrees ==
    ASSUME AgreeInv, IntentsAlone, NEW c \in Clients, ReloadFinish(c)
    PROVE  Agreement'
<1> DEFINE q == req[c]
<1>1. /\ q.at = "reload"
      /\ \A n \in q.todo : q.cfg[n] = (IF processes[n] = Nil THEN Nil ELSE config[n])
      /\ config' = q.cfg /\ Return(c) /\ UNCHANGED <<processVars, processes>>
  BY DEF ReloadFinish
<1>2. q.op \in {"boot", "reload"} /\ Busy(c) /\ enabled' = enabled
  BY <1>1, RequestKnown, FieldsKept DEF AgreeInv, Place, Busy
<1>3. ASSUME NEW n \in Names PROVE Agrees(n, q.cfg[n])
  <2>1. Agrees(n, Expected(c, n))
    BY <1>1, <1>2, BusyRegistry DEF Touched
  <2>2. CASE n \notin q.todo
    BY <1>1, <1>2, <2>1, <2>2 DEF Expected
  <2>3. CASE n \in q.todo /\ q.op = "boot"
    <3>1. processes[n] = Nil
      BY <1>1, <2>1, <2>3 DEF Expected, Agrees
    <3> QED
      BY <1>1, <2>3, <3>1 DEF Agrees
  <2>4. CASE n \in q.todo /\ q.op = "reload"
    <3>1. Agrees(n, config[n])
      BY <1>1, <2>1, <2>4 DEF Expected
    <3> QED
      BY <1>1, <2>4, <3>1 DEF Agrees
  <2> QED
    BY <1>2, <2>2, <2>3, <2>4
<1>4. \A n \in Names : Agrees(n, config[n])'
  BY <1>1, <1>2, <1>3 DEF Agrees
<1> QED
  BY <1>1, <1>2, <1>4, BusyRegistry, AgreementReturns

LEMMA InitAgrees == Init => Agreement
<1> SUFFICES ASSUME Init PROVE Agreement
  OBVIOUS
<1>1. /\ disk \in Configs /\ config = disk /\ processes = [n \in Names |-> Nil]
      /\ writer \in Clients
      /\ req = [c \in Clients |-> IF c = writer THEN Boot ELSE NoRequest]
  BY DEF Init
<1>2. Boot.op = "boot" /\ Boot.at = "reload" /\ Boot.todo = Names
  BY <1>1, BootType
<1>3. NoRequest.op = "none"
  BY DEF NoRequest
<1> QED
  BY <1>1, <1>2, <1>3 DEF Agreement, Busy, Locals, Touched, Expected, Agrees

LEMMA StepAgrees ==
    ASSUME IntentsAlone, AgreeInv, [Next]_vars
    PROVE  Agreement'
<1>1. CASE UNCHANGED vars
  <2>1. UNCHANGED <<processVars, daemonVars>>
    BY <1>1 DEF vars
  <2> QED
    BY <2>1, FieldsKept, AgreementSilent DEF AgreeInv, daemonVars
<1>2. ASSUME NEW c \in Clients, NEW n \in Names, Request(c, n) PROVE Agreement'
  <2>1. ASSUME NEW op, SaveFailed(c, n, op) PROVE Agreement'
    BY <2>1, FieldsKept, AgreementSilent DEF SaveFailed, AgreeInv
  <2> QED
    BY <1>2, <2>1, EnabledSetAgrees, ExecAnglAgrees, StopAnglAgrees, RegisterAgrees,
       DeleteAgrees DEF Request, Enable, Disable
<1>3. ASSUME NEW c \in Clients, NEW n \in Names, ReloadStop(c, n) \/ ReloadAdd(c, n)
      PROVE  Agreement'
  BY <1>3, VisitAgrees DEF ReloadStop, ReloadAdd
<1>4. ASSUME NEW c \in Clients, Continue(c) PROVE Agreement'
  BY <1>3, <1>4, StopAnglReturnAgrees, StopCaptureAgrees, StopCancelAgrees, EnableWriteAgrees,
     EnableStartAgrees, DisableFinishAgrees, DeleteFinishAgrees, ReloadLockAgrees,
     ReloadStoppedAgrees, ReloadNewAgrees, ReloadStartAgrees, ReloadFinishAgrees DEF Continue
<1>5. ASSUME NEW n \in Names, EditConfig(n) PROVE Agreement'
  BY <1>5, FieldsKept, AgreementSilent DEF EditConfig, AgreeInv
<1> QED
  BY <1>1, <1>2, <1>4, <1>5, ReloadAgrees, LoopAgrees DEF Next

LEMMA AgreeInvHolds ==
    ASSUME IntentsAlone
    PROVE  Spec => []AgreeInv
<1>1. Init => AgreeInv
  BY InitLocks, InitAgrees DEF AgreeInv
<1>2. AgreeInv /\ [Next]_vars => AgreeInv'
  BY StepLocks, StepAgrees DEF AgreeInv
<1> QED
  BY <1>1, <1>2, PTL DEF Spec

(* Between requests the registry has an object for exactly the configured
   angls, and that object's own definition has the configured intent, through
   reloads that overlap deletions and registrations: as long as nothing
   overlaps an enable or a disable, and their saves succeed. *)
THEOREM IntentAgreesHolds == IntentsAlone /\ SavesSucceed => (Spec => []IntentAgrees)
<1> SUFFICES ASSUME IntentsAlone, SavesSucceed PROVE Spec => []IntentAgrees
  OBVIOUS
<1>1. AgreeInv => IntentAgrees
  <2> SUFFICES ASSUME AgreeInv, Quiet PROVE \A n \in Names : Agrees(n, config[n])
    BY DEF IntentAgrees, Agrees
  <2>1. \A c \in Clients : ~Busy(c)
    BY RequestKnown DEF AgreeInv, Quiet, Busy, NoRequest
  <2> QED
    BY <2>1, QuietRegistry
<1>2. Spec => []AgreeInv
  BY AgreeInvHolds
<1> QED
  BY <1>1, <1>2, PTL

(***************************************************************************)
(* The goroutines and the children of what is in the registry, when no     *)
(* request overlaps an enable or a disable.                                *)
(***************************************************************************)

\* What is not in the registry is at rest.
Resting == \A p \in Procs : p \notin Managed => handle[p] = 0

\* Who is about to take an object out of it knows what it has to wait for.
Guarded == \A c \in Clients : Busy(c) => Supervised(c)

WatchInv == AgreeInv /\ Supervision

LEMMA WatchParts ==
    /\ Supervision <=> (\A p \in Procs : LoopInv(p)) /\ Resting /\ Guarded
    /\ IntentsAlone => DisableAlone
  BY DEF Supervision, Resting, Guarded, IntentsAlone, DisableAlone

LEMMA WatchedLoops == WatchInv => LoopsInv
  BY RequestKnown DEF WatchInv, AgreeInv, LoopsInv, Loops, Supervision, Busy, Place

\* An angl's object is in the registry, and is one.
LEMMA InManaged ==
    ASSUME AgreeInv, NEW c \in Clients, Busy(c),
           req[c].at \in {"write", "start", "capture", "cancel", "await"}
    PROVE  /\ req[c].name \in Names /\ req[c].proc = processes[req[c].name]
           /\ req[c].proc \in Managed /\ req[c].proc \in Procs
<1>1. req[c].proc \in Procs /\ req[c].name \in Names
  BY RequestKnown DEF AgreeInv, Known, Busy
<1>2. req[c].proc = processes[req[c].name] /\ req[c].proc # Nil
  BY <1>1, BusyRegistry, DaemonAssumption DEF Locals
<1> QED
  BY <1>1, <1>2 DEF Managed

LEMMA RestingKept ==
    ASSUME Resting, UNCHANGED <<handle, processes>>
    PROVE  Resting'
  BY DEF Resting, Managed

\* An object of the registry is started.
LEMMA StartRests ==
    ASSUME Resting, NEW p \in Managed, Start(p), UNCHANGED processes
    PROVE  Resting'
<1>1. \A q \in Procs : q # p => handle'[q] = handle[q]
  BY DEF Start, startLocked
<1> QED
  BY <1>1 DEF Resting, Managed

\* The object of angl n, which is at rest, is taken out of the registry.
LEMMA DroppedRests ==
    ASSUME TypeOK, Resting, NEW n \in Names, NEW p \in Procs \cup {Nil},
           processes[n] = Nil \/ handle[processes[n]] = 0,
           processes' = [processes EXCEPT ![n] = p], handle' = handle
    PROVE  Resting'
<1>1. \A k \in Names \ {n} : processes'[k] = processes[k]
  BY DEF TypeOK
<1>2. \A q \in Procs : q \notin Managed' => q \notin Managed \/ q = processes[n]
  BY <1>1 DEF Managed
<1>3. \A q \in Procs : q # Nil
  BY DaemonAssumption
<1> QED
  BY <1>2, <1>3 DEF Resting

\* Where nothing is known about an object yet, or no longer.
LEMMA Unguarded ==
    ASSUME NEW c \in Clients, req'[c].at \notin {"cancel", "await", "new"}
    PROVE  Supervised(c)'
  BY DEF Supervised

LEMMA GuardedKept ==
    ASSUME LockInv, Guarded, UNCHANGED <<gen, handle, processes>>,
           \A d \in Clients : req'[d] = req[d] \/ ~Busy(d)' \/ Supervised(d)'
    PROVE  Guarded'
  BY DEF Guarded, Busy, Supervised

\* Whoever is busy alone, is or is not when it has gone on.
LEMMA GuardedAlone ==
    ASSUME NEW c \in Clients, Only(c) \/ UNCHANGED req, \A d \in Clients \ {c} : ~Busy(d),
           Busy(c)' => Supervised(c)'
    PROVE  Guarded'
  BY DEF Guarded, Busy, Only

LEMMA LoopGuards ==
    ASSUME WatchInv, NEW p \in Procs, NEW g \in Gens, Loop(p, g)
    PROVE  Resting' /\ Guarded'
<1>1. gen' = gen /\ \A q \in Procs : handle[q] = 0 => handle'[q] = 0
  BY WatchedLoops, Objects, LoopStartsNothing DEF Loop
<1>2. UNCHANGED <<processes, req>>
  BY DEF Loop, daemonVars
<1>3. Resting'
  BY <1>1, <1>2, WatchParts DEF WatchInv, Resting, Managed
<1>4. ASSUME NEW c \in Clients, Busy(c) PROVE Supervised(c)'
  <2>1. Supervised(c) /\ Known(req[c])
    BY <1>4, WatchParts, RequestKnown DEF WatchInv, AgreeInv, Guarded
  <2>2. req[c].at \in {"cancel", "await"} => req[c].proc \in Procs
    BY <2>1 DEF Known
  <2>3. req[c].at = "new" => processes[req[c].name] \in Procs \cup {Nil}
    BY <1>4, <2>1 DEF Known, Busy, WatchInv, AgreeInv, LockInv, TypeOK
  <2> QED
    BY <1>1, <1>2, <2>1, <2>2, <2>3 DEF Supervised
<1> QED
  BY <1>2, <1>3, <1>4 DEF Guarded, Busy

LEMMA RequestGuards ==
    ASSUME IntentsAlone, WatchInv, NEW c \in Clients, NEW n \in Names, Request(c, n)
    PROVE  Resting' /\ Guarded'
<1>0. AgreeInv /\ LockInv /\ Resting /\ Guarded
  BY WatchParts DEF WatchInv, AgreeInv
<1>1. CASE ExecAngl(c, n)
  <2>1. /\ MayBegin(c, "exec") /\ "exec" \in Ops /\ writer = Nil
        /\ processes[n] \in Managed /\ UNCHANGED <<processes, req>>
        /\ Start(processes[n]) \/ handle' = handle
    BY <1>1 DEF ExecAngl, Exec, ForceWait, daemonVars, MayBegin, CanRLock, Managed
  <2>2. Resting'
    BY <1>0, <2>1, StartRests, RestingKept
  <2>3. \A d \in Clients : ~Busy(d)
    BY <1>0, <2>1, NoneBusy
  <2> QED
    BY <2>1, <2>2, <2>3 DEF Guarded, Busy
<1>2. CASE StopAngl(c, n)
  <2>1. Only(c) /\ req'[c].op = "stop" /\ UNCHANGED <<gen, handle, processes>>
    BY <1>0, <1>2, StopBegun, FieldsKept DEF StopAngl
  <2> QED
    BY <1>0, <2>1, RestingKept, GuardedKept DEF Only, Busy
<1>3. ASSUME NEW op \in {"enable", "disable"}, NEW e \in BOOLEAN,
             NEW next \in {"write", "capture"}, SetEnabled(c, n, op, e, next)
      PROVE  Resting' /\ Guarded'
  <2>1. IntentSet(c, n, op, e, next)
    BY <1>0, <1>3, EnabledSet
  <2>2. /\ UNCHANGED <<gen, handle, processes>>
        /\ UNCHANGED req \/ (Only(c) /\ req'[c].at = next)
    BY <2>1, FieldsKept DEF IntentSet
  <2>3. \A d \in Clients : req'[d] = req[d] \/ Supervised(d)'
    BY <2>2, Unguarded DEF Only
  <2> QED
    BY <1>0, <2>2, <2>3, RestingKept, GuardedKept
<1>4. CASE Register(c, n)
  <2>0. MayBegin(c, "register") /\ writer = Nil /\ config[n] = Nil /\ UNCHANGED req
    BY <1>4 DEF Register, CanLock
  <2>1. PICK p \in Free : New(p, FALSE) /\ processes' = [processes EXCEPT ![n] = p]
    BY <1>4 DEF Register
  <2>2. \A d \in Clients : ~Busy(d)
    BY <1>0, <2>0, NoneBusy DEF MayBegin
  <2>3. processes[n] = Nil
    BY <1>0, <2>0, <2>2, QuietRegistry DEF Agrees
  <2>4. p \in Procs /\ handle' = handle
    BY <2>1, FreeType, WatchedLoops, NewRests
  <2>5. Resting'
    BY <1>0, <2>1, <2>3, <2>4, DroppedRests DEF LockInv
  <2> QED
    BY <2>0, <2>2, <2>5 DEF Guarded, Busy
<1>5. CASE Delete(c, n)
  <2>1. /\ UNCHANGED <<gen, handle, processes>>
        /\ UNCHANGED req \/ (Only(c) /\ req'[c].at = "capture")
    BY <1>0, <1>5, Deleted, FieldsKept
  <2>2. \A d \in Clients : req'[d] = req[d] \/ Supervised(d)'
    BY <2>1, Unguarded DEF Only
  <2> QED
    BY <1>0, <2>1, <2>2, RestingKept, GuardedKept
<1>6. ASSUME NEW op, SaveFailed(c, n, op) PROVE Resting' /\ Guarded'
  BY <1>0, <1>6, FieldsKept, RestingKept, GuardedKept DEF SaveFailed
<1> QED
  BY <1>1, <1>2, <1>3, <1>4, <1>5, <1>6 DEF Request, Enable, Disable

\* Steps of a request that is under way, none of which is seen by another one.
LEMMA StopGuards ==
    ASSUME IntentsAlone, WatchInv, NEW c \in Clients,
           StopAnglReturn(c) \/ StopCapture(c) \/ StopCancel(c)
    PROVE  Resting' /\ Guarded'
<1>0. LockInv /\ Resting /\ Guarded /\ LoopsInv
  BY WatchParts, WatchedLoops DEF WatchInv, AgreeInv
<1>1. UNCHANGED <<gen, handle, processes>>
  BY FieldsKept, CancelFields DEF StopAnglReturn, StopCapture, StopCancel
<1>2. CASE StopAnglReturn(c)
  <2>1. Only(c) /\ ~Busy(c)'
    BY <1>0, <1>2, Returned DEF StopAnglReturn, Busy
  <2> QED
    BY <1>0, <1>1, <2>1, RestingKept, GuardedKept DEF Only
<1>3. CASE StopCapture(c)
  <2>1. Only(c) /\ Supervised(c)'
    BY <1>0, <1>3, Captured, CapturedHandle DEF Moved
  <2> QED
    BY <1>0, <1>1, <2>1, RestingKept, GuardedKept DEF Only
<1>4. CASE StopCancel(c)
  <2>1. GoTo(c, "await") /\ "await" \in Ats
    BY <1>4 DEF StopCancel, Ats
  <2>2. Moved(c, "await")
    BY <1>0, <2>1, Went
  <2>3. Busy(c)' => Supervised(c)'
    BY <1>0, <1>4, <2>2, CancelledHandle DEF Guarded, Busy, Moved, StopCancel
  <2> QED
    BY <1>0, <1>1, <2>2, <2>3, RestingKept, GuardedKept DEF Moved, Only
<1> QED
  BY <1>2, <1>3, <1>4

LEMMA FinishGuards ==
    ASSUME IntentsAlone, WatchInv, NEW c \in Clients,
           EnableWrite(c) \/ EnableStart(c) \/ DisableFinish(c) \/ DeleteFinish(c)
    PROVE  Resting' /\ Guarded'
<1>0. AgreeInv /\ LockInv /\ Resting /\ Guarded /\ LoopsInv
  BY WatchParts, WatchedLoops DEF WatchInv, AgreeInv
<1>1. Busy(c) /\ req[c].at \in {"write", "start", "await"}
  BY <1>0, RequestKnown DEF EnableWrite, EnableStart, DisableFinish, DeleteFinish, Stopped,
     Busy, Place
<1>2. \A d \in Clients \ {c} : ~Busy(d)
  BY <1>0, <1>1, BusyAlone
<1>3. /\ req[c].name \in Names /\ req[c].proc = processes[req[c].name]
      /\ req[c].proc \in Managed /\ req[c].proc \in Procs
  BY <1>0, <1>1, InManaged
<1>4. Only(c) /\ req'[c].at \in {"start", "idle"}
  <2>1. CASE EnableWrite(c)
    BY <1>0, <2>1, Went DEF EnableWrite, Moved, Ats
  <2>2. CASE ~EnableWrite(c)
    BY <1>0, <2>2, Returned DEF EnableStart, DisableFinish, DeleteFinish
  <2> QED
    BY <2>1, <2>2
<1>5. Guarded'
  BY <1>2, <1>4, Unguarded, GuardedAlone
<1>6. Resting'
  <2>1. CASE EnableWrite(c) \/ DisableFinish(c)
    BY <1>0, <2>1, RestingKept DEF EnableWrite, DisableFinish
  <2>2. CASE EnableStart(c)
    BY <1>0, <1>3, <2>2, FieldsKept, StartRests, RestingKept DEF EnableStart
  <2>3. CASE DeleteFinish(c)
    <3>1. handle[req[c].proc] = 0
      BY <1>0, <1>1, <2>3, StoppedRests DEF DeleteFinish, Guarded
    <3>2. handle' = handle /\ processes' = [processes EXCEPT ![req[c].name] = Nil]
      BY <2>3, FieldsKept DEF DeleteFinish
    <3> QED
      BY <1>0, <1>3, <3>1, <3>2, DroppedRests DEF LockInv
  <2> QED
    BY <2>1, <2>2, <2>3
<1> QED
  BY <1>5, <1>6

LEMMA ReloadGuards ==
    ASSUME IntentsAlone, WatchInv, NEW c \in Clients,
           ReloadStopped(c) \/ ReloadNew(c) \/ ReloadStart(c)
    PROVE  Resting' /\ Guarded'
<1> DEFINE n == req[c].name
<1>0. AgreeInv /\ LockInv /\ Resting /\ Guarded /\ LoopsInv
  BY WatchParts, WatchedLoops DEF WatchInv, AgreeInv
<1>1. Busy(c)
  BY <1>0, RequestKnown DEF ReloadStopped, ReloadNew, ReloadStart, Stopped, Busy, Place
<1>2. Supervised(c) /\ \A d \in Clients \ {c} : ~Busy(d)
  BY <1>0, <1>1, BusyAlone DEF Guarded
<1>3. CASE ReloadStopped(c)
  <2>1. /\ Stopped(c) /\ req[c].at = "await" /\ handle' = handle
        /\ \/ Moved(c, "reload") /\ processes' = [processes EXCEPT ![n] = Nil]
           \/ Moved(c, "new") /\ UNCHANGED processes
    BY <1>0, <1>3, Replaced, FieldsKept DEF ReloadStopped, Stopped
  <2>2. handle[req[c].proc] = 0
    BY <1>0, <1>2, <2>1, StoppedRests
  <2>3. n \in Names /\ handle[processes[n]] = 0
    BY <1>0, <1>1, <2>1, <2>2, InManaged
  <2>4. CASE Moved(c, "reload") /\ processes' = [processes EXCEPT ![n] = Nil]
    <3>1. Only(c) /\ Supervised(c)'
      BY <2>4, Unguarded DEF Moved
    <3> QED
      BY <1>0, <1>2, <2>1, <2>3, <2>4, <3>1, DroppedRests, GuardedAlone DEF LockInv
  <2>5. CASE Moved(c, "new") /\ UNCHANGED processes
    <3>1. Only(c) /\ Supervised(c)'
      BY <2>1, <2>3, <2>5 DEF Moved, Supervised
    <3> QED
      BY <1>0, <1>2, <2>1, <2>5, <3>1, RestingKept, GuardedAlone
  <2> QED
    BY <2>1, <2>4, <2>5
<1>4. CASE ReloadNew(c)
  <2>1. PICK p \in Free, e \in BOOLEAN :
           /\ New(p, e) /\ processes' = [processes EXCEPT ![n] = p]
           /\ Moved(c, IF e THEN "start" ELSE "reload")
           /\ req[c].at = "new" /\ n \in Names
    BY <1>0, <1>4, Renewed
  <2>2. p \in Procs /\ handle' = handle
    BY <1>0, <2>1, FreeType, NewRests
  <2>3. processes[n] = Nil \/ handle[processes[n]] = 0
    BY <1>2, <2>1 DEF Supervised
  <2>4. Only(c) /\ Supervised(c)'
    BY <2>1, Unguarded DEF Moved
  <2>5. Resting'
    BY <1>0, <2>1, <2>2, <2>3, DroppedRests DEF LockInv
  <2> QED
    BY <1>2, <2>4, <2>5, GuardedAlone
<1>5. CASE ReloadStart(c)
  <2>1. /\ req[c].at = "start" /\ Start(req[c].proc) /\ UNCHANGED processes
        /\ GoTo(c, "reload") /\ "reload" \in Ats
    BY <1>5 DEF ReloadStart, Ats
  <2>2. Only(c) /\ Supervised(c)'
    BY <1>0, <2>1, Went, Unguarded DEF Moved
  <2>3. Resting'
    BY <1>0, <1>1, <2>1, InManaged, StartRests
  <2> QED
    BY <1>2, <2>2, <2>3, GuardedAlone
<1> QED
  BY <1>3, <1>4, <1>5

\* Steps of a reload that start, stop, add or drop nothing.
LEMMA PlanGuards ==
    ASSUME WatchInv, NEW c \in Clients,
           \/ Reload(c) \/ ReloadLock(c) \/ ReloadFinish(c)
           \/ \E n \in Names : ReloadStop(c, n) \/ ReloadAdd(c, n)
    PROVE  Resting' /\ Guarded'
<1>0. LockInv /\ Resting /\ Guarded
  BY WatchParts DEF WatchInv, AgreeInv
<1>1. UNCHANGED <<gen, handle, processes>>
  BY FieldsKept DEF Reload, ReloadLock, ReloadFinish, ReloadStop, ReloadAdd
<1>2. Only(c) /\ Supervised(c)'
  <2>1. CASE Reload(c)
    BY <1>0, <2>1, ReloadBegun, Unguarded
  <2>2. CASE ReloadLock(c)
    BY <1>0, <2>2, ReloadLocked, Unguarded DEF Moved
  <2>3. CASE ReloadFinish(c)
    BY <1>0, <2>3, Returned, Unguarded DEF ReloadFinish
  <2>4. ASSUME NEW n \in Names, ReloadStop(c, n) PROVE Only(c) /\ Supervised(c)'
    BY <1>0, <2>4, Visited, Unguarded DEF ReloadStop
  <2>5. ASSUME NEW n \in Names, ReloadAdd(c, n) PROVE Only(c) /\ Supervised(c)'
    <3>1. /\ Only(c) /\ req'[c].at = "new" /\ req'[c].name = n
          /\ processes[n] = Nil
      BY <1>0, <2>5, Visited DEF ReloadAdd
    <3> QED
      BY <1>1, <3>1 DEF Supervised
  <2> QED
    BY <2>1, <2>2, <2>3, <2>4, <2>5
<1> QED
  BY <1>0, <1>1, <1>2, RestingKept, GuardedKept DEF Only

LEMMA StepSupervises ==
    ASSUME IntentsAlone, WatchInv, [Next]_vars
    PROVE  Supervision'
<1>0. LockInv /\ Resting /\ Guarded
  BY WatchParts DEF WatchInv, AgreeInv
<1>1. \A p \in Procs : LoopInv(p)'
  BY WatchParts, WatchedLoops, StepLoops DEF LoopsInv, Loops
<1>2. CASE UNCHANGED vars \/ \E n \in Names : EditConfig(n)
  <2>1. UNCHANGED <<gen, handle, processes, req>>
    BY <1>2, FieldsKept DEF vars, daemonVars, EditConfig
  <2> QED
    BY <1>0, <1>1, <2>1, RestingKept, GuardedKept, WatchParts DEF Supervision, Resting, Guarded
<1>3. ASSUME NEW c \in Clients, Continue(c) PROVE Resting' /\ Guarded'
  BY <1>3, StopGuards, FinishGuards, ReloadGuards, PlanGuards DEF Continue
<1>4. CASE Next /\ ~(\E n \in Names : EditConfig(n))
  <2>1. Resting' /\ Guarded'
    BY <1>3, <1>4, RequestGuards, PlanGuards, LoopGuards DEF Next
  <2> QED
    BY <1>1, <2>1 DEF Supervision, Resting, Guarded
<1> QED
  BY <1>2, <1>4

LEMMA InitSupervises == Init => Supervision
<1> SUFFICES ASSUME Init PROVE Supervision
  OBVIOUS
<1>1. \A p \in Procs : LoopInv(p)
  BY InitLoops DEF Loops
<1>2. \A p \in Procs : handle[p] = 0
  BY DEF Init, NewProcesses
<1>3. ASSUME NEW c \in Clients PROVE Supervised(c)
  <2>1. req[c] = Boot \/ req[c] = NoRequest
    BY DEF Init
  <2>2. Boot.at = "reload" /\ NoRequest.at = "idle"
    BY BootType DEF Init, NoRequest
  <2> QED
    BY <2>1, <2>2 DEF Supervised
<1> QED
  BY <1>1, <1>2, <1>3 DEF Supervision

(* d.mu, the registry, its objects, their goroutines and the file belong
   together in every state, whatever mix of requests, overlapping reloads,
   crashes of children, failing saves and edits by the user the daemon has
   seen, as long as nothing overlaps an enable or a disable. *)
THEOREM Invariance == IntentsAlone => (Spec => []IInv)
<1> SUFFICES ASSUME IntentsAlone PROVE Spec => []IInv
  OBVIOUS
<1> DEFINE Saved == ReloadAlone /\ SavesSucceed => Durable
<1>1. Init => WatchInv
  BY InitLocks, InitAgrees, InitSupervises DEF WatchInv, AgreeInv
<1>2. WatchInv /\ [Next]_vars => WatchInv'
  BY StepLocks, StepAgrees, StepSupervises DEF WatchInv, AgreeInv
<1>3. Init => Saved
  BY BootType DEF Init, Durable, NoRequest
<1>4. LockInv /\ Saved /\ [Next]_vars => Saved'
  BY StepDurable DEF ReloadAlone, SavesSucceed
<1>5. WatchInv /\ Saved => IInv
  BY DEF WatchInv, AgreeInv, LockInv, IInv, RegistryInv
<1> HIDE DEF Saved
<1> QED
  BY <1>1, <1>2, <1>3, <1>4, <1>5, LockInvHolds, PTL DEF Spec

(* Every live child can be reached: its object is in the registry and holds its
   handle, through any requests, replacements, deletions and overlapping
   reloads, as long as nothing overlaps an enable or a disable. *)
THEOREM EveryChildIsManagedHolds == IntentsAlone => (Spec => []EveryChildIsManaged)
<1> SUFFICES ASSUME IntentsAlone PROVE Spec => []EveryChildIsManaged
  OBVIOUS
<1>1. ASSUME IInv, NEW p \in Procs, NEW g \in LiveChildren(p)
      PROVE  p \in Managed /\ handle[p] = g
  <2>1. ObjectsInv
    BY <1>1 DEF IInv, RegistryInv, TypeOK, Supervision, ObjectsInv
  <2>2. handle[p] = g /\ g # 0
    BY <2>1, LiveIsLatest DEF Gens
  <2> QED
    BY <1>1, <2>2 DEF IInv, Supervision
<1>2. IInv => EveryChildIsManaged
  BY <1>1 DEF EveryChildIsManaged
<1>3. Spec => []IInv
  BY Invariance
<1> QED
  BY <1>2, <1>3, PTL

(* What Delete leaves: the child of an angl that is gone is gone as well, since
   no enable can be about to start the object that was dropped. *)
THEOREM DeletedAnglIsStoppedHolds == IntentsAlone => (Spec => []DeletedAnglIsStopped)
<1> SUFFICES ASSUME IntentsAlone PROVE Spec => []DeletedAnglIsStopped
  OBVIOUS
<1>1. EveryChildIsManaged => DeletedAnglIsStopped
  BY DEF EveryChildIsManaged, DeletedAnglIsStopped
<1>2. Spec => []EveryChildIsManaged
  BY EveryChildIsManagedHolds
<1> QED
  BY <1>1, <1>2, PTL
=============================================================================
