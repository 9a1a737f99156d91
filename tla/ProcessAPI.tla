----------------------------- MODULE ProcessAPI -----------------------------
(***************************************************************************)
(* One Process object (daemon/process.go) under concurrent callers: RPC    *)
(* goroutines call Start, Exec, Stop and StopRunning in any order while    *)
(* its runLoop goroutines run.  Stop is three steps: it captures cancel    *)
(* and done under p.mu, cancels, and waits for done to be closed; the lock *)
(* is free in between.                                                     *)
(***************************************************************************)
EXTENDS Process

CONSTANT Callers

VARIABLES
    cpc,    \* where each caller is in Stop
    ctarget \* the object and the handle its Stop captured

callerVars == <<cpc, ctarget>>
vars == <<processVars, callerVars>>

TypeOK ==
    /\ ProcessTypeOK
    /\ cpc \in [Callers -> {"idle", "cancel", "await"}]
    /\ ctarget \in [Callers -> [proc : Procs, handle : 0 .. MaxGen]]

Init ==
    /\ NewProcesses
    /\ cpc = [c \in Callers |-> "idle"]
    /\ ctarget \in [Callers -> [proc : Procs, handle : {0}]]

CallStart(p) == Start(p) /\ UNCHANGED callerVars
CallExec(p) == Exec(p) /\ UNCHANGED callerVars

Capture(c, p) ==
    /\ cpc[c] = "idle"
    /\ cpc' = [cpc EXCEPT ![c] = "cancel"]
    /\ ctarget' = [ctarget EXCEPT ![c] = [proc |-> p, handle |-> handle[p]]]
    /\ UNCHANGED processVars

Stop(c, p) == Capture(c, p)
StopRunning(c, p) == state[p] = "running" /\ Capture(c, p)

StopCancel(c) ==
    /\ cpc[c] = "cancel"
    /\ Cancel(ctarget[c].proc, ctarget[c].handle)
    /\ cpc' = [cpc EXCEPT ![c] = "await"]
    /\ UNCHANGED ctarget

StopReturn(c) ==
    /\ cpc[c] = "await"
    /\ DoneClosed(ctarget[c].proc, ctarget[c].handle)
    /\ cpc' = [cpc EXCEPT ![c] = "idle"]
    /\ ctarget' = [ctarget EXCEPT ![c].handle = 0]
    /\ UNCHANGED processVars

\* The context passed to Start and Exec is cancelled: the daemon shuts down.
ParentCancel ==
    /\ ~parentDone
    /\ parentDone' = TRUE
    /\ UNCHANGED <<fieldVars, loopVars, callerVars>>

Loop(p, g) == runLoop(p, g) /\ UNCHANGED callerVars

Next ==
    \/ \E p \in Procs : CallStart(p) \/ CallExec(p)
    \/ \E c \in Callers, p \in Procs : Stop(c, p) \/ StopRunning(c, p)
    \/ \E c \in Callers : StopCancel(c) \/ StopReturn(c)
    \/ \E p \in Procs, g \in Gens : Loop(p, g)
    \/ ParentCancel

Spec == Init /\ [][Next]_vars

(***************************************************************************)
(* Fairness: a goroutine that can run does; so does a caller inside Stop.  *)
(* Nothing obliges a client to call, a timer to be short, a healthy child  *)
(* to exit, or the daemon to shut down.                                    *)
(***************************************************************************)
Fairness ==
    /\ \A p \in Procs, g \in Gens : WF_vars(Scheduled(p, g) /\ UNCHANGED callerVars)
    /\ \A c \in Callers : WF_vars(StopCancel(c)) /\ WF_vars(StopReturn(c))

FairSpec == Spec /\ Fairness

-----------------------------------------------------------------------------
(* Safety.                                                                 *)

\* "never creates a second copy of a starting or running angl" (process.go
\* 100-101): at most one child of an object is alive, whatever the callers
\* do and however many generations have been started.
SingleCopy ==
    \A p \in Procs : \A g, h \in LiveChildren(p) : g = h

\* A child that is alive is one that Stop can still reach: it belongs to the
\* generation whose cancel and done the object holds (no orphan).
NoOrphan ==
    \A p \in Procs : \A g \in LiveChildren(p) : handle[p] = g

\* Status never shows a resting or waiting angl while its child still runs,
\* and shows a pid only beside "running".
StatusHonest ==
    \A p \in Procs :
        /\ LiveChildren(p) # {} => state[p] \in {"starting", "running"}
        /\ pid[p] # 0 => state[p] = "running"

\* Exec closes p.wake: that channel is never one already closed (a second
\* close would panic the daemon), and it is that of the wait under way.
WakeIsFresh ==
    \A p \in Procs : wake[p] # 0 =>
        /\ ~woken[p][wake[p]]
        /\ wake[p] = gen[p]
        /\ pc[p][wake[p]] \in {"wait", "resume", "unwind"}

\* InitialBackoff doubled once per failure after the first, up to MaxBackoff.
Doubled[n \in Nat] == IF n <= 1 THEN InitialBackoff ELSE NextBackoff(Doubled[n - 1])

\* The length of the wait, a local of runLoop, and restarts, a field, are kept
\* apart; they still agree: after the n-th failure in a row the angl waits
\* InitialBackoff * 2^(n-1), at most MaxBackoff, also when a forced exec or a
\* healthy run came in between.
BackoffTracksRestarts ==
    \A p \in Procs, g \in Gens :
        pc[p][g] = "wait" /\ retry[p][g] => backoff[p][g] = Doubled[restarts[p]]

-----------------------------------------------------------------------------
\* Bound: without a limit, restarts is counted at least until the backoff has
\* reached its own limit, so that what happens beyond the bound is no different.
ASSUME RestartCapAssumption ==
    \A p \in Procs : MaxRestarts[p] = 0 => Doubled[RestartCap] = MaxBackoff

\* The local backoff of the latest generation is one doubling ahead of restarts,
\* but for a wait after a failure, which doubles it when it ends; those of later
\* generations are as they will find them.
CountInv(p) ==
    LET g == gen[p]
        doubles == pc[p][g] \in Waiting /\ retry[p][g]
    IN  /\ \A h \in Gens : h > g => backoff[p][h] = InitialBackoff
        /\ g # 0 /\ pc[p][g] \notin {"return", "ended"} =>
              /\ (IF doubles THEN NextBackoff(backoff[p][g]) ELSE backoff[p][g])
                    = Doubled[restarts[p] + 1]
              /\ doubles => backoff[p][g] = Doubled[restarts[p]]

\* The fields of every object agree with the place of its latest generation:
\* the relation between the lock-protected state and the goroutines on which
\* Start, Exec and Stop rely when they decide on the state alone; and the two
\* counters agree.
IInv == TypeOK /\ \A p \in Procs : LoopInv(p) /\ CountInv(p)

-----------------------------------------------------------------------------
(* Action properties.                                                      *)

\* When a Stop returns and nothing was started since it captured its handle,
\* the angl is at rest and its child is gone.
StopIsComplete ==
    [][\A c \in Callers :
          LET p == ctarget[c].proc IN
          cpc[c] = "await" /\ cpc'[c] = "idle" /\ ctarget[c].handle = gen[p]
             => state[p] \notin Active /\ LiveChildren(p) = {}]_vars

-----------------------------------------------------------------------------
(* Liveness.                                                               *)

\* Stop always comes back (given that taskkill works).
StopReturns ==
    \A c \in Callers : cpc[c] = "cancel" ~> cpc[c] = "idle"

\* A forced exec is not lost: the wait it hit ends, and the angl is launched
\* (or the loop ends because it was cancelled).
ExecIsNotLost ==
    \A p \in Procs, g \in Gens :
        pc[p][g] = "wait" /\ woken[p][g] ~> pc[p][g] \in {"launch", "ended"}

-----------------------------------------------------------------------------
(* Refinement: the objects implement the abstract life of an angl.         *)

Abstract == INSTANCE Lifecycle WITH
    Angls <- Procs,
    Launches <- Gens,
    shown <- state,
    children <- [p \in Procs |-> LiveChildren(p)]

ImplementsLifecycle == Abstract!Spec
=============================================================================
