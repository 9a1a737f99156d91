------------------------------ MODULE Process ------------------------------
(***************************************************************************)
(* daemon/process.go: one supervised angl.  A Process object holds a state *)
(* and, per generation, a goroutine (runLoop) that launches a child,       *)
(* waits for it, backs off and launches again until it is cancelled.       *)
(*                                                                         *)
(* One action is one section under p.mu together with the local steps      *)
(* before it.  Abstracted: the log file, the times shown by Status (only   *)
(* their order matters here), and the port holder killed before a launch   *)
(* (an outside kill is one of the ways a child exits, ChildExits).         *)
(*                                                                         *)
(* This module holds the state and the steps; ProcessAPI and Daemon add    *)
(* the callers.                                                            *)
(***************************************************************************)
EXTENDS Integers

CONSTANTS
    Procs,           \* the Process objects (heap cells, not names)
    Heartbeat,       \* those whose definition has an interval
    MaxRestarts,     \* per object, max_restarts; 0 is unlimited
    InitialBackoff,  \* initialBackoff, in seconds
    MaxBackoff,      \* maxBackoff, in seconds
    KillMayFail,     \* whether taskkill can leave the child alive
    MaxGen,          \* bound: how often one object is started
    RestartCap       \* bound: restarts is counted up to this value

ASSUME ProcessAssumption ==
    /\ Heartbeat \subseteq Procs
    /\ MaxRestarts \in [Procs -> Nat]
    /\ InitialBackoff \in Nat \ {0}
    /\ MaxBackoff \in Nat
    /\ InitialBackoff <= MaxBackoff
    /\ KillMayFail \in BOOLEAN
    /\ MaxGen \in Nat \ {0}
    /\ RestartCap \in Nat
    /\ \A p \in Procs : MaxRestarts[p] <= RestartCap

VARIABLES
    \* The fields of Process, under p.mu.
    state, pid, restarts, enabled,
    gen,        \* generation
    handle,     \* cancel and done: the generation they belong to, 0 for nil
    wake,       \* wake: the generation whose wait owns it, 0 for nil
    \* The goroutines, by generation.
    pc,         \* where runLoop is; done is closed when it is "ended"
    backoff,    \* the local variable backoff
    retry,      \* the wait under way follows a failure: backoff doubles after it
    woken,      \* the wait's own wake channel is closed
    cancelled,  \* cancel() was called on the generation's context
    alive,      \* the operating system runs a child of this generation
    parentDone  \* the context of the daemon is cancelled

fieldVars == <<state, pid, restarts, enabled, gen, handle, wake>>
loopVars  == <<pc, backoff, retry, woken, cancelled, alive>>
processVars == <<fieldVars, loopVars, parentDone>>

Gens == 1 .. MaxGen
Seconds == 1 .. MaxBackoff
States == {"disabled", "stopped", "starting", "running", "backoff", "failed"}
Active == {"starting", "running", "backoff"}
Points == {"idle", "begin", "launch", "mark", "supervise", "await", "exited",
           "account", "wait", "resume", "unwind", "return", "ended"}

ProcessTypeOK ==
    /\ state \in [Procs -> States]
    /\ pid \in [Procs -> 0 .. MaxGen]
    /\ restarts \in [Procs -> 0 .. RestartCap]
    /\ enabled \in [Procs -> BOOLEAN]
    /\ gen \in [Procs -> 0 .. MaxGen]
    /\ handle \in [Procs -> 0 .. MaxGen]
    /\ wake \in [Procs -> 0 .. MaxGen]
    /\ pc \in [Procs -> [Gens -> Points]]
    /\ backoff \in [Procs -> [Gens -> Seconds]]
    /\ retry \in [Procs -> [Gens -> BOOLEAN]]
    /\ woken \in [Procs -> [Gens -> BOOLEAN]]
    /\ cancelled \in [Procs -> [Gens -> BOOLEAN]]
    /\ alive \in [Procs -> [Gens -> BOOLEAN]]
    /\ parentDone \in BOOLEAN

NoLoop(v) == [p \in Procs |-> [g \in Gens |-> v]]
NewState(e) == IF e THEN "stopped" ELSE "disabled"

\* Every object as NewProcess makes it from its definition's enabled flag.
NewProcesses ==
    /\ enabled \in [Procs -> BOOLEAN]
    /\ state = [p \in Procs |-> NewState(enabled[p])]
    /\ pid = [p \in Procs |-> 0]
    /\ restarts = [p \in Procs |-> 0]
    /\ gen = [p \in Procs |-> 0]
    /\ handle = [p \in Procs |-> 0]
    /\ wake = [p \in Procs |-> 0]
    /\ pc = NoLoop("idle")
    /\ backoff = NoLoop(InitialBackoff)
    /\ retry = NoLoop(FALSE)
    /\ woken = NoLoop(FALSE)
    /\ cancelled = NoLoop(FALSE)
    /\ alive = NoLoop(FALSE)
    /\ parentDone = FALSE

Cancelled(p, g) == parentDone \/ cancelled[p][g]
\* Mutant of NextBackoff: no limit.
NextBackoff_Uncapped(d) == 2 * d
NextBackoff(d) == IF 2 * d > MaxBackoff THEN MaxBackoff ELSE 2 * d
CountUp(n) == IF n < RestartCap THEN n + 1 ELSE RestartCap
Goto(p, g, l) == pc' = [pc EXCEPT ![p][g] = l]

-----------------------------------------------------------------------------
(* Calls on the object.                                                    *)

startLocked(p) ==
    /\ gen[p] < MaxGen
    /\ restarts' = [restarts EXCEPT ![p] = 0]
    /\ state' = [state EXCEPT ![p] = "starting"]
    /\ gen' = [gen EXCEPT ![p] = @ + 1]
    /\ handle' = [handle EXCEPT ![p] = gen[p] + 1]
    /\ Goto(p, gen[p] + 1, "begin")
    /\ UNCHANGED <<pid, enabled, wake, backoff, retry, woken, cancelled, alive,
                   parentDone>>

\* Mutant of Start: a starting angl is not recognised.
Start_NotStarting(p) ==
    /\ state[p] \notin Active \ {"starting"}
    /\ startLocked(p)

Start(p) ==
    /\ state[p] \notin Active
    /\ startLocked(p)

\* Closes the wake channel of the wait under way.
ForceWait(p) ==
    /\ state[p] = "backoff"
    /\ wake[p] # 0
    /\ woken' = [woken EXCEPT ![p][wake[p]] = TRUE]
    /\ wake' = [wake EXCEPT ![p] = 0]
    /\ UNCHANGED <<state, pid, restarts, enabled, gen, handle, pc, backoff,
                   retry, cancelled, alive, parentDone>>

Exec(p) == ForceWait(p) \/ Start(p)

\* cancel() on a captured handle; nothing to do for nil.
Cancel(p, h) ==
    /\ cancelled' = IF h = 0 THEN cancelled
                    ELSE [cancelled EXCEPT ![p][h] = TRUE]
    /\ UNCHANGED <<fieldVars, pc, backoff, retry, woken, alive, parentDone>>

\* Mutant of DoneClosed: done is closed before the fields are cleared.
DoneClosed_Early(p, h) == h # 0 => pc[p][h] \in {"return", "ended"}

\* Whether <-done returns on a captured handle.
DoneClosed(p, h) == h # 0 => pc[p][h] = "ended"

-----------------------------------------------------------------------------
(* The steps of runLoop, generation g of p.                                *)

\* Mutant of Begin: the state is left as it was.
Begin_Silent(p, g) ==
    /\ pc[p][g] = "begin"
    /\ Goto(p, g, "launch")
    /\ UNCHANGED <<fieldVars, backoff, retry, woken, cancelled, alive, parentDone>>

\* Lines 243-245: the state is set without looking at what it was.
Begin(p, g) ==
    /\ pc[p][g] = "begin"
    /\ state' = [state EXCEPT ![p] = "starting"]
    /\ Goto(p, g, "launch")
    /\ UNCHANGED <<pid, restarts, enabled, gen, handle, wake, backoff, retry,
                   woken, cancelled, alive, parentDone>>

\* Mutant of beginBackoffLocked: the channel of the last wait is used again.
beginBackoffLocked_Shared(p, g) ==
    /\ state' = [state EXCEPT ![p] = "backoff"]
    /\ wake' = [wake EXCEPT ![p] = g]
    /\ Goto(p, g, "wait")
    /\ UNCHANGED woken

\* beginBackoffLocked: a fresh wake channel for this wait.
beginBackoffLocked(p, g) ==
    /\ state' = [state EXCEPT ![p] = "backoff"]
    /\ wake' = [wake EXCEPT ![p] = g]
    /\ woken' = [woken EXCEPT ![p][g] = FALSE]
    /\ Goto(p, g, "wait")

\* One more failure: give up at the limit, else wait for backoff.
Failure(p, g) ==
    LET count == CountUp(restarts[p])
        max   == MaxRestarts[p]
    IN  /\ restarts' = [restarts EXCEPT ![p] = count]
        /\ retry' = [retry EXCEPT ![p][g] = TRUE]
        /\ \/ /\ max > 0 /\ count >= max
              /\ state' = [state EXCEPT ![p] = "failed"]
              /\ Goto(p, g, "return")
              /\ UNCHANGED <<wake, woken>>
           \/ /\ ~(max > 0 /\ count >= max)
              /\ beginBackoffLocked(p, g)

Launch(p, g) ==
    /\ pc[p][g] = "launch"
    /\ alive' = [alive EXCEPT ![p][g] = TRUE]
    /\ Goto(p, g, "mark")
    /\ UNCHANGED <<fieldVars, backoff, retry, woken, cancelled, parentDone>>

LaunchFails(p, g) ==
    /\ pc[p][g] = "launch"
    /\ Failure(p, g)
    /\ UNCHANGED <<pid, enabled, gen, handle, backoff, cancelled, alive, parentDone>>

MarkRunning(p, g) ==
    /\ pc[p][g] = "mark"
    /\ state' = [state EXCEPT ![p] = "running"]
    /\ pid' = [pid EXCEPT ![p] = g]
    /\ Goto(p, g, "supervise")
    /\ UNCHANGED <<restarts, enabled, gen, handle, wake, backoff, retry, woken,
                   cancelled, alive, parentDone>>

\* Mutant of Reap: the pid of the dead child is kept.
Reap_KeepPid(p, g) ==
    /\ pc[p][g] = "supervise"
    /\ ~alive[p][g]
    /\ Goto(p, g, "exited")
    /\ UNCHANGED <<fieldVars, backoff, retry, woken, cancelled, alive, parentDone>>

\* The select takes the exit of the child.
Reap(p, g) ==
    /\ pc[p][g] = "supervise"
    /\ ~alive[p][g]
    /\ pid' = [pid EXCEPT ![p] = 0]
    /\ Goto(p, g, "exited")
    /\ UNCHANGED <<state, restarts, enabled, gen, handle, wake, backoff, retry,
                   woken, cancelled, alive, parentDone>>

\* The select takes ctx.Done(): taskkill, whose error is not looked at.
KillChild(p, g) ==
    /\ pc[p][g] = "supervise"
    /\ Cancelled(p, g)
    /\ \/ alive' = [alive EXCEPT ![p][g] = FALSE]
       \/ KillMayFail /\ alive' = alive
    /\ Goto(p, g, "await")
    /\ UNCHANGED <<fieldVars, backoff, retry, woken, cancelled, parentDone>>

\* Mutant of AwaitExit: the exit is not waited for after taskkill.
AwaitExit_NoWait(p, g) ==
    /\ pc[p][g] = "await"
    /\ Goto(p, g, "return")
    /\ UNCHANGED <<fieldVars, backoff, retry, woken, cancelled, alive, parentDone>>

AwaitExit(p, g) ==
    /\ pc[p][g] = "await"
    /\ ~alive[p][g]
    /\ Goto(p, g, "return")
    /\ UNCHANGED <<fieldVars, backoff, retry, woken, cancelled, alive, parentDone>>

\* Heartbeat mode: the next run is an interval away, nothing is counted.
BeginInterval(p, g) ==
    /\ pc[p][g] = "exited"
    /\ p \in Heartbeat
    /\ retry' = [retry EXCEPT ![p][g] = FALSE]
    /\ beginBackoffLocked(p, g)
    /\ UNCHANGED <<pid, restarts, enabled, gen, handle, backoff, cancelled, alive,
                   parentDone>>

\* Mutant of ResetHealthy: only the count is reset.
ResetHealthy_KeepBackoff(p, g) ==
    /\ pc[p][g] = "exited"
    /\ p \notin Heartbeat
    /\ restarts' = [restarts EXCEPT ![p] = 0]
    /\ Goto(p, g, "account")
    /\ UNCHANGED <<state, pid, enabled, gen, handle, wake, backoff, retry, woken,
                   cancelled, alive, parentDone>>

\* The child had run for longer than healthyThreshold.
ResetHealthy(p, g) ==
    /\ pc[p][g] = "exited"
    /\ p \notin Heartbeat
    /\ backoff' = [backoff EXCEPT ![p][g] = InitialBackoff]
    /\ restarts' = [restarts EXCEPT ![p] = 0]
    /\ Goto(p, g, "account")
    /\ UNCHANGED <<state, pid, enabled, gen, handle, wake, retry, woken, cancelled,
                   alive, parentDone>>

AccountExit(p, g) ==
    /\ pc[p][g] \in {"exited", "account"}
    /\ p \notin Heartbeat
    /\ Failure(p, g)
    /\ UNCHANGED <<pid, enabled, gen, handle, backoff, cancelled, alive, parentDone>>

\* The select of wait() returns; cancellation wins over what it returned for.
WaitReturns(p, g) ==
    /\ pc[p][g] = "wait"
    /\ Goto(p, g, IF Cancelled(p, g) THEN "unwind" ELSE "resume")
    /\ UNCHANGED <<fieldVars, backoff, retry, woken, cancelled, alive, parentDone>>

\* Mutant of WaitSignalled: the select does not listen to wake.
WaitSignalled_NoWake(p, g) ==
    /\ Cancelled(p, g)
    /\ WaitReturns(p, g)

\* The select is certain to return: the timer alone may take very long.
WaitSignalled(p, g) ==
    /\ woken[p][g] \/ Cancelled(p, g)
    /\ WaitReturns(p, g)

\* Mutant of ClearWake: the backoff doubles after an interval as well.
ClearWake_AlwaysDoubles(p, g) ==
    /\ pc[p][g] \in {"resume", "unwind"}
    /\ wake' = [wake EXCEPT ![p] = IF @ = g THEN 0 ELSE @]
    /\ Goto(p, g, IF pc[p][g] = "unwind" THEN "return" ELSE "begin")
    /\ backoff' = [backoff EXCEPT ![p][g] = NextBackoff(@)]
    /\ UNCHANGED <<state, pid, restarts, enabled, gen, handle, retry, woken,
                   cancelled, alive, parentDone>>

\* The end of wait(): drop the channel, double the backoff after a failure.
ClearWake(p, g) ==
    /\ pc[p][g] \in {"resume", "unwind"}
    /\ wake' = [wake EXCEPT ![p] = IF @ = g THEN 0 ELSE @]
    /\ \/ /\ pc[p][g] = "unwind"
          /\ Goto(p, g, "return")
          /\ UNCHANGED backoff
       \/ /\ pc[p][g] = "resume"
          /\ Goto(p, g, "begin")
          /\ backoff' = [backoff EXCEPT ![p][g] =
                            IF retry[p][g] THEN NextBackoff(@) ELSE @]
    /\ UNCHANGED <<state, pid, restarts, enabled, gen, handle, retry, woken,
                   cancelled, alive, parentDone>>

\* Mutant of Cleanup: done is closed only by the latest generation.
Cleanup_LatestOnly(p, g) ==
    /\ pc[p][g] = "return"
    /\ gen[p] = g
    /\ state' = [state EXCEPT ![p] = NewState(enabled[p])]
    /\ pid' = [pid EXCEPT ![p] = 0]
    /\ handle' = [handle EXCEPT ![p] = 0]
    /\ wake' = [wake EXCEPT ![p] = 0]
    /\ Goto(p, g, "ended")
    /\ UNCHANGED <<restarts, enabled, gen, backoff, retry, woken, cancelled, alive,
                   parentDone>>

\* The deferred function: clears the fields unless a newer generation owns them,
\* then closes done.  The goroutine's locals are forgotten.
Cleanup(p, g) ==
    /\ pc[p][g] = "return"
    /\ IF gen[p] = g
       THEN /\ state' = [state EXCEPT ![p] =
                            IF @ = "failed" THEN @ ELSE NewState(enabled[p])]
            /\ pid' = [pid EXCEPT ![p] = 0]
            /\ handle' = [handle EXCEPT ![p] = 0]
            /\ wake' = [wake EXCEPT ![p] = 0]
       ELSE UNCHANGED <<state, pid, handle, wake>>
    /\ Goto(p, g, "ended")
    /\ backoff' = [backoff EXCEPT ![p][g] = InitialBackoff]
    /\ retry' = [retry EXCEPT ![p][g] = FALSE]
    /\ woken' = [woken EXCEPT ![p][g] = FALSE]
    /\ UNCHANGED <<restarts, enabled, gen, cancelled, alive, parentDone>>

-----------------------------------------------------------------------------
(* The environment: the child ends by itself, or something outside ends it.*)
ChildExits(p, g) ==
    /\ alive[p][g]
    /\ alive' = [alive EXCEPT ![p][g] = FALSE]
    /\ UNCHANGED <<fieldVars, pc, backoff, retry, woken, cancelled, parentDone>>

\* The steps the Go scheduler is certain to run once they can be taken.
Scheduled(p, g) ==
    \/ Begin(p, g) \/ Launch(p, g) \/ LaunchFails(p, g) \/ MarkRunning(p, g)
    \/ Reap(p, g) \/ KillChild(p, g) \/ AwaitExit(p, g)
    \/ BeginInterval(p, g) \/ ResetHealthy(p, g) \/ AccountExit(p, g)
    \/ WaitSignalled(p, g) \/ ClearWake(p, g) \/ Cleanup(p, g)

runLoop(p, g) == Scheduled(p, g) \/ WaitReturns(p, g) \/ ChildExits(p, g)

LiveChildren(p) == {g \in Gens : alive[p][g]}

-----------------------------------------------------------------------------
(* The inductive invariant: where the latest generation may be in runLoop  *)
(* for each state of the fields, and that older generations only have done *)
(* left to close.                                                          *)

Live == {"mark", "supervise", "await"}
Waiting == {"wait", "resume", "unwind"}
AtRest(p) == state[p] \notin Active /\ pid[p] = 0 /\ handle[p] = 0 /\ wake[p] = 0

\* What the fields are while the latest generation g of p is at pc[p][g].
FieldsAgree(p, g) ==
    LET l == pc[p][g] IN
    /\ l # "idle"
    /\ l = "begin" => state[p] \in {"starting", "backoff"}
    /\ l \in {"launch", "mark"} => state[p] = "starting"
    /\ l \in {"supervise", "await", "exited", "account"} => state[p] = "running"
    /\ l \in Waiting => state[p] = "backoff"
    /\ l = "return" => state[p] \in {"running", "backoff", "failed"}
    /\ l = "ended" => AtRest(p)
    /\ l # "ended" => handle[p] = g
    /\ pid[p] # 0 => l \in {"supervise", "await", "return"} /\ state[p] = "running"
    /\ wake[p] # 0 => wake[p] = g /\ l \in Waiting /\ ~woken[p][g]

LoopInv(p) ==
    /\ gen[p] = 0 => AtRest(p)
    /\ gen[p] # 0 => FieldsAgree(p, gen[p])
    /\ \A g \in Gens :
          /\ g > gen[p] => pc[p][g] = "idle"
          /\ g < gen[p] => pc[p][g] \in {"return", "ended"}
          /\ alive[p][g] => pc[p][g] \in Live

ObjectsInv == ProcessTypeOK /\ \A p \in Procs : LoopInv(p)
=============================================================================
