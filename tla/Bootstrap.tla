------------------------------ MODULE Bootstrap ------------------------------
(***************************************************************************)
(* Daemons come and go: commands that find none launch one, the logon task *)
(* and the user launch others, each boots its angls before it knows        *)
(* whether the control pipe is free, and any of them can be stopped or     *)
(* killed with requests in flight.  config.json is what they hand on to    *)
(* each other.                                                             *)
(*                                                                         *)
(* The commands enable angls, the request that both writes the registry    *)
(* and starts something; Daemon has the other requests, in one daemon's    *)
(* life.  Every angl is registered.  A daemon supervises an angl from its  *)
(* Start until it stops it; what its child does meanwhile is in Process.   *)
(***************************************************************************)
CONSTANTS
    Daemons,  \* daemon processes there can ever be
    Clients,  \* commands at once
    Angls,
    Nil

ASSUME BootstrapAssumption == Nil \notin Daemons /\ Nil \notin Angls

VARIABLES
    pipe,       \* the daemon that listens on the control pipe
    file,       \* config.json: the angls that are enabled
    phase,      \* where each daemon is
    config,     \* d.config of each daemon
    supervised, \* the angls each daemon has started and not stopped
    unstopped,  \* what its shutdown has still to stop
    command,    \* the command of each client: asked for an angl, and where it is
    request,    \* the request of that command in a daemon
    stale,      \* history: daemons whose config.json another one has replaced
    late,       \* history: what a daemon started after it had stopped it
    unsaved     \* history: what a daemon was asked to enable but did not save

daemonVars == <<pipe, phase, config, supervised, unstopped, late>>
vars == <<daemonVars, file, command, request, stale, unsaved>>

Phases == {"none", "check", "new", "boot", "listen", "serve", "closing", "stopping",
           "stopped", "gone", "killed"}
Loaded == {"boot", "listen", "serve", "closing", "stopping", "stopped"}
Answering == {"serve", "closing", "stopping", "stopped"}
Alive == Phases \ {"none", "gone", "killed"}

NoCommand == [at |-> "idle", angl |-> Nil]
NoRequest == [at |-> "none", angl |-> Nil, daemon |-> Nil]
InCommand == [at : {"idle", "probe", "retry", "wait"}, angl : Angls \cup {Nil}]
InRequest == [at : {"none", "sent", "saved"}, angl : Angls \cup {Nil}, daemon : Daemons \cup {Nil}]

TypeOK ==
    /\ pipe \in Daemons \cup {Nil}
    /\ file \subseteq Angls
    /\ phase \in [Daemons -> Phases]
    /\ config \in [Daemons -> SUBSET Angls]
    /\ supervised \in [Daemons -> SUBSET Angls]
    /\ unstopped \in [Daemons -> SUBSET Angls]
    /\ late \in [Daemons -> SUBSET Angls]
    /\ unsaved \in [Daemons -> SUBSET Angls]
    /\ stale \subseteq Daemons
    /\ command \in [Clients -> InCommand]
    /\ request \in [Clients -> InRequest]

Init ==
    /\ pipe = Nil
    /\ file \in SUBSET Angls
    /\ phase = [d \in Daemons |-> "none"]
    /\ config = [d \in Daemons |-> {}]
    /\ supervised = [d \in Daemons |-> {}]
    /\ unstopped = [d \in Daemons |-> {}]
    /\ late = [d \in Daemons |-> {}]
    /\ unsaved = [d \in Daemons |-> {}]
    /\ stale = {}
    /\ command = [c \in Clients |-> NoCommand]
    /\ request = [c \in Clients |-> NoRequest]

Enter(d, p) == phase' = [phase EXCEPT ![d] = p]

-----------------------------------------------------------------------------
(* The life of a daemon: cmdDaemon, New and Run.                           *)

Start(d) == phase[d] = "none" /\ Enter(d, "check")

\* The logon task, install, angl daemon and angl daemon --detach.
Launch(d) ==
    /\ Start(d)
    /\ UNCHANGED <<pipe, file, config, supervised, unstopped, late, command, request, stale, unsaved>>

\* IsDaemonRunning; a pipe that does not answer within 2 s counts as none.
Check(d) ==
    /\ phase[d] = "check"
    /\ \/ pipe # Nil /\ Enter(d, "gone")
       \/ Enter(d, "new")
    /\ UNCHANGED <<pipe, file, config, supervised, unstopped, late, command, request, stale, unsaved>>

\* Mutant of New: a file that cannot be read counts as empty.
New_Empty(d) ==
    /\ phase[d] = "new"
    /\ Enter(d, "boot")
    /\ config' = [config EXCEPT ![d] = {}]
    /\ UNCHANGED <<pipe, file, supervised, unstopped, late, command, request, stale, unsaved>>

\* LoadConfig.
New(d) ==
    /\ phase[d] = "new"
    /\ Enter(d, "boot")
    /\ config' = [config EXCEPT ![d] = file]
    /\ UNCHANGED <<pipe, file, supervised, unstopped, late, command, request, stale, unsaved>>

\* The file, the log directory or the log cannot be read or made.
NewFails(d) ==
    /\ phase[d] = "new"
    /\ Enter(d, "gone")
    /\ UNCHANGED <<pipe, file, config, supervised, unstopped, late, command, request, stale, unsaved>>

\* Mutant of Boot: the enabled angls are not started.
Boot_Idle(d) ==
    /\ phase[d] = "boot"
    /\ Enter(d, "listen")
    /\ UNCHANGED <<pipe, file, config, supervised, unstopped, late, command, request, stale, unsaved>>

Boot(d) ==
    /\ phase[d] = "boot"
    /\ Enter(d, "listen")
    /\ supervised' = [supervised EXCEPT ![d] = config[d]]
    /\ UNCHANGED <<pipe, file, config, unstopped, late, command, request, stale, unsaved>>

\* ListenPipe succeeds for one daemon at a time.
Listen(d) ==
    /\ phase[d] = "listen"
    /\ pipe = Nil
    /\ pipe' = d
    /\ Enter(d, "serve")
    /\ UNCHANGED <<file, config, supervised, unstopped, late, command, request, stale, unsaved>>

\* Mutant of ListenFails: Run returns without stopping what it has started.
ListenFails_Leaves(d) ==
    /\ phase[d] = "listen"
    /\ Enter(d, "gone")
    /\ UNCHANGED <<pipe, file, config, supervised, unstopped, late, command, request, stale, unsaved>>

\* It fails while another listens, and may fail for a reason of its own.
ListenFails(d) ==
    /\ phase[d] = "listen"
    /\ Enter(d, "closing")
    /\ UNCHANGED <<pipe, file, config, supervised, unstopped, late, command, request, stale, unsaved>>

\* The signal: the listener closes and Accept returns; requests go on.
Cancel(d) ==
    /\ phase[d] = "serve"
    /\ pipe' = Nil
    /\ Enter(d, "closing")
    /\ UNCHANGED <<file, config, supervised, unstopped, late, command, request, stale, unsaved>>

\* Run takes d.mu.RLock to stop every process,
StopAll(d) ==
    /\ phase[d] = "closing"
    /\ Enter(d, "stopping")
    /\ unstopped' = [unstopped EXCEPT ![d] = Angls]
    /\ UNCHANGED <<pipe, file, config, supervised, late, command, request, stale, unsaved>>

\* one after the other,
StopOne(d, a) ==
    /\ phase[d] = "stopping" /\ a \in unstopped[d]
    /\ unstopped' = [unstopped EXCEPT ![d] = @ \ {a}]
    /\ supervised' = [supervised EXCEPT ![d] = @ \ {a}]
    /\ UNCHANGED <<pipe, file, phase, config, late, command, request, stale, unsaved>>

\* and releases it.
Stopped(d) ==
    /\ phase[d] = "stopping" /\ unstopped[d] = {}
    /\ Enter(d, "stopped")
    /\ UNCHANGED <<pipe, file, config, supervised, unstopped, late, command, request, stale, unsaved>>

\* What a request started after that stops by itself: its context has ended.
StopLate(d, a) ==
    /\ phase[d] \in {"stopping", "stopped"} /\ a \in late[d]
    /\ supervised' = [supervised EXCEPT ![d] = @ \ {a}]
    /\ late' = [late EXCEPT ![d] = @ \ {a}]
    /\ UNCHANGED <<pipe, file, phase, config, unstopped, command, request, stale, unsaved>>

\* The process ends, and its memory and its requests with it; the connections
\* of those break.
End(d, p) ==
    /\ Enter(d, p)
    /\ pipe' = IF pipe = d THEN Nil ELSE pipe
    /\ request' = [c \in Clients |-> IF request[c].daemon = d THEN NoRequest ELSE request[c]]
    /\ config' = [config EXCEPT ![d] = {}]
    /\ unstopped' = [unstopped EXCEPT ![d] = {}]
    /\ unsaved' = [unsaved EXCEPT ![d] = {}]
    /\ stale' = stale \ {d}
    /\ UNCHANGED <<file, command>>

\* main returns, and waits for no request.
Exit(d) ==
    /\ phase[d] = "stopped"
    /\ End(d, "gone")
    /\ UNCHANGED <<supervised, late>>

\* The environment: the process is killed.  Its angls run on (they have no job object), and no
\* daemon supervises them.
Crash(d) ==
    /\ phase[d] \in Alive
    /\ End(d, "killed")
    /\ supervised' = [supervised EXCEPT ![d] = {}]
    /\ late' = [late EXCEPT ![d] = {}]

-----------------------------------------------------------------------------
(* A request in the daemon: Enable.                                        *)

\* Under d.mu.Lock, which the shutdown keeps away while it stops processes.
Save(c) ==
    LET d == request[c].daemon
    IN /\ request[c].at = "sent" /\ phase[d] \in Answering \ {"stopping"}
       /\ config' = [config EXCEPT ![d] = @ \cup {request[c].angl}]
       /\ file' = config'[d]
       /\ stale' = stale \cup {e \in Daemons \ {d} : phase[e] \in Loaded}
       /\ request' = [request EXCEPT ![c].at = "saved"]
       /\ UNCHANGED <<pipe, phase, supervised, unstopped, late, command, unsaved>>

\* The client gets its answer, if it still waits for it.
Answer(c) ==
    /\ request' = [request EXCEPT ![c] = NoRequest]
    /\ command' = IF command[c].at = "wait" THEN [command EXCEPT ![c] = NoCommand] ELSE command

\* SaveConfig fails: an error, and d.config keeps the change.
SaveFails(c) ==
    LET d == request[c].daemon
    IN /\ request[c].at = "sent" /\ phase[d] \in Answering \ {"stopping"}
       /\ config' = [config EXCEPT ![d] = @ \cup {request[c].angl}]
       /\ unsaved' = [unsaved EXCEPT ![d] = @ \cup {request[c].angl}]
       /\ Answer(c)
       /\ UNCHANGED <<pipe, file, phase, supervised, unstopped, late, stale>>

\* p.Start, after the lock; in a daemon that has stopped p it starts again.
StartAngl(c) ==
    LET d == request[c].daemon
        a == request[c].angl
    IN /\ request[c].at = "saved"
       /\ supervised' = [supervised EXCEPT ![d] = @ \cup {a}]
       /\ late' = IF phase[d] \in {"stopping", "stopped"} /\ a \notin unstopped[d]
                  THEN [late EXCEPT ![d] = @ \cup {a}] ELSE late
       /\ unsaved' = [unsaved EXCEPT ![d] = @ \ {a}]
       /\ Answer(c)
       /\ UNCHANGED <<pipe, file, phase, config, unstopped, stale>>

-----------------------------------------------------------------------------
(* A command: connectDaemon and rpcCallRaw.                                *)

Ask(c, a) ==
    /\ command[c].at = "idle" /\ request[c] = NoRequest
    /\ command' = [command EXCEPT ![c] = [at |-> "probe", angl |-> a]]
    /\ UNCHANGED <<daemonVars, file, request, stale, unsaved>>

Dial(c) ==
    /\ command[c].at \in {"probe", "retry"} /\ pipe # Nil
    /\ command' = [command EXCEPT ![c] = [at |-> "wait", angl |-> Nil]]
    /\ request' = [request EXCEPT ![c] = [at |-> "sent", angl |-> command[c].angl, daemon |-> pipe]]
    /\ UNCHANGED <<daemonVars, file, stale, unsaved>>

\* The probe got no answer within 100 ms: a daemon is launched, once.
LaunchDaemon(c, d) ==
    /\ command[c].at = "probe"
    /\ Start(d)
    /\ command' = [command EXCEPT ![c].at = "retry"]
    /\ UNCHANGED <<pipe, file, config, supervised, unstopped, late, request, stale, unsaved>>

\* Mutant of Fail: the dialing has no deadline.
Fail_NoDeadline(c) ==
    /\ command[c].at # "idle"
    /\ command' = IF command[c].at = "retry" THEN command ELSE [command EXCEPT ![c] = NoCommand]
    /\ UNCHANGED <<daemonVars, file, request, stale, unsaved>>

\* The launch fails, or none answered until the deadline, or the connection
\* broke, or 5 minutes have passed: an error, whatever the daemon does.
Fail(c) ==
    /\ command[c].at # "idle"
    /\ command' = [command EXCEPT ![c] = NoCommand]
    /\ UNCHANGED <<daemonVars, file, request, stale, unsaved>>

-----------------------------------------------------------------------------
Continue(d) ==
    \/ Check(d) \/ New(d) \/ Boot(d) \/ Listen(d) \/ StopAll(d)
    \/ \E a \in Angls : StopOne(d, a)
    \/ Stopped(d) \/ Exit(d)

Next ==
    \/ \E d \in Daemons :
          \/ Launch(d) \/ Continue(d) \/ NewFails(d) \/ ListenFails(d) \/ Cancel(d) \/ Crash(d)
          \/ \E a \in Angls : StopLate(d, a)
    \/ \E c \in Clients :
          \/ Save(c) \/ SaveFails(c) \/ StartAngl(c)
          \/ \E a \in Angls : Ask(c, a)
          \/ Dial(c) \/ Fail(c)
          \/ \E d \in Daemons : LaunchDaemon(c, d)

Spec == Init /\ [][Next]_vars

(***************************************************************************)
(* Fairness: a daemon goes on with its boot and its shutdown, also when it *)
(* cannot listen; its goroutines go on with their requests; a command      *)
(* dials until its deadline, and reads until the answer or the end of the  *)
(* connection.  Nothing makes a daemon start, stop or fail; the 5 minutes  *)
(* of a read are not counted on.                                           *)
(***************************************************************************)
LostOrLate(c) == (command[c].at # "wait" \/ request[c] = NoRequest) /\ Fail(c)

FairSpec ==
    /\ Spec
    /\ \A d \in Daemons :
          /\ WF_vars(Continue(d))
          /\ WF_vars(pipe # Nil /\ ListenFails(d))
    /\ \A c \in Clients :
          /\ WF_vars(Save(c) \/ SaveFails(c)) /\ WF_vars(StartAngl(c))
          /\ WF_vars(LostOrLate(c))

-----------------------------------------------------------------------------
(* Properties.                                                             *)

\* The daemon on the pipe is the one that serves; requests live in daemons
\* that have served; before it boots a daemon has started nothing.
Structure ==
    /\ \A d \in Daemons :
          /\ phase[d] = "serve" <=> pipe = d
          /\ phase[d] \in {"none", "check", "new", "boot", "killed"} => supervised[d] = {}
          /\ phase[d] \notin {"stopping", "stopped", "gone"} => late[d] = {}
          /\ phase[d] = "stopped" => unstopped[d] = {}
          /\ d \in stale => phase[d] \in Loaded
    /\ \A c \in Clients :
          /\ request[c].at = "none" => request[c] = NoRequest
          /\ request[c].at # "none" => /\ request[c].daemon \in Daemons /\ request[c].angl \in Angls
                                       /\ phase[request[c].daemon] \in Answering
          /\ command[c].at \in {"probe", "retry"} =>
                command[c].angl \in Angls /\ request[c] = NoRequest

\* A daemon that ended without being killed has left nothing running, whether
\* it served or lost the pipe to another, except what requests that were still
\* in flight started behind its back.
NoCopyLeft ==
    \A d \in Daemons :
       /\ phase[d] = "stopping" => supervised[d] \subseteq unstopped[d] \cup late[d]
       /\ phase[d] \in {"stopped", "gone"} => supervised[d] \subseteq late[d]

\* What config.json says is enabled is known to every daemon that has loaded
\* it, unless another one has replaced the file since.
FileIsKnown ==
    \A d \in Daemons : phase[d] \in Loaded /\ d \notin stale => file \subseteq config[d]

\* What a serving daemon has enabled it has started, or is about to start for
\* a request, or failed to save.
About(d) == {request[c].angl : c \in {b \in Clients : request[b].at = "saved" /\ request[b].daemon = d}}

ConfigRuns ==
    \A d \in Daemons : phase[d] \in {"listen", "serve"} =>
       config[d] \subseteq supervised[d] \cup unsaved[d] \cup About(d)

IInv == TypeOK /\ Structure /\ NoCopyLeft /\ FileIsKnown /\ ConfigRuns

\* What config.json says is enabled runs under the daemon that serves, also
\* after a daemon died between saving and starting it.  A request may be about
\* to start it; and what an earlier request failed to save was saved, but not
\* started, with the next change.
EnabledRuns ==
    \A d \in Daemons : phase[d] = "serve" /\ d \notin stale =>
       file \subseteq supervised[d] \cup unsaved[d] \cup About(d)

\* "Every angl definition is durable JSON in one config file": what is enabled
\* stays so, whoever crashes, except when a daemon saves that had loaded the
\* file before another daemon replaced it.
Durable ==
    [][\A a \in file \ file' : \E d \in stale : a \notin config[d] /\ file' = config'[d]]_vars

\* Two daemons that both booted do not both keep their angls: one has the pipe
\* and the other stops what it started.
TwoCopies ==
    \E d, e \in Daemons : d # e /\ (supervised[d] \ late[d]) \cap (supervised[e] \ late[e]) # {}
OneCopyAgain == TwoCopies ~> ~TwoCopies

\* Every command comes back, whatever becomes of the daemons.
CommandsReturn == \A c \in Clients : command[c].at # "idle" ~> command[c].at = "idle"
=============================================================================
