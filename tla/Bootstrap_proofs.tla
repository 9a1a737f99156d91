-------------------------- MODULE Bootstrap_proofs --------------------------
(***************************************************************************)
(* Proofs about Bootstrap, for any numbers of daemons, commands and angls. *)
(* The argument: a daemon's registry grows with its requests and contains  *)
(* the file it loaded until another daemon replaces the file; what is in   *)
(* the registry is started at boot or by the request that put it there;    *)
(* and a shutdown stops all of it, requests in flight apart.               *)
(***************************************************************************)
EXTENDS Bootstrap, TLAPS

\* The variables the invariant ConfigRuns speaks of, for one daemon.
LEMMA AboutSame ==
    ASSUME NEW d, \A c \in Clients : request'[c] = request[c]
    PROVE  About(d)' = About(d)
  BY DEF About

LEMMA InitInv == Init => IInv
  <1> SUFFICES ASSUME Init PROVE IInv
    OBVIOUS
  <1>1. TypeOK
    BY DEF Init, TypeOK, Phases, NoCommand, NoRequest, InCommand, InRequest
  <1>2. Structure
    BY BootstrapAssumption DEF Init, Structure, NoCommand, NoRequest
  <1>3. NoCopyLeft /\ FileIsKnown /\ ConfigRuns
    BY DEF Init, NoCopyLeft, FileIsKnown, ConfigRuns, Loaded
  <1>4. QED
    BY <1>1, <1>2, <1>3 DEF IInv

-----------------------------------------------------------------------------
(* The life of a daemon.                                                   *)

\* Steps that only move a daemon on, with nothing of its own at stake.
LEMMA EnterStep ==
    ASSUME IInv, NEW d \in Daemons, NEW p \in Phases, Enter(d, p),
           UNCHANGED <<pipe, file, config, supervised, unstopped, late, request, stale, unsaved>>,
           command' \in [Clients -> InCommand],
           \A c \in Clients : command'[c].at \in {"probe", "retry"} =>
              command'[c].angl \in Angls /\ request[c] = NoRequest,
           \/ phase[d] \in {"none", "check"} /\ p \in {"check", "new", "gone"}
           \/ phase[d] = "new" /\ p = "gone"
           \/ phase[d] = "listen" /\ p = "closing"
           \/ phase[d] = "stopping" /\ p = "stopped" /\ unstopped[d] = {}
    PROVE  IInv'
  <1>1. phase' = [phase EXCEPT ![d] = p] /\ phase'[d] = p /\ \A e \in Daemons \ {d} : phase'[e] = phase[e]
    BY DEF Enter, IInv, TypeOK
  <1>2. TypeOK'
    BY <1>1 DEF IInv, TypeOK
  <1>3. Structure'
    <2>1. \A c \in Clients : request[c].at # "none" => phase'[request[c].daemon] \in Answering
      BY <1>1 DEF IInv, Structure, Answering
    <2>2. QED
      BY <1>1, <2>1 DEF IInv, Structure, Loaded
  <1>4. NoCopyLeft'
    BY <1>1 DEF IInv, NoCopyLeft, Structure
  <1>5. FileIsKnown'
    BY <1>1 DEF IInv, FileIsKnown, Loaded
  <1>6. ConfigRuns'
    BY <1>1, AboutSame DEF IInv, ConfigRuns
  <1>7. QED
    BY <1>2, <1>3, <1>4, <1>5, <1>6 DEF IInv

LEMMA BootStep ==
    ASSUME IInv, NEW d \in Daemons, Check(d) \/ New(d) \/ NewFails(d) \/ Boot(d) \/ Listen(d) \/ ListenFails(d)
    PROVE  IInv'
  <1>0. phase \in [Daemons -> Phases] /\ config \in [Daemons -> SUBSET Angls]
        /\ supervised \in [Daemons -> SUBSET Angls] /\ About(d)' = About(d)
        /\ \A e \in Daemons : About(e)' = About(e)
    BY AboutSame DEF IInv, TypeOK, Check, New, NewFails, Boot, Listen, ListenFails
  <1>1. CASE Check(d) \/ NewFails(d) \/ ListenFails(d)
    BY <1>1, EnterStep DEF Check, NewFails, ListenFails, Phases, IInv, TypeOK, Structure, Enter
  <1>2. CASE New(d)
    <2>1. TypeOK'
      BY <1>2 DEF New, Enter, IInv, TypeOK, Phases
    <2>2. Structure'
      BY <1>2 DEF New, Enter, IInv, TypeOK, Structure, Loaded, Answering
    <2>3. NoCopyLeft' /\ FileIsKnown' /\ ConfigRuns'
      BY <1>0, <1>2 DEF New, Enter, IInv, NoCopyLeft, FileIsKnown, ConfigRuns, Loaded
    <2>4. QED
      BY <2>1, <2>2, <2>3 DEF IInv
  <1>3. CASE Boot(d)
    <2>1. TypeOK'
      BY <1>3 DEF Boot, Enter, IInv, TypeOK, Phases
    <2>2. Structure'
      BY <1>3 DEF Boot, Enter, IInv, TypeOK, Structure, Loaded, Answering
    <2>3. NoCopyLeft' /\ FileIsKnown' /\ ConfigRuns'
      BY <1>0, <1>3 DEF Boot, Enter, IInv, NoCopyLeft, FileIsKnown, ConfigRuns, Loaded
    <2>4. QED
      BY <2>1, <2>2, <2>3 DEF IInv
  <1>4. CASE Listen(d)
    <2>1. TypeOK'
      BY <1>4 DEF Listen, Enter, IInv, TypeOK, Phases
    <2>2. Structure'
      BY <1>4, BootstrapAssumption DEF Listen, Enter, IInv, TypeOK, Structure, Loaded, Answering
    <2>3. NoCopyLeft' /\ FileIsKnown' /\ ConfigRuns'
      BY <1>0, <1>4 DEF Listen, Enter, IInv, NoCopyLeft, FileIsKnown, ConfigRuns, Loaded
    <2>4. QED
      BY <2>1, <2>2, <2>3 DEF IInv
  <1>5. QED
    BY <1>1, <1>2, <1>3, <1>4

LEMMA ShutdownStep ==
    ASSUME IInv, NEW d \in Daemons,
           Cancel(d) \/ StopAll(d) \/ Stopped(d)
           \/ \E a \in Angls : StopOne(d, a) \/ StopLate(d, a)
    PROVE  IInv'
  <1>0. \A e \in Daemons : About(e)' = About(e)
    BY AboutSame DEF Cancel, StopAll, Stopped, StopOne, StopLate
  <1>1. CASE Cancel(d)
    <2>1. TypeOK'
      BY <1>1 DEF Cancel, Enter, IInv, TypeOK, Phases
    <2>2. Structure'
      BY <1>1, BootstrapAssumption DEF Cancel, Enter, IInv, TypeOK, Structure, Loaded, Answering
    <2>3. NoCopyLeft' /\ FileIsKnown' /\ ConfigRuns'
      BY <1>0, <1>1 DEF Cancel, Enter, IInv, TypeOK, NoCopyLeft, FileIsKnown, ConfigRuns, Loaded
    <2>4. QED
      BY <2>1, <2>2, <2>3 DEF IInv
  <1>2. CASE StopAll(d)
    <2>1. TypeOK'
      BY <1>2 DEF StopAll, Enter, IInv, TypeOK, Phases
    <2>2. Structure'
      BY <1>2 DEF StopAll, Enter, IInv, TypeOK, Structure, Loaded, Answering
    <2>3. NoCopyLeft' /\ FileIsKnown' /\ ConfigRuns'
      BY <1>0, <1>2 DEF StopAll, Enter, IInv, TypeOK, NoCopyLeft, FileIsKnown, ConfigRuns, Loaded
    <2>4. QED
      BY <2>1, <2>2, <2>3 DEF IInv
  <1>3. CASE Stopped(d)
    BY <1>3, EnterStep DEF Stopped, Phases, IInv, TypeOK, Structure, Enter
  <1>4. ASSUME NEW a \in Angls, StopOne(d, a) PROVE IInv'
    <2>1. TypeOK'
      BY <1>4 DEF StopOne, IInv, TypeOK
    <2>2. Structure'
      BY <1>4 DEF StopOne, IInv, TypeOK, Structure
    <2>3. NoCopyLeft' /\ FileIsKnown' /\ ConfigRuns'
      BY <1>0, <1>4 DEF StopOne, IInv, TypeOK, NoCopyLeft, FileIsKnown, ConfigRuns
    <2>4. QED
      BY <2>1, <2>2, <2>3 DEF IInv
  <1>5. ASSUME NEW a \in Angls, StopLate(d, a) PROVE IInv'
    <2>1. TypeOK'
      BY <1>5 DEF StopLate, IInv, TypeOK
    <2>2. Structure'
      BY <1>5 DEF StopLate, IInv, TypeOK, Structure
    <2>3. NoCopyLeft' /\ FileIsKnown' /\ ConfigRuns'
      BY <1>0, <1>5 DEF StopLate, IInv, TypeOK, NoCopyLeft, FileIsKnown, ConfigRuns
    <2>4. QED
      BY <2>1, <2>2, <2>3 DEF IInv
  <1>6. QED
    BY <1>1, <1>2, <1>3, <1>4, <1>5

\* A daemon's end takes its requests along, and nobody else's.
LEMMA EndStep ==
    ASSUME IInv, NEW d \in Daemons, Exit(d) \/ Crash(d)
    PROVE  IInv'
  <1> DEFINE p == IF Exit(d) THEN "gone" ELSE "killed"
  <1>1. /\ End(d, p) /\ phase[d] # "none" /\ p \in {"gone", "killed"}
        /\ p = "gone" => phase[d] = "stopped" /\ UNCHANGED <<supervised, late>>
        /\ p = "killed" => /\ supervised' = [supervised EXCEPT ![d] = {}]
                          /\ late' = [late EXCEPT ![d] = {}]
    BY DEF Exit, Crash, Alive
  <1> HIDE DEF p
  <1>2. TypeOK'
    BY <1>1 DEF End, Enter, IInv, TypeOK, Phases, NoRequest, InRequest
  <1>3. \A c \in Clients :
           request'[c] = IF request[c].daemon = d THEN NoRequest ELSE request[c]
    BY <1>1 DEF End
  <1>4. phase'[d] = p /\ \A e \in Daemons \ {d} : phase'[e] = phase[e]
    BY <1>1 DEF End, Enter, IInv, TypeOK
  <1>5. Structure'
    <2>1. ASSUME NEW e \in Daemons
          PROVE  /\ phase'[e] = "serve" <=> pipe' = e
                 /\ phase'[e] \in {"none", "check", "new", "boot", "killed"} => supervised'[e] = {}
                 /\ phase'[e] \notin {"stopping", "stopped", "gone"} => late'[e] = {}
                 /\ phase'[e] = "stopped" => unstopped'[e] = {}
                 /\ e \in stale' => phase'[e] \in Loaded
      BY <1>1, <1>4, BootstrapAssumption DEF End, IInv, TypeOK, Structure
    <2>2. ASSUME NEW c \in Clients
          PROVE  /\ request'[c].at = "none" => request'[c] = NoRequest
                 /\ request'[c].at # "none" =>
                       /\ request'[c].daemon \in Daemons /\ request'[c].angl \in Angls
                       /\ phase'[request'[c].daemon] \in Answering
                 /\ command'[c].at \in {"probe", "retry"} =>
                       command'[c].angl \in Angls /\ request'[c] = NoRequest
      BY <1>1, <1>3, <1>4 DEF End, IInv, Structure, NoRequest
    <2>3. QED
      BY <2>1, <2>2 DEF Structure
  <1>6. NoCopyLeft' /\ FileIsKnown'
    BY <1>1, <1>4 DEF End, IInv, TypeOK, NoCopyLeft, FileIsKnown, Loaded, Structure
  <1>7. ASSUME NEW e \in Daemons, phase'[e] \in {"listen", "serve"}
        PROVE  config'[e] \subseteq supervised'[e] \cup unsaved'[e] \cup About(e)'
    <2>1. e # d /\ phase'[e] = phase[e]
      BY <1>1, <1>4, <1>7
    <2>2. config'[e] = config[e] /\ supervised'[e] = supervised[e] /\ unsaved'[e] = unsaved[e]
      BY <1>1, <2>1 DEF End, IInv, TypeOK
    <2>3. About(e) \subseteq About(e)'
      BY <1>3, <2>1 DEF About
    <2>4. QED
      BY <1>7, <2>1, <2>2, <2>3 DEF IInv, ConfigRuns
  <1>8. QED
    BY <1>2, <1>5, <1>6, <1>7 DEF IInv, ConfigRuns

-----------------------------------------------------------------------------
(* Requests and commands.                                                  *)

\* The request of a client is over, and its command if it still waits.
LEMMA AnswerType ==
    ASSUME IInv, NEW c \in Clients, Answer(c)
    PROVE  /\ request' \in [Clients -> InRequest] /\ command' \in [Clients -> InCommand]
           /\ request'[c] = NoRequest /\ \A b \in Clients \ {c} : request'[b] = request[b]
           /\ \A b \in Clients : command'[b] = command[b] \/ command'[b] = NoCommand
  BY DEF Answer, IInv, TypeOK, NoRequest, NoCommand, InRequest, InCommand

LEMMA SaveStep ==
    ASSUME IInv, NEW c \in Clients, Save(c)
    PROVE  IInv'
  <1>1. PICK d \in Daemons, a \in Angls :
        /\ request[c].at = "sent" /\ request[c].daemon = d /\ request[c].angl = a
        /\ phase[d] \in Answering \ {"stopping"}
        /\ config' = [config EXCEPT ![d] = @ \cup {a}]
        /\ file' = config'[d]
        /\ stale' = stale \cup {e \in Daemons \ {d} : phase[e] \in Loaded}
        /\ request' = [request EXCEPT ![c].at = "saved"]
        /\ UNCHANGED <<pipe, phase, supervised, unstopped, late, command, unsaved>>
    BY DEF Save, IInv, Structure
  <1>2. /\ config'[d] = config[d] \cup {a} /\ config[d] \subseteq Angls
        /\ \A e \in Daemons \ {d} : config'[e] = config[e]
    BY <1>1 DEF IInv, TypeOK
  <1>3. /\ request'[c].at = "saved" /\ request'[c].daemon = d /\ request'[c].angl = a
        /\ \A b \in Clients \ {c} : request'[b] = request[b]
    BY <1>1 DEF IInv, TypeOK, InRequest
  <1>4. TypeOK'
    <2>1. config' \in [Daemons -> SUBSET Angls] /\ file' \subseteq Angls /\ stale' \subseteq Daemons
      BY <1>1, <1>2 DEF IInv, TypeOK
    <2>2. request' \in [Clients -> InRequest]
      BY <1>1 DEF IInv, TypeOK, InRequest
    <2>3. QED
      BY <1>1, <2>1, <2>2 DEF IInv, TypeOK
  <1>5. Structure'
    BY <1>1, <1>3 DEF IInv, Structure, NoRequest, Answering
  <1>6. NoCopyLeft'
    BY <1>1 DEF IInv, NoCopyLeft
  <1>7. FileIsKnown'
    BY <1>1 DEF FileIsKnown
  <1>8. ConfigRuns'
    <2> SUFFICES ASSUME NEW e \in Daemons, phase[e] \in {"listen", "serve"}
                 PROVE  config'[e] \subseteq supervised[e] \cup unsaved[e] \cup About(e)'
      BY <1>1 DEF ConfigRuns
    <2>1. About(e) \subseteq About(e)'
      BY <1>1, <1>3 DEF About
    <2>2. a \in About(d)'
      BY <1>3 DEF About
    <2>3. config[e] \subseteq supervised[e] \cup unsaved[e] \cup About(e)
      BY DEF IInv, ConfigRuns
    <2>4. QED
      BY <1>2, <2>1, <2>2, <2>3
  <1>9. QED
    BY <1>4, <1>5, <1>6, <1>7, <1>8 DEF IInv

LEMMA SaveFailsStep ==
    ASSUME IInv, NEW c \in Clients, SaveFails(c)
    PROVE  IInv'
  <1> DEFINE d == request[c].daemon
             a == request[c].angl
  <1>1. /\ request[c].at = "sent" /\ Answer(c)
        /\ config' = [config EXCEPT ![d] = @ \cup {a}]
        /\ unsaved' = [unsaved EXCEPT ![d] = @ \cup {a}]
        /\ UNCHANGED <<pipe, file, phase, supervised, unstopped, late, stale>>
    BY DEF SaveFails
  <1>2. d \in Daemons /\ a \in Angls
    BY <1>1 DEF IInv, Structure
  <1> HIDE DEF a
  <1>3. /\ config'[d] = config[d] \cup {a} /\ unsaved'[d] = unsaved[d] \cup {a}
        /\ \A e \in Daemons \ {d} : config'[e] = config[e] /\ unsaved'[e] = unsaved[e]
    BY <1>1, <1>2 DEF IInv, TypeOK
  <1>4. TypeOK'
    BY <1>1, <1>2, AnswerType DEF IInv, TypeOK
  <1>5. Structure'
    BY <1>1, AnswerType DEF IInv, Structure, NoRequest, NoCommand
  <1>6. NoCopyLeft'
    BY <1>1 DEF IInv, NoCopyLeft
  <1>7. FileIsKnown'
    BY <1>1, <1>3 DEF IInv, FileIsKnown
  <1>8. ConfigRuns'
    <2> SUFFICES ASSUME NEW e \in Daemons, phase[e] \in {"listen", "serve"}
                 PROVE  config'[e] \subseteq supervised[e] \cup unsaved'[e] \cup About(e)'
      BY <1>1 DEF ConfigRuns
    <2>1. About(e) \subseteq About(e)'
      BY <1>1, AnswerType DEF About
    <2>2. config[e] \subseteq supervised[e] \cup unsaved[e] \cup About(e)
      BY DEF IInv, ConfigRuns
    <2>3. QED
      BY <1>3, <2>1, <2>2
  <1>9. QED
    BY <1>4, <1>5, <1>6, <1>7, <1>8 DEF IInv

LEMMA StartStep ==
    ASSUME IInv, NEW c \in Clients, StartAngl(c)
    PROVE  IInv'
  <1> DEFINE d == request[c].daemon
             a == request[c].angl
  <1>1. /\ request[c].at = "saved" /\ Answer(c)
        /\ supervised' = [supervised EXCEPT ![d] = @ \cup {a}]
        /\ late' = IF phase[d] \in {"stopping", "stopped"} /\ a \notin unstopped[d]
                  THEN [late EXCEPT ![d] = @ \cup {a}] ELSE late
        /\ unsaved' = [unsaved EXCEPT ![d] = @ \ {a}]
        /\ UNCHANGED <<pipe, file, phase, config, unstopped, stale>>
    BY DEF StartAngl
  <1>2. d \in Daemons /\ a \in Angls /\ phase[d] \in Answering
    BY <1>1 DEF IInv, Structure
  <1>3. /\ supervised'[d] = supervised[d] \cup {a} /\ unsaved'[d] = unsaved[d] \ {a}
        /\ \A e \in Daemons \ {d} : /\ supervised'[e] = supervised[e] /\ unsaved'[e] = unsaved[e]
                                     /\ late'[e] = late[e]
        /\ phase[d] \in {"stopping", "stopped"} /\ a \notin unstopped[d] => late'[d] = late[d] \cup {a}
        /\ ~(phase[d] \in {"stopping", "stopped"} /\ a \notin unstopped[d]) => late'[d] = late[d]
    BY <1>1, <1>2 DEF IInv, TypeOK
  <1>4. TypeOK'
    BY <1>1, <1>2, AnswerType DEF IInv, TypeOK
  <1>5. Structure'
    BY <1>1, <1>2, <1>3, AnswerType DEF IInv, Structure, NoRequest, NoCommand, Answering
  <1>6. NoCopyLeft'
    <2>1. phase[d] = "stopped" => unstopped[d] = {}
      BY <1>2 DEF IInv, Structure
    <2>2. QED
      BY <1>1, <1>2, <1>3, <2>1 DEF IInv, NoCopyLeft, Answering
  <1>7. FileIsKnown'
    BY <1>1 DEF IInv, FileIsKnown
  <1>8. ConfigRuns'
    <2> SUFFICES ASSUME NEW e \in Daemons, phase[e] \in {"listen", "serve"}
                 PROVE  config[e] \subseteq supervised'[e] \cup unsaved'[e] \cup About(e)'
      BY <1>1 DEF ConfigRuns
    <2>1. About(e) \subseteq About(e)' \cup (IF e = d THEN {a} ELSE {})
      BY <1>1, AnswerType DEF About
    <2>2. config[e] \subseteq supervised[e] \cup unsaved[e] \cup About(e)
      BY DEF IInv, ConfigRuns
    <2>3. QED
      BY <1>3, <2>1, <2>2
  <1>9. QED
    BY <1>4, <1>5, <1>6, <1>7, <1>8 DEF IInv

LEMMA CommandStep ==
    ASSUME IInv, NEW c \in Clients,
           \/ \E a \in Angls : Ask(c, a)
           \/ Dial(c) \/ Fail(c)
           \/ \E d \in Daemons : LaunchDaemon(c, d)
    PROVE  IInv'
  <1>1. CASE \/ \E a \in Angls : Ask(c, a)
             \/ Fail(c)
    <2>1. TypeOK'
      BY <1>1 DEF Ask, Fail, daemonVars, IInv, TypeOK, InCommand, NoCommand
    <2>2. Structure'
      BY <1>1 DEF Ask, Fail, daemonVars, IInv, TypeOK, Structure, NoCommand
    <2>3. NoCopyLeft' /\ FileIsKnown' /\ ConfigRuns'
      BY <1>1, AboutSame DEF Ask, Fail, daemonVars, IInv, NoCopyLeft, FileIsKnown, ConfigRuns
    <2>4. QED
      BY <2>1, <2>2, <2>3 DEF IInv
  <1>2. CASE Dial(c)
    <2>1. /\ command[c].angl \in Angls /\ pipe \in Daemons /\ phase[pipe] = "serve"
          /\ request[c] = NoRequest
      BY <1>2, BootstrapAssumption DEF Dial, IInv, TypeOK, Structure
    <2>2. TypeOK'
      BY <1>2, <2>1 DEF Dial, daemonVars, IInv, TypeOK, InCommand, InRequest
    <2>3. Structure'
      BY <1>2, <2>1 DEF Dial, daemonVars, IInv, TypeOK, Structure, NoRequest, Answering
    <2>4. \A d : About(d) \subseteq About(d)'
      BY <1>2, <2>1 DEF Dial, About, IInv, TypeOK, NoRequest
    <2>5. NoCopyLeft' /\ FileIsKnown' /\ ConfigRuns'
      BY <1>2, <2>4 DEF Dial, daemonVars, IInv, NoCopyLeft, FileIsKnown, ConfigRuns
    <2>6. QED
      BY <2>2, <2>3, <2>5 DEF IInv
  <1>3. ASSUME NEW d \in Daemons, LaunchDaemon(c, d) PROVE IInv'
    <2>1. /\ command' \in [Clients -> InCommand]
          /\ \A b \in Clients : command'[b].at \in {"probe", "retry"} =>
                command'[b].angl \in Angls /\ request[b] = NoRequest
      BY <1>3 DEF LaunchDaemon, IInv, TypeOK, InCommand, Structure
    <2>2. QED
      BY <1>3, <2>1, EnterStep DEF LaunchDaemon, Start, Phases
  <1>4. QED
    BY <1>1, <1>2, <1>3

-----------------------------------------------------------------------------
(* Theorems.                                                               *)

LEMMA StepInv == IInv /\ [Next]_vars => IInv'
  <1> SUFFICES ASSUME IInv, [Next]_vars PROVE IInv'
    OBVIOUS
  <1>1. ASSUME NEW d \in Daemons, Launch(d) PROVE IInv'
    BY <1>1, EnterStep DEF Launch, Start, Phases, IInv, TypeOK, Structure
  <1>2. ASSUME NEW d \in Daemons,
               \/ Continue(d) \/ NewFails(d) \/ ListenFails(d) \/ Cancel(d) \/ Crash(d)
               \/ \E a \in Angls : StopLate(d, a)
        PROVE  IInv'
    BY <1>2, BootStep, ShutdownStep, EndStep DEF Continue
  <1>3. ASSUME NEW c \in Clients,
               \/ Save(c) \/ SaveFails(c) \/ StartAngl(c)
               \/ \E a \in Angls : Ask(c, a)
               \/ Dial(c) \/ Fail(c)
               \/ \E d \in Daemons : LaunchDaemon(c, d)
        PROVE  IInv'
    BY <1>3, SaveStep, SaveFailsStep, StartStep, CommandStep
  <1>4. CASE UNCHANGED vars
    <2>1. TypeOK' /\ Structure'
      BY <1>4 DEF vars, daemonVars, IInv, TypeOK, Structure
    <2>2. NoCopyLeft' /\ FileIsKnown' /\ ConfigRuns'
      BY <1>4, AboutSame DEF vars, daemonVars, IInv, NoCopyLeft, FileIsKnown, ConfigRuns
    <2>3. QED
      BY <2>1, <2>2 DEF IInv
  <1>5. QED
    BY <1>1, <1>2, <1>3, <1>4 DEF Next

\* daemon.go 56-90: a daemon that ends by itself leaves no angl of its own, and
\* knows and starts what the registry says is enabled.
THEOREM Invariance == Spec => []IInv
  BY InitInv, StepInv, PTL DEF Spec

\* daemon.go 63-71 and 208-221: what config.json says is enabled runs.
THEOREM EnabledRunsHolds == Spec => []EnabledRuns
  <1>1. IInv => EnabledRuns
    BY DEF IInv, FileIsKnown, ConfigRuns, EnabledRuns, Loaded
  <1>2. QED
    BY <1>1, Invariance, PTL

\* config.go 55-77 and daemon.go 204: a save drops an enabled angl only in a
\* daemon that had loaded the file before another daemon replaced it.
THEOREM DurableHolds == Spec => Durable
  <1> DEFINE Kept == \A a \in file \ file' : \E d \in stale : a \notin config[d] /\ file' = config'[d]
  <1>1. IInv /\ [Next]_vars => Kept
    <2> SUFFICES ASSUME IInv, [Next]_vars, NEW a \in file \ file' PROVE Kept
      OBVIOUS
    <2>1. PICK c \in Clients : Save(c)
      BY DEF Next, vars, daemonVars, Continue, Launch, Check, New, NewFails, Boot, Listen, ListenFails,
             Cancel, StopAll, StopOne, Stopped, StopLate, End, Exit, Crash, SaveFails, StartAngl,
             Ask, Dial, LaunchDaemon, Fail
    <2> DEFINE d == request[c].daemon
    <2>2. d \in Daemons /\ phase[d] \in Loaded /\ file' = config'[d]
          /\ config'[d] = config[d] \cup {request[c].angl}
      BY <2>1 DEF Save, IInv, TypeOK, Structure, Answering, Loaded
    <2>3. \A b \in file \ file' : b \notin config[d] /\ d \in stale
      BY <2>2 DEF IInv, FileIsKnown
    <2>4. QED
      BY <2>2, <2>3
  <1>2. QED
    BY <1>1, Invariance, PTL DEF Spec, Durable
=============================================================================
