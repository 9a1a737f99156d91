------------------------------ MODULE MCDaemon ------------------------------
(* Small instances of Daemon for TLC. *)
EXTENDS Daemon, TLC

CONSTANTS p1, p2, n1, c1, c2, run

MCProcs == {p1, p2}
MCNames == {n1}
MCClients == {c1, c2}
MCCommands == {run}
NoHeartbeat == {}
Unlimited == [p \in MCProcs |-> 0]
Limit2 == [p \in MCProcs |-> 2]
AllOps == {"exec", "stop", "enable", "disable", "register", "delete", "reload"}
OpsAlone == {"enable", "disable", "reload"}
UndoneOps == {"register", "delete"}
Blocking == {"stop", "enable", "delete", "reload"}
NoOps == {}
DisableExec == {"disable", "exec"}
EnableDelete == {"enable", "delete"}
Symmetry == Permutations(MCProcs) \cup Permutations(MCClients)
=============================================================================
