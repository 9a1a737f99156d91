---------------------------- MODULE AtomicCatalog ----------------------------
(***************************************************************************)
(* What the catalog promises to the commands that update it: each update   *)
(* happens at one moment between its call and its answer, or not at all,   *)
(* on the catalog as it is at that moment; an update that was answered     *)
(* happened exactly if the answer says so; a command that is killed may    *)
(* have happened or not, and leaves the catalog usable.                    *)
(***************************************************************************)
EXTENDS CatalogStore

CONSTANT Clients

VARIABLES
    catalog,
    calls    \* the update each client waits for, and what became of it

atomicVars == <<catalog, calls>>

Idle == [update |-> Nil, result |-> "none"]
Calls == [update : Updates \cup {Nil}, result : {"none", "pending", "ok", "failed"}]

Init ==
    /\ catalog \in Stores
    /\ calls = [c \in Clients |-> Idle]

Call(c, u) ==
    /\ calls[c] = Idle
    /\ calls' = [calls EXCEPT ![c] = [update |-> u, result |-> "pending"]]
    /\ UNCHANGED catalog

Commit(c) ==
    /\ calls[c].result = "pending"
    /\ ~Refused(catalog, calls[c].update)
    /\ catalog' = Effect(catalog, calls[c].update)
    /\ calls' = [calls EXCEPT ![c].result = "ok"]

Fail(c) ==
    /\ calls[c].result = "pending"
    /\ calls' = [calls EXCEPT ![c].result = "failed"]
    /\ UNCHANGED catalog

\* The answer is given, or the command is killed.
Return(c) ==
    /\ calls' = [calls EXCEPT ![c] = Idle]
    /\ UNCHANGED catalog

Next ==
    \E c \in Clients :
        \/ \E u \in Updates : Call(c, u)
        \/ Commit(c) \/ Fail(c) \/ Return(c)

Spec == Init /\ [][Next]_atomicVars
=============================================================================
