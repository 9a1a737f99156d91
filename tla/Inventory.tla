------------------------------ MODULE Inventory ------------------------------
(***************************************************************************)
(* daemon/listen.go, handleListen of daemon/server.go and the receiving    *)
(* half of listen.go: the versioned inventory that "angl listen" shows.    *)
(*                                                                         *)
(* Refreshers (the ticker of watchInventory, and each connection that      *)
(* subscribes) read the registry and the catalog without the stream's      *)
(* lock, then publish under it into one-place channels.  A server          *)
(* goroutine per listener moves updates from its channel to the pipe; the  *)
(* client at the other end applies them.                                   *)
(*                                                                         *)
(* Abstracted: an item is a status and a label; which of a patch and a     *)
(* snapshot is shorter is left open.                                       *)
(***************************************************************************)
EXTENDS Integers, Sequences

CONSTANTS
    Names,     \* angl names
    Statuses,  \* what Process.Status returns, without the elapsed times
    Labels,    \* the metadata of an angl
    NoLabels,  \* the metadata of an angl without labels
    Nil,       \* no angl of this name, nobody
    Listeners, \* listener connections, each used once
    Watcher,   \* the goroutine of watchInventory
    WireCap,   \* bound: messages the pipe buffers
    MaxEvents  \* bound: changes of the registry and the catalog, catalog errors, connections

ASSUME InventoryAssumption ==
    /\ NoLabels \in Labels
    /\ Nil \notin Listeners \cup {Watcher} \cup Statuses
    /\ Watcher \notin Listeners
    /\ WireCap \in Nat \ {0}
    /\ MaxEvents \in Nat

VARIABLES
    status,   \* the registry: the status of each angl, Nil if there is none
    label,    \* the catalog
    events,   \* how many of what MaxEvents bounds has happened
    lock,     \* who holds s.mu beyond one step
    version,  \* s.version
    items,    \* s.items
    open,     \* s.listeners
    channel,  \* the channel of each listener
    ref,      \* the refresh each refresher is in
    srv,      \* where handleListen is
    out,      \* the message it writes next
    wire,     \* the pipe, server to client
    cli,      \* the client: where it is,
    seen,     \* ... m.version
    view      \* ... m.items

world   == <<status, label, events>>
stream  == <<lock, version, items, open, channel>>
servers == <<srv, out>>
clients == <<cli, seen, view>>
vars == <<world, stream, ref, servers, wire, clients>>

Refreshers == Listeners \cup {Watcher}
Item == [status : Statuses, label : Labels]
Inventories == [Names -> Item \cup {Nil}]
Empty == [n \in Names |-> Nil]

Snapshot(v, s) == [type |-> "snapshot", version |-> v, items |-> s]

\* Mutant of diffInventory: angls that are gone are not named.
diffInventory_NoRemovals(v, old, new) ==
    [type |-> "patch", base |-> v, version |-> v + 1, removed |-> {},
     upsert |-> [n \in Names |-> IF new[n] # old[n] THEN new[n] ELSE Nil]]

diffInventory(v, old, new) ==
    [type |-> "patch", base |-> v, version |-> v + 1,
     upsert |-> [n \in Names |-> IF new[n] # old[n] THEN new[n] ELSE Nil],
     removed |-> {n \in Names : old[n] # Nil /\ new[n] = Nil}]

\* applyUpdate: the items after a patch.
Patched(old, u) ==
    [n \in Names |-> IF u.upsert[n] # Nil THEN u.upsert[n]
                     ELSE IF n \in u.removed THEN Nil ELSE old[n]]

\* compactInventoryUpdate: the shorter of the two, a matter of the text.
Updates(v, old, new) == {diffInventory(v, old, new), Snapshot(v + 1, new)}

Resting == [at |-> "idle", left |-> {}, got |-> Empty,
            todo |-> {}, target |-> Nil, update |-> Nil]

Messages ==
    [type : {"snapshot"}, version : Nat, items : Inventories]
        \cup [type : {"patch"}, base : Nat, version : Nat, upsert : Inventories,
              removed : SUBSET Names]

Read == [Names -> Statuses \cup {Nil}]
Refreshes ==
    [at : {"idle", "list", "catalog", "publish", "offer", "drain", "replace"},
     left : SUBSET Names, got : Read \cup Inventories,
     todo : SUBSET Listeners, target : Listeners \cup {Nil}, update : Messages \cup {Nil}]

TypeOK ==
    /\ status \in Read /\ label \in [Names -> Labels]
    /\ events \in 0 .. MaxEvents
    /\ lock \in Refreshers \cup {Nil}
    /\ version \in Nat \ {0} /\ items \in Inventories
    /\ open \subseteq Listeners
    /\ channel \in [Listeners -> Seq(Messages)] /\ wire \in [Listeners -> Seq(Messages)]
    /\ \A l \in Listeners : Len(channel[l]) <= 1 /\ Len(wire[l]) <= WireCap
    /\ ref \in [Refreshers -> Refreshes]
    /\ \A r \in Refreshers :
          /\ ref[r].at \in {"list", "catalog"} => ref[r].got \in Read
          /\ ref[r].at = "publish" => ref[r].got \in Inventories
    /\ srv \in [Listeners -> {"none", "refresh", "register", "write", "loop",
                              "leave", "gone"}]
    /\ out \in [Listeners -> Messages \cup {Nil}]
    /\ cli \in [Listeners -> {"off", "connecting", "live", "gap", "quit"}]
    /\ seen \in [Listeners -> Nat] /\ view \in [Listeners -> Inventories]

Combined(s, l) ==
    [n \in Names |-> IF s[n] = Nil THEN Nil ELSE [status |-> s[n], label |-> l[n]]]
World == Combined(status, label)

\* After initInventoryStream, before the first connection.
Init ==
    /\ status \in [Names -> Statuses \cup {Nil}]
    /\ label = [n \in Names |-> NoLabels]
    /\ events = 0
    /\ lock = Nil
    /\ version = 1
    /\ items = World
    /\ open = {}
    /\ channel = [l \in Listeners |-> <<>>]
    /\ ref = [r \in Refreshers |-> Resting]
    /\ srv = [l \in Listeners |-> "none"]
    /\ out = [l \in Listeners |-> Nil]
    /\ wire = [l \in Listeners |-> <<>>]
    /\ cli = [l \in Listeners |-> "off"]
    /\ seen = [l \in Listeners |-> 0]
    /\ view = [l \in Listeners |-> Empty]

-----------------------------------------------------------------------------
(* The environment of the stream: registry and catalog, changed by         *)
(* requests, children and commands between any two steps of a refresh.     *)
(* Angls come and go under d.mu.Lock, which List keeps away.               *)

StatusChanges(n) ==
    /\ events < MaxEvents
    /\ \E s \in (Statuses \cup {Nil}) \ {status[n]} :
          /\ status[n] = Nil \/ s = Nil => \A r \in Refreshers : ref[r].at # "list"
          /\ status' = [status EXCEPT ![n] = s]
    /\ events' = events + 1
    /\ UNCHANGED <<label, stream, ref, servers, wire, clients>>

LabelChanges(n) ==
    /\ events < MaxEvents
    /\ \E x \in Labels \ {label[n]} : label' = [label EXCEPT ![n] = x]
    /\ events' = events + 1
    /\ UNCHANGED <<status, stream, ref, servers, wire, clients>>

-----------------------------------------------------------------------------
(* refreshInventory, by refresher r.                                       *)

Step(r, f) == ref' = [ref EXCEPT ![r] = f]

BeginRefresh(r) ==
    Step(r, [Resting EXCEPT !.at = "list", !.left = Names])

\* watchInventory: a tick with listeners.
Tick ==
    /\ ref[Watcher].at = "idle"
    /\ lock = Nil
    /\ open # {}
    /\ BeginRefresh(Watcher)
    /\ UNCHANGED <<world, stream, servers, wire, clients>>

\* List: one Status after another, each under its own lock.
ReadStatus(r) ==
    /\ ref[r].at = "list"
    /\ \E n \in ref[r].left :
          /\ \A k \in ref[r].left : n <= k
          /\ Step(r, [ref[r] EXCEPT !.got[n] = status[n], !.left = @ \ {n},
                                    !.at = IF ref[r].left = {n} THEN "catalog" ELSE "list"])
    /\ UNCHANGED <<world, stream, servers, wire, clients>>

\* catalog.Load; an error counts as an empty catalog.
ReadCatalog(r) ==
    /\ ref[r].at = "catalog"
    /\ \E l \in {label, [n \in Names |-> NoLabels]} :
          /\ l # label => events < MaxEvents
          /\ events' = IF l # label THEN events + 1 ELSE events
          /\ Step(r, [ref[r] EXCEPT !.at = "publish", !.got = Combined(@, l)])
    /\ UNCHANGED <<status, label, stream, servers, wire, clients>>

\* What comes after the refresh: a listener's is followed by its registration.
Finished(r) == IF r \in Listeners THEN srv' = [srv EXCEPT ![r] = "register"]
                                  ELSE srv' = srv

Unchanged(r) ==
    /\ ref[r].at = "publish"
    /\ lock = Nil
    /\ ref[r].got = items
    /\ Step(r, Resting)
    /\ Finished(r)
    /\ UNCHANGED <<world, lock, version, items, open, channel, out, wire, clients>>

Publish(r) ==
    /\ ref[r].at = "publish"
    /\ lock = Nil
    /\ ref[r].got # items
    /\ version' = version + 1
    /\ items' = ref[r].got
    /\ IF open = {}
       THEN Step(r, Resting) /\ Finished(r) /\ UNCHANGED lock
       ELSE /\ lock' = r
            /\ \E u \in Updates(version, items, ref[r].got) :
                  Step(r, [Resting EXCEPT !.at = "offer", !.todo = open, !.update = u])
            /\ UNCHANGED srv
    /\ UNCHANGED <<world, open, channel, out, wire, clients>>

\* Listener l has its update: go on with the next, or unlock.
Served(r, l) ==
    IF ref[r].todo = {l}
    THEN /\ lock' = Nil
         /\ Step(r, Resting)
         /\ Finished(r)
    ELSE /\ Step(r, [ref[r] EXCEPT !.at = "offer", !.todo = @ \ {l}, !.target = Nil])
         /\ UNCHANGED <<lock, srv>>

Send(r, l, u) ==
    /\ channel[l] = <<>>
    /\ channel' = [channel EXCEPT ![l] = <<u>>]
    /\ Served(r, l)
    /\ UNCHANGED <<world, version, items, open, out, wire, clients>>

\* Mutant of Offer: the channel has room for two.
Offer_Deep(r, l) ==
    /\ ref[r].at = "offer" /\ l \in ref[r].todo
    /\ channel' = [channel EXCEPT ![l] = Append(@, ref[r].update)]
    /\ Served(r, l)
    /\ UNCHANGED <<world, version, items, open, out, wire, clients>>

Offer(r, l) ==
    /\ ref[r].at = "offer" /\ l \in ref[r].todo
    /\ Send(r, l, ref[r].update)

\* Mutant of Full: a slow listener is passed over.
Full_Skipped(r, l) ==
    /\ ref[r].at = "offer" /\ l \in ref[r].todo
    /\ channel[l] # <<>>
    /\ Served(r, l)
    /\ UNCHANGED <<world, version, items, open, channel, out, wire, clients>>

\* The channel is full: the default branch, taken by a separate select.
Full(r, l) ==
    /\ ref[r].at = "offer" /\ l \in ref[r].todo
    /\ channel[l] # <<>>
    /\ Step(r, [ref[r] EXCEPT !.at = "drain", !.target = l])
    /\ UNCHANGED <<world, stream, servers, wire, clients>>

\* Mutant of Drain: the queued update is left where it is.
Drain_Kept(r) ==
    /\ ref[r].at = "drain"
    /\ Step(r, [ref[r] EXCEPT !.at = "replace"])
    /\ UNCHANGED <<world, stream, servers, wire, clients>>

\* Nothing to drain if the server goroutine has just taken it.
Drain(r) ==
    /\ ref[r].at = "drain"
    /\ channel' = [channel EXCEPT ![ref[r].target] = <<>>]
    /\ Step(r, [ref[r] EXCEPT !.at = "replace"])
    /\ UNCHANGED <<world, lock, version, items, open, servers, wire, clients>>

Replace(r) ==
    /\ ref[r].at = "replace"
    /\ Send(r, ref[r].target, Snapshot(version, items))

-----------------------------------------------------------------------------
(* handleListen, of listener l.                                            *)

Serve(l, s) == srv' = [srv EXCEPT ![l] = s]

\* The connection is accepted; SubscribeInventory refreshes first.
Accept(l) ==
    /\ cli[l] = "off"
    /\ events < MaxEvents
    /\ events' = events + 1
    /\ cli' = [cli EXCEPT ![l] = "connecting"]
    /\ Serve(l, "refresh")
    /\ BeginRefresh(l)
    /\ UNCHANGED <<status, label, stream, out, wire, seen, view>>

\* Mutant of Register: the listener is added after its snapshot was taken.
Register_Late(l) ==
    /\ srv[l] = "register"
    /\ lock = Nil
    /\ IF out[l] = Nil
       THEN /\ out' = [out EXCEPT ![l] = Snapshot(version, items)]
            /\ UNCHANGED <<open, srv>>
       ELSE /\ open' = open \cup {l}
            /\ Serve(l, "write")
            /\ UNCHANGED out
    /\ UNCHANGED <<world, lock, version, items, channel, ref, wire, clients>>

Register(l) ==
    /\ srv[l] = "register"
    /\ lock = Nil
    /\ open' = open \cup {l}
    /\ out' = [out EXCEPT ![l] = Snapshot(version, items)]
    /\ Serve(l, "write")
    /\ UNCHANGED <<world, lock, version, items, channel, ref, wire, clients>>

TakeUpdate(l) ==
    /\ srv[l] = "loop"
    /\ channel[l] # <<>>
    /\ out' = [out EXCEPT ![l] = Head(channel[l])]
    /\ channel' = [channel EXCEPT ![l] = <<>>]
    /\ Serve(l, "write")
    /\ UNCHANGED <<world, lock, version, items, open, ref, wire, clients>>

Closed(l) == cli[l] \in {"gap", "quit"}

\* Encode blocks while the pipe is full, and fails once the client has closed it.
Write(l) ==
    /\ srv[l] = "write"
    /\ \/ /\ ~Closed(l) /\ Len(wire[l]) < WireCap
          /\ wire' = [wire EXCEPT ![l] = Append(@, out[l])]
          /\ Serve(l, "loop")
       \/ /\ Closed(l)
          /\ Serve(l, "leave")
          /\ UNCHANGED wire
    /\ out' = [out EXCEPT ![l] = Nil]
    /\ UNCHANGED <<world, stream, ref, clients>>

Disconnected(l) ==
    /\ srv[l] = "loop" /\ Closed(l)
    /\ Serve(l, "leave")
    /\ UNCHANGED <<world, stream, ref, out, wire, clients>>

\* UnsubscribeInventory; the channel is garbage afterwards.
Leave(l) ==
    /\ srv[l] = "leave"
    /\ lock = Nil
    /\ open' = open \ {l}
    /\ channel' = [channel EXCEPT ![l] = <<>>]
    /\ Serve(l, "gone")
    /\ UNCHANGED <<world, lock, version, items, ref, out, wire, clients>>

-----------------------------------------------------------------------------
(* The client: listen.go.                                                  *)

Show(l, v, s) ==
    /\ seen' = [seen EXCEPT ![l] = v]
    /\ view' = [view EXCEPT ![l] = s]
    /\ cli' = [cli EXCEPT ![l] = "live"]

\* readListenerUpdate and applyUpdate; the registration comes as a snapshot.
Receive(l) ==
    /\ cli[l] \in {"connecting", "live"}
    /\ wire[l] # <<>>
    /\ wire' = [wire EXCEPT ![l] = Tail(@)]
    /\ LET u == Head(wire[l]) IN
       \/ u.type = "snapshot" /\ Show(l, u.version, u.items)
       \/ /\ u.type = "patch" /\ u.base = seen[l]
          /\ Show(l, u.version, Patched(view[l], u))
       \/ /\ u.type = "patch" /\ u.base # seen[l]
          /\ cli' = [cli EXCEPT ![l] = "gap"]
          /\ UNCHANGED <<seen, view>>
    /\ UNCHANGED <<world, stream, ref, servers>>

Quit(l) ==
    /\ cli[l] \in {"connecting", "live"}
    /\ cli' = [cli EXCEPT ![l] = "quit"]
    /\ wire' = [wire EXCEPT ![l] = <<>>]
    /\ UNCHANGED <<world, stream, ref, servers, seen, view>>

-----------------------------------------------------------------------------
refreshInventory(r) ==
    \/ ReadStatus(r) \/ ReadCatalog(r) \/ Unchanged(r) \/ Publish(r) \/ Drain(r)
    \/ Replace(r)
    \/ \E l \in Listeners : Offer(r, l) \/ Full(r, l)

handleListen(l) ==
    Register(l) \/ TakeUpdate(l) \/ Write(l) \/ Disconnected(l) \/ Leave(l)

Next ==
    \/ \E n \in Names : StatusChanges(n) \/ LabelChanges(n)
    \/ Tick
    \/ \E r \in Refreshers : refreshInventory(r)
    \/ \E l \in Listeners : Accept(l) \/ handleListen(l) \/ Receive(l) \/ Quit(l)

Spec == Init /\ [][Next]_vars

(***************************************************************************)
(* Fairness: the ticker ticks, goroutines that can run do, the client      *)
(* keeps reading.  A mutex that is free for good is enough: once nothing   *)
(* changes nobody holds it for more than a step.  Nobody has to connect or *)
(* to quit.                                                                *)
(***************************************************************************)
Fairness ==
    /\ WF_vars(Tick)
    /\ \A r \in Refreshers : WF_vars(refreshInventory(r))
    /\ \A l \in Listeners : WF_vars(handleListen(l)) /\ WF_vars(Receive(l))

FairSpec == Spec /\ Fairness

-----------------------------------------------------------------------------
(* Properties.                                                             *)

\* One refresher publishes at a time, under the lock, to listeners that stay
\* until they are served; the channel it replaces has been drained.
Publishing(r) == ref[r].at \in {"offer", "drain", "replace"}

Locking(r) ==
    /\ Publishing(r) <=> lock = r
    /\ Publishing(r) =>
          /\ ref[r].todo # {} /\ ref[r].todo \subseteq open
          /\ ref[r].update \in Messages
          /\ ref[r].update.version = version
          /\ ref[r].update.type = "patch" => ref[r].update.base = version - 1
    /\ ref[r].at \in {"drain", "replace"} => ref[r].target \in ref[r].todo
    /\ ref[r].at = "replace" => channel[ref[r].target] = <<>>
    /\ r \in Listeners => (ref[r].at # "idle" <=> srv[r] = "refresh")

\* A connection is registered from its first message until it leaves.
Connection(l) ==
    /\ srv[l] \in {"write", "loop", "leave"} <=> l \in open
    /\ srv[l] = "write" => out[l] \in Messages
    /\ channel[l] # <<>> => l \in open
    /\ srv[l] \in {"none", "refresh", "register"} => wire[l] = <<>>
    /\ cli[l] = "off" <=> srv[l] = "none"

\* The version the client has when it has taken what is in the pipe, what the
\* server is writing, and what is in the channel.
Sent(l) == IF wire[l] = <<>> THEN seen[l] ELSE wire[l][Len(wire[l])].version
Written(l) == IF srv[l] = "write" THEN out[l].version ELSE Sent(l)
Queued(l) == IF channel[l] = <<>> THEN Written(l) ELSE channel[l][1].version

Follows(u, v) == u.type = "patch" => u.base = v
Behind(l) == lock # Nil /\ l \in ref[lock].todo
Replacing(l) == lock # Nil /\ ref[lock].at = "replace" /\ ref[lock].target = l

\* Every message follows the one before it, and the last one leads to the
\* published version, except for what is being published.
Chain(l) ==
    /\ \A i \in 1 .. Len(wire[l]) :
          Follows(wire[l][i], IF i = 1 THEN seen[l] ELSE wire[l][i - 1].version)
    /\ srv[l] = "write" => Follows(out[l], Sent(l))
    /\ channel[l] # <<>> => Follows(channel[l][1], Written(l))
    /\ l \in open /\ ~Replacing(l) =>
          Queued(l) = IF Behind(l) THEN version - 1 ELSE version

IInv ==
    /\ TypeOK
    /\ \A r \in Refreshers : Locking(r)
    /\ \A l \in Listeners : Connection(l) /\ (~Closed(l) => Chain(l))

\* A listener that is slow, or subscribes while others publish, never gets a
\* patch for a version it does not have: "recover without violating the
\* base-version contract" (daemon/listen.go 147-149).
NoUpdateGap == \A l \in Listeners : cli[l] # "gap"

\* A client that has caught up with the version shows the published items,
\* whatever mixture of patches and snapshots brought it there.
ViewIsPublished ==
    \A l \in Listeners : cli[l] = "live" /\ seen[l] = version => view[l] = items

\* The replacing send, which has no default branch, never finds the channel
\* full: refreshInventory cannot block while it holds the stream's lock.
SendNeverBlocks ==
    \A r \in Refreshers : ref[r].at = "replace" => channel[ref[r].target] = <<>>

\* Once the angls and the catalog rest, a listener that stays shows them.
ViewBecomesCurrent ==
    \A l \in Listeners : <>[](cli[l] = "live") => <>[](view[l] = World)
=============================================================================
