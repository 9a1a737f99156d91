-------------------------- MODULE Inventory_proofs --------------------------
(***************************************************************************)
(* Proofs about Inventory, for any angls, statuses, labels, number of      *)
(* listeners and size of the pipe: the inductive invariant by actions, and *)
(* from it that no listener misses a version and no send blocks; then that *)
(* what is on its way tells what was published, and what is shown is it.   *)
(***************************************************************************)
EXTENDS Inventory, SequenceTheorems, TLAPS

USE InventoryAssumption DEF Refreshers

-----------------------------------------------------------------------------
(* What a step leaves alone.                                               *)

\* Listener l has the messages, and the client, it had.
Still(l) ==
    /\ wire'[l] = wire[l] /\ channel'[l] = channel[l] /\ out'[l] = out[l]
    /\ seen'[l] = seen[l]

\* The chain of a listener is kept when its messages and its place in what is
\* being published are.
LEMMA ChainKept ==
    ASSUME NEW l \in Listeners, Chain(l), Still(l), srv'[l] = "write" <=> srv[l] = "write",
           l \in open' => l \in open /\ version' = version,
           Replacing(l) => Replacing(l)', Behind(l)' <=> Behind(l)
    PROVE  Chain(l)'
<1>1. Sent(l)' = Sent(l)
  BY DEF Still, Sent
<1>2. Written(l)' = Written(l)
  BY <1>1 DEF Still, Written
<1>3. Queued(l)' = Queued(l)
  BY <1>2 DEF Still, Queued
<1>4. l \in open' /\ ~Replacing(l)' => Queued(l)' = IF Behind(l)' THEN version' - 1 ELSE version'
  BY <1>3 DEF Chain
<1>5. \A i \in 1 .. Len(wire'[l]) :
         Follows(wire'[l][i], IF i = 1 THEN seen'[l] ELSE wire'[l][i - 1].version)
  BY DEF Chain, Still
<1>6. srv'[l] = "write" => Follows(out'[l], Sent(l)')
  BY <1>1 DEF Chain, Still
<1>7. channel'[l] # <<>> => Follows(channel'[l][1], Written(l)')
  BY <1>2 DEF Chain, Still
<1> QED  BY <1>4, <1>5, <1>6, <1>7 DEF Chain, Follows

\* The holder of the lock is publishing, and the only one.
LEMMA Holder ==
    ASSUME IInv, NEW r \in Refreshers
    PROVE  /\ ~Publishing(r) => lock # r
           /\ Publishing(r) => lock = r /\ lock # Nil
           /\ lock # Nil => lock \in Refreshers
BY DEF IInv, TypeOK, Locking

\* A refresher that is not publishing changes only its own refresh.
LEMMA ReadingKeeps ==
    ASSUME IInv, NEW r \in Refreshers, NEW f \in Refreshes,
           ~Publishing(r), f.at \in {"idle", "list", "catalog", "publish"},
           Step(r, f), UNCHANGED <<stream, out, wire, seen>>,
           \A l \in Listeners : srv'[l] = srv[l] \/ (l = r /\ srv'[l] \in {"refresh", "register"} /\ srv[l] \in {"none", "refresh"}),
           r \in Listeners => (f.at # "idle" <=> srv'[r] = "refresh"),
           \A l \in Listeners : cli'[l] = cli[l] \/ (cli[l] = "off" /\ cli'[l] = "connecting" /\ srv[l] = "none" /\ srv'[l] # "none"),
           \A l \in Listeners : srv'[l] # srv[l] /\ srv[l] = "none" => cli'[l] # cli[l]
    PROVE  /\ \A q \in Refreshers : Locking(q)'
           /\ \A l \in Listeners : Connection(l)' /\ (~Closed(l)' => Chain(l)')
<1>1. /\ lock' = lock /\ version' = version /\ open' = open /\ channel' = channel
      /\ out' = out /\ wire' = wire /\ seen' = seen
  BY DEF stream
<1>2. ref'[r] = f /\ \A q \in Refreshers : q # r => ref'[q] = ref[q]
  BY DEF Step, IInv, TypeOK
<1>3. lock # r /\ (lock # Nil => ref'[lock] = ref[lock])
  BY <1>2, Holder
<1>4. ASSUME NEW q \in Refreshers PROVE Locking(q)'
  <2>1. CASE q = r
    <3>1. ~Publishing(q)' /\ ref'[q].at \notin {"drain", "replace"}
      BY <1>2, <2>1 DEF Publishing
    <3> QED  BY <1>1, <1>2, <1>3, <2>1, <3>1 DEF Locking
  <2>2. CASE q # r
    <3>1. Locking(q)
      BY DEF IInv
    <3>2. ref'[q] = ref[q] /\ (q \in Listeners => srv'[q] = srv[q])
      BY <1>2, <2>2
    <3> QED  BY <1>1, <3>1, <3>2 DEF Locking, Publishing
  <2> QED  BY <2>1, <2>2
<1>5. ASSUME NEW l \in Listeners PROVE Connection(l)'
  <2>1. Connection(l)
    BY DEF IInv
  <2> QED  BY <1>1, <2>1 DEF Connection
<1>6. ASSUME NEW l \in Listeners, ~Closed(l)' PROVE Chain(l)'
  <2>1. Chain(l)
    BY <1>6 DEF IInv, Closed
  <2>2. Still(l) /\ (srv'[l] = "write" <=> srv[l] = "write")
    BY <1>1 DEF Still
  <2>3. (Replacing(l)' <=> Replacing(l)) /\ (Behind(l)' <=> Behind(l))
    BY <1>1, <1>3 DEF Replacing, Behind
  <2> QED  BY <1>1, <2>1, <2>2, <2>3, ChainKept
<1> QED  BY <1>4, <1>5, <1>6

-----------------------------------------------------------------------------
(* The world, and the readings of it.                                      *)

LEMMA RestingType == Resting \in Refreshes /\ Resting.at = "idle"
BY DEF Resting, Refreshes, Empty, Read

LEMMA CombinedType ==
    ASSUME NEW s \in Read, NEW l \in [Names -> Labels]
    PROVE  Combined(s, l) \in Inventories
BY DEF Combined, Read, Inventories, Item

LEMMA WorldKeeps ==
    ASSUME IInv, \E n \in Names : StatusChanges(n) \/ LabelChanges(n)
    PROVE  IInv'
<1>1. UNCHANGED <<stream, ref, servers, wire, clients>>
  BY DEF StatusChanges, LabelChanges
<1>2. status' \in Read /\ label' \in [Names -> Labels] /\ events' \in 0 .. MaxEvents
  <2>1. PICK n \in Names : StatusChanges(n) \/ LabelChanges(n)
    OBVIOUS
  <2>2. status \in Read /\ label \in [Names -> Labels] /\ events \in 0 .. MaxEvents
    BY DEF IInv, TypeOK
  <2>3. CASE StatusChanges(n)
    <3>1. PICK s \in Statuses \cup {Nil} : status' = [status EXCEPT ![n] = s]
      BY <2>3 DEF StatusChanges
    <3>2. status' \in Read
      BY <2>2, <3>1 DEF Read
    <3> QED  BY <2>2, <2>3, <3>2 DEF StatusChanges
  <2>4. CASE LabelChanges(n)
    <3>1. PICK x \in Labels : label' = [label EXCEPT ![n] = x]
      BY <2>4 DEF LabelChanges
    <3>2. label' \in [Names -> Labels]
      BY <2>2, <3>1
    <3> QED  BY <2>2, <2>4, <3>2 DEF LabelChanges
  <2> QED  BY <2>1, <2>3, <2>4
<1>3. TypeOK'
  BY <1>1, <1>2 DEF IInv, TypeOK, stream, servers, clients
<1>4. \A r \in Refreshers : Locking(r)'
  BY <1>1 DEF IInv, Locking, Publishing, stream, servers
<1>5. ASSUME NEW l \in Listeners PROVE Connection(l)' /\ (~Closed(l)' => Chain(l)')
  <2>1. Connection(l) /\ (~Closed(l) => Chain(l))
    BY DEF IInv
  <2>2. Connection(l)' /\ (Closed(l)' <=> Closed(l))
    BY <1>1, <2>1 DEF Connection, Closed, stream, servers, clients
  <2>3. Chain(l) => Chain(l)'
    BY <1>1, ChainKept DEF Still, Replacing, Behind, stream, servers, clients
  <2> QED  BY <2>1, <2>2, <2>3
<1> QED  BY <1>3, <1>4, <1>5 DEF IInv

LEMMA TickKeeps == ASSUME IInv, Tick PROVE IInv'
<1> DEFINE f == [Resting EXCEPT !.at = "list", !.left = Names]
<1>1. f \in Refreshes /\ f.at = "list" /\ f.got \in Read
  BY RestingType DEF Refreshes, Resting, Empty, Read
<1> HIDE DEF f
<1>2. Step(Watcher, f) /\ ref[Watcher].at = "idle"
  BY DEF Tick, BeginRefresh, f
<1>3. UNCHANGED <<world, stream, servers, wire, clients>>
  BY DEF Tick
<1>4. TypeOK'
  <2>1. ref' \in [Refreshers -> Refreshes]
    BY <1>1, <1>2 DEF Step, IInv, TypeOK
  <2>2. \A r \in Refreshers : /\ ref'[r].at \in {"list", "catalog"} => ref'[r].got \in Read
                              /\ ref'[r].at = "publish" => ref'[r].got \in Inventories
    BY <1>1, <1>2 DEF Step, IInv, TypeOK
  <2> QED  BY <1>3, <2>1, <2>2 DEF IInv, TypeOK, world, stream, servers, clients
<1>5. ~Publishing(Watcher)
  BY <1>2 DEF Publishing
<1>6. /\ \A q \in Refreshers : Locking(q)'
      /\ \A l \in Listeners : Connection(l)' /\ (~Closed(l)' => Chain(l)')
  BY <1>1, <1>2, <1>3, <1>5, ReadingKeeps DEF servers, clients
<1> QED  BY <1>4, <1>6 DEF IInv

LEMMA AcceptKeeps == ASSUME IInv, NEW l \in Listeners, Accept(l) PROVE IInv'
<1> DEFINE f == [Resting EXCEPT !.at = "list", !.left = Names]
<1>1. f \in Refreshes /\ f.at = "list" /\ f.got \in Read
  BY RestingType DEF Refreshes, Resting, Empty, Read
<1> HIDE DEF f
<1>2. Step(l, f)
  BY DEF Accept, BeginRefresh, f
<1>3. UNCHANGED <<status, label, stream, out, wire, seen, view>> /\ events' \in 0 .. MaxEvents
  BY DEF Accept, IInv, TypeOK
<1>4. /\ cli[l] = "off" /\ cli' = [cli EXCEPT ![l] = "connecting"]
      /\ srv' = [srv EXCEPT ![l] = "refresh"]
  BY DEF Accept, Serve
<1>5. srv[l] = "none" /\ ref[l].at = "idle"
  BY <1>4 DEF IInv, Connection, Locking
<1>6. TypeOK'
  <2>1. ref' \in [Refreshers -> Refreshes]
    BY <1>1, <1>2 DEF Step, IInv, TypeOK
  <2>2. \A r \in Refreshers : /\ ref'[r].at \in {"list", "catalog"} => ref'[r].got \in Read
                              /\ ref'[r].at = "publish" => ref'[r].got \in Inventories
    BY <1>1, <1>2 DEF Step, IInv, TypeOK
  <2>3. /\ cli' \in [Listeners -> {"off", "connecting", "live", "gap", "quit"}]
        /\ srv' \in [Listeners -> {"none", "refresh", "register", "write", "loop", "leave", "gone"}]
    BY <1>4 DEF IInv, TypeOK
  <2> QED  BY <1>3, <2>1, <2>2, <2>3 DEF IInv, TypeOK, world, stream
<1>7. ~Publishing(l)
  BY <1>5 DEF Publishing
<1>8. /\ srv'[l] = "refresh" /\ cli'[l] = "connecting"
      /\ \A k \in Listeners : k # l => srv'[k] = srv[k] /\ cli'[k] = cli[k]
  BY <1>4 DEF IInv, TypeOK
<1>9. /\ \A q \in Refreshers : Locking(q)'
      /\ \A k \in Listeners : Connection(k)' /\ (~Closed(k)' => Chain(k)')
  BY <1>1, <1>2, <1>3, <1>4, <1>5, <1>7, <1>8, ReadingKeeps
<1> QED  BY <1>6, <1>9 DEF IInv

LEMMA ReadStatusKeeps == ASSUME IInv, NEW r \in Refreshers, ReadStatus(r) PROVE IInv'
<1>1. PICK n \in ref[r].left :
          Step(r, [ref[r] EXCEPT !.got[n] = status[n], !.left = @ \ {n},
                                 !.at = IF ref[r].left = {n} THEN "catalog" ELSE "list"])
  BY DEF ReadStatus
<1> DEFINE f == [ref[r] EXCEPT !.got[n] = status[n], !.left = @ \ {n},
                               !.at = IF ref[r].left = {n} THEN "catalog" ELSE "list"]
<1>2. ref[r].at = "list" /\ ref[r] \in Refreshes /\ ref[r].got \in Read /\ n \in Names /\ status[n] \in Statuses \cup {Nil}
  BY DEF ReadStatus, IInv, TypeOK, Refreshes, Read
<1>3. [ref[r].got EXCEPT ![n] = status[n]] \in Read
  BY <1>2 DEF Read
<1>4. /\ f.at \in {"list", "catalog"} /\ f.left = ref[r].left \ {n}
      /\ f.got = [ref[r].got EXCEPT ![n] = status[n]]
  BY <1>2 DEF Refreshes
<1>5. f \in Refreshes /\ f.got \in Read
  BY <1>2, <1>3, <1>4 DEF Refreshes
<1> HIDE DEF f
<1>6. Step(r, f)
  BY <1>1 DEF f
<1>7. UNCHANGED <<world, stream, servers, wire, clients>>
  BY DEF ReadStatus
<1>8. TypeOK'
  <2>1. ref' \in [Refreshers -> Refreshes]
    BY <1>5, <1>6 DEF Step, IInv, TypeOK
  <2>2. \A q \in Refreshers : /\ ref'[q].at \in {"list", "catalog"} => ref'[q].got \in Read
                              /\ ref'[q].at = "publish" => ref'[q].got \in Inventories
    BY <1>4, <1>5, <1>6 DEF Step, IInv, TypeOK
  <2> QED  BY <1>7, <2>1, <2>2 DEF IInv, TypeOK, world, stream, servers, clients
<1>9. ~Publishing(r) /\ (r \in Listeners => srv[r] = "refresh")
  BY <1>2 DEF Publishing, IInv, Locking
<1>10. /\ \A q \in Refreshers : Locking(q)'
       /\ \A l \in Listeners : Connection(l)' /\ (~Closed(l)' => Chain(l)')
  BY <1>4, <1>5, <1>6, <1>7, <1>9, ReadingKeeps DEF servers, clients
<1> QED  BY <1>8, <1>10 DEF IInv

LEMMA ReadCatalogKeeps == ASSUME IInv, NEW r \in Refreshers, ReadCatalog(r) PROVE IInv'
<1>1. PICK l \in {label, [n \in Names |-> NoLabels]} :
          /\ l # label => events < MaxEvents
          /\ events' = IF l # label THEN events + 1 ELSE events
          /\ Step(r, [ref[r] EXCEPT !.at = "publish", !.got = Combined(@, l)])
  BY DEF ReadCatalog
<1> DEFINE f == [ref[r] EXCEPT !.at = "publish", !.got = Combined(@, l)]
<1>2. ref[r].at = "catalog" /\ ref[r] \in Refreshes /\ ref[r].got \in Read /\ l \in [Names -> Labels]
  BY DEF ReadCatalog, IInv, TypeOK
<1>3. f.at = "publish" /\ f.got = Combined(ref[r].got, l) /\ f.got \in Inventories
  BY <1>2, CombinedType DEF Refreshes
<1>4. f \in Refreshes
  BY <1>2, <1>3 DEF Refreshes
<1> HIDE DEF f
<1>5. Step(r, f)
  BY <1>1 DEF f
<1>6. UNCHANGED <<status, label, stream, servers, wire, clients>>
  BY DEF ReadCatalog
<1>7. events' \in 0 .. MaxEvents
  BY <1>1 DEF IInv, TypeOK
<1>8. TypeOK'
  <2>1. ref' \in [Refreshers -> Refreshes]
    BY <1>4, <1>5 DEF Step, IInv, TypeOK
  <2>2. \A q \in Refreshers : /\ ref'[q].at \in {"list", "catalog"} => ref'[q].got \in Read
                              /\ ref'[q].at = "publish" => ref'[q].got \in Inventories
    BY <1>3, <1>5 DEF Step, IInv, TypeOK
  <2> QED  BY <1>6, <1>7, <2>1, <2>2 DEF IInv, TypeOK, stream, servers, clients
<1>9. ~Publishing(r) /\ (r \in Listeners => srv[r] = "refresh")
  BY <1>2 DEF Publishing, IInv, Locking
<1>10. /\ \A q \in Refreshers : Locking(q)'
       /\ \A k \in Listeners : Connection(k)' /\ (~Closed(k)' => Chain(k)')
  BY <1>3, <1>4, <1>5, <1>6, <1>9, ReadingKeeps DEF servers, clients
<1> QED  BY <1>8, <1>10 DEF IInv

-----------------------------------------------------------------------------
(* Publishing.                                                             *)

\* An update is for the listeners that have the version before it.
LEMMA UpdatesType ==
    ASSUME NEW v \in Nat, NEW old \in Inventories, NEW new \in Inventories,
           NEW u \in Updates(v, old, new)
    PROVE  u \in Messages /\ u.version = v + 1 /\ (u.type = "patch" => u.base = v)
<1>1. CASE u = Snapshot(v + 1, new)
  BY <1>1 DEF Snapshot, Messages
<1>2. CASE u = diffInventory(v, old, new)
  <2>1. [n \in Names |-> IF new[n] # old[n] THEN new[n] ELSE Nil] \in Inventories
    BY DEF Inventories
  <2> QED  BY <1>2, <2>1 DEF diffInventory, Messages
<1> QED  BY <1>1, <1>2 DEF Updates

\* A refresher that ends its refresh.
LEMMA FinishedServes ==
    ASSUME IInv, NEW r \in Refreshers, ref[r].at # "idle", Finished(r)
    PROVE  /\ srv' \in [Listeners -> {"none", "refresh", "register", "write", "loop", "leave", "gone"}]
           /\ \A l \in Listeners : srv'[l] = srv[l] \/ (l = r /\ srv[l] = "refresh" /\ srv'[l] = "register")
           /\ r \in Listeners => srv[r] = "refresh" /\ srv'[r] = "register"
<1>1. srv \in [Listeners -> {"none", "refresh", "register", "write", "loop", "leave", "gone"}]
  BY DEF IInv, TypeOK
<1>2. CASE r \in Listeners
  <2>1. srv[r] = "refresh"
    BY <1>2 DEF IInv, Locking
  <2>2. srv' = [srv EXCEPT ![r] = "register"]
    BY <1>2 DEF Finished
  <2> QED  BY <1>1, <1>2, <2>1, <2>2
<1>3. CASE r \notin Listeners
  <2>1. srv' = srv
    BY <1>3 DEF Finished
  <2> QED  BY <1>1, <1>3, <2>1
<1> QED  BY <1>2, <1>3

LEMMA UnchangedKeeps == ASSUME IInv, NEW r \in Refreshers, Unchanged(r) PROVE IInv'
<1>1. ref[r].at = "publish" /\ Step(r, Resting) /\ Finished(r)
  BY DEF Unchanged
<1>2. UNCHANGED <<world, stream, out, wire, clients>>
  BY DEF Unchanged, stream
<1>3. TypeOK'
  <2>1. ref' \in [Refreshers -> Refreshes]
    BY <1>1, RestingType DEF Step, IInv, TypeOK
  <2>2. \A q \in Refreshers : /\ ref'[q].at \in {"list", "catalog"} => ref'[q].got \in Read
                              /\ ref'[q].at = "publish" => ref'[q].got \in Inventories
    BY <1>1, RestingType DEF Step, IInv, TypeOK
  <2> QED  BY <1>1, <1>2, <2>1, <2>2, FinishedServes DEF IInv, TypeOK, world, stream, clients
<1>4. ~Publishing(r)
  BY <1>1 DEF Publishing
<1>5. /\ \A q \in Refreshers : Locking(q)'
      /\ \A l \in Listeners : Connection(l)' /\ (~Closed(l)' => Chain(l)')
  BY <1>1, <1>2, <1>4, RestingType, FinishedServes, ReadingKeeps DEF clients
<1> QED  BY <1>3, <1>5 DEF IInv

LEMMA PublishKeeps == ASSUME IInv, NEW r \in Refreshers, Publish(r) PROVE IInv'
<1>1. /\ ref[r].at = "publish" /\ lock = Nil
      /\ version' = version + 1 /\ items' = ref[r].got
      /\ UNCHANGED <<world, open, channel, out, wire, clients>>
  BY DEF Publish
<1>2. version \in Nat /\ version # 0 /\ items \in Inventories /\ items' \in Inventories
  BY <1>1 DEF IInv, TypeOK
<1>3. \A q \in Refreshers : ~Publishing(q) /\ ref[q].at \notin {"drain", "replace"}
  BY <1>1 DEF IInv, Locking, Publishing
<1>4. CASE open = {}
  <2>1. Step(r, Resting) /\ Finished(r) /\ lock' = Nil
    BY <1>1, <1>4 DEF Publish
  <2>2. ref' \in [Refreshers -> Refreshes] /\ ref'[r] = Resting /\ \A q \in Refreshers : q # r => ref'[q] = ref[q]
    BY <2>1, RestingType DEF Step, IInv, TypeOK
  <2>3. TypeOK'
    <3>1. \A q \in Refreshers : /\ ref'[q].at \in {"list", "catalog"} => ref'[q].got \in Read
                                /\ ref'[q].at = "publish" => ref'[q].got \in Inventories
      BY <2>2, RestingType DEF IInv, TypeOK
    <3> QED  BY <1>1, <1>2, <2>1, <2>2, <3>1, FinishedServes DEF IInv, TypeOK, world, clients
  <2>4. ASSUME NEW q \in Refreshers PROVE Locking(q)'
    <3>1. q # Nil /\ ~Publishing(q)' /\ ref'[q].at \notin {"drain", "replace"}
      BY <1>3, <2>2, RestingType DEF Publishing
    <3>2. q \in Listeners => (ref'[q].at # "idle" <=> srv'[q] = "refresh")
      BY <1>1, <2>1, <2>2, RestingType, FinishedServes DEF IInv, Locking
    <3> QED  BY <2>1, <3>1, <3>2 DEF Locking
  <2>5. ASSUME NEW l \in Listeners PROVE Connection(l)' /\ (~Closed(l)' => Chain(l)')
    <3>1. Connection(l) /\ (~Closed(l) => Chain(l))
      BY DEF IInv
    <3>2. Connection(l)'
      BY <1>1, <2>1, <3>1, FinishedServes DEF Connection, clients
    <3>3. ~Replacing(l) /\ ~Behind(l) /\ ~Behind(l)'
      BY <1>1, <2>1 DEF Replacing, Behind
    <3>4. Still(l) /\ (srv'[l] = "write" <=> srv[l] = "write") /\ l \notin open' /\ (Closed(l)' <=> Closed(l))
      BY <1>1, <1>4, <2>1, FinishedServes DEF Still, clients, Closed
    <3> QED  BY <3>1, <3>2, <3>3, <3>4, ChainKept
  <2> QED  BY <2>3, <2>4, <2>5 DEF IInv
<1>5. CASE open # {}
  <2>1. PICK u \in Updates(version, items, ref[r].got) :
            Step(r, [Resting EXCEPT !.at = "offer", !.todo = open, !.update = u])
    BY <1>5 DEF Publish
  <2>2. lock' = r /\ srv' = srv
    BY <1>5 DEF Publish
  <2> DEFINE f == [Resting EXCEPT !.at = "offer", !.todo = open, !.update = u]
  <2>3. u \in Messages /\ u.version = version + 1 /\ (u.type = "patch" => u.base = version)
    BY <1>1, <1>2, UpdatesType
  <2>4. f.at = "offer" /\ f.todo = open /\ f.update = u /\ f \in Refreshes
    BY <2>3, RestingType DEF Resting, Refreshes, IInv, TypeOK
  <2> HIDE DEF f
  <2>5. Step(r, f)
    BY <2>1 DEF f
  <2>6. ref' \in [Refreshers -> Refreshes] /\ ref'[r] = f /\ \A q \in Refreshers : q # r => ref'[q] = ref[q]
    BY <2>4, <2>5 DEF Step, IInv, TypeOK
  <2>7. TypeOK'
    <3>1. \A q \in Refreshers : /\ ref'[q].at \in {"list", "catalog"} => ref'[q].got \in Read
                                /\ ref'[q].at = "publish" => ref'[q].got \in Inventories
      BY <2>4, <2>6 DEF IInv, TypeOK
    <3> QED  BY <1>1, <1>2, <2>2, <2>6, <3>1 DEF IInv, TypeOK, world, clients
  <2>8. ASSUME NEW q \in Refreshers PROVE Locking(q)'
    <3>0. Locking(q)
      BY DEF IInv
    <3>1. CASE q = r
      BY <1>1, <1>2, <1>5, <2>2, <2>3, <2>4, <2>6, <3>0, <3>1 DEF Locking, Publishing
    <3>2. CASE q # r
      <4>1. ~Publishing(q)' /\ ref'[q].at \notin {"drain", "replace"} /\ ref'[q] = ref[q]
        BY <1>3, <2>6, <3>2 DEF Publishing
      <4> QED  BY <2>2, <3>0, <3>2, <4>1 DEF Locking
    <3> QED  BY <3>1, <3>2
  <2>9. ASSUME NEW l \in Listeners PROVE Connection(l)' /\ (~Closed(l)' => Chain(l)')
    <3>1. Connection(l) /\ (~Closed(l) => Chain(l))
      BY DEF IInv
    <3>2. Connection(l)' /\ (Closed(l)' <=> Closed(l))
      BY <1>1, <2>2, <3>1 DEF Connection, clients, Closed
    <3>3. ~Replacing(l) /\ ~Behind(l)
      BY <1>1 DEF Replacing, Behind
    <3>4. Behind(l)' <=> l \in open
      BY <2>2, <2>4, <2>6 DEF Behind
    <3>5. Sent(l)' = Sent(l) /\ Written(l)' = Written(l) /\ Queued(l)' = Queued(l)
      BY <1>1, <2>2 DEF Sent, Written, Queued, clients
    <3>6. ASSUME Chain(l) PROVE Chain(l)'
      <4>1. l \in open' => Queued(l)' = version
        BY <1>1, <3>3, <3>5, <3>6 DEF Chain
      <4> QED  BY <1>1, <1>2, <2>2, <3>4, <3>5, <3>6, <4>1 DEF Chain, Follows, clients
    <3> QED  BY <3>1, <3>2, <3>6
  <2> QED  BY <2>7, <2>8, <2>9 DEF IInv
<1> QED  BY <1>4, <1>5

\* Listener l is served with u, by an offer or in place of what it had.
LEMMA SendKeeps ==
    ASSUME IInv, NEW r \in Refreshers, Publishing(r), NEW l \in ref[r].todo,
           NEW u \in Messages, u.version = version,
           u.type = "patch" => u.base = version - 1 /\ ref[r].at = "offer",
           ref[r].at = "replace" => ref[r].target = l,
           ref[r].at # "drain", Send(r, l, u)
    PROVE  IInv'
<1>1. /\ channel[l] = <<>> /\ channel' = [channel EXCEPT ![l] = <<u>>]
      /\ UNCHANGED <<world, version, items, open, out, wire, clients>>
      /\ Served(r, l)
  BY DEF Send
<1>2. /\ lock = r /\ r # Nil /\ ref[r].todo \subseteq open /\ l \in Listeners /\ l \in open
      /\ version \in Nat /\ ref[r] \in Refreshes
  BY Holder DEF IInv, TypeOK, Locking
<1>3. channel' \in [Listeners -> Seq(Messages)] /\ channel'[l] = <<u>> /\ Len(channel'[l]) = 1
      /\ channel'[l][1] = u /\ channel'[l] # <<>>
      /\ \A k \in Listeners : k # l => channel'[k] = channel[k]
  BY <1>1, <1>2 DEF IInv, TypeOK
<1>4. PICK f \in Refreshes :
         /\ ref' = [ref EXCEPT ![r] = f]
         /\ \/ f.at = "idle" /\ ref[r].todo = {l} /\ lock' = Nil /\ Finished(r)
            \/ /\ f.at = "offer" /\ f.todo = ref[r].todo \ {l} /\ f.todo # {}
               /\ f.update = ref[r].update /\ lock' = r /\ srv' = srv
  <2>1. CASE ref[r].todo = {l}
    BY <1>1, <2>1, RestingType DEF Served, Step
  <2>2. CASE ref[r].todo # {l}
    <3> DEFINE f == [ref[r] EXCEPT !.at = "offer", !.todo = @ \ {l}, !.target = Nil]
    <3>1. f \in Refreshes /\ f.at = "offer" /\ f.todo = ref[r].todo \ {l} /\ f.update = ref[r].update
      BY <1>2 DEF Refreshes
    <3>2. ref' = [ref EXCEPT ![r] = f] /\ lock' = r /\ srv' = srv
      BY <1>1, <1>2, <2>2 DEF Served, Step
    <3>3. f.todo # {}
      BY <2>2, <3>1
    <3> HIDE DEF f
    <3>4. /\ ref' = [ref EXCEPT ![r] = f]
          /\ f.at = "offer" /\ f.todo = ref[r].todo \ {l} /\ f.todo # {}
          /\ f.update = ref[r].update /\ lock' = r /\ srv' = srv
      BY <3>1, <3>2, <3>3
    <3> QED  BY <3>1, <3>4
  <2> QED  BY <2>1, <2>2
<1>5. ref' \in [Refreshers -> Refreshes] /\ ref'[r] = f /\ \A q \in Refreshers : q # r => ref'[q] = ref[q]
  BY <1>4 DEF IInv, TypeOK
<1>6. /\ srv' \in [Listeners -> {"none", "refresh", "register", "write", "loop", "leave", "gone"}]
      /\ \A k \in Listeners : srv'[k] = srv[k] \/ (k = r /\ srv[k] = "refresh" /\ srv'[k] = "register")
      /\ f.at = "idle" /\ r \in Listeners => srv[r] = "refresh" /\ srv'[r] = "register"
      /\ f.at # "idle" => srv' = srv
  <2>1. ref[r].at # "idle"
    BY DEF Publishing
  <2>2. CASE Finished(r)
    BY <1>4, <2>1, <2>2, FinishedServes
  <2>3. CASE srv' = srv /\ f.at = "offer"
    BY <2>3 DEF IInv, TypeOK
  <2> QED  BY <1>4, <2>2, <2>3
<1>7. TypeOK'
  <2>1. \A k \in Listeners : Len(channel'[k]) <= 1 /\ Len(wire'[k]) <= WireCap
    BY <1>1, <1>3 DEF IInv, TypeOK
  <2>2. \A q \in Refreshers : /\ ref'[q].at \in {"list", "catalog"} => ref'[q].got \in Read
                              /\ ref'[q].at = "publish" => ref'[q].got \in Inventories
    BY <1>4, <1>5 DEF IInv, TypeOK
  <2>3. lock' \in Refreshers \cup {Nil}
    BY <1>4
  <2> QED  BY <1>1, <1>3, <1>5, <1>6, <2>1, <2>2, <2>3 DEF IInv, TypeOK, world, clients
<1>8. ASSUME NEW q \in Refreshers PROVE Locking(q)'
  <2>0. Locking(q) /\ Locking(r)
    BY DEF IInv
  <2>1. CASE q = r
    <3>1. CASE f.at = "idle"
      BY <1>2, <1>4, <1>5, <1>6, <2>1, <3>1 DEF Locking, Publishing
    <3>2. CASE f.at = "offer"
      BY <1>1, <1>2, <1>4, <1>5, <1>6, <2>0, <2>1, <3>2 DEF Locking, Publishing
    <3> QED  BY <1>4, <3>1, <3>2
  <2>2. CASE q # r
    <3>1. ~Publishing(q) /\ ref'[q] = ref[q] /\ lock' # q /\ q # Nil
      BY <1>2, <1>4, <1>5, <2>0, <2>2 DEF Locking
    <3>2. q \in Listeners => srv'[q] = srv[q]
      BY <1>6, <2>2
    <3> QED  BY <2>0, <3>1, <3>2 DEF Locking, Publishing
  <2> QED  BY <2>1, <2>2
<1>9. ASSUME NEW k \in Listeners PROVE Connection(k)'
  <2>1. Connection(k) /\ (k # l => channel'[k] = channel[k])
    BY <1>3 DEF IInv
  <2> QED  BY <1>1, <1>2, <1>6, <2>1 DEF Connection, clients
<1>10. ASSUME NEW k \in Listeners, ~Closed(k)' PROVE Chain(k)'
  <2>1. Chain(k)
    BY <1>1, <1>10 DEF IInv, Closed, clients
  <2>2. srv'[k] = "write" <=> srv[k] = "write"
    BY <1>6
  <2>3. CASE k # l
    <3>1. Still(k)
      BY <1>1, <1>3, <2>3 DEF Still, clients
    <3>2. Behind(k)' <=> Behind(k)
      BY <1>2, <1>4, <1>5, <2>3 DEF Behind
    <3>3. ~Replacing(k)
      BY <1>2, <2>3 DEF Replacing
    <3> QED  BY <1>1, <2>1, <2>2, <3>1, <3>2, <3>3, ChainKept
  <2>4. CASE k = l
    <3>1. Sent(l)' = Sent(l) /\ Written(l)' = Written(l)
      BY <1>1, <2>2, <2>4 DEF Sent, Written, clients
    <3>2. Follows(u, Written(l))
      <4>1. CASE u.type = "patch"
        <5>1. ~Replacing(l) /\ Behind(l)
          BY <1>2, <4>1 DEF Replacing, Behind
        <5>2. Queued(l) = version - 1
          BY <1>2, <2>1, <2>4, <5>1 DEF Chain
        <5> QED  BY <1>1, <4>1, <5>2 DEF Queued, Follows
      <4> QED  BY <4>1 DEF Follows
    <3>3. Queued(l)' = version'
      BY <1>1, <1>3 DEF Queued
    <3>4. ~Behind(l)'
      BY <1>4, <1>5, <1>2 DEF Behind
    <3> QED  BY <1>1, <1>3, <2>1, <2>2, <2>4, <3>1, <3>2, <3>3, <3>4 DEF Chain, Follows, clients
  <2> QED  BY <2>3, <2>4
<1> QED  BY <1>7, <1>8, <1>9, <1>10 DEF IInv

LEMMA OfferKeeps ==
    ASSUME IInv, NEW r \in Refreshers, NEW l \in Listeners, Offer(r, l)
    PROVE  IInv'
<1>1. ref[r].at = "offer" /\ l \in ref[r].todo /\ Send(r, l, ref[r].update)
  BY DEF Offer
<1>2. Publishing(r)
  BY <1>1 DEF Publishing
<1>3. /\ ref[r].update \in Messages /\ ref[r].update.version = version
      /\ ref[r].update.type = "patch" => ref[r].update.base = version - 1
  BY <1>2 DEF IInv, Locking
<1> QED  BY <1>1, <1>2, <1>3, SendKeeps

LEMMA ReplaceKeeps ==
    ASSUME IInv, NEW r \in Refreshers, Replace(r)
    PROVE  IInv'
<1>1. ref[r].at = "replace" /\ Send(r, ref[r].target, Snapshot(version, items))
  BY DEF Replace
<1>2. Publishing(r) /\ ref[r].target \in ref[r].todo
  BY <1>1 DEF Publishing, IInv, Locking
<1>3. /\ Snapshot(version, items) \in Messages /\ Snapshot(version, items).version = version
      /\ Snapshot(version, items).type = "snapshot"
  BY DEF Snapshot, Messages, IInv, TypeOK
<1> QED  BY <1>1, <1>2, <1>3, SendKeeps

\* A listener whose channel is full: the holder of the lock turns to it.
LEMMA FullKeeps ==
    ASSUME IInv, NEW r \in Refreshers, NEW l \in Listeners, Full(r, l)
    PROVE  IInv'
<1> DEFINE f == [ref[r] EXCEPT !.at = "drain", !.target = l]
<1>1. /\ ref[r].at = "offer" /\ l \in ref[r].todo /\ ref' = [ref EXCEPT ![r] = f]
      /\ UNCHANGED <<world, stream, servers, wire, clients>>
  BY DEF Full, Step
<1>2. ref[r] \in Refreshes /\ lock = r
  BY <1>1, Holder DEF IInv, TypeOK, Publishing
<1>3. /\ f \in Refreshes /\ f.at = "drain" /\ f.target = l /\ f.todo = ref[r].todo
      /\ f.update = ref[r].update
  BY <1>2 DEF Refreshes
<1> HIDE DEF f
<1>4. ref' \in [Refreshers -> Refreshes] /\ ref'[r] = f /\ \A q \in Refreshers : q # r => ref'[q] = ref[q]
  BY <1>1, <1>3 DEF IInv, TypeOK
<1>5. TypeOK'
  <2>1. \A q \in Refreshers : /\ ref'[q].at \in {"list", "catalog"} => ref'[q].got \in Read
                              /\ ref'[q].at = "publish" => ref'[q].got \in Inventories
    BY <1>3, <1>4 DEF IInv, TypeOK
  <2> QED  BY <1>1, <1>4, <2>1 DEF IInv, TypeOK, world, stream, servers, clients
<1>6. ASSUME NEW q \in Refreshers PROVE Locking(q)'
  <2>1. Locking(q)
    BY DEF IInv
  <2> QED  BY <1>1, <1>2, <1>3, <1>4, <2>1 DEF Locking, Publishing, stream, servers
<1>7. ASSUME NEW k \in Listeners PROVE Connection(k)' /\ (~Closed(k)' => Chain(k)')
  <2>1. Connection(k) /\ (~Closed(k) => Chain(k))
    BY DEF IInv
  <2>2. Connection(k)' /\ (Closed(k)' <=> Closed(k)) /\ Still(k)
    BY <1>1, <2>1 DEF Connection, Closed, Still, stream, servers, clients
  <2>3. (Behind(k)' <=> Behind(k)) /\ ~Replacing(k)
    BY <1>1, <1>2, <1>3, <1>4 DEF Behind, Replacing, stream
  <2>4. Chain(k) => Chain(k)'
    BY <1>1, <2>2, <2>3, ChainKept DEF stream, servers
  <2> QED  BY <2>1, <2>2, <2>4
<1> QED  BY <1>5, <1>6, <1>7 DEF IInv

LEMMA DrainKeeps == ASSUME IInv, NEW r \in Refreshers, Drain(r) PROVE IInv'
<1> DEFINE f == [ref[r] EXCEPT !.at = "replace"]
<1>1. /\ ref[r].at = "drain" /\ ref' = [ref EXCEPT ![r] = f]
      /\ channel' = [channel EXCEPT ![ref[r].target] = <<>>]
      /\ UNCHANGED <<world, lock, version, items, open, servers, wire, clients>>
  BY DEF Drain, Step
<1>2. ref[r] \in Refreshes /\ lock = r /\ ref[r].target \in Listeners
  BY <1>1, Holder DEF IInv, TypeOK, Publishing, Locking
<1>3. /\ f \in Refreshes /\ f.at = "replace" /\ f.target = ref[r].target /\ f.todo = ref[r].todo
      /\ f.update = ref[r].update
  BY <1>2 DEF Refreshes
<1> HIDE DEF f
<1>4. ref' \in [Refreshers -> Refreshes] /\ ref'[r] = f /\ \A q \in Refreshers : q # r => ref'[q] = ref[q]
  BY <1>1, <1>3 DEF IInv, TypeOK
<1>5. channel' \in [Listeners -> Seq(Messages)] /\ channel'[f.target] = <<>>
      /\ \A k \in Listeners : k # f.target => channel'[k] = channel[k]
  BY <1>1, <1>2, <1>3 DEF IInv, TypeOK
<1>6. TypeOK'
  <2>1. \A q \in Refreshers : /\ ref'[q].at \in {"list", "catalog"} => ref'[q].got \in Read
                              /\ ref'[q].at = "publish" => ref'[q].got \in Inventories
    BY <1>3, <1>4 DEF IInv, TypeOK
  <2>2. \A k \in Listeners : Len(channel'[k]) <= 1 /\ Len(wire'[k]) <= WireCap
    BY <1>1, <1>5 DEF IInv, TypeOK
  <2> QED  BY <1>1, <1>4, <1>5, <2>1, <2>2 DEF IInv, TypeOK, world, servers, clients
<1>7. ASSUME NEW q \in Refreshers PROVE Locking(q)'
  <2>1. Locking(q)
    BY DEF IInv
  <2>2. CASE q = r
    BY <1>1, <1>2, <1>3, <1>4, <1>5, <2>1, <2>2 DEF Locking, Publishing, servers
  <2>3. CASE q # r
    BY <1>1, <1>2, <1>4, <2>1, <2>3 DEF Locking, Publishing, servers
  <2> QED  BY <2>2, <2>3
<1>8. ASSUME NEW k \in Listeners PROVE Connection(k)' /\ (~Closed(k)' => Chain(k)')
  <2>1. Connection(k) /\ (~Closed(k) => Chain(k))
    BY DEF IInv
  <2>2. Connection(k)' /\ (Closed(k)' <=> Closed(k))
    BY <1>1, <1>5, <2>1 DEF Connection, Closed, servers, clients
  <2>3. (Behind(k)' <=> Behind(k)) /\ ~Replacing(k)
    BY <1>1, <1>2, <1>3, <1>4 DEF Behind, Replacing
  <2>4. CASE k # f.target
    <3>1. Still(k)
      BY <1>1, <1>5, <2>4 DEF Still, servers, clients
    <3>2. Chain(k) => Chain(k)'
      BY <1>1, <2>3, <3>1, ChainKept DEF servers
    <3> QED  BY <2>1, <2>2, <3>2
  <2>5. CASE k = f.target
    <3>1. Replacing(k)'
      BY <1>1, <1>2, <1>3, <1>4, <2>5 DEF Replacing
    <3>2. Sent(k)' = Sent(k)
      BY <1>1 DEF Sent, clients
    <3>3. Chain(k) => Chain(k)'
      BY <1>1, <1>5, <2>5, <3>1, <3>2 DEF Chain, Follows, servers, clients
    <3> QED  BY <2>1, <2>2, <3>3
  <2> QED  BY <2>4, <2>5
<1> QED  BY <1>6, <1>7, <1>8 DEF IInv

-----------------------------------------------------------------------------
(* The connection of a listener, and its client.                           *)

\* A step of listener l concerns nobody else: it registers and leaves while
\* nobody publishes, and puts nothing into a channel.
LEMMA ListenerKeeps ==
    ASSUME IInv, NEW l \in Listeners, UNCHANGED <<lock, version, ref>>,
           open' = open \/ lock = Nil, srv'[l] = "refresh" <=> srv[l] = "refresh",
           \A k \in Listeners : channel[k] = <<>> => channel'[k] = <<>>,
           \A k \in Listeners : k # l => /\ Still(k) /\ srv'[k] = srv[k] /\ cli'[k] = cli[k]
                                         /\ k \in open' <=> k \in open,
           Connection(l)', ~Closed(l)' => Chain(l)'
    PROVE  /\ \A r \in Refreshers : Locking(r)'
           /\ \A k \in Listeners : Connection(k)' /\ (~Closed(k)' => Chain(k)')
<1>1. ASSUME NEW r \in Refreshers PROVE Locking(r)'
  <2>1. Locking(r) /\ (Publishing(r)' <=> Publishing(r)) /\ (Publishing(r) => open' = open)
    BY Holder DEF IInv, Publishing
  <2>2. ref[r].at = "replace" => channel'[ref[r].target] = <<>>
    <3>1. ref[r].at = "replace" => Publishing(r) /\ ref[r].target \in Listeners
      BY <2>1 DEF Publishing, Locking, IInv, TypeOK
    <3> QED  BY <2>1, <3>1 DEF Locking
  <2>3. r \in Listeners => (srv'[r] = "refresh" <=> srv[r] = "refresh")
    OBVIOUS
  <2> QED  BY <2>1, <2>2, <2>3 DEF Locking
<1>2. ASSUME NEW k \in Listeners, k # l PROVE Connection(k)' /\ (~Closed(k)' => Chain(k)')
  <2>1. Connection(k) /\ (~Closed(k) => Chain(k))
    BY DEF IInv
  <2>2. Still(k) /\ srv'[k] = srv[k] /\ cli'[k] = cli[k] /\ (k \in open' <=> k \in open)
    BY <1>2
  <2>3. Connection(k)' /\ (Closed(k)' <=> Closed(k))
    BY <2>1, <2>2 DEF Connection, Closed, Still
  <2>4. (Behind(k)' <=> Behind(k)) /\ (Replacing(k)' <=> Replacing(k))
    BY DEF Behind, Replacing
  <2>5. Chain(k) => Chain(k)'
    BY <2>2, <2>4, ChainKept
  <2> QED  BY <2>1, <2>3, <2>5
<1> QED  BY <1>1, <1>2

LEMMA RegisterKeeps == ASSUME IInv, NEW l \in Listeners, Register(l) PROVE IInv'
<1> DEFINE u == Snapshot(version, items)
<1>1. u \in Messages /\ u.type = "snapshot" /\ u.version = version
  BY DEF Snapshot, Messages, IInv, TypeOK
<1> HIDE DEF u
<1>2. /\ srv[l] = "register" /\ lock = Nil /\ open' = open \cup {l}
      /\ out' = [out EXCEPT ![l] = u] /\ srv' = [srv EXCEPT ![l] = "write"]
      /\ UNCHANGED <<world, lock, version, items, channel, ref, wire, clients>>
  BY DEF Register, Serve, u
<1>3. Connection(l) /\ l \notin open /\ channel[l] = <<>> /\ wire[l] = <<>>
  BY <1>2 DEF IInv, Connection
<1>4. /\ out' \in [Listeners -> Messages \cup {Nil}] /\ out'[l] = u
      /\ srv' \in [Listeners -> {"none", "refresh", "register", "write", "loop", "leave", "gone"}]
      /\ srv'[l] = "write"
      /\ \A k \in Listeners : k # l => out'[k] = out[k] /\ srv'[k] = srv[k]
  BY <1>1, <1>2 DEF IInv, TypeOK
<1>5. TypeOK'
  BY <1>2, <1>4 DEF IInv, TypeOK, world, clients
<1>6. Connection(l)'
  BY <1>1, <1>2, <1>3, <1>4 DEF Connection, clients
<1>7. Chain(l)'
  <2>1. Queued(l)' = version'
    BY <1>1, <1>2, <1>3, <1>4 DEF Queued, Written
  <2>2. ~Behind(l)'
    BY <1>2 DEF Behind
  <2> QED  BY <1>1, <1>2, <1>3, <1>4, <2>1, <2>2 DEF Chain, Follows
<1>8. /\ \A r \in Refreshers : Locking(r)'
      /\ \A k \in Listeners : Connection(k)' /\ (~Closed(k)' => Chain(k)')
  BY <1>2, <1>4, <1>6, <1>7, ListenerKeeps DEF Still, clients
<1> QED  BY <1>5, <1>8 DEF IInv

LEMMA TakeUpdateKeeps == ASSUME IInv, NEW l \in Listeners, TakeUpdate(l) PROVE IInv'
<1>1. /\ srv[l] = "loop" /\ channel[l] # <<>>
      /\ out' = [out EXCEPT ![l] = Head(channel[l])] /\ srv' = [srv EXCEPT ![l] = "write"]
      /\ channel' = [channel EXCEPT ![l] = <<>>]
      /\ UNCHANGED <<world, lock, version, items, open, ref, wire, clients>>
  BY DEF TakeUpdate, Serve
<1>2. Connection(l) /\ l \in open
  BY <1>1 DEF IInv, Connection
<1>3. Head(channel[l]) = channel[l][1] /\ channel[l][1] \in Messages
  BY <1>1 DEF IInv, TypeOK
<1>4. /\ out' \in [Listeners -> Messages \cup {Nil}] /\ out'[l] = channel[l][1]
      /\ srv' \in [Listeners -> {"none", "refresh", "register", "write", "loop", "leave", "gone"}]
      /\ srv'[l] = "write"
      /\ channel' \in [Listeners -> Seq(Messages)] /\ channel'[l] = <<>>
      /\ \A k \in Listeners :
            k # l => out'[k] = out[k] /\ srv'[k] = srv[k] /\ channel'[k] = channel[k]
  BY <1>1, <1>3 DEF IInv, TypeOK
<1>5. TypeOK'
  <2>1. \A k \in Listeners : Len(channel'[k]) <= 1 /\ Len(wire'[k]) <= WireCap
    BY <1>1, <1>4 DEF IInv, TypeOK
  <2> QED  BY <1>1, <1>4, <2>1 DEF IInv, TypeOK, world, clients
<1>6. Connection(l)'
  BY <1>1, <1>2, <1>3, <1>4 DEF Connection, clients
<1>7. ASSUME ~Closed(l)' PROVE Chain(l)'
  <2>1. Chain(l)
    BY <1>1, <1>7 DEF IInv, Closed, clients
  <2>2. Sent(l)' = Sent(l) /\ Written(l) = Sent(l)
    BY <1>1 DEF Sent, Written, clients
  <2>3. Follows(channel[l][1], Sent(l)) /\ Queued(l) = channel[l][1].version
    BY <1>1, <2>1, <2>2 DEF Chain, Queued
  <2>4. Queued(l)' = Queued(l)
    BY <1>4, <2>3 DEF Queued, Written
  <2>5. (Behind(l)' <=> Behind(l)) /\ (Replacing(l)' <=> Replacing(l))
    BY <1>1 DEF Behind, Replacing
  <2>6. Follows(out'[l], Sent(l)')
    BY <1>4, <2>2, <2>3
  <2>7. \A i \in 1 .. Len(wire'[l]) :
           Follows(wire'[l][i], IF i = 1 THEN seen'[l] ELSE wire'[l][i - 1].version)
    BY <1>1, <2>1 DEF Chain, clients
  <2> QED  BY <1>1, <1>4, <2>1, <2>4, <2>5, <2>6, <2>7 DEF Chain, Follows
<1>8. \A k \in Listeners : channel[k] = <<>> => channel'[k] = <<>>
  BY <1>4
<1>9. /\ \A r \in Refreshers : Locking(r)'
      /\ \A k \in Listeners : Connection(k)' /\ (~Closed(k)' => Chain(k)')
  BY <1>1, <1>4, <1>6, <1>7, <1>8, ListenerKeeps DEF Still, clients
<1> QED  BY <1>5, <1>9 DEF IInv

LEMMA WriteKeeps == ASSUME IInv, NEW l \in Listeners, Write(l) PROVE IInv'
<1> DEFINE u == out[l]
<1>1. /\ srv[l] = "write" /\ out' = [out EXCEPT ![l] = Nil]
      /\ UNCHANGED <<world, stream, ref, clients>>
      /\ \/ /\ ~Closed(l) /\ Len(wire[l]) < WireCap /\ srv' = [srv EXCEPT ![l] = "loop"]
            /\ wire' = [wire EXCEPT ![l] = Append(wire[l], u)]
         \/ Closed(l) /\ srv' = [srv EXCEPT ![l] = "leave"] /\ wire' = wire
  BY DEF Write, Serve
<1>2. Connection(l) /\ l \in open /\ u \in Messages /\ wire[l] \in Seq(Messages)
  BY <1>1 DEF IInv, TypeOK, Connection
<1>3. /\ out' \in [Listeners -> Messages \cup {Nil}]
      /\ srv' \in [Listeners -> {"none", "refresh", "register", "write", "loop", "leave", "gone"}]
      /\ srv'[l] \in {"loop", "leave"} /\ (~Closed(l) => srv'[l] = "loop")
      /\ wire' \in [Listeners -> Seq(Messages)]
      /\ \A k \in Listeners :
            k # l => out'[k] = out[k] /\ srv'[k] = srv[k] /\ wire'[k] = wire[k]
  <2>1. /\ out \in [Listeners -> Messages \cup {Nil}] /\ wire \in [Listeners -> Seq(Messages)]
        /\ srv \in [Listeners -> {"none", "refresh", "register", "write", "loop", "leave", "gone"}]
    BY DEF IInv, TypeOK
  <2>2. Append(wire[l], u) \in Seq(Messages)
    BY <1>2
  <2> HIDE DEF u
  <2>3. wire' \in [Listeners -> Seq(Messages)] /\ \A k \in Listeners : k # l => wire'[k] = wire[k]
    BY <1>1, <2>1, <2>2
  <2> QED  BY <1>1, <2>1, <2>3
<1>4. ~Closed(l) => wire'[l] = Append(wire[l], u) /\ Len(wire[l]) < WireCap
  BY <1>1 DEF IInv, TypeOK
<1> HIDE DEF u
<1>5. TypeOK'
  <2>1. Len(wire'[l]) <= WireCap
    <3>1. CASE Closed(l)
      BY <1>1, <3>1 DEF IInv, TypeOK
    <3>2. CASE ~Closed(l)
      BY <1>2, <1>4, <3>2
    <3> QED  BY <3>1, <3>2
  <2>2. \A k \in Listeners : Len(channel'[k]) <= 1 /\ Len(wire'[k]) <= WireCap
    BY <1>1, <1>3, <2>1 DEF IInv, TypeOK, stream
  <2> QED  BY <1>1, <1>3, <2>2 DEF IInv, TypeOK, world, stream, clients
<1>6. Connection(l)'
  BY <1>1, <1>2, <1>3 DEF Connection, stream, clients
<1>7. ASSUME ~Closed(l)' PROVE Chain(l)'
  <2>1. ~Closed(l) /\ Chain(l)
    BY <1>1, <1>7 DEF IInv, Closed, clients
  <2>2. wire'[l] = Append(wire[l], u) /\ Follows(u, Sent(l)) /\ Written(l) = u.version
    BY <1>1, <1>4, <2>1 DEF Chain, Written, u
  <2>3. /\ Len(wire'[l]) = Len(wire[l]) + 1 /\ wire'[l][Len(wire[l]) + 1] = u
        /\ \A i \in 1 .. Len(wire[l]) : wire'[l][i] = wire[l][i]
        /\ Len(wire[l]) \in Nat /\ wire'[l] # <<>>
    BY <1>2, <2>2
  <2>4. Written(l)' = u.version
    BY <1>3, <2>1, <2>3 DEF Written, Sent
  <2>5. Queued(l)' = Queued(l)
    BY <1>1, <2>2, <2>4 DEF Queued, stream
  <2>6. ASSUME NEW i \in 1 .. Len(wire'[l])
        PROVE  Follows(wire'[l][i], IF i = 1 THEN seen'[l] ELSE wire'[l][i - 1].version)
    <3>1. CASE i \in 1 .. Len(wire[l])
      <4>1. Follows(wire[l][i], IF i = 1 THEN seen[l] ELSE wire[l][i - 1].version)
        BY <2>1, <3>1 DEF Chain
      <4>2. wire'[l][i] = wire[l][i] /\ (i # 1 => wire'[l][i - 1] = wire[l][i - 1])
        BY <2>3, <3>1
      <4>3. seen'[l] = seen[l]
        BY <1>1 DEF clients
      <4> QED  BY <4>1, <4>2, <4>3
    <3>2. CASE i = Len(wire[l]) + 1
      <4>1. Sent(l) = IF i = 1 THEN seen[l] ELSE wire[l][i - 1].version
        BY <1>2, <2>3, <3>2 DEF Sent
      <4> QED  BY <1>1, <2>2, <2>3, <3>2, <4>1 DEF clients
    <3> QED  BY <2>3, <3>1, <3>2
  <2>7. (Behind(l)' <=> Behind(l)) /\ (Replacing(l)' <=> Replacing(l))
    BY <1>1 DEF Behind, Replacing, stream
  <2>8. channel'[l] # <<>> => Follows(channel'[l][1], Written(l)')
    BY <1>1, <2>1, <2>2, <2>4 DEF Chain, stream
  <2> QED  BY <1>1, <1>3, <2>1, <2>5, <2>6, <2>7, <2>8 DEF Chain, Follows, stream
<1>8. /\ \A r \in Refreshers : Locking(r)'
      /\ \A k \in Listeners : Connection(k)' /\ (~Closed(k)' => Chain(k)')
  BY <1>1, <1>3, <1>6, <1>7, ListenerKeeps DEF Still, stream, clients
<1> QED  BY <1>5, <1>8 DEF IInv

LEMMA DisconnectedKeeps == ASSUME IInv, NEW l \in Listeners, Disconnected(l) PROVE IInv'
<1>1. /\ srv[l] = "loop" /\ Closed(l) /\ srv' = [srv EXCEPT ![l] = "leave"]
      /\ UNCHANGED <<world, stream, ref, out, wire, clients>>
  BY DEF Disconnected, Serve
<1>2. /\ srv' \in [Listeners -> {"none", "refresh", "register", "write", "loop", "leave", "gone"}]
      /\ srv'[l] = "leave" /\ \A k \in Listeners : k # l => srv'[k] = srv[k]
  BY <1>1 DEF IInv, TypeOK
<1>3. TypeOK'
  BY <1>1, <1>2 DEF IInv, TypeOK, world, stream, clients
<1>4. Connection(l)' /\ Closed(l)'
  BY <1>1, <1>2 DEF IInv, Connection, Closed, stream, clients
<1>5. /\ \A r \in Refreshers : Locking(r)'
      /\ \A k \in Listeners : Connection(k)' /\ (~Closed(k)' => Chain(k)')
  BY <1>1, <1>2, <1>4, ListenerKeeps DEF Still, stream, clients
<1> QED  BY <1>3, <1>5 DEF IInv

LEMMA LeaveKeeps == ASSUME IInv, NEW l \in Listeners, Leave(l) PROVE IInv'
<1>1. /\ srv[l] = "leave" /\ lock = Nil /\ open' = open \ {l}
      /\ channel' = [channel EXCEPT ![l] = <<>>] /\ srv' = [srv EXCEPT ![l] = "gone"]
      /\ UNCHANGED <<world, lock, version, items, ref, out, wire, clients>>
  BY DEF Leave, Serve
<1>2. /\ srv' \in [Listeners -> {"none", "refresh", "register", "write", "loop", "leave", "gone"}]
      /\ srv'[l] = "gone" /\ channel' \in [Listeners -> Seq(Messages)] /\ channel'[l] = <<>>
      /\ \A k \in Listeners : k # l => srv'[k] = srv[k] /\ channel'[k] = channel[k]
  BY <1>1 DEF IInv, TypeOK
<1>3. TypeOK'
  <2>1. \A k \in Listeners : Len(channel'[k]) <= 1 /\ Len(wire'[k]) <= WireCap
    BY <1>1, <1>2 DEF IInv, TypeOK
  <2> QED  BY <1>1, <1>2, <2>1 DEF IInv, TypeOK, world, clients
<1>4. Connection(l)' /\ (~Closed(l)' => Chain(l)')
  <2>1. Connection(l) /\ (~Closed(l) => Chain(l))
    BY DEF IInv
  <2>2. Connection(l)' /\ (Closed(l)' <=> Closed(l))
    BY <1>1, <1>2, <2>1 DEF Connection, Closed, clients
  <2>3. Chain(l) => Chain(l)'
    BY <1>1, <1>2 DEF Chain, Follows, clients
  <2> QED  BY <2>1, <2>2, <2>3
<1>5. \A k \in Listeners : channel[k] = <<>> => channel'[k] = <<>>
  BY <1>2
<1>6. /\ \A r \in Refreshers : Locking(r)'
      /\ \A k \in Listeners : Connection(k)' /\ (~Closed(k)' => Chain(k)')
  BY <1>1, <1>2, <1>4, <1>5, ListenerKeeps DEF Still, clients
<1> QED  BY <1>3, <1>6 DEF IInv

\* The client's next message follows what it has, so it is never told of a gap.
LEMMA NextFollows ==
    ASSUME IInv, NEW l \in Listeners, Receive(l)
    PROVE  /\ ~Closed(l) /\ Chain(l) /\ wire[l] # <<>> /\ Head(wire[l]) = wire[l][1]
           /\ Head(wire[l]) \in Messages
           /\ cli' = [cli EXCEPT ![l] = "live"]
           /\ seen' = [seen EXCEPT ![l] = Head(wire[l]).version]
<1>1. cli[l] \in {"connecting", "live"} /\ wire[l] # <<>>
  BY DEF Receive
<1>2. ~Closed(l) /\ Chain(l)
  BY <1>1 DEF Closed, IInv
<1>3. Head(wire[l]) = wire[l][1] /\ wire[l][1] \in Messages /\ 1 \in 1 .. Len(wire[l])
  BY <1>1 DEF IInv, TypeOK
<1>4. Follows(Head(wire[l]), seen[l])
  BY <1>2, <1>3 DEF Chain
<1> QED  BY <1>1, <1>2, <1>3, <1>4 DEF Receive, Show, Follows

LEMMA ReceiveKeeps == ASSUME IInv, NEW l \in Listeners, Receive(l) PROVE IInv'
<1> DEFINE u == Head(wire[l])
           t == Tail(wire[l])
<1>1. /\ ~Closed(l) /\ Chain(l) /\ wire[l] # <<>> /\ u = wire[l][1] /\ u \in Messages
      /\ cli' = [cli EXCEPT ![l] = "live"] /\ seen' = [seen EXCEPT ![l] = u.version]
  BY NextFollows
<1>2. /\ wire' = [wire EXCEPT ![l] = t] /\ cli[l] \in {"connecting", "live"}
      /\ UNCHANGED <<world, stream, ref, servers>>
  BY DEF Receive
<1>3. u.version \in Nat
  BY <1>1 DEF Messages
<1>4. view' \in [Listeners -> Inventories]
  <2>1. view \in [Listeners -> Inventories]
    BY DEF IInv, TypeOK
  <2>2. CASE u.type = "snapshot" /\ Show(l, u.version, u.items)
    <3>1. u.items \in Inventories
      BY <1>1, <2>2 DEF Messages
    <3> QED  BY <2>1, <2>2, <3>1 DEF Show
  <2>3. CASE u.type = "patch" /\ Show(l, u.version, Patched(view[l], u))
    <3>1. u.upsert \in Inventories
      BY <1>1, <2>3 DEF Messages
    <3>2. Patched(view[l], u) \in Inventories
      BY <2>1, <3>1 DEF Patched, Inventories
    <3> QED  BY <2>1, <2>3, <3>2 DEF Show
  <2> QED  BY <1>1, <2>1, <2>2, <2>3 DEF Receive
<1> HIDE DEF u
<1>5. /\ wire[l] \in Seq(Messages) /\ Len(wire[l]) \in Nat \ {0}
      /\ t \in Seq(Messages) /\ Len(t) = Len(wire[l]) - 1
      /\ \A i \in 1 .. Len(wire[l]) - 1 : t[i] = wire[l][i + 1]
  <2>1. wire[l] \in Seq(Messages)
    BY DEF IInv, TypeOK
  <2> QED  BY <1>1, <2>1
<1> HIDE DEF t
<1>6. /\ wire' \in [Listeners -> Seq(Messages)] /\ wire'[l] = t
      /\ cli' \in [Listeners -> {"off", "connecting", "live", "gap", "quit"}] /\ cli'[l] = "live"
      /\ seen' \in [Listeners -> Nat] /\ seen'[l] = u.version
      /\ \A k \in Listeners : k # l => wire'[k] = wire[k] /\ cli'[k] = cli[k] /\ seen'[k] = seen[k]
  <2>1. /\ wire \in [Listeners -> Seq(Messages)] /\ seen \in [Listeners -> Nat]
        /\ cli \in [Listeners -> {"off", "connecting", "live", "gap", "quit"}]
    BY DEF IInv, TypeOK
  <2>2. wire' \in [Listeners -> Seq(Messages)] /\ wire'[l] = t
        /\ \A k \in Listeners : k # l => wire'[k] = wire[k]
    BY <1>2, <1>5, <2>1
  <2> QED  BY <1>1, <1>3, <2>1, <2>2
<1>7. TypeOK'
  <2>1. \A k \in Listeners : Len(channel'[k]) <= 1 /\ Len(wire'[k]) <= WireCap
    BY <1>2, <1>5, <1>6 DEF IInv, TypeOK, stream
  <2> QED  BY <1>2, <1>4, <1>6, <2>1 DEF IInv, TypeOK, world, stream, servers
<1>8. Connection(l)'
  <2>1. Connection(l)
    BY DEF IInv
  <2> QED  BY <1>1, <1>2, <1>6, <2>1 DEF Connection, stream, servers
<1>9. Chain(l)'
  <2>1. Sent(l)' = Sent(l)
    <3>0. Sent(l) = wire[l][Len(wire[l])].version
      BY <1>1 DEF Sent
    <3>1. CASE Len(wire[l]) = 1
      <4>1. wire'[l] = <<>>
        BY <1>5, <1>6, <3>1, EmptySeq
      <4> QED  BY <1>1, <1>6, <3>0, <3>1, <4>1 DEF Sent
    <3>2. CASE Len(wire[l]) > 1
      <4>1. wire'[l] # <<>> /\ Len(wire'[l]) = Len(wire[l]) - 1
        BY <1>5, <1>6, <3>2, EmptySeq
      <4>2. Len(wire[l]) - 1 \in 1 .. Len(wire[l]) - 1 /\ (Len(wire[l]) - 1) + 1 = Len(wire[l])
        BY <1>5, <3>2
      <4>3. wire'[l][Len(wire[l]) - 1] = wire[l][Len(wire[l])]
        BY <1>5, <1>6, <4>2
      <4> QED  BY <3>0, <4>1, <4>3 DEF Sent
    <3>3. \A n \in Nat \ {0} : n = 1 \/ n > 1
      OBVIOUS
    <3>4. Len(wire[l]) = 1 \/ Len(wire[l]) > 1
      BY <1>5, <3>3, Zenon
    <3> QED  BY <3>1, <3>2, <3>4
  <2>2. Written(l)' = Written(l) /\ Queued(l)' = Queued(l)
    BY <1>2, <2>1 DEF Written, Queued, stream, servers
  <2>3. ASSUME NEW i \in 1 .. Len(wire'[l])
        PROVE  Follows(wire'[l][i], IF i = 1 THEN seen'[l] ELSE wire'[l][i - 1].version)
    <3>1. i + 1 \in 1 .. Len(wire[l]) /\ i \in 1 .. Len(wire[l]) - 1 /\ i + 1 # 1
      BY <1>5, <1>6
    <3>2. Follows(wire[l][i + 1], wire[l][i].version)
      <4>1. Follows(wire[l][i + 1], IF i + 1 = 1 THEN seen[l] ELSE wire[l][(i + 1) - 1].version)
        BY <1>1, <3>1 DEF Chain
      <4> QED  BY <3>1, <4>1
    <3>3. wire'[l][i] = wire[l][i + 1]
      BY <1>5, <1>6, <3>1
    <3>4. CASE i = 1
      BY <1>1, <1>6, <3>2, <3>3, <3>4
    <3>5. CASE i # 1
      <4>1. wire'[l][i - 1] = wire[l][i]
        <5>1. i - 1 \in 1 .. Len(wire[l]) - 1 /\ (i - 1) + 1 = i
          BY <3>1, <3>5
        <5> QED  BY <1>5, <1>6, <5>1
      <4> QED  BY <3>2, <3>3, <3>5, <4>1
    <3> QED  BY <3>4, <3>5
  <2>4. (Behind(l)' <=> Behind(l)) /\ (Replacing(l)' <=> Replacing(l))
    BY <1>2 DEF Behind, Replacing, stream
  <2> QED  BY <1>1, <1>2, <2>1, <2>2, <2>3, <2>4 DEF Chain, Follows, stream, servers
<1>10. /\ \A r \in Refreshers : Locking(r)'
       /\ \A k \in Listeners : Connection(k)' /\ (~Closed(k)' => Chain(k)')
  BY <1>2, <1>6, <1>8, <1>9, ListenerKeeps DEF Still, stream, servers
<1> QED  BY <1>7, <1>10 DEF IInv

LEMMA QuitKeeps == ASSUME IInv, NEW l \in Listeners, Quit(l) PROVE IInv'
<1>1. /\ cli[l] \in {"connecting", "live"} /\ cli' = [cli EXCEPT ![l] = "quit"]
      /\ wire' = [wire EXCEPT ![l] = <<>>]
      /\ UNCHANGED <<world, stream, ref, servers, seen, view>>
  BY DEF Quit
<1>2. /\ cli' \in [Listeners -> {"off", "connecting", "live", "gap", "quit"}] /\ cli'[l] = "quit"
      /\ wire' \in [Listeners -> Seq(Messages)] /\ wire'[l] = <<>>
      /\ \A k \in Listeners : k # l => wire'[k] = wire[k] /\ cli'[k] = cli[k]
  BY <1>1 DEF IInv, TypeOK
<1>3. TypeOK'
  <2>1. \A k \in Listeners : Len(channel'[k]) <= 1 /\ Len(wire'[k]) <= WireCap
    BY <1>1, <1>2 DEF IInv, TypeOK, stream
  <2> QED  BY <1>1, <1>2, <2>1 DEF IInv, TypeOK, world, stream, servers
<1>4. Connection(l)' /\ Closed(l)'
  BY <1>1, <1>2 DEF IInv, Connection, Closed, stream, servers
<1>5. /\ \A r \in Refreshers : Locking(r)'
      /\ \A k \in Listeners : Connection(k)' /\ (~Closed(k)' => Chain(k)')
  BY <1>1, <1>2, <1>4, ListenerKeeps DEF Still, stream, servers
<1> QED  BY <1>3, <1>5 DEF IInv

-----------------------------------------------------------------------------
(* The theorems.                                                           *)

LEMMA InitIInv == Init => IInv
<1> SUFFICES ASSUME Init PROVE IInv
  OBVIOUS
<1>1. TypeOK
  <2>1. status \in Read /\ label \in [Names -> Labels] /\ items \in Inventories
    <3>1. status \in Read /\ label \in [Names -> Labels]
      BY DEF Init, Read
    <3> QED  BY <3>1, CombinedType DEF Init, World
  <2>2. ref \in [Refreshers -> Refreshes]
    BY RestingType DEF Init
  <2>3. Empty \in Inventories
    BY DEF Empty, Inventories
  <2>4. \A r \in Refreshers : ref[r].at = "idle"
    BY RestingType DEF Init
  <2>5. \A l \in Listeners : Len(channel[l]) <= 1 /\ Len(wire[l]) <= WireCap
    BY DEF Init
  <2> QED  BY <2>1, <2>2, <2>3, <2>4, <2>5 DEF Init, TypeOK
<1>2. \A r \in Refreshers : Locking(r)
  <2>1. \A r \in Refreshers : ref[r].at = "idle" /\ lock # r
    BY RestingType DEF Init
  <2> QED  BY <2>1 DEF Init, Locking, Publishing
<1>3. \A l \in Listeners : Connection(l) /\ Chain(l)
  BY DEF Init, Connection, Chain
<1> QED  BY <1>1, <1>2, <1>3 DEF IInv

LEMMA NextIInv == IInv /\ [Next]_vars => IInv'
<1> SUFFICES ASSUME IInv, [Next]_vars PROVE IInv'
  OBVIOUS
<1>1. CASE UNCHANGED vars
  <2>1. TypeOK'
    BY <1>1 DEF IInv, TypeOK, vars, world, stream, servers, clients
  <2>2. \A r \in Refreshers : Locking(r)'
    BY <1>1 DEF IInv, Locking, Publishing, vars, stream, servers
  <2>3. ASSUME NEW l \in Listeners PROVE Connection(l)' /\ (~Closed(l)' => Chain(l)')
    <3>1. Connection(l)' /\ (Closed(l)' <=> Closed(l)) /\ Still(l)
      BY <1>1 DEF IInv, Connection, Closed, Still, vars, stream, servers, clients
    <3>2. (Behind(l)' <=> Behind(l)) /\ (Replacing(l)' <=> Replacing(l))
      BY <1>1 DEF Behind, Replacing, vars, stream
    <3>3. Chain(l) => Chain(l)'
      BY <1>1, <3>1, <3>2, ChainKept DEF vars, stream, servers
    <3> QED  BY <3>1, <3>3 DEF IInv
  <2> QED  BY <2>1, <2>2, <2>3 DEF IInv
<1>2. CASE \E n \in Names : StatusChanges(n) \/ LabelChanges(n)
  BY <1>2, WorldKeeps
<1>3. CASE Tick
  BY <1>3, TickKeeps
<1>4. ASSUME NEW r \in Refreshers, refreshInventory(r) PROVE IInv'
  BY <1>4, ReadStatusKeeps, ReadCatalogKeeps, UnchangedKeeps, PublishKeeps, DrainKeeps,
     ReplaceKeeps, OfferKeeps, FullKeeps DEF refreshInventory
<1>5. ASSUME NEW l \in Listeners, Accept(l) \/ handleListen(l) \/ Receive(l) \/ Quit(l) PROVE IInv'
  BY <1>5, AcceptKeeps, RegisterKeeps, TakeUpdateKeeps, WriteKeeps, DisconnectedKeeps,
     LeaveKeeps, ReceiveKeeps, QuitKeeps DEF handleListen
<1> QED  BY <1>1, <1>2, <1>3, <1>4, <1>5 DEF Next

\* One refresher publishes at a time, what it offers leads to the published
\* version, and what waits for a listener, in its channel, at its server and in
\* the pipe, is a chain of updates from the version its client has to that one.
THEOREM Invariance == Spec => []IInv
<1> QED  BY InitIInv, NextIInv, PTL DEF Spec

\* No client meets a patch for a version it does not have, however slowly it
\* reads and whenever it subscribed: the snapshot that replaces a queued update
\* and the patches before and after it fit together.
THEOREM NoUpdateGapHolds == Spec => []NoUpdateGap
<1>1. Init => NoUpdateGap
  BY DEF Init, NoUpdateGap
<1>2. IInv /\ NoUpdateGap /\ [Next]_vars => NoUpdateGap'
  <2> SUFFICES ASSUME IInv, NoUpdateGap, [Next]_vars, NEW l \in Listeners PROVE cli'[l] # "gap"
    BY DEF NoUpdateGap
  <2>1. cli[l] # "gap" /\ cli \in [Listeners -> {"off", "connecting", "live", "gap", "quit"}]
    BY DEF NoUpdateGap, IInv, TypeOK
  <2>2. ASSUME NEW k \in Listeners, Receive(k) PROVE cli'[l] # "gap"
    BY <2>1, <2>2, NextFollows
  <2>3. ASSUME NEW k \in Listeners, Accept(k) \/ Quit(k) PROVE cli'[l] # "gap"
    BY <2>1, <2>3 DEF Accept, Quit
  <2>4. ASSUME NEW k \in Listeners, handleListen(k) PROVE cli'[l] # "gap"
    BY <2>1, <2>4 DEF handleListen, Register, TakeUpdate, Write, Disconnected, Leave, clients
  <2>5. ASSUME NEW r \in Refreshers, refreshInventory(r) PROVE cli'[l] # "gap"
    BY <2>1, <2>5 DEF refreshInventory, ReadStatus, ReadCatalog, Unchanged, Publish, Drain,
       Replace, Offer, Full, Send, clients
  <2>6. CASE Tick \/ (\E n \in Names : StatusChanges(n) \/ LabelChanges(n)) \/ UNCHANGED vars
    BY <2>1, <2>6 DEF Tick, StatusChanges, LabelChanges, vars, clients
  <2> QED  BY <2>2, <2>3, <2>4, <2>5, <2>6 DEF Next
<1> QED  BY <1>1, <1>2, Invariance, PTL DEF Spec

\* refreshInventory never waits for a listener while it holds the stream's lock:
\* the channel it drained is still empty when it sends the replacement.
THEOREM SendNeverBlocksHolds == Spec => []SendNeverBlocks
<1>1. IInv => SendNeverBlocks
  BY DEF IInv, Locking, SendNeverBlocks
<1> QED  BY <1>1, Invariance, PTL

-----------------------------------------------------------------------------
(* What the client shows.  pub[v] stands for the items published as version v: *)
(* every message on its way tells what they were.                          *)

Tells(u, pub) ==
    /\ u.version \in 0 .. version
    /\ u.type = "snapshot" => u.items = pub[u.version]
    /\ u.type = "patch" => u.base \in 0 .. version /\ Patched(pub[u.base], u) = pub[u.version]

Carries(l, u) ==
    \/ \E i \in 1 .. Len(wire[l]) : u = wire[l][i]
    \/ \E i \in 1 .. Len(channel[l]) : u = channel[l][i]
    \/ srv[l] = "write" /\ u = out[l]

Offers(r, u) == Publishing(r) /\ u = ref[r].update

Carried(u) == (\E l \in Listeners : Carries(l, u)) \/ (\E r \in Refreshers : Offers(r, u))

History(pub) ==
    /\ pub[version] = items
    /\ \A l \in Listeners : seen[l] \in 0 .. version /\ view[l] = pub[seen[l]]
    /\ \A u \in Messages : Carried(u) => Tells(u, pub)

HInv == \E pub \in [Nat -> Inventories] : History(pub)

\* A patch leads from the old items to the new ones.
LEMMA PatchLeads ==
    ASSUME NEW old \in Inventories, NEW new \in Inventories, NEW v
    PROVE  Patched(old, diffInventory(v, old, new)) = new
<1> DEFINE u == diffInventory(v, old, new)
<1>1. /\ u.upsert = [n \in Names |-> IF new[n] # old[n] THEN new[n] ELSE Nil]
      /\ u.removed = {n \in Names : old[n] # Nil /\ new[n] = Nil}
  BY DEF diffInventory
<1> HIDE DEF u
<1>2. \A n \in Names : Patched(old, u)[n] = new[n]
  BY <1>1 DEF Patched
<1>3. Patched(old, u) = [n \in Names |-> new[n]]
  BY <1>2 DEF Patched
<1>4. new = [n \in Names |-> new[n]]
  BY DEF Inventories
<1> QED  BY <1>3, <1>4 DEF u

\* A step that publishes nothing and shows nothing: messages only move, or are
\* snapshots of the published items.
LEMMA MovesKeep ==
    ASSUME IInv, HInv, UNCHANGED <<version, items, seen, view>>,
           \A u \in Messages : Carried(u)' => Carried(u) \/ u = Snapshot(version, items)
    PROVE  HInv'
<1>1. PICK pub \in [Nat -> Inventories] : History(pub)
  BY DEF HInv
<1>2. version \in Nat
  BY DEF IInv, TypeOK
<1>3. Tells(Snapshot(version, items), pub)
  BY <1>1, <1>2 DEF Tells, Snapshot, History
<1>4. ASSUME NEW u \in Messages, Carried(u)' PROVE Tells(u, pub)'
  <2>1. Tells(u, pub)
    BY <1>1, <1>3, <1>4 DEF History
  <2> QED  BY <2>1 DEF Tells
<1>5. History(pub)'
  BY <1>1, <1>4 DEF History
<1> QED  BY <1>5 DEF HInv

\* Messages stay where they are or are thrown away.
LEMMA FewerKeep ==
    ASSUME IInv, HInv, UNCHANGED <<version, items, seen, view>>,
           \A l \in Listeners : /\ wire'[l] = wire[l] \/ wire'[l] = <<>>
                                /\ channel'[l] = channel[l] \/ channel'[l] = <<>>
                                /\ srv'[l] = "write" => srv[l] = "write" /\ out'[l] = out[l],
           \A r \in Refreshers : Publishing(r)' => Publishing(r) /\ ref'[r].update = ref[r].update
    PROVE  HInv'
<1>1. ASSUME NEW u \in Messages, Carried(u)' PROVE Carried(u)
  <2>1. ASSUME NEW l \in Listeners, Carries(l, u)' PROVE Carries(l, u)
    BY <2>1 DEF Carries
  <2>2. ASSUME NEW r \in Refreshers, Offers(r, u)' PROVE Offers(r, u)
    BY <2>2 DEF Offers
  <2> QED  BY <1>1, <2>1, <2>2 DEF Carried
<1> QED  BY <1>1, MovesKeep

\* A refresher that neither publishes nor sends.
LEMMA RefresherQuiet ==
    ASSUME IInv, HInv, NEW r \in Refreshers, NEW f, Step(r, f), UNCHANGED <<stream, out, wire, seen, view>>,
           \A l \in Listeners : srv'[l] = "write" => srv[l] = "write",
           f.at \in {"offer", "drain", "replace"} => Publishing(r) /\ f.update = ref[r].update
    PROVE  HInv'
<1>1. \A q \in Refreshers : Publishing(q)' => Publishing(q) /\ ref'[q].update = ref[q].update
  BY DEF Step, IInv, TypeOK, Publishing
<1> QED  BY <1>1, FewerKeep DEF stream

\* Listener l is sent what is being offered, or a snapshot.
LEMMA SendTells ==
    ASSUME IInv, HInv, NEW r \in Refreshers, Publishing(r), NEW l \in Listeners, NEW u \in Messages,
           u = ref[r].update \/ u = Snapshot(version, items), Send(r, l, u)
    PROVE  HInv'
<1>1. /\ channel' = [channel EXCEPT ![l] = <<u>>]
      /\ UNCHANGED <<world, version, items, open, out, wire, clients>>
      /\ Served(r, l)
  BY DEF Send
<1>2. \A q \in Refreshers : Publishing(q)' => Publishing(q) /\ ref'[q].update = ref[q].update
  <2>1. \A q \in Refreshers : q # r => ref'[q] = ref[q]
    BY <1>1 DEF Served, Step, IInv, TypeOK
  <2>2. ref'[r].at = "idle" \/ ref'[r].update = ref[r].update
    <3>1. CASE ref[r].todo = {l}
      BY <1>1, <3>1, RestingType DEF Served, Step, IInv, TypeOK
    <3>2. CASE ref[r].todo # {l}
      <4> DEFINE f == [ref[r] EXCEPT !.at = "offer", !.todo = @ \ {l}, !.target = Nil]
      <4>1. f.update = ref[r].update
        BY DEF IInv, TypeOK, Refreshes
      <4>2. ref' = [ref EXCEPT ![r] = f]
        BY <1>1, <3>2 DEF Served, Step
      <4> HIDE DEF f
      <4> QED  BY <4>1, <4>2 DEF IInv, TypeOK
    <3> QED  BY <3>1, <3>2
  <2> QED  BY <2>1, <2>2 DEF Publishing
<1>3. \A k \in Listeners : srv'[k] = "write" => srv[k] = "write"
  BY <1>1 DEF Served, Finished, IInv, TypeOK
<1>4. channel'[l] = <<u>> /\ \A k \in Listeners : k # l => channel'[k] = channel[k]
  BY <1>1 DEF IInv, TypeOK
<1>5. Carried(u) \/ u = Snapshot(version, items)
  BY DEF Carried, Offers
<1>6. ASSUME NEW w \in Messages, Carried(w)', w # u PROVE Carried(w)
  <2>1. ASSUME NEW q \in Refreshers, Offers(q, w)' PROVE Offers(q, w)
    BY <1>2, <2>1 DEF Offers
  <2>2. ASSUME NEW k \in Listeners, Carries(k, w)' PROVE Carries(k, w)
    <3>1. CASE k = l
      <4>1. ~\E i \in 1 .. Len(channel'[k]) : w = channel'[k][i]
        BY <1>4, <1>6, <3>1
      <4> QED  BY <1>1, <1>3, <2>2, <4>1 DEF Carries
    <3>2. CASE k # l
      BY <1>1, <1>3, <1>4, <2>2, <3>2 DEF Carries
    <3> QED  BY <3>1, <3>2
  <2> QED  BY <1>6, <2>1, <2>2 DEF Carried
<1> QED  BY <1>1, <1>5, <1>6, MovesKeep DEF clients

LEMMA RegisterTells == ASSUME IInv, HInv, NEW l \in Listeners, Register(l) PROVE HInv'
<1> DEFINE u == Snapshot(version, items)
<1>1. /\ out' = [out EXCEPT ![l] = u] /\ srv' = [srv EXCEPT ![l] = "write"]
      /\ UNCHANGED <<version, items, channel, ref, wire, clients>>
  BY DEF Register, Serve
<1>2. ASSUME NEW w \in Messages, Carried(w)', w # u PROVE Carried(w)
  <2>1. ASSUME NEW k \in Listeners, Carries(k, w)' PROVE Carries(k, w)
    <3>1. CASE k = l
      BY <1>1, <1>2, <2>1, <3>1 DEF Carries, IInv, TypeOK
    <3>2. CASE k # l
      BY <1>1, <2>1, <3>2 DEF Carries, IInv, TypeOK
    <3> QED  BY <3>1, <3>2
  <2>2. ASSUME NEW q \in Refreshers, Offers(q, w)' PROVE Offers(q, w)
    BY <1>1, <2>2 DEF Offers, Publishing
  <2> QED  BY <1>2, <2>1, <2>2 DEF Carried
<1> QED  BY <1>1, <1>2, MovesKeep DEF clients

LEMMA TakeUpdateTells == ASSUME IInv, HInv, NEW l \in Listeners, TakeUpdate(l) PROVE HInv'
<1>1. /\ channel[l] # <<>> /\ out' = [out EXCEPT ![l] = Head(channel[l])]
      /\ srv' = [srv EXCEPT ![l] = "write"] /\ channel' = [channel EXCEPT ![l] = <<>>]
      /\ UNCHANGED <<version, items, ref, wire, clients>>
  BY DEF TakeUpdate, Serve
<1>2. Head(channel[l]) = channel[l][1] /\ 1 \in 1 .. Len(channel[l])
  BY <1>1 DEF IInv, TypeOK
<1>3. /\ out'[l] = channel[l][1] /\ channel'[l] = <<>>
      /\ \A k \in Listeners :
            k # l => out'[k] = out[k] /\ srv'[k] = srv[k] /\ channel'[k] = channel[k]
  BY <1>1, <1>2 DEF IInv, TypeOK
<1>4. ASSUME NEW w \in Messages, Carried(w)' PROVE Carried(w)
  <2>1. ASSUME NEW k \in Listeners, Carries(k, w)' PROVE Carries(k, w)
    <3>1. CASE k = l
      BY <1>1, <1>2, <1>3, <2>1, <3>1 DEF Carries
    <3>2. CASE k # l
      BY <1>1, <1>3, <2>1, <3>2 DEF Carries
    <3> QED  BY <3>1, <3>2
  <2>2. ASSUME NEW q \in Refreshers, Offers(q, w)' PROVE Offers(q, w)
    BY <1>1, <2>2 DEF Offers, Publishing
  <2> QED  BY <1>4, <2>1, <2>2 DEF Carried
<1> QED  BY <1>1, <1>4, MovesKeep DEF clients

LEMMA WriteTells == ASSUME IInv, HInv, NEW l \in Listeners, Write(l) PROVE HInv'
<1>1. /\ srv[l] = "write" /\ UNCHANGED <<stream, ref, clients>>
      /\ \/ srv' = [srv EXCEPT ![l] = "loop"] /\ wire' = [wire EXCEPT ![l] = Append(wire[l], out[l])]
         \/ srv' = [srv EXCEPT ![l] = "leave"] /\ wire' = wire
      /\ out' = [out EXCEPT ![l] = Nil]
  BY DEF Write, Serve
<1>2. out[l] \in Messages /\ wire[l] \in Seq(Messages)
  BY <1>1 DEF IInv, TypeOK, Connection
<1>3. /\ srv'[l] # "write" /\ wire'[l] \in {wire[l], Append(wire[l], out[l])}
      /\ \A k \in Listeners :
            k # l => out'[k] = out[k] /\ srv'[k] = srv[k] /\ wire'[k] = wire[k]
  <2>1. /\ out \in [Listeners -> Messages \cup {Nil}] /\ wire \in [Listeners -> Seq(Messages)]
        /\ srv \in [Listeners -> {"none", "refresh", "register", "write", "loop", "leave", "gone"}]
    BY DEF IInv, TypeOK
  <2> QED  BY <1>1, <2>1
<1>4. ASSUME NEW w \in Messages, Carried(w)' PROVE Carried(w)
  <2>1. ASSUME NEW k \in Listeners, Carries(k, w)' PROVE Carries(k, w)
    <3>1. CASE k = l
      <4>1. ASSUME NEW i \in 1 .. Len(wire'[l]), w = wire'[l][i]
            PROVE  w = out[l] \/ \E j \in 1 .. Len(wire[l]) : w = wire[l][j]
        <5>1. CASE wire'[l] = wire[l]
          BY <4>1, <5>1
        <5>2. CASE wire'[l] = Append(wire[l], out[l])
          <6>1. CASE i \in 1 .. Len(wire[l])
            BY <1>2, <4>1, <5>2, <6>1
          <6>2. CASE i = Len(wire[l]) + 1
            BY <1>2, <4>1, <5>2, <6>2
          <6> QED  BY <1>2, <5>2, <6>1, <6>2
        <5> QED  BY <1>3, <5>1, <5>2
      <4>2. channel'[l] = channel[l]
        BY <1>1 DEF stream
      <4> QED  BY <1>1, <1>3, <2>1, <3>1, <4>1, <4>2 DEF Carries
    <3>2. CASE k # l
      BY <1>1, <1>3, <2>1, <3>2 DEF Carries, stream
    <3> QED  BY <3>1, <3>2
  <2>2. ASSUME NEW q \in Refreshers, Offers(q, w)' PROVE Offers(q, w)
    BY <1>1, <2>2 DEF Offers, Publishing
  <2> QED  BY <1>4, <2>1, <2>2 DEF Carried
<1> QED  BY <1>1, <1>4, MovesKeep DEF stream, clients

LEMMA ReceiveTells == ASSUME IInv, HInv, NEW l \in Listeners, Receive(l) PROVE HInv'
<1> DEFINE u == Head(wire[l])
           t == Tail(wire[l])
<1>1. /\ wire[l] # <<>> /\ u = wire[l][1] /\ u \in Messages
      /\ cli' = [cli EXCEPT ![l] = "live"] /\ seen' = [seen EXCEPT ![l] = u.version]
  BY NextFollows
<1>2. wire' = [wire EXCEPT ![l] = t] /\ UNCHANGED <<stream, ref, servers>>
  BY DEF Receive
<1>3. /\ Len(wire[l]) \in Nat \ {0} /\ Len(t) = Len(wire[l]) - 1
      /\ \A i \in 1 .. Len(wire[l]) - 1 : t[i] = wire[l][i + 1]
  BY <1>1 DEF IInv, TypeOK
<1>4. \/ u.type = "snapshot" /\ view' = [view EXCEPT ![l] = u.items]
      \/ u.type = "patch" /\ u.base = seen[l] /\ view' = [view EXCEPT ![l] = Patched(view[l], u)]
  <2>1. cli'[l] = "live"
    BY <1>1 DEF IInv, TypeOK
  <2>2. cli' # [cli EXCEPT ![l] = "gap"]
    BY <2>1 DEF IInv, TypeOK
  <2> QED  BY <2>2 DEF Receive, Show
<1> HIDE DEF u, t
<1>5. PICK pub \in [Nat -> Inventories] : History(pub)
  BY DEF HInv
<1>6. Tells(u, pub)
  <2>1. Carried(u)
    <3>1. 1 \in 1 .. Len(wire[l])
      BY <1>3
    <3> QED  BY <1>1, <3>1 DEF Carried, Carries
  <2> QED  BY <1>1, <1>5, <2>1 DEF History
<1>7. \A k \in Listeners : k # l => wire'[k] = wire[k]
  BY <1>2 DEF IInv, TypeOK
<1>8. ASSUME NEW w \in Messages, Carried(w)' PROVE Carried(w)
  <2>1. ASSUME NEW k \in Listeners, Carries(k, w)' PROVE Carries(k, w)
    <3>1. CASE k = l
      <4>1. ASSUME NEW i \in 1 .. Len(wire'[l]), w = wire'[l][i]
            PROVE  \E j \in 1 .. Len(wire[l]) : w = wire[l][j]
        <5>1. wire'[l] = t
          BY <1>2 DEF IInv, TypeOK
        <5>2. i \in 1 .. Len(wire[l]) - 1 /\ i + 1 \in 1 .. Len(wire[l])
          BY <1>3, <4>1, <5>1
        <5>3. w = wire[l][i + 1]
          BY <1>3, <4>1, <5>1, <5>2
        <5> QED  BY <5>2, <5>3
      <4> QED  BY <1>2, <2>1, <3>1, <4>1 DEF Carries, stream, servers
    <3>2. CASE k # l
      BY <1>2, <1>7, <2>1, <3>2 DEF Carries, stream, servers
    <3> QED  BY <3>1, <3>2
  <2>2. ASSUME NEW q \in Refreshers, Offers(q, w)' PROVE Offers(q, w)
    BY <1>2, <2>2 DEF Offers, Publishing
  <2> QED  BY <1>8, <2>1, <2>2 DEF Carried
<1>9. seen'[l] \in 0 .. version /\ view'[l] = pub[seen'[l]]
  <2>1. seen'[l] = u.version
    BY <1>1 DEF IInv, TypeOK
  <2>2. CASE u.type = "snapshot" /\ view' = [view EXCEPT ![l] = u.items]
    BY <1>6, <2>1, <2>2 DEF Tells, IInv, TypeOK
  <2>3. CASE u.type = "patch" /\ u.base = seen[l] /\ view' = [view EXCEPT ![l] = Patched(view[l], u)]
    <3>1. view'[l] = Patched(view[l], u) /\ view[l] = pub[u.base]
      BY <1>5, <2>3 DEF History, IInv, TypeOK
    <3> QED  BY <1>6, <2>1, <2>3, <3>1 DEF Tells
  <2> QED  BY <1>4, <2>2, <2>3
<1>10. \A k \in Listeners : k # l => seen'[k] = seen[k] /\ view'[k] = view[k]
  BY <1>1, <1>4 DEF IInv, TypeOK
<1>11. History(pub)'
  <2>1. version' = version /\ items' = items
    BY <1>2 DEF stream
  <2>2. \A k \in Listeners : seen'[k] \in 0 .. version' /\ view'[k] = pub[seen'[k]]
    BY <1>5, <1>9, <1>10, <2>1 DEF History
  <2>3. ASSUME NEW w \in Messages, Carried(w)' PROVE Tells(w, pub)'
    BY <1>5, <1>8, <2>1, <2>3 DEF History, Tells
  <2> QED  BY <1>5, <2>1, <2>2, <2>3 DEF History
<1> QED  BY <1>11 DEF HInv

\* What is published becomes the items of the new version.
LEMMA PublishTells == ASSUME IInv, HInv, NEW r \in Refreshers, Publish(r) PROVE HInv'
<1>1. /\ ref[r].at = "publish" /\ lock = Nil /\ version' = version + 1 /\ items' = ref[r].got
      /\ UNCHANGED <<world, open, channel, out, wire, clients>>
  BY DEF Publish
<1>2. version \in Nat /\ items \in Inventories /\ items' \in Inventories
  BY <1>1 DEF IInv, TypeOK
<1>3. PICK pub \in [Nat -> Inventories] : History(pub)
  BY DEF HInv
<1>4. PICK next \in [Nat -> Inventories] :
         next[version + 1] = items' /\ \A v \in 0 .. version : next[v] = pub[v]
  <2> DEFINE longer == [pub EXCEPT ![version + 1] = items']
  <2>1. /\ longer \in [Nat -> Inventories] /\ longer[version + 1] = items'
        /\ \A v \in 0 .. version : longer[v] = pub[v]
    BY <1>2, <1>3
  <2> HIDE DEF longer
  <2> QED  BY <2>1
<1>5. ASSUME NEW w, Tells(w, pub) PROVE Tells(w, next)'
  BY <1>1, <1>2, <1>4, <1>5 DEF Tells
<1>6. ASSUME NEW w \in Updates(version, items, items') PROVE Tells(w, next)'
  <2>1. CASE w = Snapshot(version + 1, items')
    BY <1>1, <1>2, <1>4, <2>1 DEF Tells, Snapshot
  <2>2. CASE w = diffInventory(version, items, items')
    <3>1. w.type = "patch" /\ w.base = version /\ w.version = version + 1
      BY <2>2 DEF diffInventory
    <3>2. Patched(next[version], w) = next[version + 1]
      BY <1>2, <1>3, <1>4, <2>2, PatchLeads DEF History
    <3> QED  BY <1>1, <1>2, <3>1, <3>2 DEF Tells
  <2> QED  BY <1>6, <2>1, <2>2 DEF Updates
<1>7. ASSUME NEW q \in Refreshers, Publishing(q)' PROVE ref'[q].update \in Updates(version, items, items')
  <2>1. ~Publishing(q)
    BY <1>1 DEF IInv, Locking
  <2>2. CASE open = {}
    <3>1. Step(r, Resting)
      BY <2>2 DEF Publish
    <3> QED  BY <1>7, <2>1, <3>1, RestingType DEF Step, Publishing, IInv, TypeOK
  <2>3. CASE open # {}
    <3>1. PICK u \in Updates(version, items, ref[r].got) :
             Step(r, [Resting EXCEPT !.at = "offer", !.todo = open, !.update = u])
      BY <2>3 DEF Publish
    <3> DEFINE f == [Resting EXCEPT !.at = "offer", !.todo = open, !.update = u]
    <3>2. f.update = u
      BY DEF Resting
    <3>3. ref' = [ref EXCEPT ![r] = f]
      BY <3>1 DEF Step
    <3> HIDE DEF f
    <3>4. q = r
      BY <1>7, <2>1, <3>3 DEF Publishing, IInv, TypeOK
    <3> QED  BY <1>1, <3>1, <3>2, <3>3, <3>4 DEF IInv, TypeOK
  <2> QED  BY <2>2, <2>3
<1>8. ASSUME NEW w \in Messages, Carried(w)' PROVE Tells(w, next)'
  <2>1. ASSUME NEW q \in Refreshers, Offers(q, w)' PROVE Tells(w, next)'
    BY <1>6, <1>7, <2>1 DEF Offers
  <2>2. ASSUME NEW l \in Listeners, Carries(l, w)' PROVE Tells(w, next)'
    <3>1. srv'[l] = "write" => srv[l] = "write"
      BY DEF Publish, Finished, IInv, TypeOK
    <3>2. Carries(l, w)
      BY <1>1, <2>2, <3>1 DEF Carries
    <3> QED  BY <1>3, <1>5, <3>2 DEF History, Carried
  <2> QED  BY <1>8, <2>1, <2>2 DEF Carried
<1>9. \A l \in Listeners : seen'[l] \in 0 .. version' /\ view'[l] = next[seen'[l]]
  BY <1>1, <1>2, <1>3, <1>4 DEF History, clients
<1>10. History(next)'
  BY <1>1, <1>4, <1>8, <1>9 DEF History
<1> QED  BY <1>4, <1>10 DEF HInv

LEMMA BeginningQuiet ==
    ASSUME IInv, NEW b \in Refreshers, BeginRefresh(b), NEW r \in Refreshers, Publishing(r)'
    PROVE  Publishing(r) /\ ref'[r].update = ref[r].update
<1> DEFINE f == [Resting EXCEPT !.at = "list", !.left = Names]
<1>1. f.at = "list" /\ ref' = [ref EXCEPT ![b] = f]
  BY DEF Resting, BeginRefresh, Step
<1> HIDE DEF f
<1> QED  BY <1>1 DEF Publishing, IInv, TypeOK

LEMMA InitHInv == Init => HInv
<1> SUFFICES ASSUME Init PROVE HInv
  OBVIOUS
<1> DEFINE pub == [v \in Nat |-> IF v = 1 THEN items ELSE Empty]
<1>1. pub \in [Nat -> Inventories] /\ pub[1] = items /\ pub[0] = Empty
  <2>1. items \in Inventories /\ Empty \in Inventories
    BY InitIInv DEF IInv, TypeOK, Empty, Inventories
  <2> QED  BY <2>1
<1> HIDE DEF pub
<1>2. \A u : ~Carried(u)
  <2>1. \A r \in Refreshers : ~Publishing(r)
    BY RestingType DEF Init, Publishing
  <2> QED  BY <2>1 DEF Init, Carried, Carries, Offers
<1>3. \A l \in Listeners : seen[l] \in 0 .. version /\ view[l] = pub[seen[l]]
  BY <1>1 DEF Init
<1> QED  BY <1>1, <1>2, <1>3 DEF Init, History, HInv

LEMMA NextHInv == IInv /\ HInv /\ [Next]_vars => HInv'
<1> SUFFICES ASSUME IInv, HInv, [Next]_vars PROVE HInv'
  OBVIOUS
<1>1. CASE Tick \/ (\E n \in Names : StatusChanges(n) \/ LabelChanges(n)) \/ UNCHANGED vars
  <2>1. UNCHANGED <<stream, servers, wire, clients>>
    BY <1>1 DEF Tick, StatusChanges, LabelChanges, vars
  <2>2. \A r \in Refreshers : Publishing(r)' => Publishing(r) /\ ref'[r].update = ref[r].update
    <3>1. CASE Tick
      BY <3>1, BeginningQuiet DEF Tick
    <3> QED  BY <1>1, <3>1 DEF StatusChanges, LabelChanges, vars, Publishing
  <2> QED  BY <2>1, <2>2, FewerKeep DEF stream, servers, clients
<1>2. ASSUME NEW r \in Refreshers, ReadStatus(r) \/ ReadCatalog(r) \/ Unchanged(r) PROVE HInv'
  <2>1. PICK f : Step(r, f) /\ f.at \in {"idle", "list", "catalog", "publish"}
    <3>0. ref[r] \in Refreshes
      BY DEF IInv, TypeOK
    <3>1. CASE ReadStatus(r)
      <4>1. PICK n \in ref[r].left :
               Step(r, [ref[r] EXCEPT !.got[n] = status[n], !.left = @ \ {n},
                                      !.at = IF ref[r].left = {n} THEN "catalog" ELSE "list"])
        BY <3>1 DEF ReadStatus
      <4> DEFINE f == [ref[r] EXCEPT !.got[n] = status[n], !.left = @ \ {n},
                                     !.at = IF ref[r].left = {n} THEN "catalog" ELSE "list"]
      <4>2. f.at \in {"catalog", "list"}
        BY <3>0 DEF Refreshes
      <4>3. Step(r, f)
        BY <4>1
      <4> HIDE DEF f
      <4> QED  BY <4>2, <4>3
    <3>2. CASE ReadCatalog(r)
      <4>1. PICK l : Step(r, [ref[r] EXCEPT !.at = "publish", !.got = Combined(@, l)])
        BY <3>2 DEF ReadCatalog
      <4> DEFINE f == [ref[r] EXCEPT !.at = "publish", !.got = Combined(@, l)]
      <4>2. f.at = "publish"
        BY <3>0 DEF Refreshes
      <4>3. Step(r, f)
        BY <4>1
      <4> HIDE DEF f
      <4> QED  BY <4>2, <4>3
    <3>3. CASE Unchanged(r)
      BY <3>3, RestingType DEF Unchanged
    <3> QED  BY <1>2, <3>1, <3>2, <3>3
  <2>2. UNCHANGED <<stream, out, wire, seen, view>>
    BY <1>2 DEF ReadStatus, ReadCatalog, Unchanged, stream, servers, clients
  <2>3. \A l \in Listeners : srv'[l] = "write" => srv[l] = "write"
    BY <1>2 DEF ReadStatus, ReadCatalog, Unchanged, Finished, servers, IInv, TypeOK
  <2> QED  BY <2>1, <2>2, <2>3, RefresherQuiet
<1>3. ASSUME NEW r \in Refreshers, NEW l \in Listeners, Full(r, l) PROVE HInv'
  <2> DEFINE f == [ref[r] EXCEPT !.at = "drain", !.target = l]
  <2>1. Step(r, f) /\ ref[r].at = "offer" /\ UNCHANGED <<stream, servers, wire, clients>>
    BY <1>3 DEF Full
  <2>2. f.update = ref[r].update
    BY DEF IInv, TypeOK, Refreshes
  <2> HIDE DEF f
  <2> QED  BY <2>1, <2>2, RefresherQuiet DEF Publishing, servers, clients
<1>4. ASSUME NEW r \in Refreshers, Drain(r) PROVE HInv'
  <2> DEFINE f == [ref[r] EXCEPT !.at = "replace"]
  <2>1. /\ ref' = [ref EXCEPT ![r] = f] /\ channel' = [channel EXCEPT ![ref[r].target] = <<>>]
        /\ ref[r].at = "drain" /\ UNCHANGED <<version, items, servers, wire, clients>>
    BY <1>4 DEF Drain, Step
  <2>2. f.update = ref[r].update
    BY DEF IInv, TypeOK, Refreshes
  <2> HIDE DEF f
  <2>3. \A q \in Refreshers : Publishing(q)' => Publishing(q) /\ ref'[q].update = ref[q].update
    BY <2>1, <2>2 DEF Publishing, IInv, TypeOK
  <2>4. \A l \in Listeners : channel'[l] = channel[l] \/ channel'[l] = <<>>
    BY <2>1 DEF IInv, TypeOK
  <2> QED  BY <2>1, <2>3, <2>4, FewerKeep DEF servers, clients
<1>5. ASSUME NEW r \in Refreshers, Replace(r) PROVE HInv'
  <2>1. Publishing(r) /\ ref[r].target \in Listeners
    BY <1>5 DEF Replace, Publishing, IInv, TypeOK, Locking
  <2>2. Snapshot(version, items) \in Messages
    BY DEF Snapshot, Messages, IInv, TypeOK
  <2> QED  BY <1>5, <2>1, <2>2, SendTells DEF Replace
<1>6. ASSUME NEW r \in Refreshers, NEW l \in Listeners, Offer(r, l) PROVE HInv'
  <2>1. Publishing(r) /\ ref[r].update \in Messages /\ Send(r, l, ref[r].update)
    BY <1>6 DEF Offer, Publishing, IInv, Locking
  <2> QED  BY <2>1, SendTells
<1>7. ASSUME NEW r \in Refreshers, refreshInventory(r) PROVE HInv'
  BY <1>2, <1>3, <1>4, <1>5, <1>6, <1>7, PublishTells DEF refreshInventory
<1>8. ASSUME NEW l \in Listeners, Accept(l) \/ Disconnected(l) \/ Leave(l) \/ Quit(l) PROVE HInv'
  <2>1. UNCHANGED <<version, items, seen, view, out>>
    BY <1>8 DEF Accept, Disconnected, Leave, Quit, stream, servers, clients
  <2>2. \A k \in Listeners : /\ wire'[k] = wire[k] \/ wire'[k] = <<>>
                             /\ channel'[k] = channel[k] \/ channel'[k] = <<>>
                             /\ srv'[k] = "write" => srv[k] = "write"
    BY <1>8 DEF Accept, Disconnected, Leave, Quit, Serve, stream, servers, IInv, TypeOK
  <2>3. \A r \in Refreshers : Publishing(r)' => Publishing(r) /\ ref'[r].update = ref[r].update
    <3>1. CASE Accept(l)
      BY <3>1, BeginningQuiet DEF Accept
    <3> QED  BY <1>8, <3>1 DEF Disconnected, Leave, Quit, Publishing
  <2> QED  BY <2>1, <2>2, <2>3, FewerKeep
<1>9. ASSUME NEW l \in Listeners, Accept(l) \/ handleListen(l) \/ Receive(l) \/ Quit(l) PROVE HInv'
  BY <1>8, <1>9, RegisterTells, TakeUpdateTells, WriteTells, ReceiveTells DEF handleListen
<1> QED  BY <1>1, <1>7, <1>9 DEF Next

\* What a client shows is what was published as the version it has: a client
\* that has caught up shows the published items, whatever mixture of patches and
\* snapshots brought it there.
THEOREM ViewIsPublishedHolds == Spec => []ViewIsPublished
<1>1. HInv => ViewIsPublished
  BY DEF HInv, History, ViewIsPublished
<1>2. Spec => []HInv
  BY InitHInv, NextHInv, Invariance, PTL DEF Spec
<1> QED  BY <1>1, <1>2, PTL
=============================================================================
