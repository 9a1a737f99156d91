# A formal model of angl

angl is a supervisor for long-running commands ("angls") on Windows: one daemon per user owns the
child processes, short-lived command lines talk to it over a named pipe, and `angl listen` and
`angl logs -f` follow what it does. This directory holds TLA+ modules translated from the code,
TLC configurations that check small instances of them, and TLAPS proofs of every safety property the
runs check.

Run `tlc -config MCProcessAPI.cfg MCProcessAPI.tla`, likewise for the other configurations below,
and `tlapm ProcessAPI_proofs.tla`, likewise for the other `_proofs` modules. `PROJECT.json` lists every run, the lines each
definition stands for, the hazards, the findings and the theorems.

## 1. Inventory of the system

| Component (source) | State | Operations | Modelled in |
|---|---|---|---|
| Process supervisor (`daemon/process.go`) | per angl, under `p.mu`: state, pid, restarts, generation, `cancel`/`done`, `wake`; per generation: where `runLoop` is, backoff, the child | Start, Exec, Stop, StopRunning, the steps of `runLoop`, `wait` and its deferred cleanup | Process, ProcessAPI, Lifecycle |
| Daemon registry (`daemon/daemon.go`) | `d.config`, `d.processes` under the RWMutex `d.mu` | boot, exec, stop, enable, disable, register, delete, reload; the shutdown; list and status read | Daemon; Bootstrap (boot, shutdown) |
| Configuration store (`daemon/config.go`) | `config.json` | LoadConfig, SaveConfig (write aside, then rename) | Daemon (`disk`), Bootstrap (`file`) |
| RPC server (`daemon/server.go`, `daemon/rpc.go`) | the listener on the pipe, one goroutine per connection | listen, accept, decode, dispatch, answer; `handleListen` streams | Bootstrap (the pipe), Daemon (clients), Inventory |
| Inventory stream (`daemon/listen.go`) | version, items, listeners with one-place channels, under their own mutex | refresh (every 500 ms and at each subscription), subscribe, unsubscribe, diff | Inventory |
| Listener UI (`listen.go`) | rows, cursor, selection, modal, action under way | keys, updates, RPC actions | ListenUI, Inventory (client half) |
| Log stream (`logstream/`) | per source: handle, offset, half line, prefix sample; the goroutine that merges, its channel | poll, open, drain after a rename, truncation detection, tail; Stream, cancel | LogStream, Tailer |
| Catalog (`catalog/`) | `catalog.json`: labels and views, under a file lock | Update (load, change, replace), Load, selectors, views | CatalogStore, Catalog, AtomicCatalog |
| Command line, bootstrap (`main.go`, `observe.go`) | none | find or launch a daemon, call it; label, view, query, ls, logs | Bootstrap, Catalog, Tailer |
| Log codec (`logcodec/`) | none | parse a line, render a record | left out: pure text |
| Port helper (`daemon/port.go`), argument parser (`internal/clix`) | none | netstat/taskkill; parsing | left out: pure I/O, pure text |

How they interact. A connection's goroutine calls a method of Daemon; that takes `d.mu` and calls
methods of Process, which take `p.mu`. `runLoop` goroutines only take `p.mu`. Stop captures `cancel`
and `done` under `p.mu`, calls the first and waits for the second *without* `p.mu`, but in
`StopAngl`, `Delete` and `Reload` *with* `d.mu`. The inventory stream reads the registry (`List`)
and the catalog before it takes its own mutex, and pushes to channels that `handleListen` empties
into the pipe. The follower of a log and the child that writes it share only the file system. So do
two daemons, of which only one gets the pipe, and two commands that change the catalog.

What is hard here, and the properties it calls for:

- generations overlap: an old loop's cleanup against a newer start (no second child, no orphan, no
  closed channel closed again, a Stop that returns has stopped something);
- locks are released between a decision and its effect in Enable and Disable (registry, objects and
  file agree afterwards; children stay reachable);
- requests wait for children while they hold the registry lock (every request returns);
- saves fail half-way through a request; the user edits `config.json` beside the daemon;
- a listener that is slow, or subscribes while others publish (no version is missed, the view
  becomes current);
- rows come and go under a cursor that is an index (no action hits an angl nobody pointed at);
- a log file is renamed, replaced and truncated between any two system calls of its follower
  (each byte once and in order, no spliced line), whose reader stops reading at any time (every
  goroutine ends);
- a daemon boots its angls before it knows whether it gets the pipe, and is stopped or killed with
  requests in flight (what the file enables runs, nothing enabled is lost, one copy remains);
- commands that change the catalog fail or are killed with the file lock held (every update happens
  at one moment or not at all, none is lost, the next command gets the lock).

`PROJECT.json` has the hazards one by one at their lines, those no property covers with the reason.

## 2. Modules

**Process** is the state and the steps of one object's goroutines: one action per section under
`p.mu`. A generation `g` of object `p` is a cell `pc[p][g]` that walks through `runLoop`:

`begin` (243) → `launch` (247) → `mark` (290) → `supervise` (301, the select) → `exited` →
`account` (334) → `wait` (378) → `resume` → `begin`; from `supervise` through `await` (354) and from
`wait` through `unwind` to `return`, from there by the deferred function (214) to `ended`, which is
when `done` is closed.

`handle[p]` is the generation whose `cancel` and `done` the object holds; `wake[p]` the one whose wait
owns the wake channel. `alive` is the operating system's view of the children. The environment ends
children at any time (`ChildExits`) and, with `KillMayFail`, ignores taskkill. The relation between
fields and goroutines (`LoopInv`) is stated here, since both modules that use Process rest on it.

**ProcessAPI** adds callers of Start, Exec, Stop and StopRunning in any order. A Stop is three
actions: capture, cancel, return. It states the safety, action and liveness properties of the
supervisor, the inductive invariant `IInv`, and that it refines **Lifecycle**: the abstract life of
an angl (resting, starting, running, backing off; a child is launched only where none is, and is
gone before a resting state is shown) without locks, goroutines, contexts or channels.

**Daemon** composes Process with the registry. A client is the goroutine of one request; a request
that blocks is several actions with its locals in `req[c]`. `disk` is what LoadConfig would read;
a save replaces it or fails. Objects nothing refers to any more are recycled (`Free`, `New`), so that
`Procs` bounds the objects that exist at once and not those ever made.

**Bootstrap** has several daemon processes and the commands that look for one. A daemon is a program
counter `phase` through `cmdDaemon`, `New` and `Run`: check the pipe, load the file, boot, listen,
serve, stop one object after the other, exit; it can be killed anywhere. A command dials, launches
a daemon if none answers, dials until its deadline, and has one request (Enable, the one that both
writes the registry and starts something) in the daemon it reached. `late` is what a request started
after the shutdown had stopped it; `stale` the daemons that work by a file another one has replaced.

**CatalogStore** has the catalog as a value, its updates, and selectors and queries as operators. **Catalog**
has the commands as processes: status, lock, load, replace, unlock for an update; list and read,
without the lock, for a query; each step can fail and the process can be killed before each of
them, which releases the lock. It refines **AtomicCatalog**, in which an update happens at one moment
between its call and its answer, or not at all.

**Inventory** is the ticker and the subscribing connections as refreshers, each a small program
(list → catalog → publish → offer/drain/replace), the one-place channels, the goroutine of
`handleListen`, a pipe that holds `WireCap` messages, and the client that applies snapshots and
patches.

**ListenUI** is the Bubble Tea model: names are numbers in their sorted order, the cursor and the
visual anchor are indices, the selection is a set of names, as in the code. `NoOpKey` is any key that
only draws, means nothing or finds its guard false: like the others it ends a pending `g`.

**LogStream** is a poll as the system calls it makes, with the writer between them. Bytes are
numbered in the order they are written, so that loss, repetition and splicing show in the numbers.
`consume` is the parser: its loop over the bytes is stated by the places of the newlines, the i-th line
being what is between two of them.
**Tailer** extends it by `Stream`, its goroutine `run` that asks for a poll, collects the answer and
sends the lines into a bounded channel, `runSource`'s end, and the command that takes the lines, is
interrupted, or gives up.

The modules `*_proofs` extend the module they are named after; `Process_proofs` is what the proofs of
ProcessAPI and of Daemon share.

Some actions are the environment's and stand for no line of the code: `ChildExits`, `EditConfig`, `Crash`
(a daemon is killed), `Kill` (a command is), `DaemonMoves` and `StatusChanges` (what List answers
changes), `LabelChanges`, `Append1`, `Truncate`. `PROJECT.json` maps them as external.

Definitions whose name ends in `_Something` after the name of another one are that definition with
a plausible bug; they are not part of any Next. They show that each property can be broken.

## 3. Runs

| Run | Configuration | Distinct states | What it shows |
|---|---|---|---|
| process_persistent | MCProcessAPI.cfg | 199,320 | one persistent angl, every order of Start, Exec, two Stops and the shutdown: the invariant, no orphan, honest status, fresh wake channel, backoff = 2^(failures-1), complete Stops, refinement of Lifecycle |
| process_heartbeat | MCHeartbeat.cfg | 102,616 | a heartbeat angl with a limit of 3 failures: backoff, every Stop returns, a forced exec is not lost |
| daemon_requests | MCDaemon.cfg | 1,269,364 | all requests of two clients, failing saves, an editor: the invariant, children are managed, registry, objects and file agree, Disable is complete |
| daemon_liveness | MCDaemonLiveness.cfg | 142,262 | enable, stop, delete and reload overlapping: every request returns |
| disable_exec | MCDisableExec.cfg | violation | Exec between Disable's Stop and its last write: a second copy (finding 1) |
| enable_delete | MCEnableDelete.cfg | violation | Enable starts an object that Delete has dropped (finding 2) |
| bootstrap | MCBootstrap.cfg | 466,380 | two daemons, stopped or killed at any time: what the file enables runs, nothing enabled is lost, one copy remains, commands come back |
| catalog | MCCatalog.cfg | 44,058 | two commands that fail or are killed anywhere: refinement of AtomicCatalog, no silent overwrite of a view, queries are intersections, commands come back |
| inventory | MCInventory.cfg | 555,097 | no update gap, patched view = published items, the send that has no default never blocks, views become current |
| listen_ui | MCListenUI.cfg | 33,416 | every key against every update: the cursor follows its angl, an action is sent only for rows that were on the screen when they were chosen, a confirmed Yes is never dropped |
| logstream | MCTailer.cfg | 141,323 | two rotations at any step of a poll, one truncation, polls of two bytes or one line, a channel of one event, an interrupt or a broken output at any time: the invariant, exactly once, in order, nothing spliced, every line owed arrives, Stream and its goroutines end |
| logstream_twice | MCLogStreamTwice.cfg | violation | after a truncation the file is answered again at every poll (finding 3) |

### Bounds, and why they are enough

- *Generations* (`MaxGen` 2 or 3): an old loop only meets the newest one (the cleanup compares
  `generation`); three generations let two old ones be unfinished beside a new one. The proofs
  (section 5) hold for any number.
- *Limits* (`MaxRestarts` 3, `InitialBackoff` 2, `MaxBackoff` 6 or 3): the wait is doubled, capped off a
  power of two, and the limit is reached, so that a new generation meets an old one that has not
  cleaned up yet. `RestartCap` stops the counting beyond the limit; for an angl without a limit (run
  only in daemon_liveness, proved in section 5) `RestartCapAssumption` asks that the wait has reached
  its maximum before, so that the bound changes no wait.
- *Callers* 2: one Stop inside another's window. *Clients* 2, *objects* 2, *names* 1: two requests on
  the same angl, and an object beside its successor after a delete and a register. Angls share
  nothing but the locks and the file, which one name already contends for. Only Reload visits several
  angls under one lock; that case is not run but proved (section 5), for any number of names.
- `Alone` in MCDaemon.cfg: enable, disable and reload overlap no other request there. That is a real
  restriction: without it the properties fail in the ways disable_exec and enable_delete show, and
  a reload that read the file early loses a save, and an enable that overlaps a disable leaves the
  object with the other intent than the file. The violation runs lift it for the pair in
  question, daemon_liveness lifts it altogether. The proofs ask less, of each property what it needs.
- `FailingSaves`: register and delete, which undo their change, may fail to save; Enable and Disable
  keep it in memory. Bootstrap has the failing save of an Enable (`unsaved`): no document says what
  should hold of it, and EnabledRuns excepts it.
- *Bootstrap*: two daemons (the pipe decides between two; a third would find the same), one command,
  two angls, one that the file has and one that is enabled on top. `Daemons` is also the number of
  daemons there can ever be: one crash or shutdown and one successor. The proofs hold for any numbers.
- *Catalog*: two commands, one name, one view, one label key beside a reserved one: two updates contend
  for the file and a label has the name of a live field. Six updates and two queries reach every
  operation; the proofs hold for any.
- *Inventory*: three events (`MaxEvents`: changes, catalog errors, connections), one message in the
  pipe. Two listeners and one change: two refreshers already overlap in every way, the channel
  fills because the pipe does, and channels and versions are per listener. One listener and two
  changes: a refresh reads the registry before them and the catalog after, and publishes an
  inventory that never was. With one name, no refresh reads two statuses at two moments.
- *ListenUI*: three names give an inside, two ends, and an anchor apart from the cursor.
- *LogStream and Tailer*: seven bytes in up to three files, newlines with lines of one and two bytes
  and an unfinished one, a poll that stops in the middle of a line (`MaxRead` 2) or after one
  (`MaxLines` 1), a channel (`EventBuffer` 1) that is full while a poll answers two lines. The writer
  stops when the context ends: nobody reads what it would write. `KeepsUp` leaves out what the code
  does not handle and only a much slower follower meets: a file renamed away before it was opened, a
  truncation in the middle of a poll, of a file that was empty when it was opened, or of a file that
  is then renamed. Each is in the hazards. Nothing is appended to a file after its rename: rotateLog runs
  when the child has ended (`process.go:409`), so the two polls for which `Drained` waits before it
  leaves a renamed file, and the test of a late line (`logstream_test.go:209`), have no writer
  here. A file the follower has open may be renamed, and its
  successor created and filled, between any two system calls of a poll.

Deadlock is checked in the process, daemon, catalog, bootstrap and UI runs that pass. Inventory and
Tailer may stop: a bounded environment has nothing left to do and every client has left.

### Fairness

- *Supervisor and daemon.* Weak fairness is given to goroutines that can run (`Scheduled`,
  `Continue`): the Go scheduler is preemptive. The *end of a timer* is not in it: `WaitReturns`
  without a signal is not forced, since a wait may be a day long; a cancelled or woken wait is. A
  healthy child never has to exit, a client never has to ask. `ReloadLock` has strong fairness: a
  `sync.RWMutex` keeps new readers out once a writer waits, so a writer gets the lock although it is
  not free all the time. Liveness assumes that taskkill ends its child (`KillMayFail = FALSE`); the
  code ignores its error and would wait for ever, which is listed as a hazard.
- *Inventory.* `handleListen`, `refreshInventory` and a client that stays connected go on; nobody has to
  connect or quit.
- *Bootstrap.* A daemon goes on with its boot and its shutdown, requests go on, and a command reaches
  its deadline. `ListenFails` is fair only while another daemon has the pipe. Nothing has to be
  launched, stopped or killed, and the five minutes after which a command stops reading are not
  counted on.
- *Catalog.* A process that runs goes on. `Lock` has strong fairness: LockFileEx is called without
  LOCKFILE_FAIL_IMMEDIATELY and serves those who wait. Failing is not fair.
- *Tailer.* The goroutines go on; a select one of whose cases is the ended context takes it in the end
  (the runtime picks at random); a command that still reads takes what is there. Nobody has to
  write, interrupt or give up.

## 4. Findings

Behaviours of the code that disagree with what the repository says; each is a run that must fail.

1. Disable writes the state after its Stop without looking at it (`daemon.go:243`): an exec that
   came between runs as "disabled", and the next exec starts a second copy, which the comment at
   `process.go:100` excludes.
2. Enable releases `d.mu` before it starts the object (`daemon.go:215`): after a delete in between, a
   child runs that no command reaches, although a delete removes the definition "after stopping any
   owned process".
3. The prefix sample of a followed log is captured only by `open` (`source.go:84`, 183): after a
   truncation every later poll believes the file was rewritten and answers all of it again.

Seen while modelling, without a run of their own:

- `max_restarts` is introduced as consecutive failures (`main.go:687`), but in heartbeat mode a
  successful run does not reset the count (`process.go:313`).
- Enable and Disable write `d.config` under `d.mu` and the object after it (`daemon.go:212`, 243): of two
  that overlap, one can be last in the file and the other in the object. A reload that read
  `config.json` before another request saved it (`daemon.go:144`) drops that save from `d.config`.
  Both show in the model as soon as `Alone` is empty.
- `refreshInventory` reads the registry before it takes the stream's lock (`daemon/listen.go:125`, the
  lock at 77): of two refreshes the older reading can get the higher version. The next tick corrects
  it (ViewBecomesCurrent holds).
- `catalog.go:292` says that the daemon never observes the catalog; `readInventory` loads it.
- The comment of `Stream` (`logstream.go:144`) says that the channel closes after calls to the file
  system in flight have returned; `run` closes it without waiting for `runSource`. The model has the
  code's order: `Close` and `Leave` are independent.

## 5. Proofs

Every proof module is for arbitrary constants, from the assumptions the modules name.

| Module | Theorem | Statement |
|---|---|---|
| ProcessAPI_proofs | TypeCorrect | `Spec => []TypeOK` |
| | Invariance | `Spec => []IInv` |
| | SingleCopyHolds | an object never has two live children |
| | NoOrphanHolds | a live child belongs to the generation the object can cancel |
| | StatusHonestHolds | no resting or waiting state beside a live child, a pid only beside "running" |
| | WakeIsFreshHolds | Exec closes an open channel, that of the wait under way |
| | StopIsCompleteHolds | a Stop that returns, nothing started since, has ended the child |
| | BackoffTracksRestartsHolds | the wait is the initial one, doubled once per failure and capped |
| | Refinement | `Spec => Abstract!Spec`, the supervisor implements Lifecycle |
| Daemon_proofs | LockInvHolds | `Spec => []LockInv`: types and `d.mu`, whatever the clients do |
| | SingleCopyHolds, DisableIsCompleteHolds | under `DisableAlone` |
| | ConfigIsDurableHolds | under `ReloadAlone /\ SavesSucceed` |
| | IntentAgreesHolds | under `IntentsAlone /\ SavesSucceed` |
| | Invariance, EveryChildIsManagedHolds, DeletedAnglIsStoppedHolds | under `IntentsAlone`, the first for `IInv` |
| Bootstrap_proofs | Invariance, EnabledRunsHolds, DurableHolds | the safety of bootstrap |
| Catalog_proofs | Invariance, NoSilentOverwriteHolds, QueryIsIntersectionHolds, Refinement | the safety of catalog, and that it implements AtomicCatalog |
| Inventory_proofs | Invariance, NoUpdateGapHolds, SendNeverBlocksHolds, ViewIsPublishedHolds | the safety of inventory |
| ListenUI_proofs | Invariance, TargetsWereShownHolds, YesIsHeededHolds, CursorFollowsHolds | all properties of listen_ui |
| Tailer_proofs | TailerTypes, IInvHolds | `TailerSpec => []TailerTypeOK`, `TailerSpec => []IInv` |
| | NoSplicedLineHolds, ExactlyOnceHolds | `KeepsUp => (TailerSpec => [] ...)`, the safety of logstream |
| | OnceWithoutTruncation | `KeepsUp => (Spec => [](truncated = 0 => NoLineTwice))`: what logstream_twice refutes holds until something is truncated |

**Supervisor.** None of the safety properties is inductive: whether Start may begin a generation is
decided on `state` alone, while what it must not overlap is a goroutine. `IInv` is the missing relation:
for the *latest* generation, what `state`, `pid`, `handle` and `wake` are at each place of `runLoop`
(`FieldsAgree`), and that every *older* generation has left everything behind but the closing of its
`done`. A generation becomes old only by Start, which needs a resting state, and by `FieldsAgree` a
resting state means that the latest loop is at `return` or `ended` and its child is gone. Process_proofs
has one lemma per kind of step (`StartInv`, `ForceWaitInv`, `CleanupInv`, `LoopStepInv`); `Frame` carries
the objects a step does not touch, `LatestStep` the older generations. The properties follow by
`LiveIsLatest`: a live child is one of the latest generation, at a place where the state is "starting"
or "running". The refinement maps `shown` to `state` and `children` to the live generations; every
action maps to one of Lifecycle or to a stutter.

**Registry.** What the code guarantees by itself is `LockInv`: one writer or many readers, the writer is the
one request between its Lock and its Unlock, and what a request looked up is still at hand when it
goes on (`Place`, `Known`, `Holds`). Everything else depends on what overlaps, and each theorem names the
least it needs. The hypotheses are conditions on the constants, not properties of the code, but uses
under which the code is right:

- `DisableAlone` (nothing overlaps a disable): the other requests and the loop change an object only by
  steps that look at its state first; the tail of Disable does not, and disable_exec shows what comes
  of it. `Loops` is the inductive part: `LoopInv` of every object, and that a disable holds the handle
  of the latest generation (`Supervised`), so that its object is at rest when it writes.
- `IntentsAlone` (nor an enable): Enable goes on with an object that a delete may have dropped, which
  enable_delete shows. Then every request that changes the registry has it to itself (`BusyAlone`),
  although reloads wait for the lock beside it. `Agreement` says that registry, `d.config` and the
  objects' own definitions agree, except for the angl such a request has taken apart (`Touched`), for
  which its locals are still true (`Locals`); a boot or reload agrees with the new file for the angls
  it has visited and with the old one for the rest (`Expected`). `Supervision` adds that an object outside
  the registry has no handle, and that who stops an angl holds the handle of its latest generation.
  It needs that nothing is started meanwhile (`LoopStartsNothing`; the lock keeps Exec away).
- `ReloadAlone` (nothing overlaps a reload): a reload reads the file before it takes the lock, and what
  is saved in between is lost in `d.config`. `Durable` relates file, `d.config` and what a reload has read.
- `SavesSucceed` (Enable and Disable, whose failing saves are not undone).

There is one lemma per action and part: `...Locks`, `...Loops`, `...Durable`, `...Agrees`, `...Guards`; before them
one that says what the action writes about its request (`Captured`, `Went`, `Replaced`, `IntentSet`, ...), so
that record updates are expanded once. EveryChildIsManaged follows since a live child has a handle
(`LiveIsLatest`) and what has one is in the registry; DeletedAnglIsStopped from it.

**Bootstrap.** `FileIsKnown` (a daemon knows what the file enables unless another replaced it since) and
`ConfigRuns` (what a serving daemon has enabled it has started, is about to start, or failed to save)
give EnabledRuns; Durable needs `FileIsKnown` at the save. `NoCopyLeft` is that a shutdown stops
everything but what came late.

**Catalog.** `Locked` says that the lock is held exactly between Load and Unlock, and that what is about to
replace the file is the update of the file *as it is now*. So `Replace` maps to Commit, and everything
else to a call, a failure, an answer or a stutter. For queries, `ResolveIsIntersection` shows for any
selectors that the joined list of requirements chooses the intersection; it needs that a command at
its reading has a query and a list (`AskingHolds`).

**Inventory.** `Chain` follows one listener's messages in order: the client's version, the pipe, the
message being written, the channel; each patch is based on the one before, and the last leads to
the published version, or to the one before it while the listener has still to be served. NoUpdateGap
is its first link. ViewIsPublished needs a history, which the model does not keep: `HInv` says that there
is a function from versions to items of which every message and every view tells the truth; it is
extended at each Publish.

**ListenUI.** The rows are a set and the cursor an index; the lemmas first show that the index of a name in
the sorted rows is a bijection onto `0 .. Last`. TargetsWereShown then needs that the marked rows *and*
the base of a visual selection are rows (`SelectionIsShown`, a part of `IInv`), since the next move of
the cursor marks the base again. It does not say that a deleted angl is still on the screen: the
modal keeps its names over updates, as the code does.

**Log stream.** The types and the sizes of the files (`SizesInv`) hold whatever the writer does. The rest is
proved under `KeepsUp`, which is not a property of the code but the pace of its user: if a file is
renamed before it was opened its lines are lost, and a truncation that neither size nor prefix shows
is spliced, so that none of these theorems holds without it. The parts of `IInv`:

- `FilesInv`: a file holds consecutive bytes, and of two files the older ends where the newer begins.
  So "the byte after the last one" is well defined over a rename.
- `FollowInv`: the open file is the one at the path, or the one before it, and what a system call told
  (`info`) still bounds what the next one finds, although the writer ran between them. In particular
  a renamed file that was found drained has not grown.
- `PrefixInv`: without a truncation the offset and the buffer are what was read of the open file and the
  prefix sample still fits; after one, the sample never fits again, whatever was written since, since
  the file begins with a later byte. That is why a poll that sees the truncation drops the half line.
- `LinesInv`: what was answered, the lines of this poll and the buffer follow each other without a gap, from
  the first byte the follower is to answer (`from`) up to the one it reads next (`NextByte`).
- `RunInv`, `SentInv`: a poll is under way exactly while `run` waits for it, and what was answered is what
  the command has taken followed by the lines in `out` and `pending`.

The lemmas about the parser come first: the places of the newlines (`Counting`, `NthPlace`), what `consume`
returns (`ConsumeDef`), that consecutive bytes become contiguous lines and a rest (`ConsumeContiguous`),
that a reading within the limits continues the one before (`ReadingContinues`). `Chain` gives a sequence of
lines the places where they begin and end; by it sequences of lines are joined, shortened and compared
with sets of bytes (`Joined`, `WithoutFirst`, `BytesOfLines`). Then there is one lemma per step of a poll
and of the writer (`...Kept`), and one per step of `run` and its reader (`Sent...`).

**Inductions.** The provers cannot use an induction theorem whose parameter is an operator. Where an
induction over numbers is needed (the backoff, the places of the newlines, the bytes of a sequence of
lines) it is stated of a *set* of numbers (`NatSetInduction`), and proved from the well-foundedness of `<`
on Nat. For the backoff, `CountInv` says where in `runLoop` the wait has been doubled already and
where it is still to be.

Only model-checked: liveness (StopReturns, ExecIsNotLost, RequestsReturn, OneCopyAgain, CommandsReturn,
ViewBecomesCurrent, EveryLineArrives, CallsReturn), which needs fairness and ENABLED. The runs check it at
the bounds above.

## 6. Not modelled

- the log codec: functions from one line to one record and from a record to text, with nothing in
  between to interleave, lose or restart;
- the port helper (netstat and taskkill) and the argument parser;
- in the log stream: the merge of several sources (by index, within a round), events for errors, the
  clipping of long lines, the bound on history, ReadLast alone;
- in the daemon: List and StatusOf, which change nothing; the validation of definitions; the steps of
  the atomic write of `config.json`, which is always whole;
- in the catalog: the grammar of selectors and names, `Store.Delete`, which nothing calls;
- times beyond their order, what is drawn, printed or logged, the XML of the logon task.

## 7. What could follow

1. Several sources in Tailer: the rounds of `run` over a request per source, with an abstract queue in
   the place of LogStream.
2. A larger instance of Daemon for Reload (two names), beside the proof.
3. A request other than Enable in Bootstrap: a delete that a second daemon's older file undoes.
4. An abstract specification of the log follower (a queue of bytes) that LogStream implements while
   nothing is truncated.
