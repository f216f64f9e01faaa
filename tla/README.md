# Zond Daemon, specified

Zond Daemon runs network scans for clients that talk to it over a pipe or a
socket. This directory holds TLA+ specifications of the parts of it where the
difficulty is in the order of things: what a scan says and what a client that
comes and goes has heard of it, what a request passes before a packet is sent,
what a name means from one sitting and one process to the next, how answers
share one connection, what an audit file holds after failures, and how daemons
share one path. Where it is in a long table instead, reading a request, the
specification is checked against what the client said. TLC checks them on small
instances, and TLAPS proves every safety property of theirs, and the five refinements
of what is promised, for every instance. `PROJECT.json`
maps every definition to the lines it models.

    tlc -config LogReconnect.cfg MCScanLog      model-check one run
    tlapm ScanLogProofs.tla                     check the proofs of one module

## The system

| Component | Source | State | Operations | Correct when |
|---|---|---|---|---|
| Scan log, follower | `scans.rs` `Log`, `follow`, `Scan` | entries, digests seen, closed flag, `Notify` | push, changed, watermark, after, close; one task per scan reads the engine's channel | every entry is news, the log only grows, Finished is last, nothing the store holds is left unsaid but by a dropped notice |
| Watch | `stdio.rs` `watch`, `Scan::snapshot`, `Scan::after` | a cursor per watch; the number a client keeps | snapshot, tail, end; cut and reopened | a client misses nothing by coming back, hears the end only at the end, never sleeps through a wake-up |
| Gate | `policy.rs`, `start.rs`, `Scans::reserve/start/resume/file`, `Slot` | the count of slots, the audit, the journals | claim, room, read, permit, journal, record, launch, give back | the ceiling holds, nothing unaudited or outside the scope is sent, no slot leaks |
| Scope | `scope.rs` | two address sets | permits, outside | refuses exactly what is beyond or denied |
| Audit | `audit.rs` | an append-only file, a lock on it | started, refused | who was told Ok has all of its entry in the file, entries do not mix, a failed write holds nobody up |
| Registry | `scans.rs` `Scans`, `Found`, `Recorded` | the map of filed scans; the records on disk; a report and a cause per scan | get, list, prune, resume, export, diff, merge | one name means one scan, live or recorded, and its answers agree |
| Session | `stdio.rs` `speak`, `answer`, `frame` | one lock on the output, a set of tasks | read a line, answer on a task, write a frame | frames are whole, every request is answered unless the connection fails |
| Listener, start-up | `listen.rs`, `main.rs` | a socket path, its mode and group | bind, accept, clean up | one daemon per path, open to whom it was told, and no other's socket removed |
| Names | `id.rs` | a counter and a clock | mint, encode | names are apart and sort by start |
| Request reading, conversions | `start.rs`, `stdio.rs`, `codec.rs`, `build.rs`, `convert.rs`, `scan.proto` | the request, part read | parse, narrow, convert | what runs is what was asked, and a refusal has a cause |
| Comparing and folding, errors | `export.rs`, `error.rs` | none | format, write | the reports are the engine's |
| Zond Engine | external crate | host store, event channel, task, journal store | scans | used, not verified |

How they meet: a request read by a session is answered on a task of its own. A
`start` or `resume` passes the gate, which ends by filing a scan in the registry
and spawning its follower, slot and all. A `watch` finds the scan in the
registry and reads its log. The engine's store and the log are shared between
the engine, the follower and every watch without one lock over both, and this is
where the hard behaviour is: three parties, two pieces of state, and a
notification. The hazards in `PROJECT.json` list, at its line, each thing found
in the code that a test would hardly reach, and the property that watches it.

## The modules

| Module | What it is |
|---|---|
| `ScanLog` | the engine's store and channel, the follower, the log, the watches and the clients of one scan |
| `ScanFeed` | what that promises: a growing numbered feed, and for each client a place that never moves back and a view never behind its place |
| `MCScanLog` | the instance of `ScanLog` for TLC, with its symmetry |
| `ScanLogProofs` | theorems about `ScanLog`, and that it implements `ScanFeed` |
| `Gate` | requests, started and resumed, passing the gate together |
| `GatePromise` | what that promises: room, a line in the audit, then the wire, and whoever is turned away is written down and told |
| `GateProofs` | theorems about `Gate`, and that it implements `GatePromise` |
| `Registry` | the sittings of a name, the map of filed scans and the records on disk, over deaths of the process |
| `RegistryPromise` | what a name promises: one run at it at a time, the only one to write its record, and told over only with its report |
| `MCRegistry` | the instance of `Registry` for TLC, with its symmetry |
| `RegistryProofs` | theorems about `Registry`, and that it implements `RegistryPromise` |
| `Session` | one connection: the loop that reads lines, a task per answer, the lock on the output, two pipes of bounded room |
| `SessionPromise` | what that promises, with no tasks and no lock: a frame at a time, an answer to its last frame and no further |
| `SessionProofs` | theorems about `Session`, and that it implements `SessionPromise` |
| `Audit` | the audit file as its writers leave it: pieces of lines, a lock to each process |
| `AuditPromise` | what that promises its callers: of each entry by itself: it counts once all of it is there, and is there once its caller is told so |
| `AuditProofs` | theorems about `Audit`, and that it implements `AuditPromise` |
| `Daemon` | processes starting, binding one path, serving, ending and being killed |
| `DaemonProofs` | theorems about `Daemon` |
| `Names` | minting names under a clock that may be set |
| `NamesProofs` | theorems about `Names` |
| `Convert` | the levels and kinds a request may name, in the schema's words and in the engine's |
| `Requests` | a `start` read, from its JSON to the engine's request |
| `RequestsProofs` | theorems about `Requests`, for any request at all |

`Registry` takes `Gate` and `ScanLog` for one step each (a sitting is let through
or not; a watch reads what there is), and `Session` takes an answer for its
frames. `Gate`'s `Cancel` is what `Session`'s `DropTask` does to a start.
`Gate`'s `Read` is all of `Requests`, its `Record` and refusals are each a call of
`Audit`'s, and a connection `Daemon` serves is a `Session`.

### ScanLog and the code

One action is one thing that can be seen from outside between two others: a
lock held, an atomic read or written, a notification, a frame written. The
engine (`Touch`, `Announce`, `NextStage`, `ScannerFails`, `Finish`) is external
and modelled as the code uses it: it changes a host and then announces it, may
announce it again with nothing new, drops the oldest notice of a full channel,
and before it ends in order has announced every change it made (a task that
dies need not have).

| Code | Model |
|---|---|
| `events.recv()` and one arm of the match in `follow` | `Receive`, `ReceiveLagged` |
| `scan.hosts.get`, `log.changed` | part of `Receive`: only the follower looks at `seen`, and the store is read there once |
| `Log::push`: the lock, then `notify_waiters` | `Push`, then `PushWakes` |
| `tokio::join!`, `Finished`, `close` | `Conclude`, `Push`, `PushWakes`, `Close`, `CloseWakes` |
| `Scan::snapshot`: watermark, then `hosts.snapshot()` | `Mark`, `ReadHosts` |
| the frames of the snapshot, its Progress last | `SendHost`, `SendProgress` |
| `Scan::after`: `notified()`, `log.after`, `is_closed`, `await` | `Register`, `Read`, `Check`, `Wake` |
| the frames of the tail and the end | `SendEvent`, `End` |
| a frame that cannot be written, a client that goes | `Drop` |
| the next `watch`, from zero or from the number reached | `Open` |

`fpc` and `wpc` are the places between those steps. A host's document is its
version, so `Log::changed` compares versions where the code compares digests.
`woken` is whether the `Notified` future of a watch has completed:
`notify_waiters` completes each future that has been made, so `WakeAll` reaches
a watch from `Register` on. `lost`, `late` and `known` are ghosts: the hosts
whose last notice was dropped, whether a watch opened after the close, and what
a client last received of each host. `number` is the number a client would hand
back. `TrustFrames` says where it takes it from: from every frame, as the `seq`
on it invites, or from a snapshot only when it came whole. The first of these
misses hosts (under Known divergences); everything else is checked and proved for the
second, and the theorems that need it say so (`~TrustFrames`).

### Gate and the code

A request is `idle`, then `load`/`claim` (`Scans::reserve`, the load and the
compare-exchange apart), then for a resumption `find` (`store::list`,
`Journal::reopen`), then `room`, `read` (reading and resolving, where the task
awaits), `permit`, `journal`, `record`, `launch` (where it awaits the engine),
`running`, `ended` and `over` (the end of `follow`: Finished, close, and the slot
last). Every `?` is a way to `leave`, where the locals are dropped: `LetGo` is
`Slot`'s and the journal's Drop. `Cancel` is the task dropped with its `JoinSet`
when the connection's reader fails, which can happen only at an await.
A resumption may name the record an earlier process left, whose plan may be of
anything, or a record made by another request. A `listen` is not judged, as in
the code. An unset ceiling or allow list is the constant large enough.

### Registry and the code

A sitting is one `Scan`: the first run of a name or a resumption of its record.

| Code | Model |
|---|---|
| `Scans::start`, its journal created or not; `Journal::reopen` in `start::resume` | `Begin`, `Reopen` |
| a refusal, a failed launch | `GiveUp` |
| the engine launched and handed the journal; `Scans::file` | `Launch`, then `File` |
| `follow`: host events; the report kept; Finished pushed; `close` | `Tell`, `StoreReport`, `SayFinished`, `Close` |
| `Found::state`, `stop`, and a `watch` of a filed scan or of a record | `Get`, `Stop`, `WatchLive`, `WatchRecorded` |
| `store::prune` | `Prune` |
| the process ends and another starts over the same directory | `Die` |

Taken of the engine, from how the code uses it: a journal is open in one sitting
at a time and is let go when that sitting's task is over or its process dead;
stopping a task that is over changes nothing; what it puts into a resumed
sitting's store of what the record holds is any part of it. `number`, `knows` and
`overs` are what clients have: the number they would hand back, what they were
told was found, and which sittings they were told are over. `QuickEnds` lets a
task be over before its scan is filed: nothing in the code waits for the one
before the other.

### Session and the code

| Code | Model |
|---|---|
| `lines.next_line()` in `speak`, a task spawned; a line that is not text | `Take`, `ReadFails` |
| the refusal the loop writes itself | `Take` to `refuse`, then `Refused` |
| the input's end, then `join_next` until none is left | `EndOfInput`, `Drained` |
| `answer`, up to `out.lock()`, whose waiters are served in turn | `Answer`, `Event` (`Queue`) |
| `write_all` under the lock | `WriteHead`, `WriteTail`, `WriteFails` |
| the `JoinSet` dropped when `speak` fails | `DropTask`, each task where it waits |

The client (`Say`, `Shut`, `Hear`, `Go`) is external: it writes what it has to,
closes its end, may go away, and reads either while it writes (`eager`) or only
once it has closed its end, as the pipeline in `stdio.rs:41` does. A frame takes
two writes, so that another's could come between them.

### Daemon and the code

| Code | Model |
|---|---|
| `main`: arguments, policy, audit, then a transport | `Begin` |
| standard input closed | `HangUp` |
| `path.exists()`, `connect`, `remove_file` in `bind` | `Look`, `Knock`, `Clear` |
| `UnixListener::bind` | `Bind` |
| `set_permissions`, `chown`, `set_permissions` | `Narrow`, `Give`, `Widen` |
| `accept().await?` failing; `Socket`'s Drop; the listener dropped after it | `AcceptFails`, `Sweep`, `Close` |
| a signal, which nothing catches | `Kill` |

`at` is the file the path names, by who bound it; `Litter` is a file nobody listens
on. Every call but the bind goes by the path and reaches the file it names then.
Each call may fail, and `?` leaves the file behind. A daemon run again is another
process. `Overlap` lets one begin while another is between its first look and its
last chmod; without it they start one at a time, but may die, be killed or end at
any step. `wide` is the mode a bind leaves, which is the umask's to say; as some umasks
let a group or anybody write, `ReachedBy` counts a wide socket as open to all. A connect to a daemon that
listens is taken to succeed.

### Audit and the code

| Code | Model |
|---|---|
| `started`, `refused` calling `write` | `Call` |
| `to.lock()`, poisoned or not | `TakeLock` |
| one write of `write_all` | `Write` |
| `flush`, and the guard dropped | `Return` |
| a write that fails, and the guard dropped | `Fail` |
| the process dies; another appends to the same file | `Crash` |

A line is `Pieces` pieces because the system may take any part of what it is given;
the last has the newline. The refinement calls an entry there when its last piece
is, and a caller told when `write` has returned to it.

### Names and the code

`mint` is two steps, `Read` (the clock, one before the epoch read as the epoch) and
`Count` (`fetch_add`, and the arithmetic, `Number`). `Tick` sets the clock to anything between them. `Encode` is
the thirteen letters, by repeated division from the right. The wrapping product and
sum of u64 become remainders by `PerMillisecond` and `Spans`.

### Requests and the code

| Code | Model |
|---|---|
| `serde_json::from_value` over the generated messages and their adapters | `Parse` (`Readable`, `Held`) |
| the kind in `scan`, before the room is asked for | `ReadKind` |
| `request`, `evasion`, `settings`, `send_source`, each in its order to the first refusal | `ReadRequest`, `ReadEvasion`, `ReadSettings`, `ReadSources` (`Through`) |
| `ports`, `sweep`, `watch` | `Ports`, `Sweep`, `Watch` |

`wire` is what the client sent and never changes; the properties compare it with
`asked`. A list is its one element, nested documents are laid flat, and `redact`
stands for every key that is only handed on. The widths are constants: `MaxU8` below
`MaxU16` below `MaxU32`. What the engine reads for itself (a port list, a target)
is `good` or `bad`; that it takes fragment sizes and padding as 16 bits is taken from
the types it is given.

## The runs

| Run | Shows |
|---|---|
| `log_reconnect` | eight invariants of `ScanLog`, among them that no watch sleeps through a wake-up, and its refinement of `ScanFeed` |
| `log_live` | the scan is closed after its task ends, watches end, and the tail catches up |
| `gate` | five invariants of the gate, that `GatePromise` is kept, and that slots come back |
| `registry` | a name finds the scan that is going under it, whoever is told that a scan is over can export it, and `RegistryPromise` is kept |
| `registry_blind` | violated: a client that comes back "resumes where it stopped instead of starting blind" |
| `session` | frames whole, returning only once everything is answered, nobody waiting for what cannot come, `SessionPromise` kept, and nothing asked kept waiting by a watch or by a client that reads late |
| `session_stuck` | violated: a client may write everything, close its end, and read then |
| `daemon` | who serves is whom the path leads to and open as it was told; from the first chmod after its bind nobody but the named group can connect; no dead daemon stops the next, and no living one loses its socket |
| `audit` | entries of one daemon never mix, what is spoilt is next to what was cut, `AuditPromise` is kept, and calls return |
| `names` | names apart within what the counter holds, and in the order of the clock that was read |
| `requests` | an accepted request asks the engine for what the client said; a refused one is refused for something wrong with it |
| `requests_unknown` | violated: "The engine's reader refuses an unknown key rather than warning about it, and so does this" |

The three violations are things a document says and the code does not do; each is
described with its lines under `findings`. The number from an earlier sitting is
repaired by asking from nothing. The connection that is stuck stays so until the
client reads or goes. The unknown key is repaired by nobody: the request is accepted
without it.

**Bounds.** `log_reconnect` has two hosts, so that one host's notice can push
the other's out of a channel of one; two changes to a host, so that an entry can
be overtaken and a notice can be redundant; two notices beside Finished, so the
log can have something before the mark, between the mark and the hosts, and
after; and two watches, so a client can be cut off and come back. One client is
enough for safety: watches write nothing a follower or another watch reads, and
the proofs are for any set of clients. `log_live` has one host, whose second change
can be announced while a watch goes to sleep. `gate` has two requests for one
slot, an address of each kind (inside, denied, beyond the allow list), every pair
of start and resumption, and all failures. `registry` has two sittings, of one
name or of two, with one thing to find and one death of the process: enough for a predecessor, a successor and a restart, and for
each to be recorded or not. Names, and sittings, are interchangeable there: no action
and no property of that run tells one from another, and all of them are of safety. The
violations of `Registry` need one name only.
`session` has three lines of every mixture of kinds, over pipes with room for one
line and half a frame, so that every write may have to wait; a watch has up to one
event before its end. `audit` has three calls in two daemons, a line of up to three
writes: one holds the lock, one waits for it, one writes from the other process, and
a line has a first piece, a last one and one that is neither. `daemon` has three
processes and two groups: one that serves, one that finds it, and one that comes after
either died, under every mode and group the path was left with. `names` counts past the wrap of the
counter (five names, three to a millisecond) and the millisecond past the wrap of
its own (a clock to 3, three spans), with a name's letters enough for the numbers as
thirteen of thirty-two are for 2^64. `requests` has any two keys of the schema, or
one unknown, with every kind of value, beside any of targets and links, over widths
of 2, 4 and 6: what is narrowed is compared with its width and with zero, so numbers
at, above and below each width are all the cases there are. `MaxVersion`, `MaxNotices`, `MaxOpens`, `MaxDeaths`, `MaxClock`,
`MaxNames` and `MaxEvents` are the only bounds on counters, each in a guard of an action of the
engine, the client or the process; a finished system is not a deadlock, so
deadlock is not checked.

**Fairness.** Weak fairness of the follower and of each open watch: the runtime
polls a task that is ready, no lock over the log is held across an await, and a watch whose
client stops reading is covered by `Drop`. Weak fairness of each request's
own steps in `Gate`. In `Session`, weak fairness of the loop, of each answer and of
each frame (the output's lock is served in turn), and of a client that is still
there writing when there is room and reading when it reads at all; none of
watches' events, so nothing may wait for them. In `Audit`, weak fairness of each
call's own step: it runs on a thread that blocks only for the lock, and the lock is
held for a write and no longer. `Daemon`, `Names`, `Registry` and `Requests` claim
nothing that needs fairness. The spurious failure of `compare_exchange_weak` with nothing
changed is a stutter, so fairness only rules out its failing for ever. Nothing
is assumed of the engine, of clients asking, of connections failing or of the
channel.

## What is proved

For every value of the constants that satisfies the named assumptions
(`ConstantsAssumption`, `GateAssumption`, `RegistryAssumption`, `SessionAssumption`,
`AuditAssumption`, `DaemonAssumption`, `NamesAssumption`, `WidthsAssumption`), with
finite sets of requests for the counting theorems:

* `TypeCorrect`, `LogIsNews`, `FinishedEndsTheLog`, `LogNeverRewritten`: the
  follower's half. `EveryEntryIsNews` is not inductive: it needs that `seen`
  bounds every entry of a host and is itself bounded by the store, and that what
  is in `todo` is newer than every entry. `FinishedIsLast` needs that the
  follower is past `recv` once Finished is in its hands and never returns. That
  the log is never rewritten follows from the refinement as well, so no run
  checks it by itself.
* `LogSaysAll`: that a closed log has the store's last word. Its invariant follows
  a change from the store to the log: a host is owed a notice, or has one in the channel,
  or lost its last, or was found as it is; what was found is in the log or about to be; and
  Finished is only in hand when the channel is empty.
* `NoWakeUpIsLost`: that no watch sleeps through a wake-up. `NobodySleepsThrough` speaks of
  a watch that waits; its strengthening, `SleepInv`, of the one that has looked and not yet
  made up its mind: as its future was made before it looked, either somebody has woken it,
  or the follower is about to, or what it took is all there is. Waiting needs that it took nothing
  and that the log is open, which the two reads give in that order.
* `ReconnectingIsSafe`, `TailIsWhole`, `EndIsHonest` under `~TrustFrames`: the
  clients' half. The strengthening, `Inv`, says what each place of a watch has
  established: at `hosts` the store covers the log up to the mark (as `log` never says more than the
  store has, and the store only grows); at `snapshot` what was sent and what is
  still in `snap` together cover it; in the tail `known` covers the cursor, the
  batch is what follows the cursor, in order and without a gap; and the log
  beyond holds only newer versions, so each frame sent moves `known` forward past
  what it covered or leaves it covered.
* `ClientsEndWithTheResult` under `~TrustFrames`: from the two above, and that nobody
  hears of a host more than the store has.
* `ScanImplementsFeed` under `~TrustFrames`: each step of the follower and of a
  watch is a step of `ScanFeed` or a stutter; `place` never moves back because a
  cursor taken from a snapshot is the log's length.
* `NoSlotLeaks`, `NeverAboveCeiling`, `AlwaysWrittenDown`, `NeverOutside`,
  `RefusedLeaveNothing`: the gate, for
  any number of requests, any ceiling and any scope. The invariant says what a
  request in each phase has: a slot from `claim` on unless refused, addresses
  judged from `journal` on, a line from `launch` on; that `taken` is the
  cardinality of the holders, and that the holders never exceed the ceiling; and,
  for refusals, that a request that is still asking has made nothing.
* `GateKeepsPromise`: where a request is in `Gate` maps to how far the gate has let it in
  `GatePromise`. The count loaded and the compare-exchange that takes the slot become one
  step, `Admit`, which is sound because the exchange succeeds only on the count that was judged
  and `taken` is the number of those inside; a claim refused for a count read earlier is turned away
  at the moment of that read.
* `NamesAreFound` and `OverIsWritten`: the registry, for any names, sittings and deaths.
  Neither is inductive. The first needs that a sitting that is active (opening,
  launched or going) has the record open or the name to itself, so that no two of a
  name are active and nothing is filed over one that is going; the second that what
  the map finds is filed, that Finished is in a log only once the report is decided,
  and that a sitting's outcome does not change after. The part about scans that are
  going is under `~QuickEnds`, without which it is false (see Known divergences).
* `RegistryKeepsPromise`: steps of a sitting map to what has become of its run. It
  needs the same exclusion, that an active sitting has its name to itself, for `Start` and `Prune`;
  and that the stage of a sitting before its end says it has no report, for `TellOver`.
* `FramesAreWhole` and `AnsweredAtReturn`: a connection, for any lines, room and
  events. The invariant puts what was read and what is in the pipe together as one
  stream of halves, and says that it ends in the middle of a frame only while the
  one at the lock writes that frame; that everybody in line for the lock wants it, once;
  that a line nobody has begun to answer is unsaid or in the pipe; and that an
  answer that is done was written to its last frame.
* `NobodyWaitsInVain`: from that invariant, and that no task is dropped before the loop has
  failed and the line the loop waits for was taken.
* `SessionKeepsPromise`: both pipes' contents together are what was said, the head of the
  line for the lock is who writes, and an answer whose task is done or dropped is over. That
  one frame is under way at a time holds after the loop has failed as well, so the line for
  the lock is shown to stay in order when a task is taken out of the middle of it (`TakenOut`);
  `Owing` has what the loop's outcome is judged by: what is done to a client that is
  there was written, so a refusal that failed means the client went.
* `LinesWhole`, `GluedToTheCut` and `AuditKeepsPromise`: the audit, for any calls,
  daemons and writes to a line. The invariant says that a call's pieces stand in order
  with none beyond what it sent; that whoever is writing holds its daemon's lock, and nobody
  else does; and that after a piece of a call still writing its daemon adds only that
  call's. The refinement follows: an entry is in the file only with all it
  sent, and a call that failed had not sent it all.
* `ServesThem`, `GroupsNamed`, `LitterPasses`, `ClearsTheDead` under `~Overlap`: daemons
  on one path. The invariant says that at most one is starting; that from its bind until
  it takes its file away the path leads to a daemon, and that nobody listens there once another
  has decided to clear it; that a socket open to a group was given to the one named; and that
  a daemon past its first chmod has not the mode of its bind. `GroupsNamed` is about who can
  connect (`ReachedBy`), and says nothing of the moment between the bind and that chmod, where
  others can (`DaemonMoment.cfg`, under Known divergences).
* `NamesAreApart` and `NamesAreSorted`: for any clock, tasks, widths and base. Numbers
  whose counts differ by less than `PerMillisecond` differ in their low part, whatever the
  milliseconds. Of two numbers the lesser has the earlier name: the letters they have in
  common from the left leave the same rest, and at the first that differs the rests differ the way the
  numbers do. Which letter that is comes from the least element of a set of naturals, found
  by induction over sets, as what a recursive function computes cannot be had by induction
  over its argument here. `NamesAssumption` says only that nothing is left of a number after the
  last letter (for the code, 32^13 = 2^65).
* `AnyAskedIsWhatRuns` and `AnyRefusedForCause`: requests, for any set of keys sent, known and
  unknown, with any values, and any widths. The runs' requests, two keys at a time, are
  among them (`RunsAreAny`). The invariant, `ReadSoFar`, says after each reader that what
  its keys hold is what was sent (level by level through `Convert`'s two tables, number by
  number within its width), and that none of its refusals was due; a request
  that comes to its end has passed every reader its kind has.

Every safety property that a run checks is proved. Only model-checked are the liveness
properties (`FollowerEnds`, `WatchEnds`, `TailCatchesUp`, `SlotComesBack`, `CallsAnswered`,
`RequestsAreTaken`, `CallsReturn`), which are out of the prover's reach with the fairness they
rest on. `NoWakeUpIsLost` and `NobodyWaitsInVain` are the part of them that is of safety: whoever is
asleep has nothing to be woken for, and whoever waits in line waits for somebody.

The other way round, the type invariants (`TypeOK` of `ScanLog`, `Gate`, `Registry` and
`Session`) are proved, as `TypeCorrect` and `TypesHold`, and no run lists them: what a run
would say of its instance the theorem says of all, and every other proof rests on it.

## Known divergences

Beside the three in the runs, these are things the code's own words say and it
does not do. The first seven can be reproduced with the command given; each ends in
a counterexample.

* `tlc -config LogEarlyEnd.cfg MCScanLog`: `scans.rs:235`, `after` is "Empty only when
  the scan is over and the cursor has reached the end". The entries are read before
  the closed flag, so what came between is left out of a page that is taken for the
  end. Asking again brings it.
* `tlc -config LogCutSnapshot.cfg MCScanLog`: `README.md:44`, a client comes back with "the
  number it reached and misses nothing". Every frame of a snapshot carries the number
  the whole of it stands for; a client cut off in the middle that hands that back
  misses the hosts it was not sent. Asking from nothing brings them.
* `tlc -config GateRecord.cfg Gate`: `policy.rs:29`, the order keeps a refused request from leaving
  a record of a scan that never ran. It does for a refusal by the policy (`RefusalsAreClean`);
  an audit that cannot be written, a launch that fails and a connection that goes before it leave one.
* `tlc -config RegistryLost.cfg Registry`: `scans.rs:468`, "A scan still going is held
  here". A scan whose task is over before it is filed has let its record go, so the name
  may be resumed and filed in between; the first one's filing then puts that out of reach.
* `tlc -config RegistryCause.cfg Registry`: a test says of state and Finished that "the
  state agrees" (`scans.rs:1236`). For a task that failed, Finished says Aborted and the
  state says Completed; the report of such a scan is never there.
* `tlc -config DaemonOverlap.cfg Daemon`: `listen.rs:92`, "a refused connection means
  nobody is listening, and only then is the file removed". Of two daemons that
  both knock at a dead file, one removes it and binds and the other then removes that; the first
  goes on listening where nobody finds it, and its Drop takes the second's file away.
* `tlc -config DaemonMoment.cfg Daemon`: `listen.rs:25`, "The socket is created readable and
  writable by its owner and nobody else", and `listen.rs:117`, "there is no moment where a group
  that was not named can reach it". `UnixListener::bind` makes it as the umask leaves it, with the
  process's own group, and listens; the next call narrows it. `listen.rs:112` has it right: "A
  moment of a wider mode". Where the umask leaves a group or others the right to write, whoever of them
  connects in that moment waits in the backlog and is served. From the first chmod on it is as
  said (`NoOtherGroup`).

Not the subject of a run, because what is said is about something left out here:

* `audit.rs:25`, "a line is complete or absent": a `write_all` that fails part-way leaves
  a part, and the next line is glued to it. `GluedOnlyToTheCut` says how far that goes. The lock is
  a process's own, so lines of two daemons on one file may mix.
* `audit.rs:91`, "Flushed rather than left to the operating system": `File::flush` does
  nothing, so what was written is with the operating system until it writes it.
* `id.rs:34`, "unique on this host", and `id.rs:15`, "names sort into the order the scans
  started": neither holds across two processes of one millisecond, or of a clock that was set back.
* `listen.rs:90`: any error of the connect, not only a refused one, has the file removed, whatever kind of file it is.
* `scan.proto:213` and `:215`, a source port of "1 to 65535" and a TTL of "1 to 255": zero is
  handed on for both.
* `start.rs:67`, "Asking for one this build has no name for is the same as asking for
  nothing": such a kind is malformed on the wire and does not get that far.
* `scan.proto:141`, of the settings of a request, "A settings file on the daemon's own host is read
  first": every start begins from `ZondConfig::default()` (`start.rs:86`, `:139`, `:185`, `:319`) and
  no file is read. `Requests` says what becomes of what the client named and nothing of the rest.
* `scan.proto:467`, `redact` is "Set on the scan itself where every reader should see it
  masked": merging looks only at what was asked of it, comparing masks nothing, and a scan read
  back from its record is exported as recorded.
* `scan.proto:52`, List has "Everything it is running": a scan without a record is not on
  disk, which is all that is listed.

## Not modelled

The contents of documents, and so two documents with one digest; the engine's own
work; `list`, `diff` and `merge`, which change nothing, and the masking of reports; how old a record
must be to be pruned; a record run by another process over the same directory; the tables of
`convert.rs` that only go outwards, which no code here reads; the argument parser; a path that is a
symbolic link to nothing, which `exists` does not see and `bind` does. That the tail may send an older document of a
host after the snapshot sent a newer one is in `ScanLog` (`ReadHosts` comes after
`Mark`) and is not counted against it: the newer one was sent before. `error.rs` and
`export.rs` have no state and no order to get wrong.

## Plan

Done: every module above, its runs, the proof of every safety property of them, and the
refinements of `ScanFeed`, `AuditPromise`, `GatePromise`, `RegistryPromise` and `SessionPromise`.

Left:

1. A record that another process runs over the same directory, in `Registry`.
2. What redaction reaches which reader, live, recorded, resumed, merged and compared.
3. What `Daemon` promises, as those do: a path leads to whoever serves.
4. `Gate`'s slot and `ScanLog`'s close together: that a client told of the end may still
   be refused for room.
