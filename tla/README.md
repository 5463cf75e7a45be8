# Verification of atoll: TLA+ models, model-checking runs and proofs

Atoll is a node that hosts *channels*: append-only ledgers in SQLite, actors that write to them through a harness,
timers that write for them later, devices that host the actors' bodies, and tool actors that talk to programs outside
the node: Pi child processes, user programs in a Node runtime, browser plugins. This directory models the parts whose
correctness depends on the order in which concurrent steps, crashes, cancellations and retries happen. Paths below are
relative to `src/`.

## The system and its parts

| part | source | what it does | here |
|---|---|---|---|
| scheduler | `runtime/schedule`, `runtime/timerfire`, `runtime/internal/store/timers.go` | durable and in-memory timers; a fire is a message appended in its author's name | `TimerStore`, `Schedule` |
| actor host | `runtime/actorhost`, `runtime/actorrt` | brings running bodies and remote routes in line with the desired attempts | `ActorHost` |
| closure of requests | `runtime/harness`, `lib/behavior`, `lib/actorbase/ledger_call.go`, `platform/home/reconcile.go`, `expiry.go` | every request gets one terminal, from its receiver, its caller or the substrate | `MessageLog`, `Closure` |
| actor control | `runtime/actorctl`, `runtime/internal/store/actors.go` | which actor exists, which attempt is current, where it is placed | `ActorControl` |
| delivery, in-station account | `platform/internal/tap`, `runtime/actorrt`, `lib/actorbase` | a committed row's way to a body and the answer's way back | `Station` |
| Pi bridge and its actors | `drivers/tools/pibridge` (`bridge.ts`, `bridge.go`), `pillm`, `piworkspace` | model calls and branch tools in a Node child process | `PiBridge`, `PiVerdict`, `PiActors` |
| code runner | `drivers/tools/coderunner` (`runner.mjs`, `mcphost.go`, `actor.go`, `execute_unix.go`) | a program in a Node runtime that calls other actors' words | `CodeRunner` |
| plugin device | `drivers/tools/plugindevice`, `tools/plugin-bridge/cli.js` | an endpoint browser plugins dial, shared by seats; a forwarder in front of it | `PluginDevice`, `PluginBridge` |
| home | `platform/home` | composes the parts for one channel; the periodic sweeps | the pieces the modules above use |
| devices | `platform/compute`, `platform/daemonhost`, `platform/internal/link`, `drivers/devicehost` | carriers, lanes and compartments that host bodies elsewhere | not modelled |
| space | `platform/lagoon`, `platform/channelhost`, `platform/boot` | the registry channel and the life cycle of channels | not modelled |
| access and presence | `runtime/accessdoor`, `platform/internal/presence`, `platform/subjectgate` | grants, observations, human slots | not modelled |
| other drivers, processes | `drivers/agents`, `drivers/gateway`, the other tools, `cmd` | agents, human ingress, tools, assembly, self-update | not modelled |

`PROJECT.json` lists all parts, including those left out and why.

How they interact: a command changes the registry and the Controller's ledger (`ActorControl`); the host reads a full
snapshot of that ledger and converges on it (`ActorHost`); a body that runs receives committed rows (`Station`); what
it asks and answers is closed exactly once (`Closure`); a timer it set writes in its name later (`Schedule`). A tool
actor is such a body; what it is asked it passes to a program outside (`PiActors`, `CodeRunner`, `PluginBridge`).
These three compose the two sides of a wire: the Go half and the JavaScript half, in one state space.

## Modules

**`TimerStore`**: the statements of `timers.go` as operators on table values; each is one transaction.
**`Schedule`**: callers inside `Schedule`, `Cancel`, `Ack`; the run goroutine with its program counter, every store
call a step of its own that may fail or commit without saying so; the roster, the clock; crash, close and restart.
Rows and log survive a stop; memory timers, the wake channel and the goroutine's locals do not.

**`ActorHost`**: one action per critical section of `host.go`. `AcceptFullDesired` takes a snapshot and applies it
actor by actor; reconcile, builders, retirements, attaches and `BindingDown` interleave with it. A unit goes through
the phases of `actorrt.Unit`. Keys are numbers: UUIDv7 text is compared as a whole. A failed `Start` after a
successful `Prepare` is unreachable and left out. `served` and `stale` are history variables.

**`MessageLog`**: the queries and the append of `messages.go` as operators. **`Closure`**: a write passes the pairing
checks and is appended in two steps, because the checks run outside the append's transaction. Its authors are the
receiver, the caller's timer and cancel, the closure sweep and the expiry sweep.

**`ActorControl`**: commands are admitted by `commandOwner`, run under the Controller's lock, commit and then publish;
a crash may fall between the two. The declaration pull resolves outside the lock. A class fixes kind and placement
(`introduce.go:118-185`; `PeerDef` and `ServerDef` name the classes of each), and `Edit` (`editDecl` of the registrar)
keeps a declaration's kind and leaves the reserved peers alone. The singleton flag is read from the declaration at each
introduction and may be edited between two, so it is an input of `Introduce` and nothing is claimed of it; that a peer
declaration has one member is claimed, because the insert refuses the second one whatever the flag says.

**`Station`**: commit, notification, pump, mailbox, receive loop, serve ledger, work deque, reject lane, worker, stop.
`seen` is what the body was handed, `lost` what the code dropped and reported, `unsaid` what it dropped silently.

**`CallContract`**: the abstract specification of a call out of the node. The far side settles it at most once; the
caller is answered at most once, with what the far side said or with an outcome the near side may give on its own.
`PiActors`, `CodeRunner` and `PluginBridge` each carry `settled` and `answer` and instantiate it
(`CallsKeepContract`).

**`PiBridge`**: on the Go side the pending table, the reader with its bounded channels, the goroutine that hands over a
terminal frame, cancellation and the end of the child; on the Node side model calls side by side, and workspace calls
one after another, each with `process.env` replaced by its branch's environment and restored after it.
**`PiVerdict`**: how the end of a model call is classified, by `bridge.ts` and again by `pillm`. **`PiActors`**: the
queue, workers and session pool of pi-workspace (with and without an idle delay); start, retry loop and heartbeat of
pi-llm; both on top of `PiBridge`.

**`CodeRunner`**: the runtime's requests and promises, stdin's end and its exits; the host's reader, one handler
per `tools/call` under the semaphore, the pending set, the channel requests; `execute` with its select, the stop of
the process and the grace period. Writes to the runtime's stdin share one mutex, and a full pipe keeps it. Stdout may
end before the process does, by a close or by a line longer than the scanner takes (`StdoutEnds`, `StreamEnds`), and a
program may return after a fail that nobody awaits (`Finish`).

**`PluginDevice`**: registry, attach, rebind, release; listener, one connection slot, heartbeat, calls and the sweep.
Whoever takes a connection out of the slot does so under the device's lock and closes it after it (`TakeOut`,
`CloseConn`; `closer` says whose that is): between the two a newer connection may be accepted. `Stop` and `Rebind` go on
to shut their server down only then (`Shutdown`, `Rebound`), so a device that moves serves two addresses for a while
(`listen`, `leaving`), and an accept under way at the old one goes on. `sharedMu` is held through all of a rebind.
**`PluginBridge`** adds the forwarder: the pair of a plugin's socket and its upstream socket, the backlog until the
upstream opens, the close of one when the other closes, and the plugins and the network.

Operators called *Variant* are plausible wrong versions of the definition that follows them; no specification uses
them.

## Runs

| run | asks | instance |
|---|---|---|
| `schedule` | at most one message per timer, silence, no lost wake; every pending row is resolved, through a fault and a stop | two timers with different deadlines in either home, one always refused by the harness, quotas of one, one fault, one stop |
| `schedule_disposed` | *violated*: a disposed timer "never became truth" | one timer, one stop |
| `host` | units and connections accounted for, no entry leaked, one endpoint, never an older term, stale is final, clean close; the host converges and what is retired stops | one actor, two terms, three units, two bindings, close; a crash and a connection or two connections |
| `closure` | one terminal and it is last, no timeout before its deadline, accepted content is stored; every request closes, orphans before their deadline | one request of a member or of a client that repeats it, a member's write and the sweep's at once, two events |
| `closure_sliding` | *violated*: "a turn that keeps reporting progress never times out" | progress in flight while the reaper writes |
| `control` | ledger equals registry, a key fixes a body, nobody seated twice, stale is final, sealed is quiet; declarations converge, a quiesce joins | a human, an agent declaration and a peer declaration, three definitions, two domains; births and events together at most three |
| `station` | accounts have holders, overload is honest, nothing is silently lost, stop ends | two rows of any kind, capacities of one, two events |
| `pi_actors` | environments do not mix, no child orphaned or closed in use, nothing said after a terminal, honest retries, the call contract; calls return, cancellations reach Node, the actor ends | each of three actors, two requests, two children, channels of one frame, one retry |
| `code_runner` | open calls stay cancellable, the call contract; the run is answered, no call, process or promise is left | three programs: one word, return and fail over a pipe one response fills, and a word and return of a program that stops yielding, each with one event; two words that take both places of the semaphore before the return is read |
| `code_runner_deadline` | *violated*: what is in flight is in the pending set | two words, one deadline |
| `plugin` | registry true, an open connection is in its slot or about to be closed, one plugin per route, frames in order, the call contract; calls return, dead connections free the slot, a device rests with the bridge's current pair or none, a release returns | five scenes of up to three seats, two addresses, two plugins, one call |
| `plugin_moving` | *violated*: a device that is held is serving | three seats that move an endpoint |

In `BridgesAreHeld` a call that "found the child broken" is one whose write, stream or child failed. A request over the
frame limit is among them: `Bridge.write` reports it as a plain error, so pi-workspace discards a healthy child for it
(`bridge.go:314`).

*Events* are failed calls, crashes, departures, cancellations and stops; one counter bounds them together. A *scene*
or *kind* is chosen in `Init`: it picks which parts of the constants take part in a behaviour.
The type invariants of the host, control, station and Pi models are conjuncts of `StatesAreExact`, `SeatsAreTrue`,
`AccountHasHolder` and `BridgesAreHeld`; that of the scheduler, and the shape of the state of the other models as far as
their arguments need it, are part of the proofs alone.

**Why these bounds.** The races need two of something: two timers or rows to compete for a quota or slot, two terms to
be stale, two writers between check and append, two workspace calls for one environment, two plugins for one slot,
three seats for a stale address. Capacities of one make every queue, channel and pipe overflow. Hosts and closures
treat actors and requests independently, apart from the order of a pass and the expiry cursor; with one request the
cursor passes it and wraps, so its movement over several requests is **not** covered. Requests of pi-workspace are of
one session: sessions share only the pool's mutex and the workers. `UNIQUE`, the row order and the clock are modelled
by what they do. `CHECK_DEADLOCK FALSE` stands where the bounded world may come to rest.

### The four violations

* `schedule_disposed`: the append commits, the process stops before `MarkFired`, the author is removed. On restart
  the sink refuses the author and the row goes to `timer_dead` although its message is in the log; the comment at
  `runtime/schedule/engine.go:598` says it "never became truth".
* `closure_sliding`: the expiry sweep reads a request as due; progress lands; the reaper's terminal is still written,
  since nothing re-reads the window (`platform/home/expiry.go:66`). The comment is at `lib/actorbase/hooks.go:49`.
* `code_runner_deadline`: the deadline of one `tools/call` elapses; the host answers `call_failed`, its deferred
  `take` (`drivers/tools/coderunner/mcphost.go:411`) forgets the channel request, and nothing cancels it: it is
  in flight and tracked by nobody. The comment at 128 says the set "tracks in-flight
  tools/call requests" so that "the run's end can cancel the channel request".
* `plugin_moving`: seats 1 and 2 share an endpoint at A; seat 2 moves it to B; seat 3 attaches a new device at A.
  Seat 1's handle still has A, so its release (`drivers/tools/plugindevice/shared.go:181`, `118`) takes the grip of
  seat 3's device and stops it. The comment at 105 says "the last one out stops the Device" and
  "earlier ones must not, because the other callers are still using them".

Three further divergences have no run; in each the code is what is modelled.

* The doc of `nextFireAt` (`engine.go:453-455`) says a failed store read counts as "nothing due", while its code
  schedules a retry one backoff later (469-475).
* When two plugins dial the forwarder and their upstream dials reach the device in the other order, the device closes
  the newer pair's upstream and the forwarder has closed the older pair's plugin: both pairs end closed, while
  `tools/plugin-bridge/cli.js:191` has the forwarder mirror an adapter that "lets the newest one win". `WayIsLive` asks
  only that a connection the device rests with is the forwarder's current pair, which holds when there is none.
* After the end of the stream `execute` waits for the process and nothing else (`execute_unix.go:253-255`), on the
  ground that "stdout may close just before Wait reports the process status". A program that closes its stdout, or
  prints a line over the scanner's limit, and lives on leaves the request unanswered, and not even its cancellation is
  read. This state is `Stranded`; `RunAnswered` and `NothingHangs` name it as their exception.

### Fairness

* `Schedule`: the run goroutine, the clock, callers on their way to `wakeUp`, restart; strong fairness for `TakeStop`,
  because a Go `select` picks among ready cases at random.
* `ActorHost`: each goroutine goes on, builders return, the retry time passes. Not assumed: that commands or
  connections arrive.
* `Closure`: only the sweep, which has a ticker, and its writes. `EveryRequestCloses` takes the clock's progress as
  an antecedent; `OrphanCloses` does without it.
* `ActorControl`: commands under the lock end; strong fairness where the lock is contended.
* `Station`: each goroutine goes on. That a handler returns is an **assumption on bodies**: the code cannot force it.
* `PiActors`, `CodeRunner`, `PluginBridge`: one weak fairness condition on the steps of the code as a whole
  (`WF_vars(Code)`): while goroutines, timers or event loops have a step to take, one is taken. Nothing says that a
  tool, provider, program, plugin or called actor ever answers, nor that the network delivers or breaks.

## Proofs

The theorems hold for every value of the constants that satisfies the assumptions named in the modules that declare
them: `StoreAssumption`, `ScheduleAssumption`, `HostAssumption`, `LogAssumption`, `ClosureAssumption`,
`ControlAssumption`, `StationAssumption`, `NoneAssumption`, `SceneAssumption`, `WordAssumption`, `StatusAssumption`,
`PiAssumption`. They give the constants their types and keep "nothing" out of the sets it stands beside.
`SceneAssumption` also says that a plugin opens with its hello and says it once, which is the handshake of
`protocol.go:118`; `PiAssumption` that a request has its own calls, one per attempt.

**`ScheduleProofs`**: `TypeCorrect`, `FiredFollowsTruth`, `AtMostOnce`, `SilenceIsForGood`,
`NoLostWake`, `QuotasHold`: the safety properties of `schedule`, and three that no run repeats: the types
(`TypeOK`), that no row is marked fired before its message is in the log, and the quotas.

* `TypeOK /\ HandsInv` is inductive. `HandsInv` says that whatever the tables, the memory set or the loop hold was
  stored by its call, and that a fire on its way to the marker is in truth. `FiredIsInTruth` alone is not inductive:
  `Settle` marks the timer in the loop's hands, so what is known of it must be part of the invariant.
* `AtMostOnce` adds `LandedKeeps`: a landing extends the log only by an id that is not there.
* `NoLostWake` needs `ParkInv`: it also says what `nextFireAt` has read of memory before it asks the store
  (`ReadCovers`), and that the instant the loop works with is not in the future. A timer stored after a read has a
  caller still before its `wakeUp`, or a token in the channel.
* `QuotasHold`: only `StoreTimer` adds to a quota, and it counts in the same transaction.

**`ActorHostProofs`**: `MapIsExact`, `NoStrandedRoute`, `NewestTermServes`, `CleanCloseLeavesNothing` and the action
property `StaleTermStaysOut`: all the safety properties of `host`, for any number of actors, terms, units, connections
and crashes.

* `HostInv` is inductive. None of the four is by itself: what a late build or a late attach may do depends on what
  the entry of its actor holds. `UnitsOf` says whose the units are and how far they have come, `UnitHeld` and
  `BindingHeld` that nothing that runs or serves has lost its holder, `EntryOK` that the map has no entry too many.
* `KeysOf` carries the argument about terms. A key is on its way from the ledger through the snapshot to what is
  desired and to the endpoint, and on that way it only grows; a term that was called stale is older than everything
  that is still to come. So neither a builder nor a connection that returns late brings an older term back.
* `CloseInv` says what the phases of `Close` leave behind: once the builders are joined nothing is built, and a swept
  actor has neither body nor route again, although watchers and connections still run.
* Handlers change an entry in a few ways only (`Lets`, `Moves`, `Reroutes`); each way has one lemma, and the step of an
  action shows that it is of that way.

**`ActorControlProofs`**: `SeatsAlwaysTrue`, `KeysFixBodies` and the action properties `StaleForGood`,
`SealStaysQuiet`: all the safety properties of `control`, for any number of actors, declarations, hosts and events.

* `ControlInv` is inductive. `LedgerInv` says that of a running Controller only the entry whose change is held may be
  behind its row: this is the state between commit and publish, and it is why `SeatsAreTrue` speaks of a ledger with no
  change in hand. `HeldInv` ties the change to the command that holds the lock, `PullInv` the pull to agents.
* `SealStaysQuiet` needs, beyond `ControlInv`, that a closed Controller was sealed and joined.
* `KeyInv`: every key that is out was minted for its actor and not later than the last one minted; a new key is
  therefore nobody's, also after a restart.

**`StationProofs`**: `AccountsHaveHolders`, `OverloadIsHonest`, for any log, any page of the pump and any capacities.

* `StationInv` is inductive. `HonestOverload` needs that a row is in one place only: what lies beyond the cursor or in
  the mailbox is untouched by the engine (`InboxInv`), and what was refused or is to be is neither queued nor handed
  out (`RefusedInv`). The mailbox holds a row once because the cursor passes it once (`PumpInv`).

**`ClosureProofs`**: `OneTerminal`, `HonestExpiry`, `NoFalseDeath`, `AcceptedAlwaysStored`, `FinalAlwaysKept`, for any
number of requests and of writers in flight. That nobody is declared dead who is a member (`HonestDeath`) and that a caller's
account keeps its final (`FinalIsKept`) are stated here only, no run repeats them.

* The inductive invariant has three parts. `ChainInv`: what a write in flight was admitted on still holds when it
  lands, since members never come back and the log only grows; the sweep holds only requests it found open, and its
  first half only requests to receivers that have left. `AccountInv`: a caller's account has
  seen no more than the log holds, a final in it is the request's terminal in the log, and one that still waits has not
  passed that terminal. `AcceptedIsStored` itself is the third.
* `FinalAlwaysKept`: a final in the account is the stored terminal, and it leaves the account only into a `Wait`, with a
  `Submit` that reports a failure and drops the account, or with the process; a deadline or cancellation that comes late
  finds it and leaves it there.
* `OneTerminal` does not rest on the checks, which run before the transaction: it rests on the append's refusal of
  a second terminal inside it.
* `HonestExpiry` needs `DueInv`, on top of `ChainInv`: the window is over when the reaper reads the log, and stays over
  while its terminal waits for the pen, passes the chain and is appended, because the row that asked is already there,
  its span is fixed and the clock only goes on. That the scan compares with the latest row (`LastActive`) and that this
  row exists rests on no `ts` being ahead of the clock and on the well-ordering of the numbers.

**`PluginProofs`**: `RegistryAlwaysTrue`, `OneAlwaysLive`, `HelloIsFirst`, and the refinement `PluginKeepsContract`: all
the safety properties of `plugin`.

* `RegistryInv` adds that a device somebody is about to stop is in no entry and not fresh: between the removal of its
  entry and its stop a seat may attach at the same address, and gets another device.
  It also says that one seat at a time moves an endpoint and that its entry stays where the device was until it has moved.
* `OneAlwaysLive`: an open connection is in its device's slot, or the goroutine or seat that took it out has still to
  close it. An accept between the two finds the slot empty and closes nothing, so only `closer` accounts for the old one.
* The refinement needs `CallInv`: a call in flight is in flight in one device and unanswered, and no result is on
  any wire or in any backlog that its plugin did not give. A duplicate or late result then finds no call to claim.
* `HelloIsFirst` (`InOrder`) needs `OrderInv`: a hello leads its queue and the queues before it are empty; only an
  upstream socket that still connects has a backlog, so a frame forwarded directly never passes one that waits; and a
  pair that is not there yet has sent nothing.

**`CodeRunnerProofs`**: the refinement `RunKeepsContract` (`RunInv`: what is about to be said of a word is what its
call was settled with or a local outcome; the run is unanswered until `execute` answers it) and `OpenAlwaysTracked`
(each request of the runtime is in one place at a time, and a handler that waits has its entry in the pending set).

**`PiActorsProofs`**: `OwnEnvironment`, `HeldBridges`, `HonestReplies` and the refinement `PiCallsKeepContract`: all the
safety properties of `pi_actors`, for any number of requests, children and attempts and any capacities. The invariants
build on each other, each inductive with the help of those before it.

* `ReqInv`: the phase of a request tells how many attempts it has made, which call is open (at most its last), whether
  its heartbeat may run and what has been said of it; the queue holds a request once.
* `CallInv`: a call lives on one child, and a frame about it, on the pipe, in its channel or in the hands of the waiting
  goroutine, says what Node settled it with. `PiCallsKeepContract` follows: an answer is the settled verdict or one of
  the outcomes the Go side may give by itself, once.
* `HonestInv` adds to `RepliesAreHonest` what the retry loop knows between two attempts: it is there only after a
  refusal that may pass. That nothing follows a terminal is in `ReqInv`: the heartbeat is joined before it.
* `ChainInv`: the workspace calls of a child are in the chain once each, all but the first wait, and the first has
  replaced the environment by its own. `EnvIsOwn` alone is not inductive: it says nothing of those that wait.
* `PoolInv` and `BusyInv`: the entry's count is the number of requests that use its child, a child in the pool was never
  closed, and one that a waiting request lost was found broken by a call. Without the count the idle timer might close a
  child in use. It is a cardinality, which is why `Req` is assumed finite. `HeldBridges` follows, with the type
  invariant that `BridgesAreHeld` includes.
* `FailureIsMarked` and `OnlyRefusalsAreReissued`, about `PiVerdict` and every HTTP status: the two classifications agree
  that a failed model call carries an error code, and that it is issued again only after a refusal that may pass.

Only model-checked: all liveness (`NothingSilentlyLost` of `Station` included), which the prover does not do. Every
safety property of a passing run is also a theorem.

## What the models leave out

* `Schedule`: a close that stops waiting and leaves its goroutine behind; the `List` calls.
* `ActorHost`: `Deliver`, forwarded observations, the device's own plan loop. The execution spec is taken to be
  determined by the key, which is `KeyFixesBody` of `ActorControl`.
* `Closure`: `stopTimers` and the request canceller; rows of the expiry scan that cannot be read, whose starvation
  limit `messages.go:503-507` documents itself.
* `ActorControl`: who may end an actor. `Terminal` is open to any caller, so the checks of the caller's own term and
  membership (`commands.go:233-323`) are left out: the model ends actors in more states than the code does, and the
  safety properties hold of all of them. An error of `RestoreActive`; the "existed" branch of `Introduce`, unreachable since an insert mints
  its id. Admitting a principal again rewrites an equal row and is no change.
* `Station`: the pump's close and its handler-error branch; a body answers a request at most once. Losses in `unsaid`
  are exceptions to `NothingSilentlyLost`: the caller's deadline in `Closure` closes those requests.
* A write admitted before its author's removal still lands; no property forbids it.
* `PiActors`: decoding of arguments, the tools and providers, the selection of environments, token counts;
  `materialize`, whose atomic rename is the file system's. A terminal frame that finds room in its call's channel is
  appended at once; its goroutine is modelled only when it must wait.
* `CodeRunner`: the handshake (`initialize`, `tools/list`, `atoll_context`) is one request, "hello". Each rejection of
  a promise is a job of its own. `runner.mjs` never sends `notifications/cancelled`, so `pendingSet.cancel` is not
  reached. `atoll.all` starts calls a program may as well start itself, and log and progress notices carry no state;
  both are part of what the program may do. A fail request made after stdin ended is never answered: signals end that
  process. A program that stops yielding *with a full stdin pipe* is left out of the run: the stop then waits for a
  write that nobody reads, and `RunAnswered` does not hold of it (the hazard at `execute_unix.go:141`). The program with
  three lines has no event: with one TLC takes too long.
* `PluginBridge`: on the loopback address without heartbeat a silent peer does not occur, since the kernel closes the
  socket. `Sweep` rings one call per step. Of `cli.js`, argument parsing and validation (41-168) and the start of the
  servers in `main` (245-308) run once, before any connection.

## Not modelled

* `drivers/tools/pibridge/bridge.mjs` is generated: esbuild's bundle of `bridge.ts` with the Pi library and its
  dependencies, about 117,000 lines. The driver's README calls `bridge.ts` "the auditable source boundary", and that
  is the file modelled. Of the bundle only the two predicates whose results `bridge.ts` acts on
  (`isContextOverflow`, `isRecoverableLength`) are used, by what they can return. Counted in lines, the bundle is 99%
  of the repository's JavaScript, so the share of JavaScript lines the models stand for is below one percent, while
  most of `bridge.ts` and the stateful parts of `runner.mjs` and `cli.js` are covered.
* Parts with state that these models do not reach, and what there would be to check: the device runtime, link and
  daemon host (lanes and carrier replacement, composed with `ActorHost`); the channel host (reference-counted life
  cycle); the registrar (multi-step words against a concurrent introduction); presence, access door and subject gate;
  agents (turns against late providers); gateway sessions; self-update (a crash between its steps).
* Parts without state of their own, encodings, assembly and adapters to external programs: `PROJECT.json` names them.
