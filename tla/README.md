# A formal model of fm-robot-agent

`fm-robot-agent` is the process on every robot that answers its control verbs
over Zenoh (`fm/robot/<namespace>/<verb>`). This directory holds TLA+ modules
that model it, the TLC configurations that check them on small instances, and
TLAPS proofs of what matters most for every instance. The reference is the code
in `src/src/fm_robot_agent/`; each definition's lines are in `PROJECT.json`.

    cd tla
    tlc -workers 2 -config SeveringConfig_guard.cfg MCSeveringConfig.tla
    tlapm SeveringConfigProofs.tla

Sections 3 to 11 take the parts one by one; section 12 lists where the code
departs from what it says of itself, section 13 what is not modelled.

## 1. The system

One agent runs per robot under systemd (`Restart=always`). Its main thread
finishes a change its predecessor left open, opens a Zenoh session, declares the
queryable and waits for a signal. Zenoh calls the handler (`service.py:_handler`)
from threads of its own; the handler runs the router (`verbs.py`), which calls
one of four adapters. Two daemon threads run beside it: telemetry (Axol, SO-101)
and upkeep (Anvil). An adapter works through subprocesses (docker compose,
systemctl, sudo, scripts inside the ROS container) and HTTP, so most of its
state lives in things that outlive it: files, containers, the vendor's servers.

| Component | State | Operations | Hard behaviour | What makes it correct |
|---|---|---|---|---|
| Severing guard (`anvil.py`, `config.py`) | `.env.config`, `/etc/fm-comms.env`, the journal, staged `.tmp` files, what containers and bridge run with | config set / rollback, start-up rollback; up, down, mode recreate the same containers | a change can cut off the telemetry that proves it; crashes anywhere; two files, two owners; detached compose runs; overlapping handlers | what telemetry last vouched for is always on disk or in the journal; verified means the containers run it; both files or neither |
| Arm motion (`anvil.py` pose, collect; `arm_poses.py`) | two locks, two arm files, the mover, the collection loop, the recorder | pose list/plan/go/home, collect start/stop/status | processes that outlive the call that started them; guards read before the move; timeouts | two movers never drive the arms, nor a mover and the loop; no move without consent |
| Pose mover (`pose_move.py`) | which controllers are active, accepted goals, the time budget | measure, switch, send, wait, cancel, hand back, seed | every step may fail or time out, in between too | arms are held or handed back, and the reply says which |
| SO-101 host (`so101.py`) | the Popen it holds, the stack's process group, its HTTP server | up, down, record, stop | main-thread up races the fabric's up; an unreachable but live stack | one stack, which down ends |
| Axol (`axol.py`) | the vendor server's one operation, settings | set_mode, record, stop, config writes, up, down | two-call operations, errors swallowed | the operation after a verb is the one answered |
| Recording and pin (`anvil.py` session, record, stop; `trpc.py`) | the webapp's sessions, its pin, the active episode | session pin/clear, record, stop | the headset does the same at once | the take goes to the dataset that was asked for |
| Upkeep (`anvil.py` maintain) | the replay buffer's switch | maintain every 30 s | a restart switches it on again; a webapp that does not answer | it is turned off again, and only where the configuration asks for it |
| Perception debug (`anvil.py`) | one lock, the node's 60 s lease | on, off | a call queued behind a dead one | refused while one is in flight |
| Calibration store (`calibration.py`) | one file per camera and its previous copy | write, read | crashes between link, unlink and replace | the file is always a whole calibration |
| Bundle staging (`stage.py`) | the bundle's entries | stage | a swap of several entries, with undo | the bundle is the old one or the new one |
| Router (`verbs.py`) | none | one check and call per verb | wildcards reach every robot at once | a verb that moves something is never called by a wildcard; every query is answered |
| Client (`client.py`) | its deadline | query | its deadline against the handler's worst case | a timeout is not mistaken for an outcome |
| Agent (`service.py`) | start-up order, the loops | main, telemetry, upkeep | a loop that dies | loops outlive any one failure |
| Env files (`config.py`) | none | `env_values`, `env_replaced` | duplicates, comments | one live assignment, everything else kept |
| Fake adapter (`fake.py`) | an in-memory robot | every verb | - | it refuses what a robot refuses, and then changes nothing |
| Description, card, endpoint, CDR, protocol, retired `agent/fm_agent.py`, installers | - | reading, parsing, encoding, declarations; replaced code; shell | - | not modelled (section 13) |

## 2. Modules

| Part | Modules | Run | Proofs |
|---|---|---|---|
| Severing guard | `ConfigGuard` (abstract), `SeveringConfig`, `MCSeveringConfig` | `guard`, `plane`, `resolves`, `stale_verify` | `SeveringConfigProofs` |
| Env files | `EnvFile`, extended by `MCSeveringConfig` | assumptions evaluated by the guard's runs | - |
| Arm motion | `ArmMotion`, `MCArmMotion` | `arms` | `ArmMotionProofs` |
| Pose mover | `PoseMover`, `MCPoseMover` | `moves`, `stranded` | `PoseMoverProofs` |
| SO-101 stack | `So101Stack` | `hosted` | `So101StackProofs` |
| Axol | `AxolOps` | `axol` | `AxolOpsProofs` |
| Recording, pin, upkeep | `Webapp` | `recording` | `WebappProofs` |
| Description bundle's directory | `Calibration`, `StageSwap`, composed in `Bundle`, `MCBundle` | `files` | `BundleProofs` |
| Client, fabric, handler, router, fake robot | `Verbs`, `FakeAdapter`, composed in `Fleet`, `MCFleet` | `fleet` | `FleetProofs` |

Each run asks one question, and a fault that only some properties survive is
told apart by a history variable (`calm`, `overtaken`, `hidden`, `heard`, `adrift`,
`upset`, `crashes`) and not by a run of its own: it is named in the property,
where a reader sees what is excused. `stale_verify` and `stranded` are the two runs that TLC must
find violated.

Every invariant of a passing run, the refinement of `ConfigGuard` and the action
property `OptedOutKept` are also theorems. Liveness is not: `JournalResolves`, `WriteAnswered`, `CallAnswered` (of
the arms and of the SO-101) and `BufferHeldOff` rest on fairness, which is out
of the prover's reach, and are model-checked only.

## 3. The severing guard

A *severing* key (DDS domain, interface, transport) decides whether telemetry
leaves the robot. `config_write` classifies and validates the key; a severing
one is journalled with the whole contents of every file it touches, written to
the loader's `.env.config` and, for two keys, to the fleet's file, followed by a
blocking recreate of the containers and a restart of the bridge. Then the agent
waits for telemetry seen *after* the restart: it keeps the change, or puts both
files back and restarts again.

### State

| Variable | Code |
|---|---|
| `env`, `fleet` | contents of `.env.config` and `/etc/fm-comms.env`, as functions from keys to values (the readers' view, `env_values`) |
| `journal`, `tmp` | the journal file; the `.tmp` beside each file, one name for every writer |
| `running`, `bridge` | the transport the containers were last started with; the fleet file the bridge was last started with |
| `detached` | compose runs of up, down and mode that nobody waits for |
| `pc`, `req`, `saved`, `old`, `image`, `fresh` | per thread: position, key and value asked for, contents the call would restore (`previous`, or the journal's), contents `_write_paired` found, what its compose run starts, whether telemetry was seen since its window opened |
| `custody` | who may replace the fleet file: not there, the agent (`_writable`), or only root's writer |
| `vouched` | history: the transport telemetry last vouched for |

A thread is a handler call or the main thread at start-up (`Boot`). An action is
the code between two points where another process can be seen or can see: one
file operation, one subprocess, one decision. `Stage` writes the temporary
files, `PutEnv`/`PutFleet` are the renames, `FleetWrite` the sudo writer,
`StartRecreate`/`EndRecreate` the blocking compose run, `RestartBridge` the
systemctl call and the start of the window, `TelemetryReturns`/`WindowCloses`
its end, `UndoEnv`/`UndoFleet` the two halves of `_restore_files`. `Crash` can
strike between any two of them; `Start` is systemd's restart and
`finish_open_change`.

`Faults` names what can go wrong (`recreate`, `bridge`, `denied`, `late`,
`write`, `disk`, `gap`); each run chooses. `Serial` says whether Zenoh calls the handler
one query at a time; the code does not say, so it is a parameter.

### Properties

* `Recoverable` - the last transport telemetry vouched for is on disk, or the
  open journal brings it back. It fails if the journal is opened too late,
  closed too early, or an undo forgets a file.
* `GuardSpec` - `SeveringConfig` implements `ConfigGuard`: announce, change,
  keep or undo; the disk's transport changes at no other time.
* `VerifiedIsApplied` - when a change is answered as verified, the containers
  run it.
* `QuietReaches` - with nothing in flight and no change open, telemetry reaches
  the fabric.
* `RevertRestoresPair` - after a revert both files hold what they held.
* `ErrorMeansNothingMoved` - when the write raises, an `AdapterError` or the
  `OSError` of a rollback that failed, both files are as found.
* `JournalResolves`, `WriteAnswered` - an open change is settled; a severing
  write is answered.

### Runs

| Run | Question | Faults, bounds |
|---|---|---|
| `guard` | `TypeOK`, `Recoverable`, the inductive invariant `IInv`, `GuardSpec` | recreate, bridge, write; 1 handler, a paired severing, an unpaired severing, a mode and a motion key, all verbs, 2 crashes |
| `plane` | `VerifiedIsApplied`, `QuietReaches`, `RevertRestoresPair` | write; three values so that a good value can replace a good one; 2 crashes |
| `resolves` | `ErrorMeansNothingMoved`; `JournalResolves` and `WriteAnswered`, under `FairSpec` | recreate, bridge, denied, write; 2 crashes |
| `stale_verify` | **violated**: `VerifiedIsApplied` | recreate |

What the violated run shows:

* `stale_verify`: `_compose_blocking` does not read the recreate's exit code and
  swallows its timeout. If the recreate failed before it touched the old
  containers, they still publish with the old configuration once the bridge is
  back; the window sees them and the change is answered as verified. The code's
  comment (`anvil.py:1217`) takes a recreate that hung for a data plane that has
  not come back.

More instances are worth knowing and are not among the runs. With the fault
`late` in `resolves`, `ErrorMeansNothingMoved` fails: a writer that times
out after it wrote leaves the fleet file changed under an error whose caller
"must be able to trust nothing moved" (`anvil.py:1087`). It fails with `disk`
too: the file that was replaced cannot be put back, and the `OSError` escapes
past `except AdapterError`, so that the journal stays open as well
(`anvil.py:1091`). With the fault `gap` in `plane`, `RevertRestoresPair` fails: a
root-owned fleet file whose saved text had no alias of the key is passed over by
the revert, which leaves the half state it exists to prevent (`anvil.py:873`); so
it does with `denied` or `disk`, an undo that is refused. With two handlers and
`Serial = FALSE`, two changes are open at once: reading and opening the journal
are two steps without a lock (`anvil.py:802`). Whether handler calls can overlap
is not in the code; the adapter's own non-blocking locks for pose, collect and
perception assume that they do.

### Bounds, and why they are enough

`MaxCrashes` bounds crashes: with two, an agent can die in a change and again in
the rollback it inherits; a third finds the same files. `MaxDetached = 1`: a
second detached run starts the same containers with one of the same transports.
One handler is enough under `Serial`. Two
values, one of which kills telemetry, distinguish kept from undone; `plane` adds
a third so that two working transports differ. One key per class stands for the
class: no step compares two keys of one class, except that a paired and an
unpaired severing key are both there.

### Fairness

`Fairness` is weak fairness of every step of a call in flight, and of the
agent's start. Every wait in these steps has a deadline in the code
(`RECREATE_TIMEOUT_S`, `COMPOSE_TIMEOUT_S`, `VERIFY_WINDOW_S`), and systemd
restarts the agent (`Restart=always`). Nothing is assumed of telemetry, of
clients, or of detached compose runs. Crashes are bounded, so the liveness run
says: once the agent stops dying, the change is settled. A write that cannot be
made (`write`) is among the faults of `resolves`; an undo or an unlink that
fails (`disk`) is not, since one that fails for ever keeps a journal for ever.

### Deadlock

Deadlock is checked in every run: at rest a call can always arrive, and while
the agent is off it can start.

### What is proved

`SeveringConfigProofs.tla`, for every value of the constants allowed by the
assumptions `KeysAssumption`, `AtomsAssumption` and `EnvironmentAssumption`:

* `TypeCorrect` - the type invariant, with any faults and overlapping handlers.
  It needs `Control`: what a thread's position says about what it remembers,
  since a step reads fields of a request or entry that may be `None`.
* `Safe` - the inductive invariant `IInv`, under `Benign`: calls one at a time,
  and no fault but restarts and forward writes that fail (recreate, bridge,
  write).
* `JournalRecovers` - `Recoverable`, from `Safe`.
* `GuardImplemented` - every behaviour is one of `ConfigGuard`.
* `RevertRestores` - `RevertRestoresPair`, from `Safe`.
* `ErrorMovesNothing` - `ErrorMeansNothingMoved`, under `Honest`: calls one at a
  time, and any fault but `late` and `disk`, each of which breaks it.
* `VerifiedApplies` - `VerifiedIsApplied`, under `Waited` (calls one at a time,
  any fault but `recreate`) and `[]NoneDetached`.
* `QuietPlaneReaches` - `QuietReaches`, from `PlaneHolds`, under `Steady`
  (`Benign`, and restarts that work) and `[]NoneDetached`.

`Recoverable` is not inductive. That a closing journal leaves the right files
depends on how far the thread that closes it has come, so `Progress(t)` says,
for each stretch of a call, what it remembers of the open change and what it has
already moved or restored; `Exclusive` says nobody else is inside a change;
`AliasesHeld` says the fleet file holds every alias, without which a key-by-key
restore forgets one; `OnlyItsAlias` says an open change has moved no alias but
its own, without which putting that one back would not restore the file.
`StepKeeps` is proved action by action, `OthersIdle` transfers it to the other
threads, and `FilesKeep` covers the steps of the surroundings.

`ErrorMovesNothing` and `VerifiedApplies` need little of this, and so assume
less: an invariant each (`MovedInv`, what a write in flight has moved of what it
found; `RunInv`, that the containers run what is on disk from the recreate on)
that the other faults cannot disturb. `PlaneInv` ties files to the plane: what
was vouched for reaches the fabric, the plane runs it when no change is open, and
each position of a call says which of containers and bridge its restart has
brought up.

The hypotheses are what the code needs. With each of denied (an undo that is
refused), late, disk and gap, or with overlapping handlers, one of the instances
above or a file operation that is passed over breaks `IInv`. With `recreate`,
`VerifiedIsApplied` fails (`stale_verify`); with `bridge`, `QuietReaches`: the
bridge that was not restarted after a revert still has the undone file. With
`up` among the verbs of `plane`, `VerifiedIsApplied` and `QuietReaches` fail: the
compose run that nobody waits for ends within the change and starts the
containers with what it read before. (`Recoverable` does not see it: it is about
what is on disk and what telemetry has vouched for, whatever the containers ran.) Hence `NoneDetached`, which the lemma
`Attended` gives for every robot without mode keys that nobody starts or stops.

### Only model-checked

Liveness: `JournalResolves`, `WriteAnswered`.

### Abstracted

* A file is what its readers see; lines, comments and duplicates are in
  `EnvFile` (section 6).
* A bridge whose file lacks an alias uses a default taken to be right.
* Compose reads the configuration when it is spawned; an interrupted recreate
  leaves the old containers or none.
* The host does not lose power: what a rename put in place stays there.
* The fallback probe of a bench run (no Zenoh session) is not distinguished from
  the fabric's.

## 4. Arm motion

Two verbs move the Anvil's arms. `pose` runs `pose_move.py` inside the ros2
container; `collect` starts and stops the collection loop, a container of its
own, through its script. `ArmMotion` has both, and the calls that overlap.

### State

| Variable | Code |
|---|---|
| `poseArmed`, `collectArmed` | the operator's two flag files |
| `recording`, `loop` | the workcell's recorder; the loop's container: off, starting, on, homing |
| `mover` | every process of `pose_move.py`: planning, ready (not yet moving), driving |
| `poseLock`, `collectLock` | `_pose_lock`, `_collect_lock`: who holds them |
| `pc`, `act`, `mine`, `seen` | per call: position, action, the process it waits for, the three guards as it read them |
| `clear` | history: which guards held at some moment since the call had both locks |
| `adrift` | history: a start of the loop was given up at its timeout, and the loop has not been off since |

A call takes `_pose_lock`, for a move also `_collect_lock`, reads the arm file,
the recorder and the loop one after the other (`ReadArmed`, `ReadRecording`,
`ReadLoop`), decides, and starts a mover (`Launch`); `EndPose` is the end of
`docker compose exec`, by its process or by the agent's timeout. A collect call
runs the script (`RunScript`) and is answered when the script ends or the timeout
kills it, at any time and wherever the loop is (`EndScript`): "a timeout kills the
script, not the loop container it started" (`anvil.py:680`), so that a container
that was asked for may still come up, and an arm that is homing goes on
(`LoopStarts`, `LoopEnds`). `Crash` empties the locks and
leaves movers and loop; `Arm` and `Record` are people.

### Properties and runs

| Run | Question | Faults, bounds |
|---|---|---|
| `arms` | `ArmsExclusive` (until the agent dies, two movers never drive the arms, nor a mover and the loop but in the case below), its inductive form `ArmInv`, `CallInv` (a lock is held by a call that needs it), `MoveWasClear` (a move was armed and no take was on at some moment since it held its locks); `CallAnswered`, under `FairSpec` | unread; 2 calls, 2 movers, 1 crash |

The code says more: "a move holds the collect lock too, so the loop cannot start
mid-move" (`anvil.py:547`). That is `OneAtATime`, which fails as an invariant of
this instance in two ways:

* A `collect start` that times out leaves the loop's state unknown
  (`anvil.py:686`, `test_anvil.py:552`): it lets go of the lock while the container
  it asked for may still be coming up. The next move reads that no loop runs, sets off,
  and the loop comes up beside it. `ArmsExclusive` names this, by `adrift`: the
  loop may drive beside a mover only if its own start was given up.
* The locks die with the agent, the mover does not, and the next agent can start
  the loop, or another mover, beside it for up to 80 s (`anvil.py:569`).
  `ArmsExclusive` ends at a crash.

`MoveWasClear` says as much as the code can keep. The recorder is read before
the loop's script and the mover's start, and a take takes no lock, so a take
that begins in between is moved into: that a mover never *sets off* into a take
(`arm_poses.py:16`) does not hold. Nor is every process gone before the lock is
let go (`arm_poses.py:97`): a plan is waited for 30 s and may run 80 s. It moves
nothing, and `ArmInv` says that whatever can move is still waited for.

Two calls show every pair that can meet, and two movers the one a call waits for
and the one a lost call has left behind. Deadlock is checked: at rest a call can
arrive.

Fairness: weak fairness of each call's steps, since every wait has a timeout
(`COLLECT_TIMEOUTS_S`, `POSE_TIMEOUT_S`, 30 s for a plan), and of a mover's end,
which the container's `timeout 80` enforces. Nothing is assumed of the loop, the
operator or the headset.

### What is proved

`ArmMotionProofs`, for any number of calls and movers. `CallsKeepLocks` and
`MovesAreClear` hold with every fault and crash: `CallInv` ties each lock to the
positions of the call that holds it (`LocksHeld`) and what a call has read to
what was so since it held the locks (`Cleared`). `ArmsOwned` and `OneDriver`
hold without any hypothesis, starts that time out included. `ArmsExclusive` is not
inductive: it needs that a mover that can move belongs to a call that waits for it
(`MoversOwned`) and that the loop stays off from the moment a move saw it off,
being started only under the collect lock, unless it is adrift (`LoopKept`).

### Abstracted

Only the verbs start the loop: an operator who runs the script by hand takes no
lock, and the code cannot know. Pose names and angles, collect's options, the
`list` action and the wording of replies are left out. An exec that fails has
started nothing.

## 5. The pose mover

`PoseMover` is one run of `pose_move.py`: measure, check the time, wait for the
servers, switch both arms to their trajectory controllers, send two goals, wait,
then hold, or cancel and hand back: measure again, switch to the forward
controllers, seed them with the position measured.

### State

| Variable | Code |
|---|---|
| `pc`, `to`, `recovering` | which call of `Controllers` is next, which way it is switching, whether `run`'s except clause runs |
| `request`, `swing` | plan, go or home (`hand_back`); the furthest any joint has to turn, rad |
| `clock` | seconds of the budget; each step takes up to its timeout |
| `controller`, `goal`, `position` | the robot: the active controller, the goal, and where each arm is (start, between, target) |
| `handles`, `known`, `seeded`, `reply` | goals the run can cancel, the last measurement, what was seeded, what was answered |
| `found` | history: the controllers the run found |

Each call may be refused or time out; with the fault `raise` each may also raise
before it has had any effect. The other faults are answers the run does not
hear: `unconfirmed` (a switch made, its answer or confirmation late),
`lateAccept` (a goal accepted after `send` gave up), `uncancelled`, `unmeasured`.

The variable `hidden` has those that have happened so far, and `unread`: the
states could not be read when the arms were to be handed back, so that the run
does not know which controllers they are on. A property names just those its
claim depends on (`SawRest`, `SawPosition`, `SawControllers`).

### Properties and runs

| Run | Question | Faults |
|---|---|---|
| `moves` | `ReplyIsTrue` (the reply says where the arms are), `SeededWhereTheyAre` (no jump), their inductive form `RunInv`; `OverByHardStop` (a run whose try does not raise is over in 80 s) | all |
| `stranded` | **violated**: `NeverStranded`, the controllers under "nothing moved", whatever was hidden | unconfirmed |

`ReplyIsTrue`, reply by reply:

| Reply | Says of the arms | Unless hidden |
|---|---|---|
| planned | no goal, at the start, controllers as found | - |
| nothing moved | no goal, at the start | - |
| | controllers as found | the switch, or the states (`stranded`) |
| holding | at rest, at the target, trajectory controllers | - |
| handed back | at rest, forward controllers | - |
| holding on their trajectory controllers ("stuck") | trajectory controllers | the switch, or the states (`StuckOnTrajectory`) |
| | at rest | a late acceptance, or a cancel that failed (`StuckAtRest`) |

`stranded`: a switch that was made but not confirmed is answered as "nothing
moved", without a hand-back; the arms stay on the trajectory controllers.

The mover's own deadline of 70 s is not kept: the switch and the sends are not
cut to the budget and the hand-back may take 28 s of a reserve of 20, 78 s in
all, though `pose_move.py:101` says that every step is given only the time left.
The hard stop at 80 s leaves two seconds, from which the start of Python and
rclpy, which come before the budget and are not in the model, have to be taken.

Each exception is needed. A hand-back whose switch is made and not confirmed
answers that the arms hold on their trajectory controllers (`pose_move.py:186`),
while they are on the forward ones, unseeded: `StuckOnTrajectory`, the same
without the exception, fails as an invariant of `moves`, as does `StuckAtRest`: a
goal accepted after 5 s has no handle to be cancelled by (`pose_move.py:268`), nor
is a cancel confirmed (`pose_move.py:170`), so that an arm can move under a reply
that it holds. And with no joint states after a failed move, the seed is the
position before it (`pose_move.py:181`), as the code means it to be.

Swings of 1, 6 and 7 rad are the shortest duration there is, the longest move
still started when no time was lost, and one that is refused. Times are multiples
of 5 s or the whole timeout (`Grain`); the theorems have every `Grain`. A run
ends, so `CHECK_DEADLOCK` is off.

### What is proved

`PoseMoverProofs`, with every fault: `TypeCorrect`; `OverInTime` (a run whose
try does not raise ends within 80 s, for any distance and any split of the
times), from `BudgetInv`, which bounds the clock at every step; `RunsKeep`,
`RepliesAreTrue` and `NoJump`. `RunInv` adds to the replies, part by part:
`GoalsKnown` (both arms on one controller; a running goal has a handle or was
accepted late), `NothingYet` (up to the first goal nothing has moved),
`GoalsCommanded` (goals run under the trajectory controllers) and `BackAtRest`
(handing back begins with arms at rest and a measurement of where they are, if the
run could see either).

### Abstracted

The two arms switch together (the request is strict). A controller in transition
reads as not switched. Where an arm stops short is one position, `between`. The
process being killed from outside, and an exception that is not an `Exception`,
are left out.

## 6. Env files

`EnvFile` has the two functions with which the agent reads and edits a file of
`KEY=value` lines that is not its own. A line is an assignment, tight or with
space around `=`, or a comment (a commented-out assignment is one). `EnvValues`
is `env_values`, `EnvReplaced` is `env_replaced`. Two named assumptions, which TLC
evaluates before each of the guard's runs over every text of at most three lines
and every edit of one:

* `EditIsRead` - what is read after an edit is what was read before, with the new
  value in its key's place. This is what lets `SeveringConfig` take a file as a
  function that a write changes in one place.
* `EditKeepsLines` - every other line, the comments first of all, stays as it is
  and in its place, and the key is assigned once.

Three lines are a duplicate, something before it and something behind it. The
second assumption has an exception that is the code's: a spaced assignment is
read by `env_values` and not removed by `env_replaced`, so that its key is then
assigned twice, and the last one, the edit's, wins (`config.py:185` says
"exactly once").

## 7. The SO-101 stack

`So101Adapter` starts the stack that drives a pair of arms as a child process and
ends it; `service.main` does so at the start and end of an agent that hosts one,
on the main thread, while the fabric is already served (`service.py:285`).

| Variable | Code |
|---|---|
| `stack` | `self._stack`, the child the agent remembers |
| `proc`, `asked` | every child alive: connecting, serving; which were asked to end |
| `alien`, `mode` | a stack started by hand that serves; what the serving stack does with the arms |
| `pc`, `awaited` | per thread: the statement it is at, the child whose `wait` it is in |
| `calm` | history: calls came one at a time, each request was answered in its 2 s, no start took more than 30 s, and no stack started by hand was taken for the agent's own |
| `overtaken` | history: the calls whose last wait is for a child that was started behind the one they killed |
| `said` | history: the last answer |

`Probe`, `Spawn`, `SpawnFails` (the log or the command cannot be opened: the
exception leaves the call before there is a child), `Poll`, `Reach`, `GiveUp` are
`up`; `Check`, `ProbeDown`, `Terminate`, `Await`, `Wait`, `WaitNoLonger`, `Kill`
are `down`, one action for each use of `self._stack`, which each reads it again; `Post` is the request
of mode, config write, record and stop. `Connect`, `Exit`, `ByHand` are the
children and a person.

The run `hosted` (one handler and the main thread, two children) checks:

* `OneStack` - a calm agent has no child but the one it remembers.
* `SaidIsTrue` - after a `down` that answered, or an `up` that failed, none of a
  calm agent's children is alive.
* `StackInv` - the inductive form of both.
* `CallAnswered` - every call ends, however calls overlap and whatever the stack
  does, one that neither connects nor ends and one that cannot be started
  included. One exception is named: the last wait of a `down`, which has no limit,
  when an `up` has put a new child in the place of the one just killed.

Without `calm` the first two fail, as the code stands: `up` asks whether a stack
answers, not whether a child lives (`so101.py:162`), so that a live stack that is
slow is doubled and the first one forgotten; an `up` that gives up leaves its
child; and the start-up's own `up` can be met by a fabric one. A `down` whose
child another `up` has replaced waits, at the end without a limit, for the new
one (`so101.py:195`).

Fairness is weak for a thread's steps and strong for `GiveUp`: the loop of `up`
ends after 30 s whatever it finds in between. Nothing is assumed of children.
Two children are a forgotten and a remembered one; a third is forgotten like the
first. Deadlock is checked: a person can always start or end a stack.

`So101StackProofs`, for any number of calls and children: `StackOwned`
(`StackInv`), `StackNeverForgotten` (`OneStack`), `StackSaysTrue` (`SaidIsTrue`).
`OneStack` is not inductive: `Owned` adds that one call at a time is in progress,
that a child connects only under the `up` that started it, that no child is
alive where `spawn` is reached, and that a `down` waits for the remembered one.
`CallAnswered` is model-checked only.

## 8. The Axol

Every verb of `AxolAdapter` is one to four HTTP requests to the vendor's server,
which runs one operation. `Plan` lists them, verb by verb, in the code's order;
a call is what it has yet to ask (`todo`). Between two requests other calls and
people at the server's own interface (`Outside`) change the same state.

| Variable | Code |
|---|---|
| `op`, `linked`, `setting` | the vendor's server: its operation, whether the motors are connected, a setting that shapes motion |
| `verb`, `wanted`, `todo`, `said` | per call: verb, operation asked for, requests left, answer |
| `touched`, `alone`, `heard`, `clear` | history, per call: it changed the server; nobody else has; every answer was heard; no operation ran at some moment |

A request is done (`Done`), refused by the server (`Refused`), or not heard
(`Unheard`: not reached, too late, or done with its answer lost). `Raised` is
what follows: only `_stop_operation` goes on.

The run `axol` (two calls, two operations, requests that may be lost) checks:

* `AnswerIsTrue` - when every request was heard, an ok has done what its verb
  says unless somebody else changed the robot; a refusal has changed nothing; an
  error has changed nothing but in a mode whose new operation did not start and
  in a stop, after both of which no operation runs.
* `MotionWasClear` - a setting that shapes motion is about to be written only if
  no operation ran at some moment of the call. It cannot be more: the guard reads
  before the write (`axol.py:355`), and the server takes the write whatever runs.

`heard` is needed: `OkIsTrue`, the first part without it, fails as an invariant of
this instance. `_stop_operation` swallows every `AdapterError` (`axol.py:521`),
where its docstring has "tolerating there being none": a stop or record stop
whose request was lost answers ok with the operation still running. Abstracted:
values and their types, the vendor's schema, the reads of a dataset's files.

`AxolOpsProofs`, for any number of calls and operations: `AxolHolds`
(`AxolInv`), `AxolTyped` (`TypeOK`), `AxolAnswersTrue` (`AnswerIsTrue`),
`MotionClear` (`MotionWasClear`). The answer of a call depends on what it did
before its last request, so `AxolInv` says for every position that a call which
was heard has changed the server only where it is `Halfway` (it has stopped an
operation, and not yet started one or let the motors go), that no operation runs
there unless somebody else started it, and that a motion key past its guard met
a moment without one. `Left` lists the suffixes of each plan, since a proof
cannot compute with a sequence it knows only the length of.

## 9. Recording, the pin and upkeep

The Anvil's webapp keeps one pinned session, one take and the replay buffer's
switch; the agent's calls are requests to it (`trpc.py`), and the headset and the
web page use the same state.

| Variable | Code |
|---|---|
| `sessions`, `pin`, `take`, `takes`, `buffer`, `away` | the webapp: sessions by dataset, the pin, the take and its session, takes so far, the replay buffer, whether it restarts |
| `call`, `todo`, `said` | per call: what it asks, requests left, answer |
| `since`, `quiet` | history, per call: who changed pin or take since it began; nothing recorded at some moment of it |
| `held` | what `_holds_replay_buffer_off` finds: CycloneDDS on, and no `KEEP_REPLAY_BUFFER` |
| `tick`, `asked` | where `maintain`'s tick is; history: the configuration asked for the buffer to be off at some moment of it |

`ReadActive` is `_active_episode`, `FindSession` and the `create` of `Mutation`
are `_find_or_create_session`, `ReadPin` the read-back of `session`, `Mutates` a
`TrpcClient.call`, which may be done and raise all the same; `Raises` is any of the
ways in which `trpc.py` fails without effect, which all reach the caller as an
`AdapterError`. `TickBegins` reads the configuration, `ReadsBuffer` and `TurnsOff`
are the two requests of `maintain`, `TickFails` is either of them refused, unheard
or unreadable; `Reconfigure` is whoever edits the configuration. `Restart` loses the pin and the take and turns the buffer on.

The run `recording` (two calls, one dataset, two takes, two restarts) checks:

* `AnswerIsTrue` - while nobody else changes pin or take, an ok has done what it
  says, a start recording into the dataset it named whatever is pinned, and a
  refusal has changed neither.
* `PinWasIdle` - the pin is changed only by a call that found nothing recording.
* `StopFoundItsTake` - a stop that names its take, and changes anything unaided,
  ends that take: never an older or a newer one it was not told of.
* `BufferHeldOff` - a buffer that is on is turned off again, or the configuration
  no longer asks for it, however often a read or a switch fails.
* `OptedOutKept` - upkeep turns no buffer off that the configuration has not asked
  it to since the tick began: CycloneDDS off, or `KEEP_REPLAY_BUFFER`
  (`test_anvil.py:1124`, `:1132`).

`PinWasIdle` says as much as the code can keep: a take that begins between the
check and the change is not seen, as neither read is under a lock. A silent
subscription is read as "no pin" (`anvil.py:385`), which `ReadPin` includes: a
pin that was set may be answered as not confirmed, and one that was not cleared
as cleared; such a call counts as one that does not know (`since`). Fairness is
weak for the timer, which a failure does not end (`service.py:159`), and for a
webapp that restarts to come back, and strong for the two requests of a tick: a
webapp that is asked again and again is not silent every time. Restarts are
bounded, so that `BufferHeldOff` speaks of the time after the last one. With one
dataset the calls contend as a pin against a clear and a take against either; the
theorems have any number. Two takes are one that was named and one that came after it. Abstracted:
topics, notes, names.

`WebappProofs`, for any number of calls, datasets, takes and restarts:
`WebappHolds` (`WebappInv`), `WebappTyped` (`TypeOK`), `RecordingTrue`
(`AnswerIsTrue`), `PinIdle` (`PinWasIdle`), `StopFound` (`StopFoundItsTake`),
`OptedOut` (`OptedOutKept`).
`WebappInv` adds that until its last request a call has changed neither pin nor
take, except that a pin is set before it is read back; that past its first
request a call for the pin has met a moment without a take, and a stop that names
its take has seen it; and `LastTake`: only the take numbered last is ever
recording, so that one that was seen does not come back after another.
`BufferHeldOff` is liveness, and model-checked only.

## 10. The description bundle's directory

The agent writes calibrations (`calibration.py`) in the directory that `fm robot
stage` (`stage.py`) restages. `Calibration` and `StageSwap` have their own
variables, `Bundle` composes them, and one power loss ends both.

`Calibration`, for one camera: `file` and `prev` are its file and the one before,
`durable` what the disk would give back, `dir` whether their directory was made by
a write and is not yet kept by the disk, `lock` the class-wide lock, `step`,
`asked`, `entry`, `synced` where each call is, what it sets, what it is about to
store and whether its temporary file is on the disk; `allowed` is the history of
what a field may be. `Load` reads and merges under the lock, `Fsync`,
`UnlinkPrevious`, `LinkPrevious`, `Replace`, `SyncDir` are `_replace` statement by
statement, `Raises` an `OSError` from any of them. `Flush` is the system's own
write-back, which may put a name on the disk before contents that were not
synced; `AgentDies` and `PowerLoss` strike between any two.

`StageSwap`, for one run: `bundle` and `before` are the managed entries now and at
the start, `aside`, `fresh`, `placed` what was moved out, copied, moved in; `at`
the statement. `MoveFails` is an `OSError` from a rename, after which `Unplace`
and `PutBack` undo; `Abandon` is an undo that fails or an interruption, `Clean`
the `finally`, `Killed` an end without it. `upset` is the history of the last two.

The run `files` (two writers, one value, so that a field is set, unset or
unreadable) checks:

* `AnsweredIsStored` - on disk and after a power loss, a field is what the last
  answered write of it stored, or what a later, unanswered one asked for. The
  exception is a directory that the write itself has made: `calibration.py:187`
  does not sync its parent, so that a power loss may take the directory with every
  answered write in it, until the system has written it back. `FirstIsDurable`,
  the same without the exception, fails as an invariant of this instance, where
  the code has "Write durably" (`calibration.py:185`).
* `PreviousIsKept` - a write that puts its entry in place has left the replaced
  file under the other name.
* `NeverHalfStaged` - a run that ends has replaced all managed entries or none,
  unless it was upset.
* `BundleInv` - the inductive invariants `CalibrationInv` and `StageInv`. The
  latter has `OldIsKept`: until the new bundle is complete every old entry
  exists, in the bundle or beside it.

A second value would tell two writes of one field apart, which the lock orders;
two writers of different fields are what loses an update. A run of the stage
ends, and the agent goes on, so deadlock is checked.

`BundleProofs`, for any number of writers and values: `BundleHolds`,
`CalibrationKept`, `PreviousKept`, `StageIsAtomic`, `OldKept`. `AnsweredIsStored`
rests on who holds the lock, on what was synced before the rename, and on the
merged entry still being the file's other field when it is put in place.

Not in the model: two runs of `fm robot stage` at once, which take no lock; the
format of a lens and a mount, checked before anything is touched.

## 11. From the command line to the robot

`Fleet` has callers (`client.py`), the fabric, the handler (`service.py`), the
router (`Verbs`, from `verbs.py`) and the robot that `--fake` serves
(`FakeAdapter`, from `fake.py`).

`Verbs` has no state: `VerbOf` is `verb_of`, and one predicate for each verb says
which bodies reach the adapter. `FakeAdapter` has the robot as a record and each
verb as a function to the robot it leaves and whether it did as asked. In `Fleet`:

| Variable | Code |
|---|---|
| `robot`, `up` | each robot, and which have an agent |
| `typed`, `query`, `exit` | what an operator typed, what was asked, the exit code |
| `due`, `flying`, `got` | agents that have the query; replies on their way; replies that came in time |
| `changed`, `did` | history: robots the query changed, robots that did as asked |

`Type` is `main` with its checks (`Usage`) and the body (`Payload`); `Handle` is
`_handler` in one agent, which refuses, serves, fails (an `AdapterError`, which a
real adapter may raise before or after what it was to change) or, when the adapter
raises anything else, drops the query; `Arrive` and `End` are the client's loop. It
ends with the replies, when there are no more to come, or at the timeout, when the
fabric replies itself (`TimedOut`): `query` takes that error reply for an answer
(`client.py:194`), so that the exit code is 1. A query an agent has is carried out
all the same.
`Crash` loses the queries, the robot's memory and replies.

The run `fleet` (one operator of robot 1, one other caller, two robots, one
crash; the lines typed and sent are in `MCFleet`) checks:

* `OnlyNamedChanges` - a robot is changed only by a query that names it.
* `ExitIsTrue` - 0: the robot did as it was told. 2, and 1 with a refusal of the
  robot's own: it did not, and is as it was. 1 with the fabric's reply at the
  timeout or with an adapter's failure, and 3, say nothing of the robot: the same
  code 1 stands for "declined, and unchanged" and for "may have done it, or may
  yet", and only the text that is printed tells which.
* `ClientAgrees` - a command the client accepts is one the robot can read, but
  for ill-formed values, and for verbs the client leaves to the robot.

The lines are a selection: reads and writes under a wildcard, a change of each
part of the robot that a refusal depends on, what only the client, the router or
the robot refuses, a verb nobody has, one that raises. A body stands for those the
router does not tell apart. A second operator would use state the first one does not
see but through the robot, as the other caller does. Deadlock is checked.

`FleetProofs`, for any fleet, callers, lines and bodies: `FleetTyped` (`TypeOK`),
`OnlyTheNamed`, `ExitsAreTrue`, `AcceptedIsRead` (`ClientAgrees`). `ExitsAreTrue` needs `ToldInv`: while a robot has a command it
has answered nothing, and once it has, what it said is what it did. `FleetTyped`
needs `RobotsSound`: a robot that records has named its take. `AcceptedIsRead`
needs `AskedInv`, that what an agent is asked is the body of the line that was
typed, and rests on the lemma `ClientFits`: `Payload` of a line that `Usage` lets
pass is a body the router reads, verb by verb. It assumes of a line what the
parser guarantees (`TypedAssumption`: a known verb, `list` asks for a status, a
config key comes with its value) and of `Slug`, the name of the n-th take, that
it is not empty.

Worth knowing of the code: `FakeAdapter.set_mode` takes one argument and the
router gives it two (`verbs.py:215`), so that `mode` on a bench agent is never
answered and the caller ends with 3 (`Drop`); `FakeAdapter.stop` leaves the name of
the take it ended; the client cannot name an asset.

## 12. Where the code departs from its own words

Runs that TLC finds violated: `stale_verify` (section 3), `stranded` (section 5).
Kept out of the runs, and reproduced by adding the property to a run's
configuration as it says:

| Property | Instance | Code |
|---|---|---|
| `ErrorMeansNothingMoved` | `resolves` with the fault `late`, or `disk` | `anvil.py:1087` |
| `RevertRestoresPair` | `plane` with the fault `gap`, `denied` or `disk` | `anvil.py:873` |
| `OneAtATime` | `arms` | `anvil.py:546`, `test_anvil.py:552` |
| `StuckOnTrajectory` | `moves` | `pose_move.py:15`, `:186` |
| `StuckAtRest` | `moves` | `pose_move.py:171`, `:186` |
| `OverByDeadline` | `moves` | `pose_move.py:101` |
| `OkIsTrue` | `axol` | `axol.py:518` |
| `FirstIsDurable` | `files` | `calibration.py:185` |

## 13. Not modelled

* The telemetry loop (`service.py:publish_telemetry`): it reads and publishes, and
  changes nothing.
* The Anvil's perception debug switch: a non-blocking lock around one ROS
  service call. What can go wrong is in the lease, which the perception node
  keeps, and that node's code is not in this repository.
* The description bundle's reads, the robot card, the endpoint, CDR and the
  adapter protocol: parsing, encoding and declarations without state.
* status, episodes, disk and the lists of config and pose: reads.
* The retired `agent/fm_agent.py`, and the installers, which are shell.
