# A TLA+ verification of teeproxyd

teeproxyd is an Android daemon that starts a protected VM (`pvm-manage`), waits
until it answers on vsock, starts the CA (`secret_proxy_ca`) and keeps both
going. It is one thread in one `poll()` loop; everything hard about it comes
from what happens around that thread: children that die at any moment, signals
that arrive between any two statements, pids that are reused, operators who send
commands in any order, and deadlines.

This directory holds TLA+ modules for the daemon, TLC configurations that check
them on small instances, and TLAPS proofs that hold for every value of the
constants. `PROJECT.json` lists runs, mutants, theorems, hazards and the source
lines of every definition.

    tlc -config MCSafety.cfg MCTeeproxyd       # model-check
    tlapm TeeproxydProofs.tla                  # prove

## 1. Inventory

| Component (source) | State | Operations | Talks to |
|---|---|---|---|
| main loop, signals (`main.rs`) | self-pipe, place in the loop, `last_health` | signal handler, poll, read, `reap_children`, `handle_child_death`, health check, crash-count reset, shutdown | everything below, by direct calls |
| startup (`startup.rs`) | `StartupPhase` with deadlines | `advance_startup`, once per iteration | VM and CA managers |
| VM manager (`vm.rs`) | state, `child_pid`, `crash_count`, `ready_since` | `start`, `stop`, `mark_dead`, `set_state`, `is_dead`, `maybe_reset_crash_count`, `validate_images`, `probe_vsock` | process helpers |
| CA manager (`ca.rs`) | the same four fields | the same, with `is_port_ready` | process helpers |
| health monitor (`health.rs`) | two counters | `probe` | the CA's port |
| IPC (`ipc.rs`) | the line being read | one connection at a time, line-delimited JSON commands | managers, log reader |
| process helpers (`process.rs`) | the kernel's process table, log files | `spawn_with_log`, `graceful_kill`, `is_alive`, `kill_tree`, `rotate_if_needed` | kernel |
| configuration (`config.rs`) | constant after start | load with defaults | file |
| log reader (`log_collector.rs`) | none | `tail_log` | file |
| init service, scripts, SELinux | - | - | outside the program |

What is hard, and what correctness means there:

- **Deaths and signals.** SIGCHLD coalesces, interrupts `poll()` (EINTR, whose
  empty revents are then acted on), and several deaths share one byte. No death
  may be forgotten (`NoLostDeath`, `ZombiesAreReaped`); SIGTERM must get through
  (`NoLostTerm`, `TermExits`); a CA that dies as fast as it is restarted must not trap the
  daemon in `reap_children` (`ReapTerminates`, `ReapProgress`). The pipe is bounded, written by
  nested handlers and read 64 bytes at a time (`PipeAsPromised`, `TermIsRead`).
- **Pids.** A pid is free for reuse once it is reaped. What a manager records must
  be its own child (`OwnedIsOurs`), and what it has stopped must not come back as
  a crash (`StopIsNotACrash`) or as a restart (`StoppedStaysStopped`).
- **Stopping.** `stop()` is a sequence of signals and helpers against processes
  that exit, fork or ignore SIGTERM at any point of it (`StopLeavesNoTree`,
  `StopAsPromised`), each meant for a process that is still the daemon's own
  (`SignalsAreDue`).
- **Partial failures.** `start()` may fail before or after it has changed the
  state (`StateMatchesChild`); `rename`, `open` and `spawn` may fail between two
  log files (`RecentIsKept`); a configuration may be half-written or partly wrong
  (`ConfigIsWhole`, `OverridesHold`).
- **Two starters.** Startup, crash restart, health restart and operators all start
  processes; none may run without an owner (`NoOrphans`) or outlive the daemon
  (`CleanExit`).
- **Startup and time.** Phases in order, the CA's not before the VM has answered, and
  back only when a child is lost (`StartupInOrder`); an end (`StartupSettles`), close to the deadlines (`DeadlinesKept`), not before the VM
  has been asked (`ProbedBeforeGivingUp`), and without starving the health check
  (`HealthOnTime`).
- **Health.** A verdict exactly at the threshold (`VerdictIsExact`) and no mixture
  of failures that hides a dead CA (`DetectionBound`).
- **Clients.** A connection is served inside the main loop: which clients can keep it
  there (`LoopResumes`)? And its lines must get their own answers (`AnswersAreExact`);
  what `tail_log` answers must be the newest (`TailIsNewest`).

## 2. Modules

| Module | Models | State, notes |
|---|---|---|
| `Processes` | children in the kernel's eyes, the self-pipe | `proc`, `pipe` |
| `Managers` | `VmManager`, `CaManager` | `vm`, `ca`: records with the four fields |
| `HealthMonitor` | `HealthMonitor::probe` | `health` |
| `Startup` | `advance_startup` | `phase` |
| `Teeproxyd` | main loop, signals, IPC handlers: the composition of the four above | `pc`, `client`, `got` |
| `StartupOrder` | abstract: what the startup promises | implemented by `Teeproxyd` |
| `SignalPipe` | abstract: the self-pipe as a set of kinds | a component of `Teeproxyd`; implemented by `SelfPipe` |
| `ChildLife` | abstract: what becomes of a child that is stopped | implemented by `VmTree` |
| `Requests` | `Teeproxyd` with the history of what was asked of it | `stopped`, `asked` |
| `HealthWatch` | the monitor alone, with the history of its probes | `log`, `silence` |
| `SelfPipe` | the self-pipe byte by byte, with nested handlers | `pending`, `handlers`, `queue`, `got` |
| `IpcSession`, `IpcHistory` | one connection after the other; with its history | `at`, `peer`, `inbox`, `line`, `answer`, `outbox` |
| `VmTree` | `stop()`, `graceful_kill`, `kill_tree` statement by statement, crosvm below `pvm-manage` | `pc`, `rounds`, `child`, `crosvm`, `sent` |
| `LoopTiming` | loop and startup with a clock: poll timeout, deadlines, interval | `waited`, `last_health` |
| `LogFiles` | `spawn_with_log`'s files, rotation, `tail_log` | `cur`, `old`, `fd`, `hist` |
| `ConfigLoad` | `load_with_warnings` against an operator who edits | `file`, `version`, `config` |
| `Claims` | what documents say of the daemon and the code does not do | |
| `MCTeeproxyd` | instance for TLC | pid symmetry |
| `TeeproxydProofs`, `HealthWatchProofs`, `SelfPipeProofs`, `IpcHistoryProofs`, `VmTreeProofs`, `LoopTimingProofs`, `LogFilesProofs`, `ConfigLoadProofs` | proofs about the module of that name | section 4 |

Correspondence with the code:

- **Processes.** `proc[p]` says whether pid `p` is a child of ours and whether it
  is running, signalled and still dying, or a zombie that crashed or was killed. A
  zombie still answers `kill(pid, 0)`, as in the kernel. A reaped pid is free and
  may be handed out again by the very next spawn. `pipe` is the *set* of byte
  kinds in the self-pipe: the loop only asks which kinds a read contained. A read
  returns any non-empty part, and kinds it returned may also stay behind.
  `Teeproxyd` takes its signals and its reads from `SignalPipe`. `SelfPipe` has the
  bytes and implements `SignalPipe`: whatever the bytes can do to the loop, the set
  can do too, so what is checked of the loop with the set holds of it with the bytes.
- **Main loop.** `pc` follows the statements of the loop; each action is one block
  of it (a handler with all the calls it makes). Environment steps (a child exits,
  SIGTERM) come between any two blocks. A signal that arrives in a blocked `poll()`
  may take the EINTR path: nothing is read and no client is accepted in that
  iteration.
- **Time.** `Teeproxyd` keeps no instants. Whether a deadline or an interval has
  passed, and what a probe answers, is chosen by the environment at the step that
  reads it; `ready_since` is only `Some` or `None`. So every order of timeouts and
  events is covered. `LoopTiming` has durations instead, and of the daemon only what
  the durations need: an `Instant` is its age, every reading of which is a
  comparison with a `Duration`; the `as i32` of the poll timeout and the `u64` sum of
  the deadline wrap at `Half` and `Width`.
- **Startup.** `WaitingVsock { delay_done }` is split into the phases `BootDelay`
  and `WaitingVsock`. `Failed` has no message.
- **Managers.** `Stopping` is never visible: `stop()` sets it and leaves it before
  it returns, and nothing else runs meanwhile. `crash_count` is a `u32` compared only
  with the limit, so it saturates there. A failing `start()` has two outcomes: nothing
  changed (images or binary missing), or `Starting` (the spawn failed). In
  `Teeproxyd` a `stop()` is one step, after which the child is "dying"; `VmTree`
  has every statement of it, and implements `ChildLife`, which is that one step.
- **IPC.** The six commands that change state are actions of `Teeproxyd`. `ping`,
  `status`, `tail_log`, unknown commands and malformed lines change nothing. In
  `IpcSession` a byte is one of four kinds (the text of a whole request, white
  space, a line end, not UTF-8) and an answer says whether the text parsed. EOF with
  and without a last line, the 64 KiB cut, the read timeout, a full socket and the
  two ways in which a failing write is treated are actions. The reference in
  `IpcHistory` does not read along: it says at which positions of a whole stream a
  piece ends (`Ends`) and what text the piece has (`Piece`).
- **Logs.** A child keeps the file it was given: `Moved` is what a rename does to an
  open file. A line carries its number in the order of writing.
- **Configuration.** A version of the file gives each field a value, none, or one
  that does not fit. Reading is two steps (`exists`, `read_to_string`), writing is
  two steps (truncated, complete).
- **Helpers** (`vsock-test`, `pkill`) are waited for by `Command` itself; what is
  left of them is the byte their SIGCHLD puts in the pipe. (A failed `exec` may
  leave such a byte too; it is left out, as reaping with no zombie changes nothing
  but when the next zombie is seen, which is free anyway.)

Definitions named `X_Something` are fault variants of `X`: a plausible mistake in
the code it models, used to check that the properties can fail.

## 3. Runs

| Run | Question | Instance |
|---|---|---|
| `safety` | pids, stops, deaths, SIGTERM, states, revival, startup order, the work left in the reap loop, with all six commands | 2 pids, strike limit 2, thresholds 2 and 1; 4.8 million states |
| `liveness` | orphans and clean exit when clients only stop; reaping, the crash loop, SIGTERM, startup settling | 2 pids, limit 2, thresholds 1, the three stop commands; 150 thousand states |
| `health` | verdicts against a count over the history; the detection bound | thresholds 2 and 3, histories of 7 |
| `self_pipe` | the byte queue implements the set of kinds; SIGTERM is read | capacity 3, reads of 2 |
| `ipc` | each piece of a stream gets its own answer, once, in order; who can hold the loop | limit of 3 bytes, a history of up to 6, sockets of one byte and one answer; clients may send for ever |
| `vm_tree` | nothing survives `stop()`; no signal goes astray; the sequence is the one step | 6 rounds of grace; both managers |
| `timing` | health checks, deadlines, a probe before giving up | see below |
| `logs` | what rotation keeps; what `tail_log` shows | 2 children, files of 2 lines, 6 lines in all |
| `config` | whole or not at all; obeyed if it fits | 2 fields, 2 values, 2 completed versions |
| `claim_vm_restart`, `claim_forgiven`, `claim_crosvm` | statements of the repository that the code does not keep | the smallest that shows it |

**Bounds.** `Pids` bounds the children alive or unreaped at once; when none is free
a spawn fails, which is one of the outcomes anyway. Two suffice for a VM and a CA,
for a zombie beside its successor and for reuse of a pid. `CrashLimit` is 5 in the
code; 2 has both a strike that is followed by a restart and one that ends in
`Error`. Thresholds of 1 and 2 have a probe that counts and one that decides.
`MaxProbes` bounds the history of `HealthWatch` only; 7 is more than one full
tolerance (6) of its thresholds. `Capacity` and `ReadSize` are small enough for a
full pipe, nested handlers at a full pipe, and a `T` behind a read. `MaxSent` bounds
only what the history keeps: beyond it the client goes on and the history is given up
(`over`) until the next connection. It is
twice `MaxLine`, so a line is cut twice, a cut falls on a line end, and a short line
follows a cut one. `Grace` only repeats its round. In `timing` `HealthInterval` (10)
is above `Half` (8), so the i32 wraps to a negative number, as an interval above 24
days does; the poll timeouts keep the order of the code's (CA < boot < vsock) and
`BootTimeout` leaves exactly room for the two slow iterations that `Patient` asks
for. `MaxLines` is three files' worth, so the oldest file is unlinked. `MaxEdits` 2
has an old version against a new one. The proofs have none of these bounds.

**Symmetry** over pids is used for `safety` only, where no liveness is checked.

**Deadlock** is checked everywhere: an exited daemon (`Exited`), a full history
(`WatchDone`), a finished stop (`Stopped`) and a thread that waits for itself
(`Waits`) are explicit.

**Fairness**, and why it is justified. In `Teeproxyd`:

- `WF(Daemon)`: the thread is scheduled and its calls return. Every call has a
  bound of its own, except `Command::output`/`status` of the helpers (a `vsock-test`
  that hangs is outside the model) and what a client can do, which is the third item.
- `WF(ChildExits(p))`: a child that was sent SIGKILL exits. `StopAsPromised`
  derives it for the real sequence of signals, from the fairness of the thread and
  from SIGKILL alone.
- `WF(ClientGone)`: a connection ends. This is an assumption about the clients, which
  the code does not enforce: `LoopResumes` shows that it fails for exactly two kinds of
  them, those that keep sending and those that leave an answer unread in a full socket.
  `ZombiesAreReaped`, `TermExits` and `StartupSettles` hold for the others.
- `SF(StartupStep /\ DeadlinePasses)`: the clock moves, so a waiting phase sees its
  deadline pass. It does *not* assume that a probe ever succeeds. `DeadlinesKept` is
  the same with durations.
- `SF(ReadSignals /\ "T" \in got')`: the pipe is a FIFO. `TermIsRead` derives it
  from the queue, unless the thread is stuck in a full pipe.

`SelfPipe`: the handler that runs goes on, the loop comes to its read again and
again, and a pending signal that keeps being deliverable is delivered.
`IpcSession`: the thread is scheduled and the read timeout fires on silence; nothing is
assumed of the client, and `LoopResumes` names, as alternatives, the behaviours of
clients in which the loop does not come back. `claim_forgiven` adds that sixty seconds pass (`ClockSpec`).

### What the claim runs show

1. `claim_vm_restart`: a VM that dies is never started again. `mark_dead()` clears
   `child_pid`, and `is_dead()`, which `advance_startup` asks one step later, needs
   it. Both reset branches of `advance_startup` are dead code. `StartupOrder` allows the
   steps back that they would take, so a repaired daemon would still implement it.
2. `claim_forgiven`: strikes against the CA are never reset once it has been
   restarted, because `ready_since` is set by the startup only.
3. `claim_crosvm`: `stop()` of a VM whose `pvm-manage` has died and been reaped runs
   neither `kill_tree` nor `pkill`, and an orphaned crosvm goes on.

### Other differences between code and text

Met while modelling. The models do what the code does; none of the properties takes
the code's side against the text, and where one stops short of a row the last column
says so.

| Text | Code | See |
|---|---|---|
| main.rs:39 "If the pipe is full we silently drop" | the pipe is blocking: the handler waits for the thread it runs on | `Waits`, `TermIsRead` |
| ipc.rs:20 the read timeout prevents blocking the main loop | it is per read, and `write_all` has none: a client that keeps sending, or does not read, holds the loop | the two exceptions of `LoopResumes` |
| ipc.rs:19 line-delimited commands | a line above 64 KiB is answered in pieces | `Ends`, `AnswersAreExact` |
| process.rs:43 true if the process exited within the grace period | false for every child of the daemon: nobody reaps meanwhile | `WaitedOut` in `VmTreeProofs` |
| startup.rs:85 "VM ready" | `Ready` is set although `pvm-manage` has died, if a crosvm answers | `StateMatchesChild` leaves `Ready` out; `ProbeVsock` |
| startup.rs:65 logs delay and timeout | their `u64` sum wraps in a release build | `VsockWait`, `DeadlinesKept` |
| INTEGRATION.md:89 `pvm.log` rotates at 10 MB | only when a child is spawned | `Spawn`, `RecentIsKept` |
| log_collector.rs:8 "(file not found)" | also for a file with a byte that is not UTF-8 | `NotFound` |
| README.md:11 the CA is launched after vsock is ready | a stop, or a death of the VM, between the probe and the start is not noticed; a stop during the startup is undone by it | `AdvanceCaStarting`; `StoppedStaysStopped` is about stops after a settled startup |
| README.md:14 exponential backoff | the CA is restarted on the spot | `ReapCa` |
| health.rs:36 ten consecutive timeouts before a restart | the counters survive the process they counted for | `WatchReplaced`, `VerdictIsExact` |
| ipc.rs:98 the startup starts the CA after `start_all` | not when it is not running | `HandleStartAll`; no property |
| startup.rs:111 "but process running" | `Complete` on the deadline, with or without a CA | `AdvanceWaitingCaPort` |
| INTEGRATION.md:102-110 one child of each kind | a second start overwrites `child_pid` | `NoOrphans` needs `Quiet` |
| README.md:12 restarts CA on failure | a restart whose spawn fails stays in `Starting`, where no probe looks | `CaStart`, `HealthProbe` |

## 4. Proofs

All for arbitrary constants. Assumptions: `NoPid` is not a pid and there are finitely
many pids, the strike limit is positive, thresholds are naturals and the timeout
threshold is positive (it is 10 in the code); capacity, buffer, line limit and socket
sizes are positive; the poll timeouts of the phases lie within the clamp, as 500, 1000
and 2000 ms do; times and log sizes are naturals; a field's value is none of the
markers. Every invariant that a run checks is proved here, as are all action
properties and the refinements of `StartupOrder`, `SignalPipe` and, without its
fairness, `ChildLife`.

**`TeeproxydProofs`.** Invariants `TypeOK`, `OwnedIsOurs`, `StopIsNotACrash`,
`NoLostDeath`, `StateMatchesChild`. None but the type invariant is inductive alone:
that a stopped child is not recorded needs that a recorded pid is the manager's own
kind (else the stop of one manager could hit the other's child), and typing of
`child_pid` needs all of it. `IInv` conjoins them in a form suited to the proof:
`VmOk(m, procs)` and `CaOk(m, procs)` state what must hold between a manager's
record and a process table, so that a handler which kills, stops and spawns is
followed call by call with one lemma per call (`KillKeeps`, `StoppedOk`,
`ReapKeeps`, `MarkDeadOk`, `SpawnKeeps`, `VmStartKeeps`, `CaStartKeeps`).
`NextIInv` has one step per action. `NoLostDeath` is inductive because a read either
leaves the `C` in the pipe or moves to `reap`, and `reap` is only left without
zombies.

`StartupRefinesOrder` needs of `IInv` only the type of the VM's record: every branch of
`advance_startup` is a step of `StartupOrder`, the reset branches included. Two theorems
are about `Requests`. `OnlyCommandsRevive` (`StoppedStaysStopped`) is not inductive
either: it needs that what a client has stopped was stopped after a settled startup, and
that a settled startup stays settled (`AtRest`); with `IInv` a manager in `Idle` has no
recorded child, so no reap restarts it, and no probe touches it. `TermIsNotLost`
(`NoLostTerm`) follows the `T` through the pipe and `got`: a read that does not return it
leaves it, and `got` is only emptied by an iteration that had no `T` or goes to the
shutdown.

`ReapUsesItselfUp` (`ReapProgress`) is why the loop of `reap_children` ends, without
fairness: `Work` counts two for each strike that is left to the CA, two for a child
that lives and one for a zombie. An exit and a reap take one; a restart adds the two
of the new child and costs the two of a strike, and the reap before it takes one
more. So there are at most `Work` of them, however fast the CA dies. It needs `IInv`
for the CA's count, and that the set of pids is finite.

For clients that send no start command (`Quiet`): `NoOrphans` and
`CleanExit` (of `pvm-manage` and the CA; an orphaned crosvm is the matter of
`claim_crosvm`). The strengthening `NotYetStarted` says that a manager has no child
before the startup comes to start it; together with `IInv` every spawn then finds no
recorded child (`QuietHasNoOrphans`, `QuietExitsCleanly`). `Quiet` is needed: `start()` does not look at `child_pid`.

**`HealthWatchProofs`.** `DetectionBound` for all thresholds. The inductive invariant
is `silence <= failures * TimeoutThreshold + timeouts`, with both counters below
their thresholds: a refusal forgets the timeouts before it, but counts as a full
round. With the default configuration a CA that never answers is restarted within
30 failed probes. `VerdictIsExact` compares each verdict with a count over the
history, and says nothing about the counters by which the monitor came to it:
`CountersAreRuns` adds that each counter is the number of probes that still count
(`Counted`), of which a probe adds one or forgets all.

**`SelfPipeProofs`.** The queue implements `SignalPipe` for every capacity and every
buffer: the kinds in a queue are those in what a read takes together with those in
what it leaves, and an append adds one.

**`VmTreeProofs`.** `StopLeavesNoTree` and `SignalsAreDue` for every grace period. `TreeInv` says at which
step of `stop()` SIGKILL has been sent and from which on no crosvm runs; it needs
that a child on record was not reaped, and that nothing forks after SIGKILL. That
the early returns of `graceful_kill` are not taken (`WaitedOut`) is a part of it, and
with it `NoSignalGoesAstray` (`SignalsAreDue`).
`StopIsOneStep` is the refinement of `ChildLife` without its fairness (`LifeSafety`):
whatever signal comes first and whenever the child exits, its life is the one that
`Teeproxyd` gives it with a single step.

**`LoopTimingProofs`.** `HealthOnTime`, `DeadlinesKept`, and `ProbedBeforeGivingUp`
for `Patient` configurations. `TimeInv` bounds, for each place of the loop, what may
have passed since the code last looked at each clock (`Since`); `I32Below` is the
lemma that `as i32` never makes a timeout longer, so the wrap only costs iterations.

**`ConfigLoadProofs`.** `ConfigIsWhole` and `OverridesHold`. The strengthening: a
whole file holds a version that was completed.

**`LogFilesProofs`.** `RecentIsKept` and `TailIsNewest`, for any number of children
and any size. `Kept` adds to the types that, as long as one child wrote at a time,
the only open file is the current one; without it a line could go to the rotated
file, behind newer ones. A suffix is treated by its positions (`Ends`), which the
lemma `EndsIsSuffix` relates to the library's definition. `Kept` was checked by TLC first.

**`IpcHistoryProofs`.** `AnswersAreExact`, for every `MaxLine` and for streams of any
length. It is not inductive, as it does not speak of the line being read. `HInv` says
that the stream is what is done, the line and the inbox (`Split`); that the line has
not ended and is below the limit while it is read, and has ended, or the stream has,
when it is dispatched (`LineShape`); and that what is done ends where the reference
ends a piece too, unless the client has left (`Whole`). The lemmas before it are
about the reference alone: which ends a whole stream has once a line is added, and
that bytes that come later change neither the ends nor the pieces before them. `OverInv`
adds that a history which was given up comes back empty with the next connection.

Only model-checked, because the provers have no ENABLED and no fairness:
`ZombiesAreReaped`, `ReapTerminates`, `TermExits`, `StartupSettles`, `LoopResumes`,
`TermIsRead`, and the fairness in `StopAsPromised`. Only by TLC, too, the three
claims, which are counterexamples.

## 5. Not modelled, and plan

Not modelled: JSON and wording, what `status` prints, logging; the images' checks
beyond "start may fail"; file system layout; `acquire_listener` (whether an
inherited socket listens is decided by its declaration to init, and `teeproxyd.rc:84`
declares none with `+listen`, so this looks like a live defect); a helper that never
returns; a child killed by a real-time signal, for which nix's `waitpid` fails after it
has reaped (`main.rs:209` then drops that death); the panic of `Instant + Duration` for
huge configured timeouts; a 64 KiB cut inside a multi-byte character, at which
`read_line` fails and the connection ends; Android's init, SELinux, deployment scripts. In particular a restart
of the daemon by init: what the new daemon meets depends on what init does with the
children of a service that died, which is not in this repository.

Next: type invariants of `IpcSession` and `VmTree` as theorems of their own; bounds in
place of the liveness properties where the code has one, as `ReapProgress` is for
`ReapTerminates` (the steps of a connection, those of a shutdown).
