# Stackhand in TLA+

Stackhand runs the Services and One-shots of a development Project in one
terminal: it starts them in Dependency order, watches their health, restarts
them within a budget, and stops them, dependents first. This directory holds
TLA+ models of that code, the TLC runs that check them, and TLAPS proofs. All
paths below are relative to `src/` unless they name a module.

To check one run: `tlc -config SupervisorPair.cfg MCSupervisor.tla`.
To check the proofs: `tlapm SupervisorProofs.tla`, and likewise every module whose
name ends in `Proofs`.

## 1. The system

| Part | Where | State it keeps | What it does | What makes it correct |
|---|---|---|---|---|
| Process lifecycle | `src/supervisor/process_lifecycle.rs` | per Process: desired state, lifecycle, current and next Run identity, cleanup purpose, failure, restart budget and backoff, health tracking | one method per transition (`begin_run`, `request_stop`, `hold_unconfirmed_cleanup`, `finish_confirmed_run`, ...) | a Run identity is released only when its process tree is gone; a stop outlives every automatic restart; a budget is never exceeded |
| Supervisor core | `core.rs`, `schedule.rs`, `events.rs`, `shutdown.rs`, `readiness.rs`, `liveness.rs`, `mod.rs` in `src/supervisor/` | the lifecycles, the selected Profile, the one Project shutdown | one task that takes commands, adapter events and timers in turn, and after most of them runs one scheduling pass | admission respects Dependencies; shutdown is final, ordered and terminates; reports of old Runs change nothing |
| Check sets | `src/supervisor/checks.rs` | per check: state, streaks, attempt in flight, log window | schedule attempts, count answers against thresholds | each attempt counts once, with its own answer |
| Run record and adapter | `run_record.rs`, `runtime.rs`, `seam.rs` in `src/supervisor/` | per Run: owner thread, queued stop, completion claim | spawn workers, own the Run, report back through one channel | a stop and a natural end are both answered, once |
| Owned run, shutdown ladder | `src/runtime/run.rs`, `ladder.rs`, `process_tree.rs`, `outcome.rs` | the OS process group, the escalation step | signal, wait, kill, reap, drain, confirm | the outcome says "confirmed" only when the tree is gone |
| Transports | `src/runtime/pty.rs`, `pipe.rs`, `input_writer.rs`, `src/byte_budget.rs` | queued input, byte reservations | move bytes without exceeding a shared budget | no leak of reservations, no lost order |
| Log matcher | `src/runtime/log_matcher.rs` | one armed pattern per log check | report the first match of each | a match belongs to the attempt that armed it |
| Probes | `src/supervisor/probe.rs`, `exec.rs` | active attempts with a cancel flag | one thread per attempt, one answer | a cancelled attempt does not answer |
| Terminal owner | `src/terminal/owner.rs`, `command_gate.rs`, `session.rs`, `state.rs` | terminal state, a bounded command queue, the published frame | serialize output, input, resize and scroll; publish frames and events | order kept, scrolls coalesced, senders never wait for a dead owner, no frame or failure missed |
| Output history | `src/output.rs`, `output/` | per Process: segments, unfinished lines, generation; one Project budget | append, mark a Run, evict, snapshot, search | accounting survives eviction; the largest history goes first |
| Logs on the screen | `src/process_logs.rs`, `log_view.rs`, `pipe_scroll.rs` | page, anchor, selection, scrollbar, query and matches | move, pause, follow, select, search | a paused page stays; nothing points at expired output |
| Application loop | `src/app.rs`, `src/app/`, `src/console.rs`, `src/tui/mouse.rs`, `profile_menu.rs` | selection, focus, menus, dialogs, the bounded input queue, one interaction per terminal | read host input, route it, render, call the Supervisor | only lossy mouse input is dropped; input goes to the Process that was selected; leaving Copy clears it |
| Configuration and model | `src/config/`, `src/model.rs`, `src/output_settings.rs` | the effective Project per Profile | lay the documents over each other, validate, resolve, select, show | no Dependency cycle, conditions fit the kinds, the last layer wins, a selection is whole |
| Drawing, encodings, fixtures, entry point | `src/tui/`, `src/terminal/input.rs`, `render.rs`, ..., `src/fixtures.rs`, `src/main.rs` | – | – | not modelled |

How they interact. The core calls the adapter (`RunSeam`: start, stop,
arm_log_matcher) and the probes (`ProbeSeam`) and never waits for them; each
spawn, exit, probe and match comes back as a `SeamEvent` on one channel, tagged
with the Process, the Run, and for checks the work and attempt. Users' commands
come on a second channel. Deadlines are polled when the task's `select` times
out (`mod.rs:151-183`). The application reads immutable snapshots. Each
Run's terminal has threads of its own: clients send commands through the gate,
the owner takes turns between the child's output, its replies and the commands,
the writer delivers input. Readers of pipes and terminals append to one output
history, whose snapshots the Logs share. The Project itself is decided before
any of this, by the configuration, and only its selected Profile changes.

What is hard here. The core is sequential but its inputs are not: a report can
be queued behind the command that makes it obsolete, a timer can be due for a
Run that is gone, a stop can meet a Run that already ended, a cleanup can fail
to be confirmed and be retried, and the shutdown must wait for exactly the Runs
that can still answer. The other concurrent parts are the per-Run owner threads,
the transports, the terminal owner and the host input reader. The application is
sequential again, but works in passes: it draws from a snapshot, and then routes
a whole batch of input with what it knew before.

`PROJECT.json` lists every component and every hazard at its line.

## 2. The modules

| Module | Models | How it corresponds |
|---|---|---|
| `ProcessLifecycle` | `process_lifecycle.rs` | One operator per method, from a `ProcessState` record to the next one. No variables: it is the library the core uses. |
| `HealthChecks` | what the core may expect of a check set | The aggregate states one accepted result may lead to, per kind of policy. |
| `Supervisor` | the core and, as its environment, the adapter | Variables `lifecycles`, `profile`, `shutdown` are the fields of `Core`; `adapter` is what each Run's worker holds and still owes; `batch` is the rest of a command that visits several Processes. One action per command, event kind and timer. |
| `RunIdentity` | – | The abstract promise about one Process's Runs; `Supervisor` refines it (`RunsAreIdentified`). |
| `CheckSet` | `checks.rs`, the transitions of `liveness.rs`, the armed patterns of `log_matcher.rs` | Per check the `CheckProgress` record, the attempt in flight and whether its window closed; the workers' answers as a set, since several threads send them. |
| `SeamState`, `RunSeam` | what the core may rely on of the adapter | The states of one Run in the adapter as the core can tell them apart, and the operators that change them. `Supervisor` uses them for its environment; `RunSeam` is the same protocol as a specification of one Run. |
| `OwnedRun` | `run.rs`, `ladder.rs`, `process_tree.rs` in `src/runtime/` | The process tree (`root`, `members`) and the one cleanup as a program counter over the code's looks, signals and waits. |
| `RunAdapter` | `run_record.rs`, `own_run` and `RunSeam` in `runtime.rs` | `record` is `RunState`, `request` and `deadline` the rest of `RunCoordination`, `owner` the owner thread, `inbox` the channel. It extends `OwnedRun` and implements `RunSeam` (`KeepsTheSeam`). |
| `CommandGate` | `terminal/command_gate.rs`, `byte_budget.rs` | The gate's steps at each access to budget and queue; `commands` is the channel, `gate` what one sender is doing. |
| `PtyWriter` | `runtime/input_writer.rs` | Reserving, queuing and committing an item, and the writer thread's partial writes, retries and failure. |
| `TerminalSession` | `terminal/session.rs`, `owner.rs`, `state.rs`, joins | The owner thread as a program counter over gate, reader, effects and writer. It composes the two modules above. |
| `TerminalFrames` | what a client sees of `owner.rs`, `session.rs` | Publishing a frame and raising the flag, step by step; the three event queues with their rules for a full one. |
| `InputScheduler` | `app/input_scheduler.rs` | The reader at the lock, the wakeup and the flag; merging and shedding as `Lossy` and `Merges`. |
| `ProjectInteraction` | `app.rs`, `app/interaction.rs`, `console.rs`, `tui/mouse.rs`, `profile_menu.rs`, `footer.rs` | A pass (`Draw`), a batch of input routed with its facts, and the Supervisor and the terminals as an environment that moves in between. |
| `OutputHistory` | `output.rs`, `output/segments.rs` | One operator per method on a record `project`; `views` are the snapshots readers hold. |
| `LogSearch` | `output/search.rs`, `LogView::refresh` | The cache of results per segment address and the bounded turn. |
| `LogScroll` | `pipe_scroll.rs`, `log_view.rs`, `process_logs.rs` | `scroll` is `PipeScroll`, `marks` its selection, `search` the `LogView`; a pass takes a snapshot and asks for the page. |
| `ConfigLayers` | `config/profile.rs`, the shapes of `config/env.rs` | Documents as trees with ordered keys, and how they are merged. |
| `ConfigProcess` | the builders of `config/mod.rs`, `readiness.rs`, `env.rs` | Per builder its problems and its value. |
| `EffectiveProject` | `model.rs` | The checks of a graph, the search for a cycle, and the selection. |
| `Configuration` | `config/mod.rs`, `config/show.rs`, `output_settings.rs` | `Load`, `Select`, and the Project shown as a document again. |
| `MCSupervisor`, `MCCheckSet`, `MCParts`, `ConfigInputs` | – | The instances TLC checks. |
| `SupervisorProofs` | – | Proofs about the core, in three parts: one lemma per method of `ProcessLifecycle`; types, Runs and the refinement of `RunIdentity`; health, authority, admission and the shutdown. |
| `RunAdapterProofs` | – | Proofs about one Run: the cleanup, and the refinement of `RunSeam`. |
| `TerminalProofs` | – | Proofs about `TerminalSession` with `CommandGate` and `PtyWriter`, and beside it `TerminalFrames` as `Frames`. |
| `CheckSetProofs` | – | Proofs about `CheckSet`, and the link to `HealthChecks`. |
| `ApplicationProofs` | – | Proofs about the application's input: `ProjectInteraction`, and beside it `InputScheduler` as `Host`. |
| `HistoryProofs`, `LogSearchProofs`, `LogScrollProofs` | – | Proofs about `OutputHistory`, `LogSearch` and `LogScroll`. |

Choices a reader of the code should know:

- **One handler, one action.** A handler runs to completion on the Supervisor
  task, so it is one step with every call it makes, the scheduling pass
  included. Two loops take one step per Process (`StartAutostart` and the
  restart that follows a Profile change), because each iteration evaluates;
  while `batch` is not empty no other handler runs (`Idle`).
- **One pass.** `evaluate` visits the Processes in configuration order and looks
  at each once. `Evaluate` says this without recursion: it chooses the set of
  Processes the pass blocks, and `Pass`/`Visible` make each decision depend on
  earlier Processes after, and later ones before, their own turn.
- **Timers.** A deadline is armed or not; an armed one may fire at any moment.
  One call of `poll_timers` polls readiness, liveness, restart and shutdown
  timers in this order; the model lets each fire on its own, which allows more.
- **The adapter.** `phase` says whether the Run is being spawned, runs with its
  Spawned report still queued (`early`), is live, is held after an unconfirmed
  cleanup, or never ran (`gone`). `stops` counts unanswered stop requests, and
  `ended` says that the worker saw the end before a stop reached it, which is
  what makes the later report "not intentional". A retried cleanup may confirm
  or not.
- **Stale reports.** Reports of an older Run are dropped by the gate in
  `Core::event` and change nothing, so there is no action for them. Reports of
  the *current* Run that the gate drops because its work is cancelled are steps
  (`FailedReport`), because losing them has consequences.
- **Left out of the core:** metrics and ports, timestamps, diagnostics and
  display text, work identities (they are in `CheckSet`), exit codes beyond
  success or not.

`RunAdapter` checks the assumption `Supervisor` makes about its environment:
one Run, from reservation to release, does what `RunSeam` allows. What a reader
of that code should know:

- **One lock, one step.** Each method of `RunRecord` is one step, since it
  holds the record's lock. What the owner thread saw before it took the lock is
  state (`exitSeen`), so a stop can come between the look and the claim, and
  between the record's return (`Finish`) and its report (`SendFinished`).
- **One look, one step.** `tree_settled` asks for the root and then for the
  others, and `send_stage` asks again before it aims; processes may fork and
  exit between any two of these. One enumeration is taken to see one moment, or
  to fail; the code scans `/proc`, where a fork during the scan can be missed.
- **Refusals.** `Foreign` processes refuse signals, and with
  `ZombieGroupRefuses` the group of a root that already exited does, which
  `process_tree.rs` reports of Darwin.
- **Waits** of the ladder end at any time, their lengths are not modelled. The
  deadline that a cleanup got is (`budget`).
- **Left out:** cancelling auxiliary work, terminal access, arming log matchers,
  `interrupt`, `terminate` and `kill` (only tests call them), `Drop`, the order
  of drain and reap, and the reuse of a PID by another process.

Of the other modules:

- **Terminal.** A step of a thread is one access to what it shares. Text is
  abstracted to items of one or two bytes; the child takes any part of an item,
  nothing for now, or fails. `due` and the other history variables record what
  must come out, so that order and loss can be told. `promised` keeps the
  accepted commands one by one and unmerged: a refused command closes the open
  batch (`command_gate.rs:228`) and leaves no other trace, so what the gate adds
  up cannot be told from what was accepted by merging once more.
- **Interaction.** The Supervisor is an environment here: Runs start and end
  between passes, and a requested command changes nothing else. Input is a kind
  (a key of each class, a click of each target), never its coordinates.
- **History.** Text is its size; a byte is ordinary, invalid (which grows to
  three bytes when decoded) or a newline. Each method holds the lock, so it is
  one step. Memory is counted as the code counts it, allocation and pins apart.
- **Logs.** A line is its number and a query is the set of lines that it
  matches. `LogScroll` takes a search to end in its turn; `LogSearch` has the
  turns, the cache and the reuse of segment addresses.
- **Configuration.** The typed form is what the tree says: a field that is null
  is left out, as serde reads it. Durations are seconds, sizes MiB, URLs and
  paths members of small sets with what they resolve to. A builder is split into
  its problems, of which the code reports the first, and its value.

`CheckSet` also checks the assumption `Supervisor` makes: `MovesAsExpected`
says that every result moves a check and the set only as `HealthChecks` allows.
It runs with `on_unhealthy` off, so that a failing set keeps running.

## 3. What TLC checks

| Run | Instance | Question |
|---|---|---|
| `pair` | a Service, restarted once on failure, that needs a completed One-shot | every order of Start, Stop, Restart, Rerun, Shutdown, natural ends, failing spawns, unconfirmed cleanups and backoffs |
| `profiles` | two Profiles with other labels, enabled sets and Dependencies; readiness by log line and by several checks, startup timeout, liveness that replaces the Run | selecting and applying Profiles while Runs of the older one are active; timeouts, early matches and liveness failures racing them |
| `chain` | three Services in a row | waves of the Project shutdown, with failures in between |
| `progress` | a Service waiting for another's readiness, with fairness | shutdown completes, stops settle, waiters start |
| `adapter` | one Run, a root with two other processes of which one refuses signals, three stops | stops and shutdown racing spawn, failing spawn, natural end, cleanup and reports; a tree that moves under the cleanup |
| `terminal` | one terminal with queues of one or two slots, three commands (pastes, scrolls, resizes, copies) and two chunks | coalesced scrolls, full queues, a child that takes nothing or keeps its output open, a writer that fails, shutdown at any moment |
| `parts` | the components that share no step, one per behaviour: check sets, frames and events, input scheduler, interaction (by keys, mouse, footer), history, Logs (reading, selecting, dragging), search, loading | the properties of each |
| `lost_restart`, `stuck_stop`, `recovery`, `retry`, `search` | one Process, two checks, one Run, or two terminals | where the code disagrees with its documentation (section 6) |

The properties, by what could go wrong (those of `parts` are conjunctions; each
conjunct is explained in its module):

- *Two Runs of one Process alive.* `OneRunAlive`, `RunsAreIdentified`
  (refinement of `RunIdentity`).
- *A timer or a queued report acting for the wrong Run.* `AuthorityIsBounded`,
  `HealthFollowsTheRun` (`confirm_cleanup` panics if it fails).
- *Restarts the user did not want.* `StopSuppressesRestart`, `ShutdownIsFinal`.
- *Wrong order, or nobody left to wait for.* `DependentsStopFirst`,
  `ShutdownIsWaitingForSomeone`, `AdmittedWhenSatisfied`,
  `ProfileReachesEveryRun`.
- *Checks that count wrong.* `ChecksAreCounted` compares each check's
  incremental counters with a declarative reading of all results it ever
  counted, and says that result k answers attempt k; `ChecksMoveAsExpected`.
- *Processes left behind, or others' processes signalled.* `ConfirmedMeansGone`,
  `ReleasedMeansGone`, `ReapedLast`, `NoSignalAfterwards`,
  `GivenUpOnlyAfterKill`.
- *Adapter and core misunderstanding each other.* `KeepsTheSeam` (refinement of
  `RunSeam`), `SharedDeadlineIsKept`.
- *Input lost, doubled or overtaken.* `CommandsKeepTheirOrder`,
  `InputIsDeliveredInOrder`, `OrderedInputArrives`.
- *Input for somebody else.* `InputIsForTheSelectedProcess`, `LeavingCopyClears`.
- *A queue or a budget that leaks or overflows.* `BytesAreAccounted`,
  `HistoryIsSound`, `LargestHistoryGoesFirst`.
- *Something shown that is stale.* `TerminalIsObserved`, `PagesAreSound`,
  `PausedPageStays`, `MatchIsShown`, `SearchIsIncremental`.
- *A Project that cannot run, or is not what its documents say.*
  `ConfigurationIsSound`: `LoadedProjectCanRun` (under every Profile that can be
  selected later; this is what `Supervisor` assumes of its constants),
  `RejectedCycleIsReal`, `LastLayerWins`, `SelectionIsWhole`,
  `ShownProjectLoads`.
- *Nothing happens.* `ShutdownCompletes`, `StoppingSettles`,
  `SatisfiedWaiterStarts`, `StopIsAnswered`, `RequestsAreAnswered`,
  `ShutdownEnds`.

Each property of a passing run has a mutant in `PROJECT.json`: a plausible bug
in the modelled code, defined beside the definition it replaces and found by
that property. `FailedCountsNever`, for instance, drops the exception for
shutdown in the gate of `Core::event`, and `ShutdownCompletes` fails.

### Bounds

- `MaxRuns` stops *start-like commands* once a Process had so many Runs; it
  never stops automatic restarts, which the budget bounds. Two Runs per Process
  in `pair` give a restarted Run, its successor by command, and every stale
  combination between them; identities only ever refer to the current and the
  next Run, so longer histories repeat these.
- Two Processes are enough for a Dependency in each configuration order (`pair`
  and `progress` configure the dependent first, `chain` last).
  Three in `chain` give a middle wave, whose Run has both a dependent and a
  Dependency.
- `stops` up to 2 is what the code can do: the second stop comes from shutdown
  or from a retry, and a third finds the Run already being stopped.
- `MaxAttempts = 3` for check sets, with thresholds 1 and 2, lets a check pass,
  fail and recover, and lets an answer come a window late.
- Two other processes in `adapter` are enough for one that may be signalled and
  one that may not, each forking while the other exits; every look tells only
  nobody from somebody. Three stops give one before the claim, one joining it,
  and one between the return of the record and its report. One Run: records of
  different Runs share nothing but the registry.
- `terminal`: one or two slots make every queue full; three commands are a
  batch, a command that closes it and one behind it; two chunks fill the channel
  to the owner while it shuts down. Input has room for two bytes, so that one
  paste in a write leaves none for a reply or another paste, with a copy behind
  it. A resize stands for whatever applies at once or fails; a key may do that or
  become input as a paste does, and only the proofs have it.
- `parts`: a queue of two events and five events for the scheduler; batches of
  two keys, so that the second is routed with the facts of before the first; two
  Processes, of which one takes input and one does not; segments of two records,
  pages of two rows and three to five lines, so that the page, the limit line,
  the end and expired lines meet; eight records in segments of two for the
  search. `ConfigInputs` has, for each group of fields, the documents that differ
  in that group alone: eight layers that may each mention a variable, three
  Processes with every shape of Dependencies, Profiles that change them, and for
  each field a value that is refused.
  Where `parts` allows one Run or one waiting move only (`MaxRuns` of the history,
  `MaxPending` of Logs), the theorems about it hold for any number.
- `chain`, `adapter`, `terminal` and `parts` allow deadlock: after the shutdown,
  the release of the Run, or the bound, nothing is left to do. The other passing
  runs check that somebody can always act.

### Fairness

`FairSpec` of `Supervisor` assumes only what threads and timers of the code
guarantee: a spawn worker reports (`runtime.rs`, `start`); a Run that ended or
was asked to stop is finished within the bounded ladder and reported
(`own_run`); a queued report is delivered; a command's loop ends; startup and
restart timers fire. It assumes nothing of users, of natural ends or of checks,
and nothing of the shutdown deadline: `ShutdownCompletes` holds without it. Two
caveats. The task polls timers when its channels are quiet, so a flood of
messages could starve them. And a finish report that says "unconfirmed" counts
as a report: a held Run is a settled one for `StoppingSettles`.

`Spec` of `RunAdapter` assumes that the owner thread runs (`WF(OwnerStep)`),
that the Supervisor's task takes reports, and that every wait of the ladder runs
out: `SF(StageTimesOut)`, strong because a wait is left and entered again with
each look. It assumes nothing of the processes: they may ignore every signal.

`FairSpec` of `TerminalSession` assumes that the three threads run and that a
client that holds the gate lets it go. It assumes nothing of the child: a write
may stay blocked or be retried for ever (`input_writer.rs:256-296`), a read may
never end, and nobody promises a shutdown or that its deadline comes. The writer
is therefore fair outside a write only (`WriterRuns /\ ~InWrite`), and the reader
only when it hands a chunk on. The two properties name what the child can hold
up for ever:

- `RequestsAreAnswered`: a paste or copy is answered unless it stays behind a
  write that the child never takes (in the writer, or in an owner whose reply or
  input finds no room there), or with an owner that was asked to stop and joins a
  reader whose read never ends. The code has no answer for it then: the writer
  or the owner is left behind at the deadline with what it holds. A child that
  goes on, or is gone, ends the write and the read, so that the request is answered.
- `ShutdownEnds`: owner and writer end unless a write, or the read that the
  owner waits for, never does.

Each of these exceptions is needed: without it TLC finds a counterexample at
the bounds of `terminal`.

## 4. What is proved

Every theorem holds for all values of the constants that satisfy the named
assumptions of the module it is about; TLC evaluates those in every run of that
module. TLC confirms each inductive invariant on the instances of the runs.

### The core

For every number of Processes and every Project (`CountAssumption`,
`ProcessAssumption`, `ProfileAssumption` and `ValidatedAssumption` of
`Supervisor`, which say what `EffectiveProject::with_shell` accepts):

| Theorem | States |
|---|---|
| `SupervisorProofs!InvariantHolds` | `Spec => []IInv` |
| `TypeCorrectness`, `AtMostOneRunAlive`, `ShutdownCloses` | `[]TypeOK`, `[]OneRunAlive`, `ShutdownIsFinal` |
| `RunsRefineIdentity` | `RunsAreIdentified`, the refinement of `RunIdentity` |
| `SupervisorProofs!HealthHolds` | `Spec => []Healthy` |
| `AuthorityHolds`, `HealthIsConsistent` | `[]AuthorityIsBounded`, `[]HealthFollowsTheRun` |
| `StopIsObeyed`, `AdmissionNeedsDependencies`, `ProfilesAreApplied` | `StopSuppressesRestart`, `AdmittedWhenSatisfied`, `ProfileReachesEveryRun` |
| `ShutdownKeepsAsking` | `[]ShutdownIsWaitingForSomeone` |
| `DependentsGoFirst` | `Spec /\ OrderIsKept => []DependentsStopFirst` |

**Runs.** The first inductive invariant is

    IInv == TypeOK /\ OneRunAlive /\ ClosedForGood
    ClosedForGood == shutdown.active => Idle /\ \A p : lifecycles[p].desired = "Stopped"

`ClosedForGood` is needed because nothing in the loop of a batch, or in the
scheduling pass, tests for shutdown: admission is closed only because no
Process desires to run and no batch is open.

A handler changes some lifecycles and adapter entries, and then runs one pass
that may begin Runs. `Prepares(L, a, M, b)` says what the first part may do to
one Process: keep its Run, or release it leaving nothing alive, or (for a spawn)
keep it with at most its own tree alive, and, after shutdown, never desire
Running. `Moves` says what the whole step may do: *stay*, *leave* the Run, or
*begin* the next one from none. `EvaluateMoves` derives the second from the
first for any pass, whichever set it blocks, and `PlainMoves` does so for
handlers without one. Each action has one lemma that it only prepares, resting
on one lemma of its own per method: its result is a
`ProcessState`, and it keeps or releases the Run identity as the method says.
`FrameSound` covers the Profile, the shutdown and the batch. The refinement
reads the three cases of `Moves` as the actions of `RunIdentity`.

**Health and authority.** None of the other properties is inductive: each
follows from how all the fields of one Process, and the adapter's record of it,
hang together. `Healthy` says so for every Process (`Sound`), in named parts:

- `Placed`: a Run is current exactly while the adapter has a place for it, it is
  the newest one, and a held one has no work left;
- `Budgeted`, `Timed`: the budget is not overdrawn, a timer is valid, and a
  Process in backoff still wants to run and waits for nobody;
- `Completed`: a completed One-shot that is required again is not an automatic
  restart, so the budget has no say in it;
- `Silent`, `Watched`: without work nothing is observed, and with it lifecycle,
  readiness, liveness and the adapter's phase follow one another;
- `Explained`: a startup timeout keeps its failure, which `confirm_cleanup`
  relies on;
- `Closed`, `Halting`: shutdown leaves nobody wanting to run, and until it
  begins, work is cancelled only of a Run that is Stopping.

It holds between handlers. Within one, a timer may have been taken and the
lifecycle still show RestartBackoff; only the pass ends that (`Armed`). So
`NextOutcome` shows first that every handler leaves sound records to a pass,
leaves settled ones, or is Start Anyway (`Outcome`); then `PassedSettles` and
`StartAnywaySettles` show that the pass settles them. The action properties read
off the same three outcomes. `ProfilesAreApplied` also needs `Reaching`: the
Processes the loop has visited are done, and stay so while the passes of later
iterations begin other Runs.

`AdmissionNeedsDependencies` corrected the property it proves. A pass judges a
Dependency that is configured later by its state before the pass, and the same
pass may begin a Run of that Dependency, or set it to Waiting. With two
Processes only the first can happen, so the instance of `profiles` agreed with a
statement that allowed only that; three Processes refute it.

**Shutdown.** `ShutdownKeepsAsking` is where acyclic Dependencies are needed:
of those that are left, someone has no dependent left (`SomebodyIsNotNeeded`,
by the rank that `ValidatedAssumption` gives each Profile), so the wave after an
end is not empty unless a Run that was asked before is still to answer.
`DependentsGoFirst` has a hypothesis beside `Spec`:

    OrderIsKept == [][shutdown.active => profile' = profile]_vars

Waves follow the Dependencies of the Profile that is selected when a Run ends,
and selecting another one is not refused during a shutdown (section 6), so the
order of one Profile need not be that of the next. In every behaviour in which
nobody selects one meanwhile, the property holds.

### One Run

For every set of processes, every set that refuses signals, both answers of a
group of zombies and every number of stops (`TreeAssumption`,
`StopsAssumption`):

| Theorem | States |
|---|---|
| `RunAdapterProofs!InvariantHolds` | `Spec => []IInv` |
| `ConfirmedIsGone`, `ReleasedIsGone`, `KilledBeforeGivenUp` | `[]ConfirmedMeansGone`, `[]ReleasedMeansGone`, `[]GivenUpOnlyAfterKill` |
| `RootIsReapedLast`, `SignalsStop`, `SharedDeadlineHolds` | `ReapedLast`, `NoSignalAfterwards`, `SharedDeadlineIsKept` |
| `SeamInvariantHolds` | `Spec => []SeamInv` |
| `AdapterKeepsTheSeam` | `KeepsTheSeam`, the refinement of `RunSeam` |

**The cleanup.** Its invariant is `TypeOK` with four parts. `CleanupSound` says
what the cleanup may rely on at each place: once the root was seen to have
exited and the group to be empty, nobody is left to fork, so both facts last
until the reaping. `LadderSound` ties the stage to what was delivered: while a
stage is waited for, its signal arrived or the root has exited. `OwnerSound`
places the owner thread: a record is absent only if the Run never started.
`ReportsSound` says that reports on their way are true, and stay so
(`TruthLasts`), because an outcome is written once. Each action has a lemma; the
steps of the cleanup share `LadderStepSound` and `ConcludeSound`.

**The seam.** What `Supervisor` assumes of its environment is thereby proved of
the adapter: each step of the owner thread, of the record's lock and of the
process tree is a step of `RunSeam` or none that the core can tell. `SeamInv`
relates the three things the core's view is made of. `Life` says where the owner
thread is for each state of the record; `Concluded` that whoever claimed the Run
first decided, for good, whether its end was its own; `Letters` what is in the
inbox and in what order; `Answered` that the stops still unanswered are as many
as the reports to come require, which is why a report never answers a stop
nobody made.

### The terminal's threads

For every bound of the queues and budgets and every number of commands
(`GateAssumption` and the assumptions of `PtyWriter` and `TerminalSession`):

| Theorem | States |
|---|---|
| `TerminalProofs!TerminalInvariantHolds` | `Spec => []IInv` |
| `BudgetsHold` | `[]BytesAreAccounted` |
| `CommandOrderHolds` | `[]CommandsKeepTheirOrder` |
| `InputOrderHolds` | `[]InputIsDeliveredInOrder` |

The properties count along the queues without recursion: `Counts(s, from, to)`
is the set of running totals of `s` that begin with `from` and end with `to`,
and that it is not empty says that the sum is right. The first part of the module
shows what happens to a running total when an item is appended, taken from the
front, shortened or grown. `IInv` then says, in named parts, how the threads
agree at each of their steps: `Protocol` (who holds what), `Queued` (commands
are in the order of their numbers, and only the last may still grow),
`ChargedRight` and `ReservedRight` (the two budgets), `DueInTurn` and
`Delivering` (what is due is on its way, in order) and `NotConfirmed`.

`CommandsKeepTheirOrder` used to be stated of a history that merged scrolls
itself. The first attempt at a proof failed, rightly: a command that is refused
closes the open batch, so that the gate queues two batches where the history had
one. It takes four commands, and the instance of `terminal` has three. The code
was right and the history wrong; it now keeps accepted commands one by one, and
the theorem covers every number of them.

### Check sets

For every set of probes and log matchers with any thresholds, for readiness and
for liveness (`CheckSetAssumption`):

| Theorem | States |
|---|---|
| `CheckSetProofs!CheckInvariantHolds` | `Spec => []IInv` |
| `ResultsAreTheirOwn`, `CountersExplainState`, `FailureShows` | `[]OutcomesAreTheirOwn`, `[]ThresholdsExplainState`, `[]FailingIsVisible` |
| `SetMovesAsExpected` | `[][MovesAsExpected]_vars` |

The first three are the parts of `ChecksAreCounted`, the last that of
`ChecksMoveAsExpected`, which `parts` checks on an instance. The invariant adds
`Scheduled` (an attempt in flight is the newest), `GoodAnswers` (which answers
can be on their way) and `Streaks`: a counter is the length of the streak that
the results so far end with. A threshold that is reached by a counter is then
one that is reached by a streak of results, which is how
`ThresholdsExplainState` reads the state. `SetMovesAsExpected` links two
modules: what `Supervisor` takes a result to do (`HealthChecks`) is all a check
set does.

### The host's input

For every limit of the queue and any number of events (`SchedulerAssumption`):

| Theorem | States |
|---|---|
| `ApplicationProofs!InputInvariantHolds` | `Host!Spec => []SchedulerInvariant` |
| `OrderedInputHolds`, `WaitingIsForSpace` | `Host!Spec => []Host!OrderedInputIsKept`, `[]Host!WaitsOnlyWhileFull` |

These are the parts of `OrderedInputArrives`. The invariant adds `Numbered`, that the
whole queue, mouse input included, is in the order in which it was read and the
reader holds the newest event, and `DecidedWhileFull`: the lock is held from the
look at the queue to the wait, so nobody makes room unheard. `RoomIsMade` is the
step that matters, that shedding the oldest mouse input removes nothing else and
reorders nothing. For the proof, the history of ordered events became a set of
their numbers; that they are in order is a part of the property.

### What a client sees of a terminal

For every limit of the three event queues, any number of changes of the screen
and of reports (`FramesAssumption`):

| Theorem | States |
|---|---|
| `TerminalProofs!FramesInvariantHolds` | `Frames!Spec => []FramesInvariant` |
| `FramesAreAnnounced`, `FailuresAreHeard` | `[]FrameIsNotMissed`, `[]FailureIsHeard` of `Frames` |

These are the parts of `TerminalIsObserved`. `Announced` extends the first to a
client that copied a frame and has not drawn it yet, and ties the lock to the
owner's place: that the flag is lowered before the frame is copied is what makes
it inductive. The second rests on one lemma per queue (`GateKeepsFailure`,
`OwnerKeepsFailure`, `Appended` with the flag beside the writer's): a full queue
takes a failure, or holds one already, and never drops its only one.

### The application's input

For any number of Processes, with or without a terminal, that accept input or
not and track the mouse or not, and any length of a batch
(`InteractionAssumption`):

| Theorem | States |
|---|---|
| `ApplicationProofs!InputIsTyped` | `Spec => []TypeOK` |
| `KeysReachTheSelectedProcess` | `[][KeyReachesTheSelectedProcess]_vars` |
| `LeavingCopyClears` | `[][CopyClears]_vars` |
| `ActionsAreNotTyped` | `[][ActionIsNotTyped]_vars` |

These are the parts of `InputIsForTheSelectedProcess` and `LeavingCopyClears`.
That the selected Process exists is more than a type: moves are collected in a
batch and applied one by one to a selection that was read before them
(`AimIsAProcess`). `Aligned` is the invariant of the second theorem: while nobody
selected another Process, the frame, the selection and every command not sent yet
are about one Process. Runs may start and end in between.

`ActionsAreNotTyped` is about the way an action of the footer takes: it is turned
into the keys it stands for, and those are routed as if they had been pressed.
`FooterSound` says why no child sees them. `ActionsLeaveTheTerminal`: what a footer
drawn for a terminal in focus offers is Copy, which begins with the key that
leaves the terminal, and quitting. `MenuIsElsewhere`: a menu of lifecycle
commands is not open there. `KeysAreFew`: what is left of an action is its last
key, or all of it. `RunsAreOld`: a Run that ended while an action was under way
does not come back, so a terminal that was not live does not become it.

The proof corrected the property. It was stated of every click, and the instance
of `parts` had batches of one, where it holds. In a batch of two, the first event
can move the focus into the console and the second hit the footer that was drawn
before that (section 6). `refocused` records this, the instance now has batches of
two, and the property and the theorem except just these clicks.

### The search

For every set of records that match and every limit (`LogSearchAssumption`):

| Theorem | States |
|---|---|
| `LogSearchProofs!SearchIsRight` | `Spec => [](ResultIsNewestFirst /\ PendingSearchAdvances)` |
| `CurrentMatchStays` | `[][MatchStays]_vars` |

These are `SearchIsIncremental` and the part of `PausedPageStays` that is about
matches. `SearchSound`, the invariant, says that the snapshot is in order and its
segments have addresses of their own, that a result in the cache is the one of
the segment that has its address now, and that what is shown is the newest there
is. The cache outlives what it was computed from, and addresses are used again, so the
second is the point: no new segment gets an address that a kept result still holds
(`AddressesAreFresh`, which is what the code's weak reference is for), and results
of segments that left the snapshot are dropped before others are looked at
(`RefreshIsSound`). `SearchFindsTheNewest` reads a turn: it
goes from the newest segment to older ones and stops where the work is used up or
enough is found, so that nothing newer is left out (`NothingIsLeftOut`) and
nothing older could change the answer (`BeyondTheLimit`). `CurrentMatchStays` then
needs only that a match among the newest before is among the newest after.

`PendingSearchAdvances` used to count the results in the cache. The attempt to
prove it failed, and TLC found why on larger bounds: the matches of one new segment may
make the results of several older ones needless, and the turn drops them. What advances is how
far the results reach without a gap, and so it is stated now.

### The page of Logs

For every height of the pane, any queries and any amount of output
(`LogScrollAssumption`):

| Theorem | States |
|---|---|
| `LogScrollProofs!ScrollIsInductive` | `Spec => []IInv` |
| `SearchIsInductive` | `Spec => [](IInv /\ SearchIsSound(search, output))` |
| `WhatIsRead` | `Spec => []` of `PageIsSound`, `NewOutputIsAnnounced`, `MatchesAreRetained` and `MatchesAreOfTheQuery` |
| `ReadingIsNotDisturbed` | `[][PageStays /\ SelectionCanBeCopied]_vars` |
| `MatchesAreShown` | `[][MatchIsShown]_vars` |

These are all parts of `PagesAreSound`, the parts of `PausedPageStays` that are
about the page, and `MatchIsShown`. `PageSound` carries
them: a page that is not frozen is the window at its anchor, and one that neither
follows nor is held has more below it. The last part is what a test hardly sees. It
is why output that arrives cannot turn a page that a reader stopped at into one
that follows: `refresh_anchor` follows when the window is not full, and a window
that was full stays so while its anchor is retained (`PausedPageIsKept`, with
`LinesBelow` for lines that keep their distance to the end whatever expires above).
When the anchor is lost the page freezes, and nothing is claimed of what is
below it.

The other conjuncts are needed because gestures outlive the pass they began in. A
scrollbar is that of the output on the screen (`BarFits`), so that a drag that is
scaled from it ends on a line that exists (`DraggedIsSound`, which needs
`ScaledIsWithin` for the arithmetic of the thumb), and a row that a selection was
dragged to is a row of the pane. `NavigateIsSound` has an induction over the moves
of a turn, `ArrivedIsWithin`, for which `Arrived` was made a recursive function.
For the page a target is whatever the search says: `PlaceTargetIsSound` asks only
whether it is retained.

The search needs an invariant of its own, `SearchIsSound`. That the matches are
retained is not inductive, for a refresh takes the query from the editor or from
what was submitted, whichever is shown. What is kept is that the matches are those
of this query, so that cancelling and submitting must each search again, and that
the current match is one of them, so that walking through them stays in the list.
`NewestFirst` is the scan of `search_chunk` as a recursive function, and
`NewestFirstIsRetained` is the induction over it, with the same two lemmas about
repeated steps (`StepsExist`, `StepsStay`) that serve `ArrivedIsWithin`.

### Output history

For every limit, any finite number of Processes and streams and any chunks that
readers append (`HistoryAssumption`):

| Theorem | States |
|---|---|
| `HistoryProofs!HistoryIsInductive` | `Spec => []HistoryInv` |
| `HistoryIsKept` | `Spec => []` of `CountsAreExact`, `LimitsHold`, `RecordsAreOrdered`, `UnchangedMeansComplete` and `SnapshotsFit` |
| `LargestGoesFirst` | `[][LargestIsTrimmedFirst]_vars` |

The first two are about `HistoryIsSound`, the last is
`LargestHistoryGoesFirst`. What makes the parts of `HistoryIsSound` inductive is
`HistorySound`: no record and no line that is not complete has a sequence of
another, all are below the next sequence, and a Process's bytes are those of its
records and of its lines that are not complete. The distinct sequences are what
keep a history in order when a line ends after younger ones, and what an
eviction needs to take exactly the line it counts. Of a snapshot the
invariant says that it is no newer than its history; so it is not called unchanged
once the history has grown (`GrewIsSound`).

The argument goes from the bottom up.

- *Sums.* `SumFunction` folds over its domain by choice. `SumIsTheHeap` says that
  it is the size of a set, so sums are compared, split and changed at one place
  (`SumUpdate`) by cardinalities, whatever the order.
- *One record.* `WithRecordIs`: wherever its sequence places a record, and whether
  its segment is grown, copied or split, exactly that sequence and size are added
  and the order is kept.
- *Loops.* The loops of `enforce`, `append_at` and `snapshot_if_changed` are
  recursive functions. `WithoutOldestIs` shows that each eviction takes a byte, so
  a loop with as many turns as there are bytes has stopped at its own condition
  (`LoopEnds`); this is also why `enforce` ends in the code. `EnforceIs` says that it
  stops within the limits and has only trimmed.
- *Appending.* `Working` is what holds between the steps of an append, where the
  Process that grows may be over its limit and the others are not, and `Appends`
  what an append may do to the others. `AppendIs` and `MarkRunIs` compose them.
- *Snapshots.* `FittingIs` and `ChunkedIs` give what is shared, and
  `TakenIsSound` that it may be published. `SnapshotIsSound` follows the two ways
  out: with the lines that are not complete, or without where they leave no room.

`LargestGoesFirst` is about the other Processes: each operation leaves them alone
(`LeavesOthers`) but for the Project's loop, each turn of which takes from the
largest there then is (`CandidateIs`). Whoever loses something there had as much as
anybody has afterwards (`LargestWent`), and this composes over turns and over the
two trims of an append because nobody grows between them
(`LargestWentFurther`). It would not compose over several lines, between which the
Process that appends grows; therefore the property is about chunks of at most a line.
That a chunk like this trims nothing before its last byte is the induction in
`WrittenTakesFromTheLargest`.

`OutputHistory` was rewritten for these proofs: each loop has a name for its body,
its condition and its iteration. That the limit holds for a snapshot
(`SnapshotsFit`) was met on the way and is checked with the others since.

### Only model-checked

- Liveness (`ShutdownCompletes`, `StoppingSettles`, `SatisfiedWaiterStarts`,
  `StopIsAnswered`, `RequestsAreAnswered`, `ShutdownEnds`): fairness needs
  `ENABLED`, which is out of the prover's reach.
- The configuration. `ConfigLayers`, `EffectiveProject` and `Configuration` recurse
  over documents and graphs, which needs induction over data.

## 5. What is not modelled

`PROJECT.json` marks what is left out of each part. As a whole: sampling of
metrics and discovery of ports (they decide no transition), reading and parsing
of text (YAML, environment files, URLs, durations, escape sequences), the
terminal library, drawing and key encodings, the cancellation of probes, the
entry point and test programs. The adapter is modelled for one Run at a time and
the core against what `RunSeam` allows, not against the threads themselves. The
application is modelled against an environment for the Supervisor. Hooks appear
in the documentation only; no code runs them.

## 6. Where the code disagrees with its documentation

1. **`search`.** `route_input` (`app/interaction.rs:321`) looks Project commands
   up before the search editor of Logs sees a key, so that `p`, `P`, `R` and `S`
   typed into a search run commands.
2. **`lost_restart`.** A Restart accepted while the Run's natural exit is queued
   is overwritten by that exit (`events.rs:240`): the Process stops and waits
   for another manual request.
3. **`stuck_stop`.** A Stop handled before the queued report of a failed spawn
   cancels the Run's work; the gate (`events.rs:44`) then drops the report and
   the Process stays Stopping. Shutdown makes an exception for such reports,
   Stop does not.
4. **`recovery`.** With several liveness checks the set can go from Failing
   through Pending to Passing, and `apply_liveness_transition`
   (`liveness.rs:334`) clears the failure only when it goes directly.

5. **`retry`.** A Run has one cleanup: once its outcome is written,
   `shutdown_with_ladder_until` (`runtime/run.rs:693`) returns it. A Stop of a
   Run that is held unconfirmed is answered at once with the same outcome, so
   the Process stays held for ever, although `process_lifecycle.rs:193` holds it
   for just that retry.

Further disagreements, without a run of their own. The core and its Runs:

- `begin_desired_run` (`schedule.rs:102`) does not look at whether the Process is
  enabled: one that began waiting and was then disabled by a Profile starts when
  its Dependency does (`architecture-and-lifecycle.md:352`;
  `supervisor/tests/diagnostics.rs:197` expects otherwise).
- A `started` condition holds from admission, before the spawn
  (`schedule.rs:181`, against `architecture-and-lifecycle.md:687`). A Process can
  show Waiting while it needs a manual start. Shutdown waves follow the
  Dependencies of the Profile selected now (`shutdown.rs:147`). A Run already
  finishing keeps its own deadline when the shared one is set
  (`run_record.rs:193`). On Darwin the last process may exit between the look
  and the signal, whose EPERM then counts as a refusal, although `ladder.rs:225`
  calls an exit race harmless.

The terminal and the application:

- A writer that fails drops the bytes of its queue without giving them back
  (`input_writer.rs:221-226`, against `byte_budget.rs:13-15`), and a paste behind
  it is never answered (`session.rs:222`). `RequestsAreAnswered` excepts it.
- `InputScheduler::drop` stores the flag and notifies without the lock under
  which `push` looks (`input_scheduler.rs:106-110`), so the wakeup can be lost
  and the join hangs: `DropEnds` does not hold. It needs a full queue.
- The one pending resize goes to whatever terminal is shown when it is due
  (`app.rs:191-198`), so others keep an old size, against `app.rs:248` and
  `docs/implementation/tests-and-validation.md:239`: `ShownTerminalFits` does not
  hold.
- A batch of input is routed with the frame drawn before it (`app.rs:162-190`,
  `app.rs:257`). When one event of it moves the focus into the console and a later
  one clicks an action of the footer that was drawn for the list, the keys of that
  action are typed into the child; so they are when the lifecycle menu is still
  open as the focus moves. `tui/footer.rs:95-96` says that input cannot drift from
  the footer's content. `ActionIsNotTyped` excepts both.
- A selection moved within a batch redirects the commands after it
  (`console.rs:33`). In Copy, a click on a port or a wheel leaves the selection;
  a drag that began outside the console enters Copy; a gesture whose release
  goes to Logs stays. A paste ignores open menus. Cancelling the search of a
  terminal's Process without a Run goes back to Logs.
- A quiet Process can lose history although a noisy one appends
  (`output.rs:278`, against `docs/configuration.md:100-104` and `output/tests.rs:255`).
  Snapshots pin what they read, and an evicted line that is not complete lowers
  the noisy Process's bytes but not what is allocated; then the quiet one is the
  larger and goes next. An earlier property that denied the second held only at the
  bounds it was checked with. `LargestHistoryGoesFirst` says what the code does keep. A
  snapshot over the limit leaves out unfinished lines and still carries the
  current generation.
- A selected match is dropped while a search is pending, and the newest is
  selected then (`log_view.rs:211-228`). A match that takes the page off the end
  is not announced.

The configuration:

- A document without `processes` panics at load: the typed form has a default,
  and `config/mod.rs:297` expects the mapping. `docs/configuration.md:61` says
  that `processes` can be empty; `processes: {}` works.
- A Process with a fixed Process Profile keeps its label under the Project
  Profile of the same name, also if that replaces the environment files
  (`config/mod.rs:382-402`): its environment changes and nothing is pending
  (`core.rs:295`). `SelectionIsWhole` excepts it. Under any other Project Profile
  with environment files the label is the selection, against `model.rs:641`.
- A null in a Process Profile of the local override is gone after the merge with
  the base document (`profile.rs:88`), so it removes what the base's Process
  Profile says and not, as in the base document, the Process's own field
  (`docs/configuration.md:358`).
- A `ready` condition needs a Service, with or without a readiness check
  (`model.rs:434`), against `docs/configuration.md:212`; without one it is ready
  when it runs (`schedule.rs:191`).
- Removing an entry by null in the local override moves the last entry into its
  place, so it can reorder groups and Processes' Dependencies.

## 7. Plan

Done: the core, its adapter and one Run, the terminal's threads and what its
client sees, check sets, the input scheduler, the application loop, the page of
Logs, the search and the output history, each with its proofs; the
configuration, model-checked. Left: models of what is left of the terminal, the selection of
cells (`selection.rs`, `mouse.rs`), and of the workers of probes with their
cancellation.

Not for proofs: `ConfigLayers`, `EffectiveProject` and `Configuration`, which
recurse over documents and graphs, and liveness.
