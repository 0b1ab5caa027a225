# OpenWave in TLA+

TLA+ models of the concurrent and the persistent core of OpenWave (the Rust workspace under
`crates/`), TLC configurations that check them, and proofs that TLAPS checks. `PROJECT.json` maps
every definition to the lines it models, lists the runs, and gives for every checked property a
mutant: a plausible bug in one definition that makes the run fail. Paths below are relative to
`crates/openwave-runtime/src/` unless they start with another directory of the repository.

## 1. The system

OpenWave drives USB microphones and routes their audio through PipeWire. One **controller** thread
owns the desired state; workers own the outside world and talk to it by channels. A **daemon**
without a window keeps captures alive, and jobs of their own install and remove the program.

```text
 GTK, tray, CLI --submit--> [channel] --> controller --+--> one queue per unit --> unit worker (USB, ALSA card)
        ^                                    |  ^      +--> mixer control block --> mixer (PipeWire, child processes)
        |   snapshots, outcomes              |  |      +--> calibration worker (PCM capture)
        +------------------------------------+  |      +--> integration worker (autostart, setup)
                                     stores     |      +--> meter readers, health
                                  events of every worker
 daemon: capture pins, capture health          installer, uninstaller, root helper: files under leases
```

| Component | State it keeps | Operations | What makes it correct | Model |
|---|---|---|---|---|
| USB owners (`device.rs`) | registry of live units, a queue per unit, suppressed locations | submit, rescan, stop; open, poll, apply, retire; scan, reap, spawn | one owner per USB location, every job answered once, stop joins everything | `DeviceManager` |
| ALSA mirror (`device.rs`) | what was requested, what the firmware and the card last said | poll, job, search for controls | an edge on either side wins once; the card ends up showing what the unit holds | `AlsaMirror` |
| Group rules (`routing.rs` of the core) | none | mute a row of a group, switch a group, normalize | a group has at most one open row | `GroupRules` |
| Source rows (`controller/state/mutations.rs`, `scene.rs`) | rows: group, mute, order | add, edit, remove, order, mute, join, leave, switch, recall | the same over any sequence of edits; saving overrules no decision | `SourceGroups` |
| Stores (`store.rs`) | committed values and files | load, prepare, publish, replace | files hold what is shown; a failed write changes nothing; no row that stays loses its sends | `Stores` |
| Mute mirroring (`mutes.rs`, `state.rs`) | bindings, handovers, held jobs and captures, intents, baselines | every row edit, every observation | a row opens only after the rest is silent; no feedback; nothing held for ever | `MuteController`, `MuteHandover` |
| Mixer (`mixer.rs`) | control block, routes, sinks, effects, masters | sample, silence, open, report, tear down | silence before opening; a proof of silence is of this sample; saved masters survive; nothing is left behind | `MixerSteps`, `Mixer`; its mute side in `MuteHandover` |
| Command lifecycle (`controller.rs`, `state.rs`) | admission, requests, debounced edits, jobs, intents | submit, accept, apply, defer, finish, freeze, shut down | every admitted command is answered exactly once, when its work is done | `CommandLifecycle` |
| Calibration (`state/calibration.rs`, `calibration.rs`) | session, recording, the worker's active capture | start, record, cancel, expire, complete | a stale result changes nothing; its command is answered | `CommandLifecycle` |
| Backend (`controller/native.rs`) | leases, workers, requests of the host | activate, autostart, setup, drain | the drain ends, and nothing is alive without its lease | `Backend`; its requests in `CommandLifecycle` |
| Meters (`meter.rs`) | targets, tokens, readers, taps | set targets, start, retire, read, stop | one reader a row; a row is ready only by bytes of the node it is bound to now | `Meters` |
| Processes (`process.rs`) | children, reapers | spawn, terminate, reap | an unreaped child is never a success | `Processes` |
| Capture health, daemon (core `health.rs`, `health.rs`, `recovery.rs`) | evidence, attempts, remedies, restoration debt | check, remedy, restore, stop | a bounded number of remedies; what was switched off is switched on again | `HealthWatch`, `Health` |
| Audio pins (`audio.rs`) | a reader per input, what was tried against silence | look, start, read, recycle, replug, stop | one recording child an input; a silent input is recycled once | `Pins` |
| Installation (`installation*.rs`) | receipt, payload files, recovery record | inspect, publish, continue | files and receipt are of one version; an interrupted run is continued | `Inventory`, `Installer` |
| Leases, setup, service (`paths.rs`, `setup.rs`, `service.rs`) | lock files, host items, processes | start, hold, set up, stop | programs use the files together, one holder has them alone | `Owners`, `Exclusion` |
| Uninstallation (`uninstall*.rs`) | phase of the job, recovery records, root transaction | every kind of removal, retry, resume | an interrupted removal can be finished, and success means nothing is left | `Removal`, `Host` |
| Desktop (`crates/openwave-desktop`) | rendered snapshot | submit, render | presentation only | not modelled |
| Diagnostics, probe | none | one-shot reports | no state | not modelled |
| Scenes: hardware resolution (core `scenes.rs`) | none | match serials | pure; tables in the tests | not modelled |
| Effects, analysis, protocol, profiles | none | pure functions on floats and registers | tables in the tests | not modelled |

The hard behaviours: a device unplugged while its worker is in a transfer; observations older than
the intent they seem to contradict; a group switch whose peer never becomes silent; a debounced edit
overtaken by newer ones; shutdown racing with submitters; a child that hangs in the kernel; a command
that failed after it took effect; a death between two files of one edit; a removal that dies half-way
beside programs that start. `PROJECT.json` lists them as hazards, each with its line and properties.

## 2. Modules

`MC*` modules only give constants their values; `*_proof` modules only prove. A behaviour of most
modules picks a *plan* when it starts: what is there, what may be done, and how often anything may
happen. One run then holds several small situations, each at the bounds it needs, instead of one
large one. Every budget of a plan is a count that a guard spends.

### Devices

**`DeviceManager`**: the registry, the discovery thread and one thread per unit incarnation, each
with a control point that moves where the code releases a lock or blocks. `Submit`, `Rescan`,
`StopFlag`/`StopSend`/`StopReturn` are the caller; `Start` to `Drain` are `unit_worker`; `Reap` to
`Join` are `discovery`. A registry lock held across several steps is `RegistryFree`. A transfer may
succeed, fail or time out, and a device may come and go at any scan. Lock poisoning and panics are
left out: they lead to the same retirement. Discovery is a loop without an end: `Rescan` changes
only the time of the next scan, and the model scans at any time.

**`AlsaMirror`**: what one unit worker does inside a poll and a job: `SyncedDevice`, `Mirror` and
`CardControls`. Every USB transfer and every `amixer` command is a step, and between any two of them
a hand turns a knob of the unit or another client sets the card. A transfer or a command that failed
may have taken effect. A unit that retires may have run into a timeout, and is then suppressed until
it is plugged in again (`Replug`; `DeviceManager` has the timeouts themselves). Scales differ
(`CardStep`, `CardMin`), so a conversion there and back is not the identity. Volumes are coarse; the Wave:3 mirrors all three fields, and the dock has no mirror.

### Rows and files

**`GroupRules`**: `set_source_muted`, `switch_group` and the normalization of rows, on a function
from rows to `[group, muted]`.

**`SourceGroups`**: the committed rows under every command that changes a group or a mute. A commit
goes through `Saved`: the store decodes what it encoded, and decoding normalizes (`Normalized`: the
first open row of a group stays open, the others are muted), so what is committed may differ from what the
command built. A scene and the mute of a unit with several rows build their rows in a loop, one patch
a step; `AbandonPatches` is the loop that ends in an error.

**`Stores`** extends it with the files. `files` is what a restart would read, `shown` what the
program works with, and a command that writes several files writes them one after another
(`RemovalWrites`, the adoption of a capture), each of which may fail (`GivesOn` says whether the rest
is still written) or be the last before the program dies. A single file is prepared beside the old
one and renamed, so it is old or new: power loss that undoes a rename is not modelled, and a failed
write of a command with one file changes nothing and is left out. A file that cannot be read is kept
and never written; only the file of mixes is seeded. Sends stand for masters and outputs, which leave
with a mix the same way; scenes are a file no other command writes. The graph is known, and fresh
identities are fresh (`Fresh`).

### Controller

**`MuteController`**: the controller's mute logic as operators from one controller record to the
next; a handler is a composition of them, in the code's order. Normalization is left out of it: each
row edit there decides rows that are already exclusive (proved in `Stores_proof`), and on such
rows it is the identity. **`MuteHandover`** composes it with the unit workers, the mixer thread, the event queues and
the world: captures that appear and vanish, hands on mute buttons. The mixer is four steps (take the
control block, sample, write one capture, reconcile and report) because the controller may act
between them. One handler is one step: the controller is single-threaded. A handover whose member is
removed fails closed and stays until the next command.

**`CommandLifecycle`**: admission under its mutex, the command channel, requests, debounced edits,
device jobs, the integration and calibration workers, freeze, drain and the end of the thread.
Handovers appear only as a verdict that any handler may find: `MuteHandover` says when.

### Mixer

**`MixerSteps`** holds the parts of one reconciliation (a sink, a master, a filter, a route, a
stream, a sink that is no longer wanted) as operators from the state before to the state after;
**`Mixer`** makes the thread of them: one action per phase of a cycle, in the order of the code
(`Sample`, `Sinks`, `Filters`, `Barrier`, `Connect`, `Retire`, `Report`), `Retune` for edits that
only move levels, and the teardown with its rounds and retries. A cycle works from the snapshot it
took, so every call may find the world changed; the controller and the world act between any two
phases. `Fault` makes the next call for one element fail. An error that ends a reconciliation in the
code (`?`) sets `err`, and what follows is skipped; an error that is only reported is not.
The world is sinks with their makers, captures, nodes of children with their gain and links, streams
and outputs, and what happens to them: another client turns a master, unmutes a node, unloads or
occupies a sink, a child exits, a capture is replaced, the server restarts. The controller is the
part of it that routes and that takes over reported masters.

Its abstractions: level and mute of a master are one setting, sends have one level, readback is
exact (the code rounds below 0.001); a child has one node in its life, so a number stands for token,
identity and id; a sink's number is not used again; the loopbacks of outputs and of mix captures,
which follow the same `route`, and the readiness of a Wave output are left out; so are failures to
write the definition file, renamed mixes, and streams claimed by more than one row (`ClaimOf`). The
capture mutes that the same cycle writes are `MuteHandover`'s.

### Backend and children

**`Processes`**: a child spawned through the helper that ties it to its owner; `Terminate` sends
signals, waits, and hands a child that waits in the kernel to a reaper. **`Meters`**: the bank of
targets, the coordinator, the readers and their taps; a target that changes gets a new token.
**`Backend`**: leases, activation and the drain a shutdown repeats: meters first, then the mixer's
graph, then the leases. Of the other workers it keeps whether their thread runs, panicked or was
joined. Left out: the drop path after a failed drain, the routing kept before activation, the
children of the mixer and of a calibration, and the window's own health worker, which only observes.

### Daemon

**`HealthWatch`** is the policy of the core: what one check of a capture or an output remembers and
when a remedy is due. Times are ages in ticks, cut off where the code stops telling them apart.
**`Health`** is the worker around it: two reads of the graph with a sample between, an attempt, the
command that takes a card off its profile or suspends an output, and the way back it owes to the
identity it meant. What the samples show follows a script. `wear` is history, and so is `late`: a card
plugged in after its name was last looked up and before the command. A panic of the worker
and a kill lose the debt: nothing is persisted, and the model does not contain them.

**`Pins`**: one input with its reader, the graph it looks at, the silence allowance, restarts,
replugs and stop; children as in `Processes`.

### Host

**`Inventory`**: which files a receipt vouches for and what a pass over them visits. **`Installer`**:
the root helper that publishes version 2 over version 1, and continues after a death. **`Owners`**:
the programs, the daemon, their shared lease and the host items they set up. **`Removal`**: the
phases of every kind of removal (`window`, `cli`, `resume`, `files`, `retire`, `again`, `bootstrap`),
the recovery record and the root transaction. **`Exclusion`** is the abstract promise of the leases,
and **`Host`** composes all of them and shows by `INSTANCE Exclusion WITH` that the removal keeps it
(`TakenAloneOnly`). Comparing and unlinking one file is one step; only the newest bundle and
transaction of a user are kept; a retry uses the command printed with the record; `files_only` on an
installation without a receipt is excluded. The installer takes no lease, so it and a removal do not
exclude each other; `NoMixedInstall` and `Explained` are what the comparison of digests keeps then.
`beside` and `stripped` are history: an installer ran beside the removal of its own version, and
`files_only` took files while a removal was still to be finished.
Which jobs leave the unlinking to root is `HandsOver` and `ByRoot`: `files_only` never does, whatever
record an earlier attempt left.

## 3. Runs

Each passing run lists its properties in its cfg; mutants show that each can fail.

| Run | Asks | Bounds, and why they suffice |
|---|---|---|
| `DeviceManager` | ownership, accounting, suppression; stop returns, jobs are answered | 1 location, 2 incarnations, 2 jobs: a replug while the owner works, and jobs, submitted in order, that meet every point of it. Locations meet only in the registry, and jobs only in the queue; the theorems cover any number of both |
| `AlsaMirror` | a card value is taken for news only if another client set it; the card ends up in step | 3 volumes with a card step of 2 (every conversion there and back that loses), an owner that gives up after 3 failed polls, a due read every 2nd poll; six plans of hands, clients, jobs, failures and a replug of a unit that was given up |
| `Stores` | exclusive groups, switching, decisions; durable files; sends of what stays | 3 rows, 2 groups, 2 patches without failures (`RowPlans`: a group with a bystander, a third row to wrap around to); 2 rows with a scene that fails or dies (`ScenePlans`); a protected capture, its row and another bound to it, 2 mixes, 2 failures or one and a crash, each file broken in turn (`FilePlans`). Rows and groups of the first are interchangeable, hence the symmetry; the properties are safety |
| `MuteHandover` | an opening waits for silence, nothing stranded, no feedback, the switch settles | see below |
| `CommandLifecycle` | one answer each, when the work is done; order of gains; every command ends | see below |
| `Mixer` | silence before opening, gain before links, masters kept, no raw audio past a filter, a clean stop, and the world settles | see below |
| `Host_removal` | files and receipt of one version, every file explained by a record, removal alone, complete and finished | `Upgrades`, `Busy`, `Deaths`, `Legacies`: 3 payload files (one of the same content in both versions) and the receipt; up to 2 failures or deaths, or one with a program that starts or an administrator who retries, `files_only` between an attempt that failed and its retry, and USB rules of somebody else; the last two of a system's and of a user's prefix. The theorems cover every other mixture but for the end of a removal |
| `Backend_drain` | one reader a row, ready by current bytes, nothing alive without its lease, the drain ends | 2 rows, the capture of the first replaced by another of its name; 3 tokens; a child that hangs, a failed spawn, a thread that panics, a failed cleanup, a crash |
| `Health` | bounded remedies, nothing left off but under a debt to its own identity, debts repaid | 5 scripts: few and many faults, stale and unclear samples, failing commands, a replug at any point of a remedy; budgets of 2 attempts, ages up to 3 ticks; 14 identities, more than a script uses |
| `Pins` | one recording child, one restart a silence | 1 input, 2 children, a replug, a fault; cutoffs of 1 and 2 ticks keep the order of the code's timeouts |
| `MuteHandover_feedback`, `CommandLifecycle_scenes` | disagreements, see below | the smallest plans that show them |

* `MuteHandover`: 1 command of any kind before the hardware is known, 2 after (`Commands`: a
  switch during a switch, a row that leaves or is removed during one); a switch and a mute pressed
  by hand (`Hands`); a replug or a failure at any point of a handover (`Failures`); an input owned by
  rows of two groups (`Sharing`); an edit in calm (`Settling`). `NoFeedback` and `Settles` are
  claimed of calm plans: a hand that keeps pressing, or rows that disagree with the hardware at the
  start, rightly prevent settling.
* `CommandLifecycle`: 3 edits of two units (`Edits`: an edit, the edit that replaces it, and one
  more, of any kind), and of one unit that fails (`Failing`); 3 or 4 commands of other workers
  (`Asking`, `Sessions`: a session, a recording, its cancellation, a shutdown); rows and scenes that a
  handover holds, cut off by a shutdown, a hand or a failure (`Cut`) or held while others follow
  (`Long`); scenes among edits of the same gain and its lock (`Scenes`); one of each kind of work
  that another thread answers (`EveryWorker`). The theorems hold of every other mixture.
* `Mixer`: two rows of a group, switched twice, or once with an accident or a failed call at any point
  (`GroupPlans`); a master that is set and turned while its sink is lost, restored or new (`MasterPlans`); a
  filter that is switched, exits, or loses its capture (`FilterPlans`); an application whose stream moves
  while its row or output goes, or the mixer stops, with a restart of the server (`StreamPlans`); a mix
  that is removed and added (`MixPlans`). Two rows, two mixes and two outputs are the least at which one
  element fails while another goes on. A sink that is lost three snapshots in a row needs no more
  than one loss, since the code counts the snapshots.

`MaxQueue` bounds only how many unread events a worker piles up before it polls again; answers are
never dropped.

**Fairness.** Threads that can run do run: weak fairness of each worker's steps, of the mixer's
cycle, of reaper threads and of the controller's reads. The controller reads all channels in turn
(`run`, up to 256 events, then due edits, then one command), so each channel has its own weak
fairness. Nothing is assumed of submitters, hands, replugs or failures; all of these are budgeted, so
after the last of them the promises must be kept. What else each run assumes:

* `DeviceManager`: every transfer ends, so both kinds of thread go on (`Runs`, `Discovers`), and a
  worker that comes back to its queue again and again takes a job some time (`Takes`, strong).
* `CommandLifecycle` and the mixer of `MuteHandover` say of the points where a thread waits for nobody
  that it never stays there (`[]<>` over states); it can always leave them, so this is what weak
  fairness of the steps that leave comes to. Reading a channel is stated as what it does to the
  channel, which only that reader does.
* `Mixer` states its fairness as what it comes to ([]<> and <>[] over states), which TLC checks far
  faster than WF of actions this large: the thread never stays at one point, events are read,
  `FX_RETRY` passes, and from some time on no child comes up later than the code waits for it (three
  snapshots, or `FX_RETRY`). Without the last, a machine that is always too slow is never heard; the
  code retries for ever, as it should.
* `Backend`: a child that waits in the kernel comes back some time, and a shutdown that failed is
  asked for again.
* `Host`: running processes run on, and the user repeats the command that a failed removal printed.
* `AlsaMirror`: discovery opens a unit that is not suppressed, the worker polls on, and the card brings
  up its controls. Nobody has to plug a suppressed unit in again.
* `Health`: the daemon checks on, or stops. `Pins` and `Stores` are checked for safety only.

`CHECK_DEADLOCK FALSE` is used where the system may really stop: after `stop`, after the controller,
the daemon or the last process has ended, when the bounded supply of commands is used up, or when a
suppressed unit waits to be plugged in.

### Disagreements between code and documents

Two runs end in a violation on purpose; `PROJECT.json` quotes the sentence each contradicts.

* `MuteHandover_feedback`: switching away and back, the first mute of a plain capture is confirmed
  late, taken for an external edge, and mutes the row that was just opened.
* `CommandLifecycle_scenes`: a scene's held device job is not cancelled by a newer gain, and
  overwrites it when the handover ends. Hence `LaterEditWins` speaks of the gains no handover held.

What the models contain and the properties therefore except, each visible at its place:

* **Rows.** `OpeningWaits` leaves out a row that joins while a handover is pending
  (`update_handovers` makes only the rows of that moment members), and `CompletionWaits` a command
  displaced from a held capture (`queue_capture` answers it at once, though its device jobs may be in
  flight). The test at `crates/openwave-runtime/tests/controller_mutations.rs:946` (the view kept
  after a failed write) holds only until another edit refreshes the view.
* **Stores.** If the preferences cannot be written, or the program dies, after a removal published
  the rows, the marker of the capture stays without a row, and the protected device is not offered
  again when it is plugged in; `crates/openwave-desktop/src/ui/dialogs.rs:155` says it is. Sends of a
  legacy row never migrate if the matrix write fails after the row was added.
* **Mixer.** A sink loaded by a cycle whose snapshot was of an earlier server is not recognised
  afterwards, and its name stays occupied until somebody unloads it (`by = "late"`). The sink of a mix
  that is removed before any cycle saw it, or while a stream plays into it, is not removed. A route
  that another client unmutes after the snapshot may be heard beside a peer until the next cycle
  (`Tampered`). No document denies these.
* **ALSA mirror.** A knob turned between the last poll and a job is absorbed into the baseline of the
  job (`device.rs:687`–`707`), and the next due read takes the old value of the card over (`adrift`);
  `crates/openwave-runtime/tests/device_mirror.rs:225` and `README.md:26` speak as if a hand always
  won. A hand between the read and the write of one configuration is overwritten. A poll whose
  write-back fails leaves `last` behind what the card was told. A write that ran into the timeout and
  took effect leaves the card as it was for as long as the unit stays plugged in, since nobody opens the
  unit again (`device.rs:64`, `1035`, `1087`–`1091`, `1114`): `InStep` excepts a suppressed unit.
* **Backend.** A meter reader that failed once makes every later stop of the meters fail, so the drain
  ends only with the process (`KeptFailure`).
* **Health.** A debt whose identity is gone is kept, and blocks every further remedy for as long as the
  daemon lives (`Repaid` excuses it). The command that takes a card off its profile goes by name, and
  between the last look at the name and the command another card may take it (`recovery.rs:348`–`356`):
  that card then stays off and the debt names the one that is gone, so nothing switches it on again.
  `NothingLeftOff` demands the debt of the card's own identity, and excepts such a card (`late`);
  `docs/ARCHITECTURE.md:178` says that a debt follows the identity.
* **Pins.** The restart of a pin forgets a child whose termination was not acknowledged, where
  `docs/ARCHITECTURE.md:27` and `:43` keep ownership until it is; `OnePin` excepts a child that hangs
  in the kernel.
* **Host.** The printed retry fails if the root helper cleared its bundle and the user's job died
  before its own cleanup (`README.md:240`, `uninstall/recovery.rs:461`). While the root helper is
  asked for its password the lease is free: a program may start and write integration or settings
  anew (`README.md:225`, `uninstall.rs:403`–`420`). If `files_only` takes the files of a user's prefix
  between a failed attempt and its retry, the retry has no drop-in to compare with, leaves the audio
  drop-in of OpenWave where it is, and reports success (`uninstall.rs:489`, `README.md:225`). A plan of
  `Deaths` contains it, and `UninstallComplete` excepts the drop-in then (`stripped`); on a system
  prefix the retry is refused instead.

## 4. Proofs

Assumptions are the `ASSUME`s of the modules: constants are sets, bounds are naturals, a scale of a
card has a lowest value and a step, and `Health` has more identities (12) than it can remember at
once (11), so that a fresh one exists.

**`Stores_proof`**, of the rows. First what normalization does: nothing to exclusive rows
(`NothingToNormalize`), and to a newcomer below the others at most that it is muted (`Newcomer`).
The invariant `IInv` then says that committed rows and the candidate of a running loop are exclusive
(`Settled`: opening a row mutes every other of its group, an edit that joins an open group arrives
muted, and a row added straight into a group is the one that normalization mutes), and that the
candidate is what the patches so far say (`Recalled`). `GroupsStayExclusive` follows; so does
`DecisionsStand`, since normalizing has nothing left to change in what a command decided. `SwitchTakesTurns` needs that the
rows are finitely many and strictly ordered (`Ranked`): then the group has a topmost member and every
other a next one (`Topmost`, `Lowest`). The next rows make one cycle (`NextIsACycle`): take members
that are left only to come back to them. The lowest of them leads to the topmost row, which is thus one
of them; and if rows were missing, the first that is would be next to the one above it, which is not.

**`Stores_proof`**, of the files. `StoresKeepTheRules` is a refinement: every step of `StoresSpec` is a step of
`SourceGroups!Spec` or leaves its variables alone. With it the theorems about rows hold of the stores
(`RulesSurvive`). `FilesHoldWhatIsShown` rests on an invariant `KInv`: records have their fields
(`Shape`), a command in progress writes rows first and only files that can be read (`Working`), memory
and files agree also between two writes of a command (`Agree`), the view is of the stores until the
first write of a command (`Given`), and a file that could not be read stays (`BrokenStay`). The
agreement between writes is what makes it inductive: a failure or a death may come at any of them.
`SendsOutliveRemovals` needs what a command has still to write: rows or mixes come first, each file
once, and the matrix it is about to write takes no send of a row and a mix that are there by then
(`SendsSpared`), but those of a capture it adopts.

**`CommandLifecycle_proof`**. A handler is a composition of helpers, from one controller record to the
next, that do their work for a set of commands, jobs or units at once (`FinishEach`, `Each`, `Free`),
so what a helper does can be stated without induction. Each of the three theorems follows the helpers,
one lemma for each, and puts them together for each handler.

*`EveryCommandInOnePlace`*: a helper opens no command, and answers what it closes once (`Conserves`);
only the acceptance of a command opens one, and it takes it from the channel. `Inv` counts the places
of every number, admitted or not, and needs the channel to hold a number once.
*`AnswersWaitForJobs`*: a command that has jobs lists them in what it waits for (`Tracked`), jobs belong
to commands that are open or answered (`WInv`), and what has not been sent yet, an edit that is still
debounced or a recording, has no job (`Unsent`). So a helper answers a command only after its last job
(`Watched`); the command that is being handled is excepted until its handler is done with it.
*`LaterEditsWin`*: numbers alone do not order what a unit is sent, since an edit waits for its time and
a scene gives gains at once. `LInv` adds that an edit which waits is newer than the gains its unit was
sent (`Follows`), that the channel is in order, and that everything in it is newer than whatever the
controller ever took. A helper then gives a unit at most one new gain, of the command that is handled,
and only by taking the edit that waited away (`Fed`); or it gives none (`Idle`).

**`DeviceManager_proof`**. *Ownership* (`SameUnits`, `ThreadsRegistered`, `FreshUnborn`, `Apart`):
every thread that may hold a handle is registered, numbers not given yet have no thread, and
registered units are at different locations; `SingleOwner` follows. It is needed because a spawn
looks only at the registry. *Bookkeeping* (`InHand`, `ClosedBeforeDrain`, `AccountedFor`): a job
leaves the queue only into the hand of the worker or into an answer, and nothing is queued once the
drain has begun. *`DoneIsEmpty`*: a thread that ended left an empty, closed queue; with it
`RetiredAnsweredAll` and `StoppedOwnsNothing` follow. *`FailedIsLeaving`*: a unit with a failed job is
past its loop, so nothing more is written (`FailureIsLast`). *`WedgedIsKept`*: what timed out is
registered or suppressed until a scan misses it (`WedgedStaysClosed`).

**`Pins_proof`**. A child that records belongs to the reader, which holds its handle (`Held`); an
input that is not kept has no reader, and the loop restarts only one that it keeps (`Kept`); silence
that was answered is remembered, over children and replugs, until the input is heard (`Remembered`).

**`Health_proof`**. What a watch counts as a healthy interval lies in one that the samples show
(`CapturePaired`, `SinkPaired`), so attempts come back only after such an interval: `RemediesBounded`.
`DebtKept` needs that the debt names the very identity a command is meant for before the command is
given (`Owed`): from the second look on, the card of that name is the one owed, or gone, or was plugged
in since; and that remedies which are due have attempts left (`Due`).

**`AlsaMirror_proof`**. For every field the card shows what the owner knows of the firmware, or is
still to be told it, or another client set it (`Baseline`); the field that the poll has passed is
measured by the new configuration, the others by the last. The scales need only that a conversion to
the card undoes the one from it (`Scales`).

**`Backend_proof`**. `OneChildPerRow` and `ReadinessIsCurrent` are about the meters alone. The
invariant `MetersInv` says that a token is given once, to one row (`TokensGivenOnce`); that the
coordinator knows the reader of every token that is in force or wanted and was started
(`WorkersAreStarted`); that a reader which runs is its row's, or is being joined while its row has none
(`LiveReadersAreKnown`); and that a child runs only under a reader that has not ended
(`ChildrenAreRead`). A row then has one reader, and a reader one child. New tokens are numbered by the
rank of their rows (`Numbering`), which is why the rows are assumed to be finitely many, as the bank is
a map in memory. `NothingOutlivesTheLeases` adds `BackendInv`: what a drain that met no issue has behind
it is gone (`DrainIsThorough`), and nothing runs before activation or after the release
(`NothingRuns`).

**`Host_proof`**. A job walks a table of phases, so first the tables are put together from their parts
(`WindowPhases` and its like) and read once (`PhasesWalk`): everything that takes something away stands
between the lease and the end of the job. The invariant `LeaseInv` says the same of states: a job in
those phases, and a helper behind its lease, is the one holder (`JobHolds`, `HelperHolds`), and no
program runs beside a holder (`HeldAlone`). It is needed because a step that removes looks at its own
phase and never at the lease. `TheLeasesHold` is the refinement: every step of `Host!Next` is a step of
`Exclusion` or leaves it alone. `UpgradesAreWhole` strengthens `NoMixedInstall` to the last phase of the
installer, before the record goes (`Unmixed`), and remembers that the installer has its record from the
first slot to the last (`Recorded`) and that whoever unlinks does so for a receipt in `begun`
(`BegunKnown`); the comparison with the receipt before every unlink (`TurnKeeps`) does the rest.
`FilesAreExplained` needs what a removal has behind it: no file of ours is left before its slot as long
as its receipt is there (`SweptBehind`), so the receipt is the last to go (`ReceiptGoesLast`). Neither
holds while an installer has its record, which explains the files then, nor once an installer ran
beside the removal of its own version, which `Explained` excepts. The two theorems about files rest on
one description of the steps: what is not the installer or a foreign hand either leaves the files, and
every removal at its slot or at the first (`Quiet`), or is the turn of one slot (`JobTurns`,
`HelperTurns`). Assumed: `Order` is a sequence of distinct slots, the receipts of two versions differ
(`SameAssumption`), and a behaviour begins with version 1 or less and with nobody in the middle of
anything (`PlansAssumption`); for `FilesAreExplained` also that files without a receipt are none of
ours at first (`Receipted`).

Only model-checked:

* liveness (`StopReturns`, `JobsAnswered`, every `Settles`, `EveryCommandEnds`, the end of the drain):
  ENABLED and fairness are out of the prover's reach;
* the safety of the handovers (`NothingStranded`, `OpeningWaits`, `NoFeedback`) and of the mixer
  (`OpensIntoSilence`, `HeardAsSaved`, `FactoryNeverSaved`, `NoRawLeak`, `CleanStop`): a handler there goes over its
  rows, routes or sinks in turn, each seeing what the one before did, which is a fold of record
  operators; what a fold comes to for every sequence needs induction over data;
* `Explained` of an installation without a receipt, and `UninstallComplete`: they hold of the plans
  checked and not of every plan (`files_only` over an installation without a receipt leaves files that
  nothing explains; the retry above is excepted), so a theorem would need those plans described.

## 5. Not modelled, and what is left

Not modelled: the desktop, which renders snapshots and submits commands; diagnostics and the probe,
which keep nothing; effects and calibration analysis, which are floating-point; the USB protocol,
profiles and the matching of scenes to hardware, which are pure and covered by tables in the tests;
the parsing of `pw-dump`, of saved files and of receipts, which the models take as done.

Left, in the order of importance:

1. the routes of outputs and mix captures with Wave readiness in `Mixer`, and an abstract
   specification of silence before opening that `Mixer` and `MuteHandover` both implement;
2. masters and outputs as files of their own in `Stores`;
3. a proof of `OpeningWaits` for any number of peers, which needs the folds of `MuteController` in a
   form that says at once what they do to each row, as `CommandLifecycle` has it for commands;
4. the scenes' hardware resolution and the dock's register bank as operators checked against a
   reference definition.
