# Nyabula verification models

TLA+ models of Nyabula (openvela on an RK3576, a desktop AI cat), checked with
TLC and, where a theorem is stated, proved with TLAPS. Paths below are relative
to the repository; `core/` stands for `app/nyabula_core/`.

## 1. Inventory

| Part | State it keeps | Operations and who calls them | Hard behaviour | What makes it correct |
|---|---|---|---|---|
| Plugin scheduler `core/ny_scheduler.c` | `g_scheduler_slots`: one slot per running plugin, with four semaphores, an event queue and a completion ring | start, stop, dispatch, complete, refresh_permissions, from the web, agent, CLI and provider tasks; one worker task per slot | who reaps a slot; wakeups; slot reuse; work done between two critical sections | one instance per id, one reaper, no slot destroyed under its starter or worker, no lost wakeup |
| QuickJS runtime `core/ny_runtime.c` | `struct ny_plugin_s`: generation, permissions and their generation (atomics), pending requests | load, start, dispatch, stop, begin, complete, deliver, cancel_all, all in the worker | results that come late, twice or for an earlier instance; a permission that changes while a request is pending | a result is delivered once, to its instance, and not after its permission was revoked |
| WAMR runtime `core/ny_wasm.c` | the same for WebAssembly plugins | the same | permissions are written from another task without a guard | as above |
| Permissions `core/ny_permission.c` | stored grants per plugin | grant, revoke, apply | stored before the running plugin is refreshed | a running plugin has what is stored |
| Health `core/ny_health.c` | failures per plugin and version | check, record, reset | checked outside of the scheduler's lock | a failing plugin is quarantined |
| Packages `core/ny_package.c` | installed versions, markers `current` and `last-good` | install, activate, rollback, deactivate | markers across failures | the marker names an installed version, `last-good` the one before |
| Authoring `core/ny_author.c` | revision, backup, transaction journal | deploy, recover | a crash or failure anywhere in a trial on live data | code, data and grants change together or not at all |
| Request facade `core/ny_plugins.c` | `g_plugins_lock` | every `plugin.*` request of web and agent; recovers an interrupted trial first | the command line does not take the lock | requests are serialised |
| State database `core/ny_state.c` | SQLite key-value store | write_many, copy_prefix, storage_write | atomicity of a group of keys | a write happens whole or not at all |
| A/B boot update `app/nbootctl`, `core/ny_product_maintenance.c`, `core/ny_web_ota.c` | two boot control records, two slots, the uploaded file, the claim on it | upload, remove, apply, confirm, reboot (web); stage, set-active, mark-successful, clone (CLI); the boot loader | power loss between two writes, two writers of one record | there is always a slot that boots; what boots is what the owner confirmed |
| Voice pipeline `core/ny_voice*.c`, `ny_mimo.c` | state machine, turns, audio buffers | wake word, capture, recognise, answer, speak, barge-in | answers of an abandoned turn, timers against late events | one turn at a time, a stale answer is dropped |
| AMP compute RPC `core/ny_compute.c`, `tools/amp/nyampd`, `tools/amp/protocol` | NuttX: the generation of the daemon, ports with a queue each, the state of the local model, the blobs it serves; Linux: the session, the load, the body of a request, the run | chat, load, unload, cancel (agent, voice, panel); the daemon answers, pulls and loads a model, runs a chat, each in a thread of its own | a daemon that restarts, a full port, deadlines, a cancel that meets the end of a run, what an abandoned call leaves behind | a call ends, is run once, gets its own answer whole or none |
| Agent `core/ny_agent.c` | the record of runs with their steps, the active run, the cancelled one | chat, approve, cancel, delete (web, voice, channels, external clients); the agent loop calls tools, the worker stores the end | several tools at a time that wait for the owner, answers that race a cancellation, a record that fills up, restarts | one run per request, nothing done without the owner, nothing recorded that was not done, every run ends |
| Alarms `core/ny_product_alarms.c` | the rows, whether the sound is on | create, update, delete, dismiss, snooze; a tick of the product worker | a clock that is set, trimmed, lost; restarts; failed writes | rings once, when it is due, and stops |
| Timers `core/ny_product_timers.c` | the rows with monotonic and wall-clock anchors | create, pause, resume, lap, delete; the same worker | as above | shows the time it has run, chimes once |
| Clock `core/ny_product_clock.c` | validity, the step counter | set, by hand or from the network | a step between two reads | |
| Scenes and lights, other product services `core/ny_product_*.c` | one store and often one worker each | requests from web and agent, timers | who owns the light | last owner wins and gives back |
| Web server, cloud relay, MCP transports | sessions, connections | requests to everything above | connections that end in the middle of a request | authorisation, no request served twice |
| Eyes, displays, camera, audio processing, drivers, chip, boards, front-end, build tools | frame and sample buffers, registers | | hardware timing | out of scope of these models |

Interaction: web, agent and MCP tasks call the request facade, which holds
`g_plugins_lock` and calls authoring, packages, permissions and the scheduler;
the scheduler runs each plugin in a worker that calls the runtime; the runtime
begins requests at providers, which complete them through the scheduler from
their own tasks. All durable plugin state is in the state database. The voice
task submits what it heard as a run of the agent and speaks the answer; the
agent's tools call the same requests as the panel, with the owner's consent
where they change something; alarms and timers are ticked by one worker and
keep their rows in the state database too. The agent, the voice and the panel
call the local model through `ny_compute.c`, one call at a time; the daemon on
Linux pulls the model from NuttX through the same link.

## 2. Modules

| Module | What it is |
|---|---|
| `PluginRegistry` | abstract: what the scheduler promises, with no slots or semaphores |
| `PluginScheduler` | slots, workers, callers; one step per critical section of `g_scheduler_lock`, semaphore operation or runtime call |
| `PluginSchedulerProofs` | theorems of `PluginScheduler` |
| `PluginAsync` | one QuickJS plugin: requests, completion ring, pump, permission refresh, lifecycle calls that await |
| `PluginAsyncProofs` | theorems of `PluginAsync` |
| `PluginVersions` | abstract: code, private data and grants of an authored plugin change together or not at all |
| `PluginTrial` | deployment, trial, journal, recovery and the owner's requests, with a crash at any step |
| `PluginTrialProofs` | theorems of `PluginTrial` |
| `BootSwitch` | abstract: what boots next is what runs or an image that was asked for and written as a whole |
| `BootUpdate` | the boot control record in two copies, two slots, the requests of the panel, the `nbootctl` command, the boot loader; a loss of power at any step |
| `BootUpdateProofs` | theorems of `BootUpdate` |
| `VoiceTurn` | the voice state machine, its queue of events, the actions of a step one by one, recogniser, agent and player |
| `VoiceTurnProofs` | theorems of `VoiceTurn` |
| `ProductClock` | the clock that alarms and timers see: time, trims, steps, validity, restarts |
| `Alarms` | the rows, requests and the tick of the worker, on `ProductClock` |
| `Timers` | rows and what is stored of them, requests and the tick with its readings before the lock, on `ProductClock` |
| `ProductProofs` | theorems of `Timers` and of `Alarms`, the two services of the product worker |
| `AgentRuns` | the record of runs, requests, tool calls, the worker that ends a run |
| `AgentRunsProofs` | theorems of `AgentRuns` |
| `ComputeChat` | calls to the local model: client, receive task, loader, and the daemon with its threads; restarts and lost frames |
| `ComputeChatProofs` | theorems of `ComputeChat` |
| `MC...` | values for the constants and symmetry sets of the module they are named after |

### PluginScheduler

`slot[s]` is `struct ny_scheduler_slot_s`: `id` stands for `occupied` and `id`,
`count` for the event queue, `ready`, `start_consumed`, `pending`, `stopped`
for the semaphores (a semaphore destroyed with its slot and initialised with
the next is a field of the slot that is reset). `worker[w]` is one run of
`ny_scheduler_worker`; `caller[c]` is a task in `ny_scheduler_start_config` or
`ny_scheduler_stop`; `failures` is what `ny_health.c` stores. A plugin of the
model is an id at one version. Of the code of a plugin a lifecycle call has only
what the scheduler sees: it ends with ok or an error, or it awaits, as often as it
likes, and is then in `ny_scheduler_pump` with the deadline of the call
(`WorkerAwaits`, `WorkerAwaitPump`, `WorkerAwaitWoken`; `pump` of a worker). There
it sleeps on the same `pending` as the event loop and takes its counts, those of
events that stay in the queue included; -ECANCELED comes only of a pump that has
seen `stopping`. `Notify` is the count of a completion or of new permissions,
whose contents `PluginAsync` has. The polling of HTTP transfers in the pump is a
sleep that ends by itself. `ny_on_stop` runs with `stopping` set, so that its pump
never sleeps, and is one step.

`BuildKernel` is `CONFIG_BUILD_KERNEL`: with it workers are threads that the
reaper joins, without it they are detached tasks and the slot may be cleared
while the worker still has to post `stopped`. The repository builds flat
configurations, so the second form is the one on the device. Invariants about
the ownership of slots between callers hold in both; those about a worker and
its slot, and `QuarantineSlack`, only where it is joined: a detached worker may
record its failure after its slot has been given away (see the first finding).

### PluginAsync

One plugin id and one slot; `slot.pid` and the generation number the instances.
The worker's program counter follows `ny_scheduler_worker`, `ny_scheduler_pump`
and the runtime; "code" is a stretch of plugin code, which may begin requests,
return or await. A refresh holds the lock across its two atomic writes, and the
worker reads them without it, so those four accesses are steps of their own.
`ApplyFails` is the error path of a refresh: when `ny_permission_apply` cannot read
the grants, the call returns its error and the slot and the plugin keep what they
have. `lost` in a pending entry is a history field: it says whether the plugin has
lost the permission since the request began, and in which way. Clients are not
serialised: the command line does not take `g_plugins_lock`. `crossed` is a
history variable that says whether a call has met another one since the last
grant or revocation that began alone; the requests of the panel and the agent,
which take the lock, never set it. `stale` is another: the instance whose last
refresh that ended has failed. Reaping is abstracted to "after the worker is gone and the
starter has read its result", which is what `PluginScheduler` establishes where
workers are joined.

### PluginTrial

The durable state is the two markers, the installed versions with what their
manifests request, the revision that numbers versions, private data and backup,
grants and the journal. `manager` is the request that holds `g_plugins_lock`,
`plugin` the slot. Each durable write is one step that happens as a whole or
fails (the database commits a group of keys in one transaction); a failure
takes the code's error path. `Crash` loses `manager` and `plugin` at any step.
`Write` is the plugin storing data while it runs, also on trial. `Abandon` and
`UndoTrial` are the two exits of `ny_author_deploy`: before the journal is
written the old plugin is started again, after it the recovery runs.

### BootUpdate

`copy[c]` is one copy of the record for the NuttX domain, with a generation and
"valid" for the checksum; `content[s]` is what is in a slot, where a model value
stands for an image and for its digest and `Partial` for anything else.
`task[t]` is a request of the panel with its worker, or a run of `nbootctl`; its
`record` is what `nbootctl_read_records` left in memory. A step is one read of
the record, one write of a copy with its read-back, the first or the last
sectors of a payload, or the reading back of the slot. A failing transfer
(`IoErrors`) leaves a copy old, torn or new; a loss of power leaves the one
being written old or torn. `Reset` is a restart: N-Boot, which is not in this
repository, is modelled from `skills/nboot-control/references/bootctrl.md` and
the headers: newest valid copy, highest priority, digest checked, a slot that
does not verify loses its priority. `AmpControl` lets it start the AMP domain,
from which no NuttX slot runs. `vouched` is a history variable: the slots whose
confirmation was answered with success.

The records at the start are those of `tools/k7_abpack/bootctrl.py` (slot B has
priority 0) and of the boot loader's own tool (14, as `bootctrl.md` has it; the
two differ).

### VoiceTurn

`sm` is `struct ny_voice_sm_s`; `Machine` is `ny_voice_sm_step`, with one
operator per state, and gives the new state and the list of actions, which the
task then carries out one by one (`acts`). `queue` is the ring of events; `Post`
drops the event when it is full, and `lost` remembers that. Each round of
`ny_voice_task` is the steps take, act, poll and agent (`pc`), between which
everything else happens: the recogniser of the compute domain or the cloud
(`asr`), runs of the agent (`run`), sentences (`player`). Whether the cloud is
used is drawn at the start. Endpoints, wake words, transcripts and sounds are
events without content. `stray` is a history variable: it is set when the
machine takes an event of a request it no longer has for one of its own, which
the events, that carry no request, cannot tell; what the properties say of the
turn after that is limited to its end. `count.dead` is the newest run that was
called off.

### ProductClock, Alarms, Timers

Time is a number of ticks up to `Horizon`. `clock.generation` counts the steps
that are announced (`ny_product_clock_step`); a jump of 0 is a correction too
small to be one. A restart may lose the clock.

An alarm's row is its status, whether it is enabled and repeats, its time of
day, `next_at` (`due`) and `last_fired_at`. Days have `Day` ticks. A tick is two
steps, because `now` is read before the lock. `frame[i]` is a history variable:
which reading of the clock `next_at` was worked out from; `back` says that the
clock went back.

A timer's row keeps the reading it was anchored at, and `stored` what the
database has of it, with a wall-clock anchor. A tick is the reading of the clocks,
the check under the lock, the reading again when it saves, and the write with
its sound. `ran[i]` is a history variable, the time that the timer has run;
`sure[i]` says that nothing happened that makes it unknowable: a restart without
a clock or with an anchor from before the last step.

### AgentRuns

`record` is the document "agent" as a whole, which every operation reads,
changes and writes under `g_agent_lock`; a run is its request, conversation,
state and steps. Sizes are counted in runs and steps: `AcceptLimit` and
`RecordLimit` stand for the two byte limits, and `Evictions` for the loops that
throw out the oldest finished runs, first those of other conversations. The
agent loop is a library outside of this repository; the model lets it announce
itself, call tools at any time, several at once, and answer when none is under
way. `applied` counts the effects of each step, `allowed` the steps the owner
allowed, `begun` the runs of a request that are still on record: history
variables.

### ComputeChat

`call` is the call that holds `g_compute.llm_lock`, with the locals of
`ny_compute_llm_call` and `ny_compute_chat_collect`; `port` is its port, `llm`
the state that the panel shows, `loader` the load that a panel topic asked for.
`up` and `down` are the frames on their way; the queue of events of the daemon
and its writes are one FIFO in the model (in the daemon a response may pass
events that are queued, and the client skips those while it waits for one). A
request id is the call and the number of the request in it. `daemon` has the
session, the model, the load, the parts of a body that have arrived and the run,
with the two flags that are set and cleared apart from the run itself
(`running`, `cancel`). READY stands for READY and for the answer to a probe. A
deadline may pass whenever it is looked at. `Restart` ends the daemon with what
it has not written or read, `LinkLost` is the end of the peer's transport, which
comes back with a new daemon. A port that cannot be opened is one of two things
for the thread of a load (`Load`): the lock, the link, the memory or a place that is
missing, which it reports (`Report`), or any other errno of `open()`, which it does
not. `ran`, `called`, `givenUp` and `unopened` (the load last asked for met the
second kind, and no chat has begun since) are history variables.

## 3. Runs

| Run | Question | Result |
|---|---|---|
| `scheduler_flat` | detached workers, three callers on one slot: the hand-over between starter, stops and reaper | holds |
| `scheduler_live` | joined workers, two background plugins and one place: slots and workers, wakeups of the loop and of calls that await, slack of the quarantine; under fairness that every call returns, and the refinement of `PluginRegistry` with its liveness | holds |
| `async` | two clients that nothing serialises: the ring and its wakeups, when a refresh may write and that it arrives unless it reports an error, revoked results are withheld | holds |
| `trial` | three deployments, failures and crashes: refinement of `PluginVersions`, which version runs and with which permissions | holds |
| `boot_web` | two requests of the panel, failing transfers, loss of power: refinement of `BootSwitch`, priorities and contents, confirmations, and under fairness that the claim is given back | holds |
| `boot_cli` | two commands without the claim race, with boots into AMP: while a slot runs one boots again, the running slot is not written | holds |
| `voice` | turns of both recognisers with a queue that overflows: what each state waits for is on its way, what none waits for was called off, a cancelled answer is not spoken; under fairness every turn and every wait for an approval ends | holds |
| `alarms` | two alarms, two moves of the clock or restarts, failed writes: a far step reschedules, an occurrence rings once, the sound follows the rows, nothing stays due | holds |
| `alarms_ring` | does an alarm that nobody dismisses stop | **violated**, section 4 |
| `timers` | one timer of each kind, trims, steps and restarts between any two readings: the time it shows and the time that is stored are true, it chimes once, it does not stay over or waiting | holds |
| `agent` | two requests, one of an external client, with two tools at a time, late approvals, cancellation, deletion, eviction, failed writes and a restart: the record is sound, effects and record agree, what is over stays, no step after a cancellation, every run ends | holds |
| `compute` | two calls to the local model, a cancellation, and one restart, lost link, refused write or port that cannot be opened: a chat is run once and answered whole or not at all, a cancelled one is not answered, what an ended call left behind refuses nothing; under fairness every call ends and the state settles, unless the load it shows had no port for a reason that is not reported | holds |

Bounds, and why they are enough. Two callers make a race of a start and a
stop, or of two stops; three let a start, a stop and a second start of the same
id meet, and let a stale worker coincide with a hand-over. Two plugins on one
place make the quota bite. In `scheduler_live` two events in the queue and two
counts of `pending` let an awaiting call spend the wakeup of one event or of both
before the loop looks; in `scheduler_flat`, whose properties are about callers, one
event fills the queue at once. `PendingBound` keeps the count of one semaphore
finite: a dispatch or a notice beyond it would leave a semaphore that is positive
anyway. In
`PluginAsync` two instances make a foreign token, one pending request a full
ring, two requests a late token of the same instance and two updates a
revocation that is granted again; `MaxWakeups` bounds a semaphore as above. In `PluginTrial` three versions make a previous version that is not
the last good one, two data values tell a restored backup from the trial's
data, and the one permission is one that a trial withholds (the theorems cover
every set of permissions). In `BootUpdate` two images tell the old content of a
slot from the new one, two tasks make every race of a read with a write, and `MaxWrites`
(the generation above which no request starts) admits three updates, or an
update, a confirmation and a second update; `boot_cli`, where transfers do not
fail, admits two updates. Its commands are a staging, a boot request and
set-active, which are a rewriting of contents, one of the record that leaves the
priorities alone, and one that changes them; mark-successful is, like the boot
request, of the second kind, and the theorems about both properties cover it. In `VoiceTurn` two events from outside, besides those
that recogniser, agent, player and clock post by themselves, make a barge-in and
a cancellation of what it began, and fill the queue of three (`lost` is
reached); three events, and four with a queue of four and no
player, gave the same answers on the invariants. In `Alarms` a
day of three ticks, a ring of two and a frame of four make every comparison of
the code fall on both sides, and a horizon of seven leaves time for a second
occurrence after a far step. In `Timers` three requests are a creation, a pause
and a resumption. In `AgentRuns` two runs make the eviction of one by the other
and the repetition of a request, two steps a run at its limit, an approval that
waits beside a tool that works, and a deployment that makes up for one that
failed. In `ComputeChat` two calls make one that is disturbed and one after it,
two parts a body that is abandoned, two pieces an answer with a gap, and a port
of two overflows; with two faults, and with three calls, the safety properties
gave the same answer. Symmetry is used for callers, workers, plugins, data
values, images, clients and commands, which no formula orders, and in no run with
a liveness property.

Fairness. Workers and callers are tasks with a priority of their own that the
kernel schedules; every blocking wait is on a semaphore whose post the model
includes, so each task is weakly fair; and a runtime call ends at its deadline,
however often it awaits (`cpuMsPerEvent`, `NYABULA_CORE_ASYNC_TIMEOUT_MS`; the
interrupt handler ends a busy loop), so `WorkerTimesOut` is weakly fair by itself. In `BootUpdate` the
work of a request is weakly fair: transfers end, an upload by its timeout, and
the board resets or refuses to. The turn thread takes events and carries out
actions for ever, the player thread ends what it plays (its waits are bounded),
and a state that is only ticked at meets its deadline (strong fairness of the
tick that is due); recogniser and agent owe nothing, which is what those
deadlines are for. In `ComputeChat` only the tasks of NuttX are fair: the call,
whose deadlines pass, and the receive task with its loader; the daemon and the
link owe nothing, except that the endpoint exists again after a lost link, which
the receive task needs to start a load. The product worker
goes on ticking, and a write that is tried again and again succeeds some time
(strong fairness of the step that stores). An agent's tools return, its loop
does not call tools for ever (`LoopAnswers` is strongly fair) and the worker
tries to store the end of a run until it can. Requests, events,
completions and failures are not fair: nobody has to send any.

## 4. What the code does not keep

`alarms_ring` shows one case, as a run: the tick returns early when no row is
due, and the search for such a row skips those that ring, so that the branch
that ends an alarm after `NY_ALARM_RING_MS` is reached only when another alarm
is due or has to be put off.

The others were found by runs of their own and are kept as definitions; naming
one as a property in the run given here shows it again.

- `NoPluginLeftRunning` (`PluginScheduler`; `scheduler_flat` with `Plugins` and
  `Background` {p1, p2} and two callers). The worker posts `stopped` after it has
  released the lock under which it set `task_stopped`; a stop that sees
  `task_stopped` does not wait for the post. In a flat build nothing joins the
  worker, so the post can reach the semaphore of the next plugin in the slot,
  whose stop then clears the slot while its worker is in the event loop.
- `RevokedIsRefused` (`PluginAsync`; `async`). A revocation that is not
  serialised with a start (command line) and meets a plugin that is being loaded
  is stored and not applied; `tools/nyabula_plugin/README.md:122` says it acts
  at once.
- `StoredGrantsReachPlugin` (`PluginAsync`; `async`). A grant or a revocation is
  stored first; when the refresh after it cannot read the grants
  (`ny_scheduler.c:640`) it returns the error and leaves the running plugin and its
  slot with the old ones. `ny_plugins.c:455` and `nycore_main.c:392` hand the error
  on, nothing tries again and nothing is taken back: the next refresh that succeeds,
  or a restart of the plugin, brings the grants. `RefreshReachesPlugin` says that much.
- `NoRevokedResult` (`PluginAsync`; `async`). A request
  that begins between the two atomic writes of a refresh carries the new
  generation with the old permissions;
  `tools/nyabula_core/async-completion.md:19` says every older request fails.
- `StandaloneStays` (`BootUpdate`; `boot_web` with `AmpControl = TRUE`). With no
  NuttX slot running, an update goes to the slot that is not active; what boots
  is decided by priority. An update of a slot that is already active,
  interrupted after its priority was taken, leaves it active and not bootable,
  and the next update from AMP replaces the other one.

- `LoadReported` (`ComputeChat`; `compute`). `ny_compute_port_open` returns whatever
  errno `open()` gives except ENOENT (`ny_compute.c:2736`; EMFILE for one);
  `ny_compute_llm_load` (2918) then touches no state, and the thread of the load
  reports only EBUSY, ENOTCONN and ENOMEM (2037), although the comment above that
  line is about this very case: the panel shows "loading" until a chat or another
  load. `Settles` says what is left: it settles unless that has happened.
- `ReadyIsTrue` (`ComputeChat`; `compute`). A new generation takes "ready" back
  (`ny_compute.c:562`), but an answer of the old daemon that is taken from the
  port after that, to a load or the FINISH of a chat, shows it again.

Met while modelling, with no property of their own. A recovery restores
`current` and leaves `last-good` as the trial set it. The last write of an
update that fails half-way is reported as failed although its first copy already
activates the new image, which then boots next (it is complete:
`PriorityVerified`; `Answer` of `BootSwitch` allows for it). `nbootctl clone`,
which is not modelled, takes any target, the running slot included. A run whose
message cannot be handed to the agent loop stays "queued" until the next
restart, with nothing working on it, and is never thrown out (`ny_agent.c:1382`).
A tool call that is denied or times out leaves its run "waiting_approval" until
it ends; an approval in the moment of the time-out is answered with success and
not carried out. The alarm tick marks a step of the clock as seen although its
`now` may be from before the step; when the clock was moved twice since, it puts a
snoozed alarm off to that `now` (`ny_product_alarms.c:516`), and the next tick
reports it as missed instead of ringing. The timer tick may take a wall clock from
before a setting together with the validity from after it (`sure` excludes this).
A chime is lost when the board stops between the write and the sound. A turn
that the result of an earlier request began (`stray`) can take the "pending" of
a cancelled run for its own when its own submission is refused: the machine then
waits across turns for an approval whose run nobody asks about, until the
deadline of that wait (a queue of four and four events show it; the bounds of
`voice` are too small, and `PendingFollowed` did not exclude it before the proof
asked why). A chat
that began while the generation was unknown, or whose daemon restarted between
the last acknowledgement and the reading of the generation, does not notice the
restart and waits for its deadline. A body that was given up half-way makes the
next chat fail once as invalid (`givenUp` allows it). A cancel that comes after
the outcome was decided is acknowledged and changes nothing. The daemon ends
when the response to a request cannot be written (`nyampd_main.cpp:1000`), a
full ring included, which `DrainEvents` waits out. A published page is cleared
after the lock is released, by the difference to a snapshot
(`ny_scheduler.c:665`), and `ny_scheduler_stop_all` stops the ids of a snapshot
(`:1056`): two refreshes, or a start in between, may be missed.

## 5. Proofs

`PluginSchedulerProofs`, for every number of plugins, slots, callers and
workers and every bound. `TypeInv` is inductive by itself. `HandoverInv` adds
what a caller at each program counter knows of its slot: a starter has it to
itself until it posts `start_consumed`, a reaper has claimed it by setting
`stopping`, and no starter is left on a slot that is about to be cleared; it is
inductive together with `TypeInv` in both builds and gives `OneReaper` and
`SlotKeptForStarter`. Under `BuildKernel = TRUE`, `JoinInv` (every worker that
is not joined has its slot) gives `WorkerOwnsSlot`; on it rest `LoopInv` and
`NoLostWakeup`, whose induction needs that only the slot's own worker takes
from `pending`, that its loop looks at the queue after every call, before it sleeps
(why an awaiting call may spend the count of an event), and that a stop in between
leaves a count of its own. `OneInstance` needs the cardinality of the background slots.

`PluginTrialProofs`, for every set of permissions and data and every number of
versions. `TrialInv` is the inductive invariant: versions are numbered before
they are installed (`NumberInv`); while a trial is pending the previous version
is active or last good (`RollbackInv`, why the recovery's rollback goes to the
right version); what a deployment and a recovery have done at each step
(`DeployInv`, `UndoInv`); which version the slot has (`SlotInv`). From it follow
`RunsActive`, `TrialWithheld`, `RecoveryRestores` and the refinement
`ImplementsVersions`, by a mapping that reads journal and backup while a trial
is pending.

Two more about `PluginScheduler`, where workers are joined. `LimitsKept` needs
`SlackInv`, which counts by cardinality the callers and workers that may yet
record a failure of a plugin: the stored count exceeds the threshold by no more
than the tasks that had passed the check before it was reached, and by no more
than there are callers (why `CallersAssumption` has them finite).
`ImplementsRegistryCorrect` is the refinement of `PluginRegistry` without its
fairness: the slot of an id is its instance, a reaper its claim, and the steps
of semaphores stutter.

`PluginAsyncProofs`, for every number of clients, instances and requests and
every size of the ring. `CompletionInv` says where each completion is: which
instance slot, worker and plugin belong to (`InstanceInv`), when the slot is open
to others (`OpenInv`), that tokens of the ring are of requests that wait and that
none is there twice (`RingCurrent`), and that each has a wakeup to come
(`WakeupInv`). It gives `RingInv`. `RevokedResultsWithheld` rests on `LostInv`: a
request that a refresh found began under an older generation of the permissions.
`RefreshReachesPlugin` rests on `StartInv` and `SyncInv`: a call that has met no
other leaves the stored grants in the slot and in the plugin, whatever the worker
does in between, unless the last refresh of the instance has returned an error
(`stale`).

`BootUpdateProofs`, for every set of images, requests and commands and every
number of tries. `JobInv` and `ClaimInv` say what a task at each step has in
memory. `RunningKept` needs only `TargetInv`, and holds of commands and requests
together, with failing transfers. `SlotBootsAgain` needs `RunningInv`: at most one
copy of the record would not boot the slot that runs, it is the one that is not
selected, and whoever has read the record is about to rewrite that one. It is
stated for `IoErrors = FALSE` or `Cli = {}`, as with failing transfers and no claim
both copies may be torn. `RecordTrue` and `DoneBootsConfirmed` are stated for
`Cli = {}`: a command that has read the record before a request and writes it
afterwards undoes that request (`nbootctl` takes no claim), which neither
survives. Their invariant says what the one writer has done to the two copies
(`WriterInv`), that every record in a copy or in memory tells the truth
(`SoundInv`), and what a confirmation, the job of the panel and an update that is
done rely on (`ConfirmInv`, `ApplyInv`, `DoneInv`). The refinement of `BootSwitch`
adds `SelectedInv` (what is left while a copy is written boots what is booted
anyway) and supposes `AmpControl = FALSE`: from the AMP domain the target may be
the slot that boots next, as the definition `StandaloneStays` shows.

`AgentRunsProofs`, for every number of requests, runs, steps and tool calls and
every limit. `RecordInv` has the shape of the record with its limits (`RunsInv`,
by lemmas about the sizes of the records that evictions leave), what is active
(`ActiveInv`), the runs of a request (`BegunInv`), the step each tool call owns
(`ToolInv`) and when a step has its effect (`EffectInv`). From it follow
`RecordSound`, `EffectsRecorded`, and the action properties `FinalStays` and
`NoStepAfterCancel`. `AgentAssumption` has `AcceptLimit` at most `RecordLimit`,
as the two byte limits of the code are; without that a request that is accepted
could not be stored.

`ProductProofs`, first part: `Timers`, for every number of timers, every duration and every bound on
clock and moves. The proof follows one row: lemmas say what a tick, a trim, a
pause, a save and a restart make of it. `TimerInv` has the limits of a row in
terms of what the clocks can have made (`RowsInv`), what a save that is under way
has in hand (`JobInv`), that a row shows what it has run (`TimeInv`), that a
stored anchor would be picked up as what runs (`AnchorInv`), and that what has
chimed is over in memory and on the disk (`ChimeInv`). It gives `ChimesOnce` and
`TimeKept`.

`ProductProofs`, second part: `Alarms`, for every number of alarms, every length of
day, grace, ringing and frame in the order the code has them (`AlarmAssumption`),
and every bound on clock, moves and requests. The next occurrence is a choice among
the instants of a day modulo its length; `Occurrence` says there is one, from
lemmas about quotient and remainder, and `NextIs` what the choice gives. Then
`AlarmInv`: a row without a next occurrence is not one that waits (`SetInv`); a row
that depends on a reading the clock was moved far away from is one that the next
tick can tell, since the step is news to it and the row is near that reading
(`FarInv`); and unless the clock went back, what has rung lies before what is to
come, before the reading of a tick that is under way and before the last step
(`FiredInv`). It gives `RowsKept` and `NoSecondRing`. Of `FiredInv` TLC refuted a
first form: the exception `TooLate` is the snoozed alarm of section 4.

`ComputeChatProofs`, for every number of calls and faults, any models, and any
size of request, answer and port. `ShapeInv` is the types. The argument of
`ChatInv` is about what is under way for one call: nothing before it begins
(`Untouched`; `NumberInv`, `PortInv`), and while it waits for an answer and was not
run, one thing at most: its request, the load it asked for or the answer
(`Alone`; `AwaitInv`). So a refusal that arrives is that of the request that was
sent, a second request of a chat is sent only when the first was not run, and a
call is run once (`RunInv`). What the call has collected are pieces of its own id
in their order, and it ends well only after the end of its run (`CollectInv`). A
cancel that came in time shows in the flag while the run goes on, then in its
status, then in the end that is on its way (`CalledInv`). Lost frames, full ports
and restarts take things away, and the invariant is closed under that. `LeftInv` says
whose body, load and run the daemon still has: those of the present call or of
one that gave up (`OwnerInv`); that of the frames of the present call one at most
asks for something, none once it was run (`AskedInv`); that the frames of earlier
calls stand before its own (`OrderInv`); and which fragment of a body comes next
when the daemon says it has one (`BodyInv`). So a refusal as busy or out of place
is explained by a call that had given up. It gives `AnsweredOnce`, `CancelObeyed`
and `RefusalsExplained`.

`VoiceTurnProofs`, for every capacity of the queue, every number of events and
either recogniser. The properties speak of the moments between two events;
`IInv` says the same of every moment, with what the actions still to be carried
out will do. `InOrder` has the form of those: cancellations come first, a step
begins one thing at most, and that belongs to the state it entered. `SoundInv`
and `RequestInv` follow a sentence and a request from the action that starts it
to the event that reports it: the state that speaks has a job that was not
reported, a request that still speaks is the one of LISTENING or about to be
cancelled, and one whose outcome is in the queue speaks no more. `AgentInv` does
so for the run: `RunInv` has where it is, `OneOutcome` that the queue holds one
outcome of it at most, `LiveAnswers` that an answer the machine would speak is of
no run that was called off. What makes that inductive is the order of the queue
(`OldNewsFirst`): what an earlier run has left there stands before the
transcript the next one is submitted for, so the turn has dropped it when it
begins to wait. The proof sums up the machine first: `Outcome` and `Flow` say,
for every state and event, where it goes and what it orders; the invariant is
then followed through an event that is taken (`Stepped`), the actions, and what
the other threads post. It gives `WaitedForComes`, `CalledOff` and
`SilencedRunUnheard`; `lost` and `stray` limit them as the definitions say.

The theorems assume what the named ASSUMEs of the modules say and the hypotheses
given above, which are the two values of a build option (`BuildKernel`) and the
operations taken into account (`Cli`, `IoErrors`, `AmpControl`). TLC checked
each inductive invariant on a small instance before it was proved: that of the
run for `PluginScheduler`, `PluginAsync`, `Timers` (673 959 states) and
`AgentRuns` (556 539 states); for `Alarms` that of the run without its liveness
(833 795 states), and one alarm with two requests and a horizon of twelve (1.5
million); for `ComputeChat` that of the run without its
liveness (259 780 states), and `LeftInv` also three calls without faults (862 361)
and bodies of three fragments (266 116); for `VoiceTurn` that of the run (228 397 states), and
a queue of four with four events, as long as nothing is lost and
without the player (1.0 million); for `BootUpdate` two requests of the panel without and
with failing transfers and boots into AMP (59 500 and 102 298 states), and two
commands with all four operations for the invariants that allow them (3.6
million states).

Model-checked only. Liveness under fairness, which is out of the prover's reach:
`CallsReturn`, the fair half of `ImplementsFairRegistry`, `ClaimReleased`,
`WaitsEnd`, `SoundFollows`, `DueHandled`, `Proceeds`, `RunEnds`, `Settles`. Every
other property of a run that holds is a theorem. Proved and not checked by a run
of its own: the inductive invariants named above, and `TypeInv` of `PluginTrial`.

## 6. Not modelled, and the plan

In the modelled parts: `ny_scheduler_stop_all`, the polling of HTTP requests in
the pump, the WAMR runtime, published pages (`ny_ui.c`), process id and
generation reuse, storage errors of health records, uploads and installs of
authored ids by hand, command-line operations that race a trial, markers kept
in files by a build without SQLite; of the boot update the AMP domain's slots,
the clone command, raw writes of a partition or of the boot loader, transient read errors of the
record, and races of commands together with failing transfers (both copies may
then be torn); of the voice pipeline capture, wake word, endpointing, decoding,
model loading, probes, how the task is started and stopped, and a cloud request
that outlives the link (`stray` excludes the turn it disturbs); of the product
services everything but alarms, timers and their clock; of the agent the loop
itself, automations, skills, the MCP transports and the channels; of the compute
RPC how the task is started and stopped, the blob server with its hash worker,
the other services of the daemon and their ports, GENERATE, token and progress
events, probes, and `nyampctl` as a second client of the daemon.

Order of further work:

1. AMP compute RPC: the blob server and the provisioner that pulls from it
   (windows, leases, an OPEN that is still hashing), a refinement of `ComputeChat`
   to a queue of calls that are answered at most once.
2. `BootUpdate`: the AMP domain's slots and the clone command.
3. WAMR variant of `PluginAsync`, stop_all, pages.
4. Scene arbitration, the cloud relay.
