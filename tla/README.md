# A verification project for evo-device-audio

TLA+ modules, TLC runs and TLAPS proofs about the parts of evo-device-audio
that are hard to test: the tasks of the MPD playback plugin, the mixer gesture
of the options plugin, the network shares, the USB volumes, the multiroom
election, the network supervisor and the queue shelf. They talk to MPD, to the host, to each
other and to the framework over connections, channels, callbacks and helper
processes that interleave, fail and come late. Each run is
`tlc -config <cfg> <MC module>`; each proof module is checked with
`tlapm <module>.tla`.

`P/` below is `src/plugins/org.evoframework.playback.mpd/src/`, and `S/` is
`P/playback_supervisor/`; the other plugins are named without
`src/plugins/org.evoframework.`.

## Inventory

The repository is the audio distribution of the Evo framework: a set of plugins
(`src/plugins/`) and library crates (`src/crates/`) admitted by a steward
process that is not part of it. The plugin that carries most of the logic is
`org.evoframework.playback.mpd`.

| Part | State it keeps | Operations | What must hold |
|---|---|---|---|
| Custody supervisor (`S/actor.rs`) | command connection, command and idle channels, mute flag and captured volume, last song emitted and probed, settings receiver | every `PlaybackCommand`, query, output cycle, report, settings push, reconnect with one retry, shutdown | answers describe what MPD did; nobody waits for ever; unmuting is audible; the report follows MPD |
| Idle task (`S/actor.rs`) | idle connection, backoff | idle, reconnect, wake the supervisor, give up | a change of MPD wakes the supervisor |
| MPD client connection (`crates/evo-mpd-shared`) | one socket and its read buffer | write a request, read a response under a timeout | a reply answers the request it follows |
| Ambient observer (`S/ambient_observer.rs`) | a pair of connections, probe cache, the `now_playing` subject, a `Notify` | connect, snapshot, idle, publish, probe, stop | the subject follows MPD; `stop` ends the task |
| Route reactor and fragment worker (`P/lib.rs`, `P/mpd_fragment.rs`, `P/mpd_restart.rs`) | endpoint and mixer watch channels, the fragment file, worker status | fetch, register, wake, render, compare, write, restart, stop | MPD runs the last route and mixer and is not restarted for nothing |
| Settings subscriber (`P/lib.rs`) | three watch channels | resolve, subscribe, read, seed, receive | consumers end with the operator's last choice |
| Startup-volume applier (`S/startup_volume.rs`) | its channel, a verify window | wait, `setvol`, verify | the startup volume is applied once |
| Audio routing (`crates/evo-audio-topology`) | the topology and the callbacks | publish, clear, register, write endpoint | every publication calls back |
| Load and unload (`P/lib.rs`) | all handles | load in order; unload under one budget | everything started is stopped |
| Mixer gesture (`playback.options/src/lib.rs`) and its warden (`P/envelope_subscriber.rs`) | settings in memory, file and subject, transition lock, cached stream of acknowledgements | gesture, other setters, reset; pause and acknowledge | the mixer type moves only behind a muted player; memory, file and answer agree |
| Queue shelf (`P/queue.rs`, `P/library.rs`, `P/idle_observer.rs`, `P/gone_curation.rs`, `P/skip_traversal.rs`) | mirror and subject of the queue, the idle connection; the queue itself is MPD's | enqueue, move, remove, clear, replace, load, skip, play; park, restore, rewrite, remove a source; prune; refresh | rows are where they were asked to be, a rename keeps them, the subject follows MPD |
| Network shares (`network.shares/src/runtime.rs`) | rows and their file, state entries, vault and staged credentials | add, edit, remove, mount, unmount; boot sweep, remount pass, poll | answers are kept, removed is unmounted, detached stays off, mounts come back |
| USB volumes (`storage.usb/src/runtime.rs`) | registry, holds, removal banner, aliases | tick, mount, safe-remove, repair, rename | "safe" is true, fsck runs alone, one card per mount |
| Multiroom (`crates/evo-multiroom`) | election table and mirror, peers and their connections | evaluate, dial, register, probe, age, reap | connected players agree on one host |
| Network supervisor and apply pipeline (`network/src/supervisor.rs`, `network/src/lib.rs`) | reachability view and latch, saved intent and passphrase, apply lock | probe, raise, restore; intent, apply, forget, disconnect, flight mode | the player is never left without a way in |
| asound watcher, stored playlists, reconcilers, artwork front end and the other plugins | see `PROJECT.json` | | |

How they interact. Callers (the framework's course-correction and custody
verbs, the asound watcher) put a message and a oneshot on the supervisor's
bounded channel. The supervisor serves channel, idle channel and settings in a
biased `select!` and runs each message to completion over its one command
connection. The idle task and the ambient observer hold connections of their
own. The routing service calls back into the reactor, which feeds the worker
through a watch channel; the worker restarts MPD, which closes the connections
of everybody else. The options subscriber feeds worker, sessions and applier.
The options plugin mutes and unmutes the player through the warden by way of two
subjects. storage.usb asks the library verbs of the playback plugin to park,
restore and rewrite the queue around a rename, and safe-remove goes the other
way. network.shares and storage.usb drive `mount`, `umount` and `fsck` through a
wrapper; the network plugin drives NetworkManager.

What is hard here: replies are paired with requests only by their order on the
socket; a command whose reply is lost is sent again; MPD restarts at any point,
often because of the plugin itself; a `select!` polls its arms in a fixed order;
a `Notify` holds one permit, which whoever waits first consumes; a watch channel
without a receiver drops what is sent; values are read before an `await` and
used after it; a helper that timed out still does its work; a row is cloned
before a mount of half a minute and written back after it; memory is changed and
the save fails. `PROJECT.json` lists the most important of these hazards, each at its line.

## Modules

Time is abstracted to order: a delay is a step that may come late, an attempt
is counted, a timeout is an event. In the first four modules every bound on the
environment is an entry of the constant `Limit`, indexed by the module's
`Events` and spent by `Spend` (`ObserverEvents`, `ObserverSpend`); in PlaybackSupervisor
and FragmentWorker `Limits` is a set of such budgets, and a behaviour keeps to
one of them. The constants are unbounded in the theorems.
The other modules name each kind of fault and event, `Allowed` says which may
happen, `MaxRequests` (`MaxVerbs`) how many requests the operator makes and
`MaxTrouble` how many other events happen in a behaviour.

History variables and fields (marked so where they are declared) record that
something interfered: `missed`, `unset`; `moved`; `mixed`, `crossed`, `raced`;
`promised`, `off`, `excused`, `refused`, `disturbed`; `crossed`, `met`,
`together`, `inplace`; `overlapped`; `steady`, `lit`; `noisy`, `stale`, `base`,
`failed`, `behind`. No guard of the code's actions reads them. They let a property
say exactly which interleavings the code does not handle; each such exception is
under "Known gaps".

### PlaybackSupervisor

One custody session. `pc` is where the supervisor task is: `select` (in the
`select!`), `await` (a request is written, its reply is read), `reconnect`
(in `reconnect_cmd_conn`), `stopped`. `job` is the handler that is running
(`message` for `handle_command`, `handle_query` and `handle_cycle_output`,
`report` for `emit_best_effort_report`, `settings` for
`apply_audio_protocol_settings`) and `plan` the requests it has left, the one in
flight first. A request is written to `pending`, executed by MPD and answered
in `replies`; these are three steps, so a command that times out leaves a reply
behind for the next one, which is what the socket does.

| Actions | Code |
|---|---|
| `SelectShutdown`, `SelectCommand`, `SelectIdleChanged`, `SelectIdleEnded`, `SelectSettings` | the arms of `run_supervisor_loop`, each guarded by the arms before it |
| `ReadReply`, `ReadError`, `ReadTimesOut`, `ReadClosed` | the outcomes of one exchange of `MpdConnection`, and what the handler does next |
| `Reconnects`, `ReconnectFails`, `ReconnectGivesUp` | `reconnect_cmd_conn` and the retry |
| `IdleWakes` ... `IdleSends` | the idle task |
| `Submit`, `Enqueue`, `SendFails` | a caller of `SupervisorHandle` |
| `MpdExecutes` ... `ReleaseCustody` | MPD, its other clients, systemd, the operator and the framework (external) |

The mute flag is plugin-wide and may already be raised when a session starts;
the captured volume belongs to the session. `Notes` keeps the history of every
step: whether the last report failed, and whether MPD's options were last set by
a complete push.

### AmbientObserver

The outer loop (`check`, `open`, `open_idle`, `backoff`), the publish cycle
(`status`, `song`, `publish`) and `run_inner`'s wait (`idle`). Query, execution
and reply are one step; a query that timed out leaves its reply in `late`, read
first by the next query. `permit` is the permit of the shutdown `Notify`.

### FragmentWorker

Routing service, reactor, the two watch channels, the worker's
snapshot-compare-write-restart cycle and the two stops of `unload`. `Abort` is
the end of the unload budget (`P/lib.rs:2623`) or of the process: both tasks end
where they are, also between the write and the restart. `Load` loads the plugin
again over the file and the MPD it finds. A fragment
is the pair of endpoint and mixer it is rendered from, and
`fragment_content_matches` compares those. `disk` is the fragment file and
`running` what MPD was last started with; they differ after a restart that
failed or was cut off. `Renderable` are the endpoint kinds the renderer accepts.

### SettingsChannels

The order of `load`, the subscriber's resolve-subscribe-read-seed-receive, and
the consumers: fragment worker, session and startup-volume applier. The applier
sets the volume (`SetVolume`), polls it through its stability window (`Poll`) and
starts again until its deadline, while MPD restarts under it with the volume of
its state file. What a session does with the settings it is handed is
PlaybackSupervisor's. The module distinguishes `watch::Sender::send`, which stores
nothing when no receiver exists, from `send_replace`. The subject's stream is
bounded and loses its oldest update when it lags. One setting is a record of
mixer, protocol settings and startup volume; a field that is absent or does not
parse is `None`.

### MixerTransition

`handle_set_mixer_type` for each request: lock, `publish_envelope_requested`,
`await_envelope_ack` for its own generation, authority, persist, verify, unmute,
and `rollback_or_fail`. `persist_settings` is three steps for gestures and setters
alike: `Snapshot` of the memory, `WriteStaging` into the one staging file all
handlers share, `Rename` over `state.toml`. Requests and settings are published by spawned tasks, so
`spawned` is a queue whose entries may overtake each other or get lost; the
warden reads `requests` and answers into `inbox`, the stream that is subscribed
once and kept. The setters that touch the mixer run beside it without the lock.
`OverallTimeout` cancels a gesture anywhere, also between the write and the
rename of the settings file, and the file may then be unreadable
(`OverallTimeoutUnread`). `Notes` records setters beside a gesture (`mixed`),
snapshots that crossed (`crossed`) and gestures whose `from` got old while they
waited for the lock (`raced`).

### NetworkShares and ShareLedger

A job is a verb of the operator or one of the three passes (boot sweep, remount
pass, poll of unreachable hosts). `MountBegins` to `Finalise` is the mount pipeline:
clone the row, mark it mounting, probe, stage the credentials, try each dialect
of the ladder, record. `os` is the host's mount table, `entry` the published
state, `rows` and `disk` the configuration in memory and on file, `late` the
mount of a helper whose timeout has passed. `Reconcile` compares the entries
with the mount table. `UmountCutOff` is an umount that missed its deadline.
`Restart` forgets memory and keeps file, vault and mounts.
Each verb runs as a handler of its own, named in the order of `HandlerNames`.

`ShareLedger` is what the plugin promises of its file: a record changes only by
a change the operator asked for that is still open. NetworkShares implements it
under `record <- TargetIn(disk)`, `open <- Unsaved \cup Removing`,
`sent <- asked`; the run checks the abstract specification as `OnlyAsRequested`.

### UsbStorage

One volume. Every verb and the tick start with `refresh_registry`: a probe
without the lock (`read`) and the exchange of the registry under it (`swap`).
The mount, its library card and the registry row are separate steps, as are
umount, card retraction, banner and fsck. `queue` says under which name the
volume's tracks are queued, or that they are parked; what parking and restoring
do to the queue itself is QueueShelf. `HandlerNames` gives each verb of a
behaviour a handler of its own, `Aliases` are what a rename may ask for. Every
exit of a rename is there, those that leave the rows parked too: a park or
restore the library does not answer, a wrapper that cannot be run, an alias that
cannot be saved, a second probe that fails. The history variables `crossed`,
`met` and `together` record the overlaps nothing in the code orders, `inplace` a
rename to the name the volume has; the properties except them by name. A row is
`clean` when the probe found it healthy; `MountedDirty` is never assigned in
`runtime.rs`, so `clean` stands for every mounted row.

### MultiRoom

`Evaluate` (the group is read), `View` (live set and prior election), `Put` and
`Insert` are the steps of an evaluation; its candidates are the members this
node hears. A socket has two ends with states
of their own, so one side may consider a connection alive that the other has
dropped or never completed. The read task is spawned before its entry is made
and removes entries by peer: `RegisterDeaf` is an entry whose read task is over
already, `RegisterLost` an entry removed by the read task of the one it replaced.
Probes, ageing (`Age`), `ReapList` and `Reap` are
the sweeps of the plane; `Cut` leaves connections half open.

### NetworkRecovery

The supervisor's probe with its graces and latch, `try_critical_open_hotspot_recovery`
(`check`, `release`, `raise`), `autonomous_sta_restore`, and `apply_intent` with
each of its exits (`lock` to `rejoin`). One radio, which carries one connection
(`exclusive`) or two; an Ethernet device (`port`) may be missing, in which case a
declared Ethernet counts as an uplink (`NoCarrier`); NetworkManager is the sets of active, known and
self-activating profiles. Recovery raises take no apply lock, as in the code.

### QueueShelf

MPD's queue with song ids, current position and transport, and two threads: the
verb handler and the observer. A handler reads (`ReadItems`, `ReadStatus`,
`ReadSongs`), makes its plan of commands and executes it one command a step,
so that other clients, the player and the other thread act in between. A plan
is a sequence of commands: `PlanDrop`, `PlanRewrite`, `RestorePlan`, `PlanSkip`.
`publish_queue` is four steps (`ReadQueue`, `ReadCurrent`, `Store`,
`UpdateState`). A rename is driven by `rename.stage`, the part of
`storage.usb.rename` that the queue sees, with the exits that lose what was parked
(`Failed`, `DispatchFails`, a lost reply in `End`) and the volume that does
not mount again. `UpdateState` may fail. `Truncation` rows of a long queue are
shown. What MPD does with a command is
external, in `Refuses`, `Accepted` and `Result`.

## Runs

The runs say CHECK_DEADLOCK FALSE because the modelled system may stop: a
released supervisor and an unloaded plugin have nothing left to do, and neither
have idle tasks once the environment has spent its events. In the modules with
periodic tasks the tick that finds nothing to do is a stuttering step.

A property that is a conjunction is listed with its parts, each of which is
stated, with the code it is about, in its module; the mutants listed in
`PROJECT.json` break the parts one by one.

| Run | Distinct states | What it shows |
|---|---|---|
| `supervisor_commands` | 4.7 M | two transport, mute, volume, query and output-cycle commands with a restart, a refusal, a closed connection, a bad banner and a timeout anywhere: `RepliesArePaired`, `OkMeansExecuted`, `UnmuteIsAudible`, `MuteKeepsCapture`, `AnswersHold` (`MuteAnswerHolds`, `OutputReenabled`), `TypeOK` |
| `supervisor_answers` | 239 k | two callers on a channel of capacity one, outage, timeout, release: `NoReplyLost`, `NobodyWaitsForEver` (`EverySenderIsAnswered`, `ShutdownCompletes`) |
| `supervisor_follows` | 773 k | changes of MPD by others beside a command, a query or a `single`, and up to three changes of the settings, with a restart, a refusal and a closed connection: `ReportCatchesUp`, `SettingsConverge` |
| `ambient_follows` | 174 k | changes, two restarts, a close, two late replies, a stop: `ObserverInv` (`TypeOK`, `SourceIsNeverStale`), `CatchesUpUnlessDeaf` |
| `fragment_restarts` | 630 k | two route changes, a mixer change and any one fault, or a second load after an orderly or aborted end of the first: `SkipIsSafe`, `RestartBringsNews`, `WorkerSettles` (`LastRouteIsLoaded`, `UnloadCompletes`), `TypeOK` |
| `settings_flow` | 1.1 M | three operator changes, two sessions, a lagging stream, a failing read; a restart of MPD, a volume gesture and an unanswered request while the applier works: `ChannelsAreCurrent` (`TypeOK`, `MixerIsCurrent`, `ProtocolIsCurrent`), `StartupVolumeLands` |
| `mixer_busy` | 593 k | two requests, with the three steps of their persists interleaved, and any one fault: `SettingsAgree` (`TypeOK`, `IdleAgrees`), `MuteProtects` (`AcksAreReal`, `NoBlast`), `OkMeansApplied`, `EveryGestureEnds` |
| `shares` | 353 k | each verb against the remount pass with any two faults, and against boot sweep and poll with a restart: `PromisesAreKept` (`TypeOK`, `AnswersAreKept`, `RemovedIsUnmounted`, `EditReachesTheMount`, `DetachSticks`), `OnlyAsRequested` (the refinement), `NoStorm`, `EntriesSettle`, `SharesComeBack` |
| `usb_volume` | 634 k | each verb against the tick with any one fault or a pull: `VolumeInv` (`TypeOK`, `SafeMeansOff`, `FsckAlone`, `OneCard`, `QueueKept`), `HostFollows` (`VolumesComeUp`, `YankCleansUp`) |
| `rooms` | 402 k | two players, one fault, one race: `ElectionInv` (`TypeOK`, `TableKept`), `Agreement`, `AloneHosts` |
| `network_recovery` | 566 k | one apply, any two events of cable, coverage, refusals, portal, verbs and restart, both radios, with and without an Ethernet device: `RecoveryInv` (`TypeOK`, `LatchHonest`), `JoinEndsReachable`, `NeverDark`, `StationRestored` |
| `queue` | 1.1 M | each verb, removal, rewrite and rename (of a playing, paused and stopped player) with any one event: `VerbsAreExact` (`TypeOK`, `SelectionLandsInOrder`, `RemovalTakesOnlyItsTree`, `RewriteKeepsTheQueue`, `SkipLandsOnNextPlayable`), `RenameKeepsTheQueue`, `PruneOnlyGone`, `SubjectCatchesUp` |

Bounds. Two callers are enough for one to queue or block behind the other, and
a capacity of one for both channels to be full; two reconnect attempts (in
`supervisor_answers`) reach failure, success after failure and exhaustion. Two
commands are needed for mute and repeated mute or unmute, and for an exchange to
be disturbed by an earlier one. Three changes of the settings let the second and
the third arrive while the push of an earlier one is under way. Two songs and no song, and two or three volumes
with 0 among them, distinguish every branch (`supervisor_follows` does with one
song). Two renderable endpoints, a third that is not, and two mixers give routes
that differ in one part, in both and in none; two route changes let one arrive
during the cycle of the other. One fault per behaviour is enough for the
fragment run because its two action properties are proved for any number. A
stream of two entries and three changes lags; two polls and two attempts of the
applier reach a volume that moves before, between and after polls, and the
deadline.

Two mixer requests are the fewest for which one waits on the lock of the other
and for an acknowledgement to come too late for its own gesture. One share
suffices because rows are independent but for the common save, which ShareLedger
allows; a verb, a pass and two faults let a job clone the row before, and finish
after, what another one did. A CIFS and an NFS target with different hosts, one
of them with a password, and a ladder whose first dialect the server does not
speak reach each outcome of a mount. One volume with two names and a bound on
cards that is never reached; one verb with the tick and one trouble, the pull
among them, since the verbs of one
volume that overlap each other are excepted by the properties. Two players are
the fewest that can disagree, two sockets the fewest for both to dial. Ticks of
1, 2 and 1 keep the order of the three graces. Three queued rows with the volume
first and last and the player on either of them, after them, paused or stopped make
every position arithmetic of queue verbs matter; selections of two rows show
their order.

Fairness. The runtime polls a task that can go on: weak fairness of the
supervisor's steps (not of its timeouts), the idle task, the ambient observer,
reactor, worker, subscriber, `load`, and of callers that wait for channel space.
A running MPD executes or refuses what it was sent. Systemd starts MPD
again (`MpdStarts`), and the options plugin announces its subject.
`shutdown_requested` picks one of two ready arms at random, which is stated as
strong fairness of the exit. In the other modules:

* `mixer_busy`: handlers, the warden and the delivery of the oldest publish are
  weakly fair, every wait of a handler having a timeout of its own.
* `shares`, `usb_volume`: every job goes on (helpers run under a timeout) and
  the periodic passes start again.
* `rooms`: the timer of the election, the sweeps and the probes of the plane
  come round; each is an interval task. `Age` is weakly fair and waits for
  evaluations that have read the live set, handshakes and reaping, all of which
  take much less than the window.
* `network_recovery`: the supervisor's interval and the tasks in flight.
* `queue`: both threads, the observer's reconnect loop, and MPD's updates, which
  end.

Nothing is assumed of operators, other clients, refusals, faults and timeouts.

## Known gaps

What the models show the code does, and the properties therefore except or do
not claim. The hazards of `PROJECT.json` name the lines of those that matter
most.

Playback supervisor, observer and worker:

* **Late replies.** A timeout keeps the connection. The retry of a command
  replaces it, but a report that timed out returns to the `select!`, and the
  next command reads the report's reply and may answer `Ok` with it. Without
  timeouts an `Ok` is the truth across losses and retries (`OkMeansExecuted`).
* **Starved settings.** After `Exhausted` the closed idle channel is ready at
  every poll of the biased `select!`, so the settings arm behind it is never
  polled. A push is made when a session starts and when the settings change, and
  never repeated: a request of it that fails, a restart of MPD after it, or a
  caller's `single` leaves MPD with other options (`unset`, which
  `SettingsConverge` excepts).
* **Stop of the observer.** `run_inner` consumes the one permit of the `Notify`
  and returns into the loop that looks for it; `stop` then waits for ever.
* **Failed restart.** The dedupe compares with the file, not with what MPD
  loaded: a fragment whose restart failed, or was cut off when the unload budget
  ran out, is taken for loaded. `SkipIsSafe` is claimed without these, and proved.
* **Dropped seed.** `watch::Sender::send` stores nothing without a session. The
  same call loses the configured `mixer_type` (`P/lib.rs:843`) and a startup volume
  read before the applier subscribed (`P/lib.rs:1094`, `:1125`, `:2404`): the applier
  is never handed it. `StartupVolumeLands` speaks of a volume the applier took; it
  excepts an applier whose deadline passed and a volume that moved after its last
  poll.
* `CatchesUpUnlessDeaf` excepts a command connection that died alone: a failed
  query does not reopen it, so MPD's `connection_timeout` silences the observer.
* `ReportCatchesUp` excepts that the last report failed (`missed`): the wake-up
  after an outage (`S/actor.rs:1381`) is served over the connection the outage
  closed, a report does not reopen it, and a query or command that does is not
  followed by a report. Every change whose report could be made is shown.
* `LastRouteIsLoaded` excepts a route published between the reactor's first
  fetch and the registration of its callback.

Mixer gesture:

* A gesture that fails after its mute rolls the settings back and never unmutes
  (`RolledBack` in `transition.rs:57` says "the chain is back at the prior valid
  state"). The unmute itself resumes a player the operator had paused before.
* The other setters take no lock: one that runs inside a transition may be lost
  by the rollback. A plain setter whose save fails leaves memory ahead.
* All persists share one staging file: the snapshot written last may be the older
  one, a rename may publish another handler's snapshot, and the second rename then
  finds no file and fails (`crossed`).
* A gesture reads `from` before it takes the lock. If the gesture it waited for
  changed the mixer, one that has "nothing to do" answers ok with another mixer
  in force (`raced`).
* A cancelled write that lands later than the write of the next persist is left
  out, and so is the last-known-good sidecar.
* A closed stream of acknowledgements is kept and a failed subscribe ends the
  warden; every later gesture then ends in its timeout.

Shares:

* The boot sweep mounts from its snapshot without looking at the operator's
  detach; `DetachSticks` claims a disconnect after the sweep.
* A mount of the very share that is in flight during a removal, an edit or a
  disconnect, or a late helper (one that timed out is not killed), may leave its
  mount behind (`excused`, `disturbed`), and so may a pass that had selected the
  share before the disconnect was stamped. Passes that start, reconcile or work on
  other shares meanwhile are not excepted.
* An unmount that failed or was cut off leaves an edited share mounted as before;
  one that lands after its deadline is `MountVanishes`.
* A missing credential is recorded as permanent, and stocking it does not clear
  the class.

USB:

* A probe read before a removal, a repair or a yank and swapped in after it
  undoes what they recorded, and a mount selected before them goes on (`met`).
  A volume that was not mounted when its repair began has no row that keeps the
  tick off, and may be mounted under fsck; `FsckAlone` speaks of the others.
  Two verbs of one volume may overlap (`crossed`), and so may a reconcile and a
  repair or rename (`together`).
* The detach of a volume that the registry does not know is best effort: when it
  fails, "safe to remove" is announced all the same (`met`).
* A verb that takes off a volume whose card the plugin has not learnt leaves the
  card (`together`).
* Renaming a volume to the id it has is not the "no-op success" of
  `storage.usb/src/runtime.rs:1261`: the volume is unmounted, its card dropped, and
  the refresh keeps the row that says mounted, so no reconcile mounts it again
  and `storage.usb.mount` takes it for mounted. So it is after a save or wrapper
  that failed when the volume had been taken off. `VolumesComeUp` excepts these by
  name (`inplace`, `save`, `wrapper`), and the overlaps.
* A rename loses the parked rows when the park or the restore is not answered
  (`storage.usb/src/runtime.rs:1694`, `:1736`), the wrapper cannot be run (`:1400`,
  `:1409` return by `?`), the alias is not saved or the second probe fails.
  `QueueKept` names these exits; QueueShelf shows that no other row is lost.
* Nothing retries the detach of a pulled volume or the drop of its card. A
  volume pulled between the wrapper's mount and the registry's record of it
  leaves its dead mount to nobody.

Multiroom:

* Timer and happening bus may evaluate at once; table and mirror of that node
  may then differ. A runtime whose first evaluation fails stays off.
* An entry made after its read task had ended hears nobody and counts as alive
  until it is reaped. The deletion of the group, and the deletion of its election
  from the mirror, are not modelled.

Network:

* The latch of the recovery is released by a serviceable probe only. When the
  access point it stands for goes down some other way (an operator's apply whose
  join fails, a disconnect, a refusal of the restore, flight mode switched on
  and off), the player is stranded: `Stranded`, which `NeverDark` excepts.
* A declared Ethernet without an Ethernet device counts as an uplink for ever
  (`network/src/lib.rs:6329`): the supervisor raises nothing, and an apply gives the
  hotspot up for a station that may then refuse. `NeverDark` and
  `JoinEndsReachable` are claimed where a declared Ethernet has a device.
* With an intent that declares no Ethernet (Wi-Fi only) on an exclusive radio,
  the tail of an apply takes the raised hotspot down again and joins the station
  once more; if that fails nothing is up until the supervisor acts.
  `JoinEndsReachable` excepts that last join.
* A recovery raise takes no apply lock and works on the radio beside an apply;
  `forget` and a concurrent `intent.set` may lose an update.
* On an exclusive radio without cable the recovery access point keeps the
  station from being seen again; the code accepts it.

Queue:

* An event of MPD is spent when the refresh cannot connect or read or when its
  `update_state` fails (`P/queue.rs:216`), a reconnect publishes nothing, and an
  envelope read earlier may be stored later; the subject is then old until MPD's
  next event (`behind`).
* A rename that breaks off after its park loses the rows of the volume
  (`rename.failed`); `RenameKeepsTheQueue` then claims the other rows, their order
  and the transport.
* The database changes per tree, so a rewrite or a restore of which MPD refuses
  only some rows (`P/queue.rs:2109`) does not happen in the model.
* `load_playlist_to_queue` clears the queue before it resolves the entries;
  `P/queue.rs:2248` says "the queue starts intact and stays intact".
* `park` drops by a second read: a row enqueued in between is dropped without
  being parked; a park that fails half way counts as an empty one; an update
  that outlives its deadline makes `addid` refuse each parked row for good.
* A prune that read the song database before a remount deletes the rows
  restored since, if it read the queue after them.

Comments that the code no longer matches: `P/mute_cell.rs:33`
"Only `set_mute` writes this" (a volume above 0 lowers the flag too);
`S/actor.rs:349` "Sessions start unmuted" (the flag outlives a session);
`P/asound_watcher.rs:188` "will retry on next change" (line 136 takes the
snapshot for handled).

## Theorems

Twenty-two theorems, for any values of the constants under the `ASSUME`s of the
modules: any number of callers, messages, songs, volumes, endpoints, mixers,
shares, dialects, names, players, sockets, requests, verbs and tasks, any
capacities and graces, any number of environment events. Each invariant named below was first checked by
TLC, as an invariant of the instances of the runs or smaller ones.

The proofs of the modules with many actions go in two stages. The lemmas of the
first say what each action may do to one part of the state (`Goes`, `Effects`,
`Asks`, `Outside`, `Reloads` in NetworkSharesProofs, the `...Effect` lemmas of
UsbStorageProofs); the second stage shows that the invariants survive such
steps, without opening an action again.

`PlaybackSupervisorProofs`:

* `TypeCorrect`: `Spec => []TypeOK`. `TypeOK` alone is not inductive. A reply is
  matched against the head of `plan`, answered to `job.caller` and retried from
  `job.msg`, so the induction needs `JobInv`: a request is awaited only while a
  job is in progress and its plan is not empty, only a message reconnects, and
  a message has a caller. `TypeInv` is both. The proof has a lemma per operator
  (`DispatchType` and the other plans, `Effects`, replies) and a step per action.
* `UnmutesAudibly`: `Spec => []UnmuteIsAudible`, and `MutesOnce`:
  `Spec => MuteKeepsCapture`. The capture happens when the reply to a `status`
  arrives, a step later than the decision to ask for one, so the second needs
  `CaptureInv`: while a `status` of a `SetMute(true)` is in flight the flag is
  down. It survives retries because a retry is planned from the flag again.

In the same module, on top of it (the invariant `AnswerInv`):

* `RepliesAreKept`: `Spec => []NoReplyLost`. `QueueInv` restates it over the
  positions of the channel and adds that nobody is served between jobs, so that
  taking the next message strands no one.
* `RepliesStayPaired`: `Spec => []RepliesArePaired`. Inductive together with
  `ClosedIsEmpty` (a closed connection holds no requests): each step that writes
  finds the connection empty, and each read empties it.
* `OkIsExecuted`: `Spec => []OkMeansExecuted`. Whether a request was refused is
  decided by MPD and known to the caller two steps later. `RefusalInv` bridges
  them: while a refused caller is served its ACK is the reply to be read, or is
  lost with the connection; `PlanInv` says that the job's requests carry its
  caller, `ResultInv` that a waiting caller has no result, `QueueInv` that the
  served caller waits. A retry clears the refusal because it starts anew.
* `AnswersCanBeRelied`: `Spec => AnswersHold`. What the mixer is set to, and
  which output is off, is MPD's; the answer is the supervisor's. `HoldInv` ties
  them: a served caller is served its own message (`MessageInv`), the plan of a
  message is a suffix of the one it was given (`ShapeInv`), an executed `setvol`
  shows until its reply is read (`EffectInv`), and an output that is off belongs
  to the cycle in progress or to one answered with an error (`OutputInv`).

`FragmentWorkerProofs`:

* `TypeCorrect`: `Spec => []TypeOK`, inductive as it stands.
* `SkipsAreSafe`: `Spec => SkipIsSafe`. The invariant is `DiskIsRunning`: unless
  a restart failed or was cut off, MPD runs the file except between write and
  restart, across any number of loads.
* `RestartsBringNews`: `Spec => RestartBringsNews`, from `WritesNews`: what is
  about to be written differs from the file, and after the write from what MPD
  runs. `NotSpawned` orders the start of the tasks.

`PlaybackTasksProofs`, about SettingsChannels and AmbientObserver, whose names
differ so that one module can extend both:

* `ChannelsCorrect`: `Spec => []ChannelsAreCurrent`. The value read may be old,
  the stream may have lost updates. `StreamEndsAtState` says that what is queued
  ends with the state of the subject, `SeedIsCurrent` that a value to be seeded
  is stale only when a newer one is queued, `WorkerFirst` that the mixer channel
  has its receiver before anybody sends. The assumption `DefaultAssumption`: the
  mixer default of `P/lib.rs:689` is a mixer.
* `ObserverCorrect`: `ObserverSpec => []ObserverInv`. The probe cache is one step ahead
  of the subject between the probe and the publication (`CacheFollowsSubject`),
  and what the probe found is of the file it was last asked about, or nothing
  (`SourceIsProbed`).

`MixerTransitionProofs`:

* `SettingsStayTogether`: `Spec => []SettingsAgree`. `LockInv` lets one gesture
  at a time past its lock, `StageInv` and `NoteInv` tie the persists in progress to
  the history. `SnapInv`: unless snapshots crossed, a snapshot is of the memory and
  the staging file is that of the handler about to rename it. `DiskInv` says that
  what a rollback would put back is what the file holds, and `PublishInv` that the
  last update under way, or the subject if none is, is the file's.
* `OkIsApplied`: `Spec => OkMeansApplied`, from `TargetInv`: the target is in
  memory once stored, in the snapshot and the staging file once taken and
  written, and in the file once saved; and from `NoteInv`: a gesture not in
  `raced` that still waits has read the mixer type that is in force, so that one
  with nothing to do answers ok truly.
* `MuteIsKept`: `Spec => MuteProtects`. A gesture goes past an acknowledgement
  of its own generation; `AckInv` says that what is acknowledged was handled,
  `WantInv` that the generation waited for is the last one made, and `OrderInv`
  that the warden sees requests in order unless publishes overtook each other,
  so that no older unmute is carried out behind a newer mute.

`NetworkRecoveryProofs`:

* `RecoveryCorrect`: `Spec => []RecoveryInv`. `TaskInv` says what each task has
  in hand at each point, in particular that a task holds the lock exactly between
  taking and dropping it.
* `JoinLeavesAWayIn`: `Spec => JoinEndsReachable`. `SteadyInv`: an apply that
  nobody disturbed finds the hotspot it raised still up, and gives the radio back
  to the station only where there is another way in, with the two exceptions
  of `JoinEndsReachable` (see "Known gaps").

`NetworkSharesProofs` (the invariant `IInv`; the theorems hold for any number of
verbs at once beside any crew of passes, the run has one verb and one crew):

* `PromisesKept`: `Spec => []PromisesAreKept`. A job works for many steps on a
  clone of its row, so the invariant speaks of every job on its way to a mount
  and of every late helper. `AnswersAreKept` is inductive with the types, because
  no job writes a target. `RemovedInv`: a share removed undisturbed has no mount,
  no late helper and no job about to mount it; it needs `VerbInv` (the mount an
  undisturbed verb took down stays down until the verb is over) and `Undisturbed`
  (nobody else has the share in hand). `EditedInv`: what is mounted, or will be
  by a job or a helper, is what was promised, or is about to be cycled.
  `DetachedInv`: a detached share has no entry that a pass would select and no
  job but a reconciliation that finds nothing to do. `UsedInv`: a share that was
  never added has no row, password or job.
* `FileImplementsLedger`: `Spec => OnlyAsRequested`, the refinement of
  ShareLedger. The step of a job, the world and a restart are `Settle` (a save
  makes durable what was open, a removal was open since it was asked for), a verb
  is `Request`.
* `NoPasswordStorm`: `Spec => NoStorm`, from `StormInv`: a refused password is
  deleted or about to be, and every job that still has it in hand is known.

`MultiRoomProofs`:

* `ElectionCorrect`: `Spec => []ElectionInv`. The table is written before the
  mirror, so the two differ between `Put` and `Insert`; `InStep` says what the
  evaluation in progress still has to write, and that a node whose evaluations
  do not overlap has one at a time. That a peer has one entry is `OneEntry`: the
  second of two crossing dials closes the end it replaces, and `NoneShut` says
  that a socket both ends have closed is forgotten. Sockets are taken by their
  least number, which exists because `<` on the naturals is well founded.

`UsbStorageProofs` (the invariant `IInv`: `TypeOK`, `Shaped`, `QuietInv`,
`QueueInv` and `CardsInv`):

* `VolumeCorrect`: `Spec => []VolumeInv`. A verb looks a row up and relies on it
  many steps later, with ticks in between.
  `Shaped` fits the fields of a job to its phase. `QuietInv` says what keeps
  holding while the tick runs: a removal or repair of a mounted row leaves the
  row, and a row that says mounted is no candidate of any reconcile (`TakeOffAt`);
  a removal of an unmounted one is `Exposed` until its hold is set, and the hold
  outlives every probe that is not stale (`RemoveAt`, `SafeInv`). `SafeMeansOff` and
  `FsckAlone` follow. `QueueInv`: parked tracks belong to a rename that finds its
  volume again (`ParkAt`). `CardsInv`: as long as nothing overlapped, rows, mounts,
  cards and the phases of the jobs determine each other (`RowFits`, `CardsFit`,
  `MountFits`, `AdoptFits`, `RemoveFits`, `VerbFits`), and of a volume that was never
  there nothing is known (`NoVolume`). Each conjunct has a lemma per action.

The proof of `VolumeCorrect` found what the run could not: with two or more verbs
`OneCard`, `SafeMeansOff` and `QueueKept` needed exceptions that one verb at a time
does not reach, and `History` records them now.

The prover shaped the modules in a few places, without a change to what they
say: `HandlerNames` is a constant of NetworkShares and UsbStorage, so that the
theorems speak of any number of verbs; `RestOfLadder` is written with `SubSeq`; `NoBlast` lost a
conjunct that its proof did not need.

Only model-checked:

* every liveness property, and what is stated with ENABLED or fairness, which the
  prover does not handle (`NobodyWaitsForEver`, `ReportCatchesUp`,
  `SettingsConverge`, `CatchesUpUnlessDeaf`, `WorkerSettles`, `StartupVolumeLands`,
  `EveryGestureEnds`, `EntriesSettle`, `SharesComeBack`, `HostFollows`,
  `Agreement`, `AloneHosts`, `NeverDark`, `StationRestored`, `SubjectCatchesUp`);
* `VerbsAreExact`, `RenameKeepsTheQueue` and `PruneOnlyGone` of QueueShelf. What the
  verbs do is planned by `SelectSeq` over the queue's rows, so each of them needs
  what that recursion returns for every queue, and the provers cannot use the
  induction theorems that would give it. (An argument over natural numbers can
  be had from a least counterexample, `WFMin` with `NatLessThanWellFounded`, as in
  MultiRoomProofs and UsbStorageProofs; a recursive function cannot be shown to
  exist that way.)

None of the modules declares a RECURSIVE operator.

## What is not modelled

Parsing, formatting and report layout; delays and the idle wait's own time
budget; the strategies
of the MPD restart (one call that succeeds or fails). Of the modelled plugins:
discovery and the published subjects of network.shares; partition probing of
storage.usb; audio frames, clock synchronisation and the manual verbs of
multiroom; scans, portal login and addressing of the network plugin; metadata,
tags and stored playlists of the queue shelf. The remaining parts of the
repository are listed in `PROJECT.json` with the reason: request handlers that
translate to queries, HTTP clients, drivers of system tools, signal processing,
catalogues, scripts.

## Plan

Done, in this order: PlaybackSupervisor and its proofs (everything a user does
passes through it), AmbientObserver, FragmentWorker and its proofs,
SettingsChannels, MixerTransition, NetworkShares with ShareLedger, UsbStorage,
MultiRoom, NetworkRecovery, QueueShelf; then the proofs about all
of these but QueueShelf.

1. In QueueShelf the parts that need no induction over rows.
2. Stored playlists and favourites beside the queue, with the same prune and
   rewrite; the sticker reconciler.
3. The SMB server, which has the shape of NetworkShares, and the artwork
   coalescer with its negative cache.
4. Supervisor and observer as two publishers of one subject.
