--------------------------- MODULE SettingsChannels ---------------------------
(***************************************************************************)
(* How the operator's audio options reach their consumers inside the MPD   *)
(* playback plugin (lib.rs): `load` seeds the mixer channel from the       *)
(* plugin's configuration, spawns the fragment worker, the options         *)
(* subscriber and the startup-volume applier, in this order; custody       *)
(* sessions come and go.  The subscriber feeds three tokio watch channels. *)
(*                                                                         *)
(* Two operations of a watch sender matter: `send` fails, and stores       *)
(* nothing, when no receiver exists; `send_replace` always stores.         *)
(*                                                                         *)
(* The applier (startup_volume.rs) sets the first startup volume it is     *)
(* handed and then watches MPD for a while: the fragment worker restarts   *)
(* MPD for a new mixer, and MPD then loads the volume of its state file.   *)
(* What a session does with the protocol settings is PlaybackSupervisor's. *)
(***************************************************************************)
EXTENDS Naturals, Sequences

CONSTANTS
  Settings,          \* states of audio.options.settings, as parsed: a mixer
                     \* configuration, protocol settings, a startup volume
  None,              \* a field that is absent or does not parse
  ConfigMixer,       \* mixer_type of the plugin's own configuration
  DefaultMixer, DefaultProtocol,  \* what the channels are created with
  Restored,          \* volumes MPD may come back with: of its state file, or
                     \* None (volume -1) when its mixer is disabled
  Capacity,          \* of the subject's state stream
  Polls,             \* at most, in one STABILITY_WINDOW
  Attempts,          \* at most, before APPLY_DEADLINE
  Limit              \* how often each environment event may happen

\* Operator changes, custodies taken, the calls to the subject service that
\* fail (the subject does not resolve, current_state fails), restarts of MPD
\* for another route, volume gestures, and requests of the applier that MPD
\* does not answer.
Events == {"change", "custody", "unresolved", "read_error", "restart",
           "gesture", "unreachable"}

Mixers == {s.mixer : s \in Settings} \cup {ConfigMixer, DefaultMixer}
Protocols == {s.protocol : s \in Settings} \cup {DefaultProtocol}
Startups == {s.startup : s \in Settings} \cup {None}
MixerVolumes == Startups \cup Restored

ASSUME SettingsAssumption == Capacity \in Nat \ {0} /\ Settings # {}
ASSUME ApplierAssumption == Polls \in Nat \ {0} /\ Attempts \in Nat \ {0}
\* The mixer channel is created with MixerConfig::Software.
ASSUME DefaultAssumption == DefaultMixer # None
ASSUME LimitAssumption == Limit \in [Events -> Nat]

VARIABLES
  state, announced, stream, streaming,   \* the options subject
  load_pc,                               \* how far `load` is
  mixer, mixer_rx, worker_mixer,         \* channel, receiver, worker's value
  protocol, session,                     \* channel, receiver
  startup, startup_new,                  \* channel, a value not yet seen
  applier, chosen, polls, attempt,       \* the applier, the volume it sets
  volume,                                \* of MPD
  moved,                                 \* history: since the applier last set
                                         \* or read the volume
  sub_pc, read, updated,                 \* the options subscriber
  count

subjectVars == <<state, announced, stream, streaming>>
mixerVars == <<mixer, mixer_rx, worker_mixer>>
protocolVars == <<protocol, session>>
applierVars == <<applier, chosen, polls, attempt>>
startupVars == <<startup, startup_new, applierVars, volume, moved>>
vars == <<subjectVars, load_pc, mixerVars, protocolVars, startupVars, sub_pc,
          read, updated, count>>

Spend(e) == count[e] < Limit[e] /\ count' = [count EXCEPT ![e] = @ + 1]

(***************************************************************************)
(* The options plugin and its subject.  A full stream loses its oldest     *)
(* update (Lagged) and goes on at the live frame.                          *)
(***************************************************************************)
Announce ==
  /\ ~announced /\ announced' = TRUE
  /\ UNCHANGED <<state, stream, streaming, load_pc, mixerVars, protocolVars,
                 startupVars, sub_pc, read, updated, count>>

OperatorChanges ==
  /\ announced /\ Spend("change")
  /\ state' \in Settings \ {state}
  /\ stream' = IF ~streaming THEN <<>>
               ELSE Append(IF Len(stream) = Capacity THEN Tail(stream)
                           ELSE stream, state')
  /\ UNCHANGED <<announced, streaming, load_pc, mixerVars, protocolVars,
                 startupVars, sub_pc, read, updated>>

(***************************************************************************)
(* The channels.                                                           *)
(***************************************************************************)
\* Mutant: a mixer type that does not parse is sent as well.
SendMixerUnparsed(v) == mixer' = IF mixer_rx THEN v ELSE mixer

SendMixer(v) == mixer' = IF mixer_rx /\ v # None THEN v ELSE mixer

\* `send` for the seed, `send_replace` for updates; also the mutant of the latter.
SendProtocol(v) == protocol' = IF session THEN v ELSE protocol
ReplaceProtocol(v) == protocol' = v

SendStartup(v) ==
  IF v # None /\ applier = "waiting"
  THEN startup' = v /\ startup_new' = TRUE
  ELSE UNCHANGED <<startup, startup_new>>
ReplaceStartup(v) ==
  IF v # None THEN startup' = v /\ startup_new' = (applier = "waiting")
  ELSE UNCHANGED <<startup, startup_new>>

(***************************************************************************)
(* load.                                                                   *)
(***************************************************************************)
\* apply_config_table sends the configured mixer.
ApplyConfig ==
  /\ load_pc = "config" /\ load_pc' = "worker"
  /\ SendMixer(ConfigMixer)
  /\ UNCHANGED <<subjectVars, mixer_rx, worker_mixer, protocolVars,
                 startupVars, sub_pc, read, updated, count>>

\* spawn_fragment_worker subscribes; the worker renders the value it finds.
SpawnWorker ==
  /\ load_pc = "worker" /\ load_pc' = "subscriber"
  /\ mixer_rx' = TRUE /\ worker_mixer' = mixer
  /\ UNCHANGED <<subjectVars, mixer, protocolVars, startupVars, sub_pc, read,
                 updated, count>>

SpawnSubscriber ==
  /\ load_pc = "subscriber" /\ load_pc' = "applier"
  /\ sub_pc' = "resolve"
  /\ UNCHANGED <<subjectVars, mixerVars, protocolVars, startupVars, read,
                 updated, count>>

\* subscribe marks the value it finds as seen.
SpawnApplier ==
  /\ load_pc = "applier" /\ load_pc' = "loaded"
  /\ applier' = "waiting"
  /\ UNCHANGED <<subjectVars, mixerVars, protocolVars, startup, startup_new,
                 chosen, polls, attempt, volume, moved, sub_pc, read, updated,
                 count>>

(***************************************************************************)
(* spawn_options_settings_subscriber.                                      *)
(***************************************************************************)
\* resolve_options_addressing_with_backoff gives up after MAX_ATTEMPTS.
Resolve ==
  /\ sub_pc = "resolve"
  /\ \/ announced /\ sub_pc' = "subscribe" /\ UNCHANGED count
     \/ ~announced /\ sub_pc' = "gone" /\ Spend("unresolved")
  /\ UNCHANGED <<subjectVars, load_pc, mixerVars, protocolVars, startupVars,
                 read, updated>>

Subscribe ==
  /\ sub_pc = "subscribe" /\ sub_pc' = "read"
  /\ streaming' = TRUE
  /\ UNCHANGED <<state, announced, stream, load_pc, mixerVars, protocolVars,
                 startupVars, read, updated, count>>

ReadState ==
  /\ sub_pc = "read"
  /\ \/ read' = state /\ sub_pc' = "seed" /\ UNCHANGED count
     \/ sub_pc' = "loop" /\ Spend("read_error") /\ UNCHANGED read
  /\ UNCHANGED <<subjectVars, load_pc, mixerVars, protocolVars, startupVars,
                 updated>>

\* Mutant: what came in while the state was read is thrown away.
SeedAndDrain ==
  /\ sub_pc = "seed" /\ sub_pc' = "loop"
  /\ SendMixer(read.mixer) /\ SendProtocol(read.protocol)
  /\ SendStartup(read.startup)
  /\ stream' = <<>>
  /\ UNCHANGED <<state, announced, streaming, load_pc, mixer_rx, worker_mixer,
                 session, applierVars, volume, moved, read, updated, count>>

Seed ==
  /\ sub_pc = "seed" /\ sub_pc' = "loop"
  /\ SendMixer(read.mixer) /\ SendProtocol(read.protocol)
  /\ SendStartup(read.startup)
  /\ UNCHANGED <<subjectVars, load_pc, mixer_rx, worker_mixer, session,
                 applierVars, volume, moved, read, updated, count>>

Receive ==
  /\ sub_pc = "loop" /\ stream # <<>>
  /\ stream' = Tail(stream)
  /\ SendMixer(Head(stream).mixer) /\ ReplaceProtocol(Head(stream).protocol)
  /\ ReplaceStartup(Head(stream).startup)
  /\ updated' = TRUE
  /\ UNCHANGED <<state, announced, streaming, load_pc, mixer_rx, worker_mixer,
                 session, applierVars, volume, moved, sub_pc, read, count>>

(***************************************************************************)
(* The consumers: the fragment worker and a custody session.               *)
(***************************************************************************)
VolumeMoves(v) == volume' = v /\ moved' = (moved \/ v # volume)

\* The worker restarts MPD for another mixer.
WorkerRenders ==
  /\ mixer_rx /\ worker_mixer # mixer
  /\ worker_mixer' = mixer
  /\ \E v \in Restored \cup {volume} : VolumeMoves(v)
  /\ UNCHANGED <<subjectVars, load_pc, mixer, mixer_rx, protocolVars, startup,
                 startup_new, applierVars, sub_pc, read, updated, count>>

\* take_custody subscribes and applies the value it finds.
TakeCustody ==
  /\ load_pc = "loaded" /\ ~session /\ Spend("custody")
  /\ session' = TRUE
  /\ UNCHANGED <<subjectVars, load_pc, mixerVars, protocol, startupVars,
                 sub_pc, read, updated>>

ReleaseCustody ==
  /\ session /\ session' = FALSE
  /\ UNCHANGED <<subjectVars, load_pc, mixerVars, protocol, startupVars,
                 sub_pc, read, updated, count>>

(***************************************************************************)
(* The startup-volume applier, MPD and its other clients.                  *)
(***************************************************************************)
\* The applier takes the first startup volume it sees, once.
TakeStartup ==
  /\ applier = "waiting" /\ startup_new
  /\ chosen' = startup /\ startup_new' = FALSE
  /\ applier' = "apply" /\ attempt' = 1
  /\ UNCHANGED <<subjectVars, load_pc, mixerVars, protocolVars, startup, polls,
                 volume, moved, sub_pc, read, updated, count>>

\* A cycle that failed is repeated after a pause, until the deadline has
\* passed: with the Attempts-th cycle at the latest.
CycleFails ==
  /\ \/ applier' = "gave_up" /\ UNCHANGED attempt
     \/ attempt < Attempts /\ applier' = "apply" /\ attempt' = attempt + 1
  /\ UNCHANGED <<chosen, polls>>

\* A disabled mixer refuses the volume.
SetVolume ==
  /\ applier = "apply"
  /\ \/ /\ volume # None
        /\ volume' = chosen /\ moved' = FALSE
        /\ applier' = "verify" /\ polls' = 0
        /\ UNCHANGED <<chosen, attempt, count>>
     \/ /\ volume = None \/ Spend("unreachable")
        /\ volume = None => UNCHANGED count
        /\ CycleFails /\ UNCHANGED <<volume, moved>>
  /\ UNCHANGED <<subjectVars, load_pc, mixerVars, protocolVars, startup,
                 startup_new, sub_pc, read, updated>>

\* Mutant: only a poll that cannot be made ends the cycle.
PollForAnAnswer ==
  /\ applier = "verify" /\ moved' = FALSE
  /\ \/ polls' = polls + 1 /\ polls' < Polls /\ UNCHANGED applier
     \/ applier' = "done" /\ UNCHANGED polls
  /\ UNCHANGED <<subjectVars, load_pc, mixerVars, protocolVars, startup,
                 startup_new, chosen, attempt, volume, sub_pc, read, updated,
                 count>>

\* One poll of the stability window; the window ends after one of them.
Poll ==
  /\ applier = "verify"
  /\ \/ /\ volume = chosen /\ moved' = FALSE
        /\ \/ polls' = polls + 1 /\ polls' < Polls /\ UNCHANGED applier
           \/ applier' = "done" /\ UNCHANGED polls
        /\ UNCHANGED <<chosen, attempt, count>>
     \/ volume # chosen /\ CycleFails /\ UNCHANGED <<moved, count>>
     \/ Spend("unreachable") /\ CycleFails /\ UNCHANGED moved
  /\ UNCHANGED <<subjectVars, load_pc, mixerVars, protocolVars, startup,
                 startup_new, volume, sub_pc, read, updated>>

MpdRestarts ==
  /\ Spend("restart")
  /\ \E v \in Restored : VolumeMoves(v)
  /\ UNCHANGED <<subjectVars, load_pc, mixerVars, protocolVars, startup,
                 startup_new, applierVars, sub_pc, read, updated>>

Gesture ==
  /\ volume # None /\ Spend("gesture")
  /\ \E v \in MixerVolumes \ {None} : VolumeMoves(v)
  /\ UNCHANGED <<subjectVars, load_pc, mixerVars, protocolVars, startup,
                 startup_new, applierVars, sub_pc, read, updated>>

Applier == TakeStartup \/ SetVolume \/ Poll
Load == ApplyConfig \/ SpawnWorker \/ SpawnSubscriber \/ SpawnApplier
Subscriber == Resolve \/ Subscribe \/ ReadState \/ Seed \/ Receive

Init ==
  /\ state \in Settings /\ announced \in BOOLEAN
  /\ stream = <<>> /\ streaming = FALSE
  /\ load_pc = "config"
  /\ mixer = DefaultMixer /\ mixer_rx = FALSE /\ worker_mixer = DefaultMixer
  /\ protocol = DefaultProtocol /\ session = FALSE
  /\ startup = None /\ startup_new = FALSE /\ applier = "none"
  /\ chosen = None /\ polls = 0 /\ attempt = 0
  /\ volume \in Restored /\ moved = FALSE
  /\ sub_pc = "unspawned" /\ read = state /\ updated = FALSE
  /\ count = [e \in Events |-> 0]

Next ==
  \/ Announce \/ OperatorChanges \/ Load \/ Subscriber
  \/ WorkerRenders \/ TakeCustody \/ ReleaseCustody
  \/ Applier \/ MpdRestarts \/ Gesture

Spec == Init /\ [][Next]_vars

\* Every task of the plugin is polled when it can go on, and the options
\* plugin announces its subject.
FairSpec ==
  /\ Spec /\ WF_vars(Announce) /\ WF_vars(Load) /\ WF_vars(Subscriber)
  /\ WF_vars(WorkerRenders) /\ WF_vars(Applier)

(***************************************************************************)
(* Properties                                                              *)
(***************************************************************************)
\* Types; the stream never holds more than it can.
TypeOK ==
  /\ state \in Settings /\ announced \in BOOLEAN
  /\ stream \in Seq(Settings) /\ Len(stream) <= Capacity
  /\ streaming \in BOOLEAN
  /\ load_pc \in {"config", "worker", "subscriber", "applier", "loaded"}
  /\ mixer \in Mixers \ {None} /\ mixer_rx \in BOOLEAN
  /\ worker_mixer \in Mixers \ {None}
  /\ protocol \in Protocols /\ session \in BOOLEAN
  /\ startup \in Startups /\ startup_new \in BOOLEAN
  /\ applier \in {"none", "waiting", "apply", "verify", "done", "gave_up"}
  /\ chosen \in Startups /\ volume \in MixerVolumes /\ moved \in BOOLEAN
  /\ polls \in 0 .. Polls - 1 /\ attempt \in 0 .. Attempts
  /\ sub_pc \in {"unspawned", "resolve", "subscribe", "read", "seed", "loop",
                 "gone"}
  /\ read \in Settings /\ updated \in BOOLEAN
  /\ count \in [Events -> Nat]

\* The subscriber has nothing left to do.
Settled == sub_pc = "loop" /\ stream = <<>>

\* "Subscribe FIRST so we cannot miss a state change": a settled subscriber
\* has handed the operator's last mixer choice to the worker's channel, also
\* when changes were made while it read the state, and when the stream lagged.
MixerIsCurrent ==
  Settled /\ count["read_error"] = 0 /\ state.mixer # None
    => mixer = state.mixer

\* Once one update went through the stream, the protocol channel holds the
\* operator's last settings whether or not a session was there to receive
\* them: "the next supervisor session reads the latest value on subscribe".
ProtocolIsCurrent == Settled /\ updated => protocol = state.protocol

\* "post-boot volume == configured startup regardless of what MPD's statefile
\* carried in": the startup volume the applier took ends up as MPD's, also when
\* the worker restarts MPD for the mixer of the same settings, or a gesture
\* comes between setvol and a poll.  Excepted: an applier whose deadline passed,
\* and a volume that moved after the last poll of the window.
StartupVolumeLands ==
  <>[](chosen # None => volume = chosen \/ moved \/ applier = "gave_up")

\* What the settings subscriber of lib.rs has handed over is never older than
\* what it has read: on the mixer channel of the fragment worker, and on the
\* protocol channel of the supervisor, whatever the order of subscribe, read,
\* seed and change.
ChannelsAreCurrent ==
  /\ TypeOK
  /\ MixerIsCurrent
  /\ ProtocolIsCurrent
===============================================================================
